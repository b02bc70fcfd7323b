----------------------------- MODULE Transformer -----------------------------
(***************************************************************************)
(* CipherTubeTransformer, NotificationDispatcher and ScriptEngine:         *)
(* src/src/os/runtime/TransformerEngine.ts.                                *)
(*                                                                         *)
(* Everything is synchronous, and a listener may call all of it again      *)
(* while the broadcast that called it is still on the call stack.  A       *)
(* listener is the place it has in `listeners'.  Of the script's stack     *)
(* only the depth is kept: no operation but DUP is looked at afterwards.   *)
(***************************************************************************)
EXTENDS Integers, Sequences, SequencesExt

CONSTANTS
  PayloadSizes, Overhead,  \* Overhead: the 1024 bytes added to a payload
  maxVaultCapacity,
  MaxListeners, MaxCalls, MaxScript  \* bounds

Forms == {"ALPHA_SCRIPT", "BETA_VAULT", "OMEGA_INFINITY"}

VARIABLES
  currentForm, transformationCount,
  depth,           \* of the script engine's executionStack
  calls,           \* the call stack: broadcasts, listeners and cycles, the running one last
  told,            \* history: the events in the order in which they were broadcast
  listeners,       \* history: what each listener heard, and how much was told before it came
  returned,        \* history: the cycles that have returned
  asked            \* how often transform and the cycle were called from outside

vars ==
  <<currentForm, transformationCount, depth, calls, told, listeners, returned, asked>>

Init ==
  /\ currentForm = "ALPHA_SCRIPT" /\ transformationCount = 0
  /\ depth = 0
  /\ calls = <<>> /\ told = <<>> /\ listeners = <<>> /\ returned = {}
  /\ asked = 0

(* What is at the end of the call stack. *)
Running == IF calls = <<>> THEN "caller" ELSE Last(calls).call

OutsideRuns == Running \in {"caller", "listener"}

Asked == OutsideRuns /\ asked < MaxCalls /\ asked' = asked + 1

Broadcast(stack, event) ==
  /\ told' = Append(told, event)
  /\ calls' = Append(stack, [call |-> "broadcast", event |-> Len(told) + 1, next |-> 1])

Announce(stack, type) ==
  Broadcast(stack, [type |-> type, form |-> currentForm, count |-> transformationCount])

(* Mutant: the count is increased only when the listeners have been told. *)
MorphUncounted(stack, form) ==
  /\ currentForm' = form
  /\ transformationCount' = transformationCount + (IF calls = <<>> THEN 1 ELSE 0)
  /\ Broadcast(stack, [type |-> "TRANSFORMATION", form |-> form, count |-> transformationCount'])

(* The form and the count change before the event is made of them. *)
Morph(stack, form) ==
  /\ currentForm' = form /\ transformationCount' = transformationCount + 1
  /\ Broadcast(stack, [type |-> "TRANSFORMATION", form |-> form, count |-> transformationCount'])

-----------------------------------------------------------------------------
RegisterListener ==
  /\ OutsideRuns /\ Len(listeners) < MaxListeners
  /\ listeners' = Append(listeners, [heard |-> <<>>, since |-> Len(told)])
  /\ UNCHANGED <<currentForm, transformationCount, depth, calls, told, returned, asked>>

Transform(form) ==
  /\ Asked
  /\ Morph(calls, form)
  /\ UNCHANGED <<depth, listeners, returned>>

(* The loop of broadcast calls the next listener, one that was just registered too. *)
Deliver ==
  /\ Running = "broadcast"
  /\ LET b == Last(calls)
     IN /\ b.next <= Len(listeners)
        /\ listeners' = [listeners EXCEPT ![b.next].heard = Append(@, b.event)]
        /\ calls' = Append(Front(calls) \o <<[b EXCEPT !.next = @ + 1]>>, [call |-> "listener"])
  /\ UNCHANGED <<currentForm, transformationCount, depth, told, returned, asked>>

(* Mutant: what a listener throws ends the broadcast. *)
FailureEscapes ==
  /\ Running = "listener"
  /\ calls' \in {Front(calls), Front(Front(calls))}
  /\ UNCHANGED <<currentForm, transformationCount, depth, told, listeners, returned, asked>>

(* A listener returns, or throws what the broadcast catches. *)
ListenerEnds ==
  /\ Running = "listener"
  /\ calls' = Front(calls)
  /\ UNCHANGED <<currentForm, transformationCount, depth, told, listeners, returned, asked>>

BroadcastEnds ==
  /\ Running = "broadcast" /\ Last(calls).next > Len(listeners)
  /\ calls' = Front(calls)
  /\ UNCHANGED <<currentForm, transformationCount, depth, told, listeners, returned, asked>>

-----------------------------------------------------------------------------
(* What executeOp leaves of a stack so deep, when it fails and when it does not: an
   EQUALVERIFY takes both its operands, equal or not. *)
AfterHash160(n) == n
AfterEqualVerify(n) == IF n < 2 THEN n ELSE n - 2
AfterCheckSig(n) == IF n < 2 THEN n ELSE n - 1
AfterDup(n) == IF n = 0 THEN n ELSE n + 1

(* push, pop, clear or executeOp from outside. *)
UseScript ==
  /\ OutsideRuns
  /\ depth' \in {depth + 1, 0, AfterDup(depth), AfterEqualVerify(depth), AfterCheckSig(depth),
                 AfterHash160(depth)} \cup (IF depth = 0 THEN {} ELSE {depth - 1})
  /\ depth' <= MaxScript
  /\ UNCHANGED <<currentForm, transformationCount, calls, told, listeners, returned, asked>>

-----------------------------------------------------------------------------
(* executeInfinityLoopCycle: a frame with the place it goes on at. *)
ExecuteInfinityLoopCycle(size) ==
  /\ Asked
  /\ Announce(Append(calls, [call |-> "cycle", size |-> size, at |-> "bounds"]), "SESSION_START")
  /\ UNCHANGED <<currentForm, transformationCount, depth, listeners, returned>>

GoOn(place) == Front(calls) \o <<[Last(calls) EXCEPT !.at = place]>>

CycleAt(place) == Running = "cycle" /\ Last(calls).at = place

(* checkAdditionOverflow; sums beyond the safe integers are far beyond the capacity. *)
WithinCapacity(size) == size \in Nat /\ Overhead + size <= maxVaultCapacity

CheckBounds ==
  /\ CycleAt("bounds")
  /\ IF WithinCapacity(Last(calls).size)
     THEN Morph(GoOn("dup"), "ALPHA_SCRIPT")
     ELSE /\ Announce(GoOn("refused"), "SECURITY_ALERT")
          /\ UNCHANGED <<currentForm, transformationCount>>
  /\ UNCHANGED <<depth, listeners, returned, asked>>

(* Mutant: the bytes are pushed before the listeners hear of the form, so that DUP takes
   what they left. *)
DupWhatIsThere ==
  /\ CycleAt("dup")
  /\ depth' = AfterDup(depth)
  /\ IF depth > 0
     THEN Morph(GoOn("beta"), "BETA_VAULT")
     ELSE /\ Announce(GoOn("refused"), "EXECUTION_FAILURE")
          /\ UNCHANGED <<currentForm, transformationCount>>
  /\ UNCHANGED <<listeners, returned, asked>>

(* The push and the DUP, with no broadcast between them. *)
PushAndDup ==
  /\ CycleAt("dup")
  /\ depth' = AfterDup(depth + 1)
  /\ IF depth + 1 > 0
     THEN Morph(GoOn("beta"), "BETA_VAULT")
     ELSE /\ Announce(GoOn("refused"), "EXECUTION_FAILURE")
          /\ UNCHANGED <<currentForm, transformationCount>>
  /\ UNCHANGED <<listeners, returned, asked>>

Beta ==
  /\ CycleAt("beta")
  /\ Announce(GoOn("omega"), "VAULT_LOG")
  /\ UNCHANGED <<currentForm, transformationCount, depth, listeners, returned, asked>>

Omega ==
  /\ CycleAt("omega")
  /\ Morph(GoOn("complete"), "OMEGA_INFINITY")
  /\ UNCHANGED <<depth, listeners, returned, asked>>

(* OP_TRANSFORM always succeeds. *)
Complete ==
  /\ CycleAt("complete")
  /\ Announce(GoOn("done"), "SESSION_COMPLETE")
  /\ UNCHANGED <<currentForm, transformationCount, depth, listeners, returned, asked>>

CycleReturns ==
  /\ CycleAt("done") \/ CycleAt("refused")
  /\ returned' = returned \cup {[size |-> Last(calls).size, ok |-> Last(calls).at = "done"]}
  /\ calls' = Front(calls)
  /\ UNCHANGED <<currentForm, transformationCount, depth, told, listeners, asked>>

Next ==
  \/ RegisterListener \/ UseScript \/ Deliver \/ ListenerEnds \/ BroadcastEnds
  \/ \E form \in Forms : Transform(form)
  \/ \E size \in PayloadSizes : ExecuteInfinityLoopCycle(size)
  \/ CheckBounds \/ PushAndDup \/ Beta \/ Omega \/ Complete \/ CycleReturns

Spec == Init /\ [][Next]_vars

-----------------------------------------------------------------------------
Quiet == calls = <<>>

(* When all calls have returned, every listener has heard every event broadcast since it
   was registered exactly once, whatever the others threw and however they called the
   engine again.  (The order is not promised: one behind a listener that transforms hears
   of the later form first.) *)
EveryEventHeardOnce ==
  Quiet => \A i \in DOMAIN listeners :
             /\ IsInjective(listeners[i].heard)
             /\ (listeners[i].since + 1)..Len(told) \subseteq ToSet(listeners[i].heard)

(* The first listener hears the events in their order, so that the last transformation it
   has heard of is the form the engine is in, under the number it is at. *)
FirstListenerIsCurrent ==
  listeners # <<>> =>
    LET heard == listeners[1].heard
        Shifts == {i \in DOMAIN heard : told[heard[i]].type = "TRANSFORMATION"}
    IN /\ \A i, j \in DOMAIN heard : i < j => heard[i] < heard[j]
       /\ \A i \in Shifts : Quiet /\ (\A j \in Shifts : j <= i) =>
            /\ told[heard[i]].form = currentForm
            /\ told[heard[i]].count = transformationCount
       /\ \A i, j \in Shifts : i < j => told[heard[i]].count < told[heard[j]].count

(* A cycle succeeds exactly if its payload fits, whatever listeners do to the script in
   the middle of it. *)
CycleDependsOnSize == \A c \in returned : c.ok = WithinCapacity(c.size)
=============================================================================

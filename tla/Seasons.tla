------------------------------- MODULE Seasons -------------------------------
(* The two rate limiters of src/src/server.ts and the epoch their limits hang on:
   src/src/myth/seasonal-engine.ts, ritual-engine.ts, canon/sovereign-canon.ts and
   rituals/great-convergence.ts.  One client; express-rate-limit counts every client by
   itself, refused requests too, in a window that starts with its first request. *)
EXTENDS Integers, FiniteSets

CONSTANTS
  Base,       \* limiter -> base of its limit: "api" 1000, "session" 100
  Window,     \* 15 minutes
  MaxTime, MaxHits, MaxEntries \* bounds: of the clock, on a counter, on the ledger

VARIABLES
  epoch, strictness, \* strictness in tenths
  ledger,   \* LineageLedger: how many entries it has
  hits, resets, \* limiter -> requests counted, and when the window ends
  now,
  served    \* history: limiter -> time -> requests it let pass in this epoch

vars == <<epoch, strictness, ledger, hits, resets, now, served>>

Epochs == {"Genesis", "Drift", "Descent", "Renewal", "Convergence"}
Limiters == {"api", "session"}

(* Who may act: RitualEngine.dispatch refuses any other, and records the rest. *)
Archetypes == {"ARCHIVE", "SENTINEL", "WANDERER", "SHADE", "HEALER"}

GuardrailStrictness(e) ==
  CASE e = "Genesis" -> 5 [] e = "Drift" -> 6 [] e = "Descent" -> 9 [] e = "Renewal" -> 7 [] e = "Convergence" -> 10

(* getDynamicLimit: floor(base * (1.1 - strictness)); the fractions of the floating
   point product all lie above the exact one, so that the floor is the exact one too. *)
Limit(limiter) == (Base[limiter] * (11 - strictness)) \div 10

None == [t \in 0..MaxTime |-> 0]

Init ==
  /\ epoch = "Genesis" /\ strictness = 5
  /\ ledger = 0
  /\ hits = [l \in Limiters |-> 0] /\ resets = [l \in Limiters |-> 0]
  /\ now = 0
  /\ served = [l \in Limiters |-> None]

-----------------------------------------------------------------------------
(* Mutant: the strictness is read before the epoch is set. *)
MoveLate(e) ==
  /\ epoch' = e /\ strictness' = GuardrailStrictness(epoch)
  /\ served' = [l \in Limiters |-> None]

Move(e) ==
  /\ epoch' = e /\ strictness' = GuardrailStrictness(e)
  /\ served' = [l \in Limiters |-> None]

(* SeasonalEngine.transition: recorded by the Archive, then done. *)
Transition(e) ==
  /\ ledger' = ledger + 1
  /\ Move(e)
  /\ UNCHANGED <<hits, resets, now>>

(* processTelemetry knows two ways on. *)
ProcessTelemetry ==
  \/ epoch = "Drift" /\ Transition("Descent")
  \/ epoch = "Descent" /\ Transition("Renewal")

(* executeGreatConvergence: the passage, a word of every archetype and the end; nothing
   in it waits, so that no request comes between. *)
GreatConvergence ==
  /\ ledger' = ledger + 1 + Cardinality(Archetypes) + 1
  /\ Move("Convergence")
  /\ UNCHANGED <<hits, resets, now>>

Ended(limiter) == now >= resets[limiter]

Count(limiter) == IF Ended(limiter) THEN 1 ELSE hits[limiter] + 1
Passes(limiter) == Count(limiter) <= Limit(limiter)

(* A request meets the limiters in turn; the first that is over its limit answers 429
   and the next does not count it. *)
Request(limiters) ==
  LET Met == {l \in limiters : l = "api" \/ Passes("api")}
      Let == {l \in Met : Passes(l)}
  IN /\ \A l \in Met : Ended(l) \/ hits[l] < MaxHits
     /\ hits' = [l \in Limiters |-> IF l \in Met THEN Count(l) ELSE hits[l]]
     /\ resets' = [l \in Limiters |-> IF l \in Met /\ Ended(l) THEN now + Window ELSE resets[l]]
     /\ served' = [l \in Limiters |-> IF l \in Let THEN [served[l] EXCEPT ![now] = @ + 1] ELSE served[l]]
     /\ UNCHANGED <<epoch, strictness, ledger, now>>

Tick ==
  /\ now < MaxTime
  /\ now' = now + 1
  /\ UNCHANGED <<epoch, strictness, ledger, hits, resets, served>>

Next ==
  \/ ledger < MaxEntries /\ \E e \in Epochs : Transition(e)
  \/ ledger < MaxEntries /\ ProcessTelemetry
  \/ ledger < MaxEntries /\ GreatConvergence
  \/ Request({"api"}) \/ Request(Limiters)
  \/ Tick

Spec == Init /\ [][Next]_vars

-----------------------------------------------------------------------------
TypeOK ==
  /\ epoch \in Epochs /\ strictness \in 5..10
  /\ ledger \in 0..MaxEntries + 6
  /\ \A l \in Limiters : hits[l] \in 0..MaxHits /\ resets[l] \in 0..MaxTime + Window

(* The requests a limiter let pass at the times of T, one by one. *)
Passed(l, T) == UNION {{u} \X (1..served[l][u]) : u \in T}

(* What a client gets in an epoch: never more than twice the limit of that epoch within
   the length of a window, wherever in the windows the epoch began. *)
EpochBound ==
  \A l \in Limiters :
    LET limit == (Base[l] * (11 - GuardrailStrictness(epoch))) \div 10
    IN \A t \in 0..MaxTime :
         Cardinality(Passed(l, {u \in 0..MaxTime : u \in t..t + Window - 1})) <= 2 * limit
=============================================================================

----------------------------- MODULE MCEventLoop -----------------------------
(* The background loops and the engine for TLC: NodeManager, SelfInspection,
   WorkflowEngine, with what the predator module defines, Templates and Transformer.  They
   share no state, so that one takes steps only while the others are in their initial
   states. *)
EXTENDS NodeManager, TLC

CONSTANTS
  Nodes, Operators, Loops, NoLoop,
  Requested, Lengths, NotAList, NoName, Blocked, NoValue,
  Tokens, MaxLength, Types, Known, BlockedKeys, Keys, Samples, MaxKeys, Undefined,
  PayloadSizes, Overhead, maxVaultCapacity, MaxListeners, MaxCalls, MaxScript

VARIABLES
  node, isRunning, loop, inspectionTask, inspectionStopping, restarted,
  plan, at, item, state, calls, outcome,
  given, answer,
  currentForm, transformationCount, depth, running, told, listeners, returned, asked

inspectionVars == <<node, isRunning, loop, inspectionTask, inspectionStopping, restarted>>
engineVars == <<plan, at, item, state, calls, outcome>>
templateVars == <<given, answer>>
formVars ==
  <<currentForm, transformationCount, depth, running, told, listeners, returned, asked>>

Inspection == INSTANCE SelfInspection
  WITH loopTask <- inspectionTask, stopping <- inspectionStopping, crossed <- restarted
Module == INSTANCE PredatorModule
Engine == INSTANCE WorkflowEngine
  WITH Definitions <- Module!Definitions, Registered <- Module!Registered
Params == INSTANCE Templates
Forms == INSTANCE Transformer WITH calls <- running

LoopsInit == Init /\ Inspection!Init /\ Engine!Init /\ Params!Init /\ Forms!Init

(* Whoever has taken a step is the only one to take another. *)
LoopsNext ==
  \/ /\ Inspection!Init /\ Engine!Init /\ Params!Init /\ Forms!Init
     /\ Next
     /\ UNCHANGED <<inspectionVars, engineVars, templateVars, formVars>>
  \/ /\ Init /\ Engine!Init /\ Params!Init /\ Forms!Init
     /\ Inspection!Next
     /\ UNCHANGED <<vars, engineVars, templateVars, formVars>>
  \/ /\ Init /\ Inspection!Init /\ Params!Init /\ Forms!Init
     /\ Engine!Next
     /\ UNCHANGED <<vars, inspectionVars, templateVars, formVars>>
  \/ /\ Init /\ Inspection!Init /\ Engine!Init /\ Forms!Init
     /\ Params!Next
     /\ UNCHANGED <<vars, inspectionVars, engineVars, formVars>>
  \/ /\ Init /\ Inspection!Init /\ Engine!Init /\ Params!Init
     /\ Forms!Next
     /\ UNCHANGED <<vars, inspectionVars, engineVars, templateVars>>

LoopsSpec ==
  /\ LoopsInit
  /\ [][LoopsNext]_<<vars, inspectionVars, engineVars, templateVars, formVars>>
  /\ Fairness /\ Inspection!Fairness /\ Engine!Fairness

-----------------------------------------------------------------------------
(* Neither loop runs twice. *)
OneOfEach == OneWorker /\ Inspection!OneLoop

(* A stop of the worker returns, a node that fails under a running loop recovers, and a run
   of the engine ends. *)
EveryWaitEnds == WaitingEnds /\ Inspection!NodesRecover /\ Engine!RunEnds

(* A stage begins when the one before it has ended, and reads what that one left. *)
StageOrder == Engine!StageBarrier /\ Engine!DataflowOrder

(* What a step's parameters become. *)
ParamsResolved == Params!SinglePass /\ Params!CopyIsWhole

(* Listeners that call the engine again hear of everything, and cannot make a cycle fail. *)
ListenersAreServed ==
  Forms!EveryEventHeardOnce /\ Forms!FirstListenerIsCurrent /\ Forms!CycleDependsOnSize

KnownValues ==
  (<<"item">> :> <<"${", "item", ".", "a", "}">>) @@ (<<"item", ".", "a">> :> <<"v">>)
    @@ (<<"item", ".", "__proto__">> :> <<"w">>)
SomePayloads == {-1, 1, 9}
SampleTexts == {<<"v">>, <<"${", "item", "}">>, <<"v", "${", "item", ".", "a", "}">>}
=============================================================================

---------------------------- MODULE SelfInspection ----------------------------
(***************************************************************************)
(* The loop of core/telemetry.py, SelfInspectionLoop, that inspects and    *)
(* resets the nodes of a manager: an asyncio task that ends when is_running*)
(* is cleared or when it is cancelled.  Nothing in inspect_system suspends,*)
(* so that an inspection is one step.                                      *)
(***************************************************************************)
EXTENDS Integers, FiniteSets

CONSTANTS
  Nodes,      \* the identifiers under which nodes are registered
  Operators,  \* who starts and stops the loop
  Loops,      \* bound: the tasks alive or awaited at once
  NoLoop

VARIABLES
  node,       \* manager.nodes: the status of a node, or "absent"
  isRunning,  \* is_running
  loop,       \* the tasks
  loopTask,   \* _loop_task
  stopping,   \* the task a caller of stop awaits, or NoLoop
  crossed     \* history: the loop was started while a stop was under way

vars == <<node, isRunning, loop, loopTask, stopping, crossed>>

Statuses == {"healthy", "degraded", "failed"}
Ended == [step |-> "done", cancelled |-> FALSE]

Init ==
  /\ node = [n \in Nodes |-> "absent"]
  /\ isRunning = FALSE
  /\ loop = [l \in Loops |-> Ended]
  /\ loopTask = NoLoop
  /\ stopping = [o \in Operators |-> NoLoop]
  /\ crossed = FALSE

Live == {l \in Loops : loop[l].step # "done"}
Unused(l) == l \notin Live /\ loopTask # l /\ \A o \in Operators : stopping[o] # l

-----------------------------------------------------------------------------
(* register_node, deregister_node, and whoever finds that a node has failed. *)
Register(n) ==
  /\ node[n] = "absent"
  /\ node' = [node EXCEPT ![n] = "healthy"]
  /\ UNCHANGED <<isRunning, loop, loopTask, stopping, crossed>>

Deregister(n) ==
  /\ node[n] # "absent"
  /\ node' = [node EXCEPT ![n] = "absent"]
  /\ UNCHANGED <<isRunning, loop, loopTask, stopping, crossed>>

Degrade(n) ==
  /\ node[n] # "absent"
  /\ \E status \in {"degraded", "failed"} : node' = [node EXCEPT ![n] = status]
  /\ UNCHANGED <<isRunning, loop, loopTask, stopping, crossed>>

-----------------------------------------------------------------------------
Start(o) ==
  /\ stopping[o] = NoLoop
  /\ ~isRunning
  /\ isRunning' = TRUE
  /\ \E l \in Loops :
       /\ Unused(l)
       /\ loop' = [loop EXCEPT ![l] = [step |-> "new", cancelled |-> FALSE]]
       /\ loopTask' = l
  /\ crossed' = (crossed \/ \E d \in Operators : stopping[d] # NoLoop)
  /\ UNCHANGED <<node, stopping>>

(* stop up to its await; without a task to wait for it returns at once. *)
Stop(o) ==
  /\ stopping[o] = NoLoop
  /\ isRunning
  /\ isRunning' = FALSE
  /\ \/ /\ loopTask \in Live
        /\ loop' = [loop EXCEPT ![loopTask].cancelled = TRUE]
        /\ stopping' = [stopping EXCEPT ![o] = loopTask]
        /\ UNCHANGED loopTask
     \/ /\ loopTask \notin Live
        /\ loopTask' = NoLoop
        /\ UNCHANGED <<loop, stopping>>
  /\ UNCHANGED <<node, crossed>>

(* _loop_task = None, whatever it is by now. *)
StopReturns(o) ==
  /\ stopping[o] # NoLoop
  /\ stopping[o] \notin Live
  /\ stopping' = [stopping EXCEPT ![o] = NoLoop]
  /\ loopTask' = NoLoop
  /\ UNCHANGED <<node, isRunning, loop, crossed>>

-----------------------------------------------------------------------------
(* Mutant: only degraded nodes are recovered. *)
InspectedMildly == [n \in Nodes |-> IF node[n] = "degraded" THEN "healthy" ELSE node[n]]

(* inspect_system with _attempt_node_recovery: whatever is registered and not healthy is
   reset. *)
Inspected == [n \in Nodes |-> IF node[n] = "absent" THEN "absent" ELSE "healthy"]

(* One round of _run_inspection_loop: the flag, the inspection, the sleep. *)
Inspect(l) ==
  /\ l \in Live
  /\ ~loop[l].cancelled
  /\ isRunning
  /\ node' = Inspected
  /\ loop' = [loop EXCEPT ![l].step = "sleep"]
  /\ UNCHANGED <<isRunning, loopTask, stopping, crossed>>

(* The flag is cleared, or CancelledError is raised in the sleep or before the first step. *)
Break(l) ==
  /\ l \in Live
  /\ loop[l].cancelled \/ ~isRunning
  /\ loop' = [loop EXCEPT ![l] = Ended]
  /\ UNCHANGED <<node, isRunning, loopTask, stopping, crossed>>

RunInspectionLoop(l) == Inspect(l) \/ Break(l)

Next ==
  \/ \E n \in Nodes : Register(n) \/ Deregister(n) \/ Degrade(n)
  \/ \E o \in Operators : Start(o) \/ Stop(o) \/ StopReturns(o)
  \/ \E l \in Loops : RunInspectionLoop(l)

Spec == Init /\ [][Next]_vars

(* asyncio.sleep ends, and the event loop resumes what can go on. *)
Fairness ==
  /\ \A l \in Loops : WF_vars(RunInspectionLoop(l))
  /\ \A o \in Operators : WF_vars(StopReturns(o))

-----------------------------------------------------------------------------
(* telemetry.py:57 "Gracefully stops the health inspection loop": as long as the loop is not
   started while a stop is under way, it runs once at most, _loop_task refers to it, and
   when the last stop has returned and the flag is cleared nothing runs. *)
OneLoop ==
  ~crossed =>
    /\ Cardinality({l \in Live : ~loop[l].cancelled}) <= 1
    /\ Live \subseteq {loopTask}
    /\ ~isRunning /\ (\A o \in Operators : stopping[o] = NoLoop) => Live = {}

(* "Continuously validates data integrity" (telemetry.py:12): a node that is not healthy is
   healthy again, or deregistered, after a while, or the loop is stopped; however starts and
   stops overlapped before. *)
NodesRecover ==
  \A n \in Nodes : node[n] \in {"degraded", "failed"} /\ isRunning ~>
    node[n] \in {"healthy", "absent"} \/ ~isRunning
=============================================================================

------------------------------ MODULE NodeManager ------------------------------
(***************************************************************************)
(* The queue worker of core/nodes.py, UnifiedNodeManager: an asyncio task  *)
(* that is started and stopped while coroutines are queued for it.         *)
(*                                                                         *)
(* Everything runs on one event loop and is interrupted only where it      *)
(* awaits: the worker in task_queue.get() or in the job it awaits, a       *)
(* caller of stop_queue_worker in the task it has cancelled.  A task that  *)
(* was cancelled is resumed with CancelledError at its await.              *)
(***************************************************************************)
EXTENDS Integers, FiniteSets

CONSTANTS
  Callers,    \* who starts and stops the worker
  Tasks,      \* bound: the worker tasks alive or awaited at once
  MaxJobs,    \* bound: how many coroutines are queued
  None

ASSUME ManagerAssumption == MaxJobs \in Nat /\ None \notin Tasks

VARIABLES
  queue,      \* task_queue: how many jobs wait
  jobs,       \* how many were queued so far
  task,       \* the worker tasks
  loopTask,   \* _loop_task
  stopping,   \* the task a caller of stop_queue_worker awaits, or None
  crossed,    \* history: the worker was stopped while another stop was under way
  astray      \* history: a job raised CancelledError itself, or survived a cancellation

vars == <<queue, jobs, task, loopTask, stopping, crossed, astray>>

NoTask == [step |-> "done", cancelled |-> FALSE]
NewTask == [step |-> "new", cancelled |-> FALSE]

Init ==
  /\ queue = 0 /\ jobs = 0
  /\ task = [w \in Tasks |-> NoTask]
  /\ loopTask = None
  /\ stopping = [c \in Callers |-> None]
  /\ crossed = FALSE /\ astray = FALSE

Live == {w \in Tasks : task[w].step # "done"}
Goto(w, step) == task' = [task EXCEPT ![w].step = step]

(* A task nobody refers to any more can stand for a new one. *)
Unused(w) == w \notin Live /\ loopTask # w /\ \A c \in Callers : stopping[c] # w

-----------------------------------------------------------------------------
EnqueueTask ==
  /\ jobs < MaxJobs
  /\ jobs' = jobs + 1
  /\ queue' = queue + 1
  /\ UNCHANGED <<task, loopTask, stopping, crossed, astray>>

(* Mutant: a second start does not look for the first. *)
StartAnyway(c) ==
  /\ stopping[c] = None
  /\ \E w \in Tasks :
       /\ Unused(w)
       /\ task' = [task EXCEPT ![w] = NewTask]
       /\ loopTask' = w
  /\ UNCHANGED <<queue, jobs, stopping, crossed, astray>>

(* With a task in _loop_task, running or not, start_queue_worker does nothing. *)
StartQueueWorker(c) ==
  /\ stopping[c] = None
  /\ loopTask = None
  /\ \E w \in Tasks :
       /\ Unused(w)
       /\ task' = [task EXCEPT ![w] = NewTask]
       /\ loopTask' = w
  /\ UNCHANGED <<queue, jobs, stopping, crossed, astray>>

(* stop_queue_worker up to its await. *)
StopQueueWorker(c) ==
  /\ stopping[c] = None
  /\ loopTask \in Live
  /\ task' = [task EXCEPT ![loopTask].cancelled = TRUE]
  /\ stopping' = [stopping EXCEPT ![c] = loopTask]
  /\ crossed' = (crossed \/ \E d \in Callers : stopping[d] # None)
  /\ UNCHANGED <<queue, jobs, loopTask, astray>>

(* There is nothing to wait for in a task that is done. *)
StopEndedWorker(c) ==
  /\ stopping[c] = None
  /\ loopTask # None /\ loopTask \notin Live
  /\ loopTask' = None
  /\ crossed' = (crossed \/ \E d \in Callers : stopping[d] # None)
  /\ UNCHANGED <<queue, jobs, task, stopping, astray>>

(* Mutant: the reference to the worker is kept. *)
StopKeeps(c) ==
  /\ stopping[c] # None
  /\ stopping[c] \notin Live
  /\ stopping' = [stopping EXCEPT ![c] = None]
  /\ UNCHANGED <<queue, jobs, task, loopTask, crossed, astray>>

(* The task has ended: _loop_task = None, whatever it is by now. *)
StopReturns(c) ==
  /\ stopping[c] # None
  /\ stopping[c] \notin Live
  /\ stopping' = [stopping EXCEPT ![c] = None]
  /\ loopTask' = None
  /\ UNCHANGED <<queue, jobs, task, crossed, astray>>

-----------------------------------------------------------------------------
(* The first step of the task, up to task_queue.get().  A task that was cancelled
   before that does not take it. *)
Begin(w) ==
  /\ task[w] = NewTask
  /\ Goto(w, "get")
  /\ UNCHANGED <<queue, jobs, loopTask, stopping, crossed, astray>>

TakeJob(w) ==
  /\ task[w] = [step |-> "get", cancelled |-> FALSE]
  /\ queue > 0
  /\ queue' = queue - 1
  /\ Goto(w, "job")
  /\ UNCHANGED <<jobs, loopTask, stopping, crossed, astray>>

(* The job returns or raises an Exception: the next one. *)
JobEnds(w) ==
  /\ task[w] = [step |-> "job", cancelled |-> FALSE]
  /\ Goto(w, "get")
  /\ UNCHANGED <<queue, jobs, loopTask, stopping, crossed, astray>>

(* The job raises CancelledError, because something it waited for was cancelled: the
   worker takes it for its own cancellation, and _loop_task stays. *)
JobCancelled(w) ==
  /\ task[w] = [step |-> "job", cancelled |-> FALSE]
  /\ Goto(w, "done")
  /\ astray' = TRUE
  /\ UNCHANGED <<queue, jobs, loopTask, stopping, crossed>>

(* CancelledError is raised in get(), in the job, or before the first step: break. *)
Break(w) ==
  /\ w \in Live
  /\ task[w].cancelled
  /\ task' = [task EXCEPT ![w] = NoTask]
  /\ UNCHANGED <<queue, jobs, loopTask, stopping, crossed, astray>>

(* The job catches CancelledError and returns, or raises an Exception instead: the
   worker goes on as if it had not been cancelled. *)
JobSurvives(w) ==
  /\ task[w] = [step |-> "job", cancelled |-> TRUE]
  /\ task' = [task EXCEPT ![w] = [step |-> "get", cancelled |-> FALSE]]
  /\ astray' = TRUE
  /\ UNCHANGED <<queue, jobs, loopTask, stopping, crossed>>

(* The event loop: tasks that can go on, and jobs, which end. *)
ProcessQueueLoop(w) == Begin(w) \/ TakeJob(w) \/ JobEnds(w) \/ Break(w)

Next ==
  \/ EnqueueTask
  \/ \E c \in Callers : StartQueueWorker(c) \/ StopQueueWorker(c) \/ StopEndedWorker(c) \/ StopReturns(c)
  \/ \E w \in Tasks : ProcessQueueLoop(w) \/ JobCancelled(w) \/ JobSurvives(w)

Spec == Init /\ [][Next]_vars

Fairness ==
  /\ \A w \in Tasks : WF_vars(ProcessQueueLoop(w))
  /\ \A c \in Callers : WF_vars(StopReturns(c))

-----------------------------------------------------------------------------
TaskRecord == [step: {"new", "get", "job", "done"}, cancelled: BOOLEAN]

TypeOK ==
  /\ jobs \in 0..MaxJobs /\ queue \in 0..jobs
  /\ task \in [Tasks -> TaskRecord]
  /\ loopTask \in Tasks \cup {None}
  /\ stopping \in [Callers -> Tasks \cup {None}]
  /\ crossed \in BOOLEAN /\ astray \in BOOLEAN

(* nodes.py:163 "the queue-based non-blocking background consumer": as long as no two
   stops overlap, there is one worker at most, _loop_task refers to it, and when nobody is
   waiting for a stop it has not been cancelled. *)
OneWorker ==
  ~crossed =>
    /\ Live \subseteq {loopTask}
    /\ (\A c \in Callers : stopping[c] = None) => \A w \in Live : ~task[w].cancelled

(* A stop returns, and when from some time on a worker is in _loop_task and nobody stops it,
   the queue is emptied, whatever starts and stops overlapped before; unless a job raised
   CancelledError by itself or kept a cancellation from the worker. *)
WaitingEnds ==
  /\ \A c \in Callers : stopping[c] # None ~> stopping[c] = None \/ astray
  /\ <>[](loopTask # None /\ \A c \in Callers : stopping[c] = None) => []<>(queue = 0 \/ astray)
=============================================================================

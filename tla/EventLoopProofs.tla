--------------------------- MODULE EventLoopProofs ---------------------------
(***************************************************************************)
(* Theorems about the background loops and the engine, of MCEventLoop and  *)
(* the components in it.                                                   *)
(***************************************************************************)
EXTENDS Sequences, MCEventLoop, FiniteSetTheorems, WellFoundedInduction, TLAPS

(* NodeManager.  Whoever stops the worker awaits the task in _loop_task, and nobody else does. *)
AwaitsWorker ==
  /\ \A c \in Callers : stopping[c] # None => stopping[c] = loopTask
  /\ \A c, d \in Callers : stopping[c] # None /\ stopping[d] # None => c = d

(* A worker is cancelled only by somebody who waits for it to end. *)
CancelledIsAwaited ==
  \A w \in Live : task[w].cancelled => \E c \in Callers : stopping[c] = w

Orderly == Live \subseteq {loopTask} /\ AwaitsWorker /\ CancelledIsAwaited

ManagerInv == TypeOK /\ (~crossed => Orderly)

-----------------------------------------------------------------------------
LEMMA InitInv == Init => ManagerInv
<1> SUFFICES ASSUME Init PROVE ManagerInv
  OBVIOUS
<1>1. NoTask \in TaskRecord /\ NoTask.step = "done"
  BY DEF NoTask, TaskRecord
<1>2. TypeOK
  <2>1. task \in [Tasks -> TaskRecord]
    BY <1>1 DEF Init
  <2>2. jobs \in 0..MaxJobs /\ queue \in 0..jobs
    BY ManagerAssumption DEF Init
  <2> QED
    BY <2>1, <2>2 DEF Init, TypeOK
<1>3. Live = {}
  BY <1>1 DEF Init, Live
<1>4. Orderly
  BY <1>3 DEF Init, Orderly, AwaitsWorker, CancelledIsAwaited
<1> QED
  BY <1>2, <1>4 DEF ManagerInv

(* What becomes of a task that goes on or ends: it was alive, and is not cancelled now. *)
LEMMA OneTask ==
  ASSUME TypeOK, NEW w \in Tasks, ProcessQueueLoop(w) \/ JobCancelled(w) \/ JobSurvives(w)
  PROVE  \E r \in TaskRecord : /\ task' = [task EXCEPT ![w] = r]
                               /\ w \in Live /\ ~r.cancelled
<1>1. ASSUME NEW step \in {"get", "job", "done"}, Goto(w, step), ~task[w].cancelled, w \in Live
      PROVE  \E r \in TaskRecord : /\ task' = [task EXCEPT ![w] = r]
                                   /\ w \in Live /\ ~r.cancelled
  <2>1. task[w] \in TaskRecord
    BY DEF TypeOK
  <2> DEFINE r == [task[w] EXCEPT !.step = step]
  <2>2. r \in TaskRecord /\ ~r.cancelled
    BY <1>1, <2>1 DEF TaskRecord
  <2>3. task' = [task EXCEPT ![w] = r]
    BY <1>1 DEF Goto
  <2> QED
    BY <1>1, <2>2, <2>3
<1>2. NewTask.step = "new" /\ ~NewTask.cancelled
  BY DEF NewTask
<1>3. NoTask \in TaskRecord /\ ~NoTask.cancelled /\ NoTask.step = "done"
  BY DEF NoTask, TaskRecord
<1>4. CASE Begin(w)
  BY <1>1, <1>2, <1>4 DEF Begin, Live
<1>5. CASE TakeJob(w)
  BY <1>1, <1>5 DEF TakeJob, Live
<1>6. CASE JobEnds(w)
  BY <1>1, <1>6 DEF JobEnds, Live
<1>7. CASE JobCancelled(w)
  BY <1>1, <1>7 DEF JobCancelled, Live
<1>8. CASE Break(w)
  BY <1>3, <1>8 DEF Break, Live
<1>9. CASE JobSurvives(w)
  <2> DEFINE r == [step |-> "get", cancelled |-> FALSE]
  <2>1. r \in TaskRecord /\ ~r.cancelled
    BY DEF TaskRecord
  <2>2. task' = [task EXCEPT ![w] = r] /\ w \in Live
    BY <1>9 DEF JobSurvives, Live
  <2> QED
    BY <2>1, <2>2
<1> QED
  BY <1>4, <1>5, <1>6, <1>7, <1>8, <1>9 DEF ProcessQueueLoop

(* Starts, stops and the event loop keep the types. *)
LEMMA NextTypes ==
  ASSUME TypeOK, [Next]_vars
  PROVE  TypeOK'
<1>1. CASE EnqueueTask
  <2>1. jobs' \in 0..MaxJobs /\ queue' \in 0..jobs'
    BY <1>1, ManagerAssumption DEF EnqueueTask, TypeOK
  <2> QED
    BY <1>1, <2>1 DEF EnqueueTask, TypeOK
<1>2. ASSUME NEW c \in Callers, StartQueueWorker(c)
      PROVE  TypeOK'
  <2>1. NewTask \in TaskRecord
    BY DEF NewTask, TaskRecord
  <2> QED
    <3>1. PICK w \in Tasks : task' = [task EXCEPT ![w] = NewTask] /\ loopTask' = w
      BY <1>2 DEF StartQueueWorker
    <3>2. task' \in [Tasks -> TaskRecord] /\ loopTask' \in Tasks
      BY <2>1, <3>1 DEF TypeOK
    <3> QED
      BY <1>2, <3>2 DEF StartQueueWorker, TypeOK
<1>3. ASSUME NEW c \in Callers, StopQueueWorker(c)
      PROVE  TypeOK'
  <2>1. loopTask \in Tasks
    BY <1>3 DEF StopQueueWorker, Live
  <2>2. task' \in [Tasks -> TaskRecord]
    BY <1>3, <2>1 DEF StopQueueWorker, TypeOK, TaskRecord
  <2> QED
    BY <1>3, <2>1, <2>2 DEF StopQueueWorker, TypeOK
<1>4. ASSUME NEW c \in Callers, StopEndedWorker(c) \/ StopReturns(c)
      PROVE  TypeOK'
  BY <1>4 DEF StopEndedWorker, StopReturns, TypeOK
<1>5. ASSUME NEW w \in Tasks, ProcessQueueLoop(w) \/ JobCancelled(w) \/ JobSurvives(w)
      PROVE  TypeOK'
  <2>1. task' \in [Tasks -> TaskRecord]
    BY <1>5, OneTask DEF TypeOK
  <2>2. jobs' = jobs /\ queue' \in 0..jobs
    BY <1>5, ManagerAssumption
       DEF ProcessQueueLoop, Begin, TakeJob, JobEnds, Break, JobCancelled, JobSurvives, TypeOK
  <2> QED
    BY <1>5, <2>1, <2>2
       DEF ProcessQueueLoop, Begin, TakeJob, JobEnds, Break, JobCancelled, JobSurvives, TypeOK
<1>6. CASE UNCHANGED vars
  BY <1>6 DEF vars, TypeOK
<1> QED
  BY <1>1, <1>2, <1>3, <1>4, <1>5, <1>6 DEF Next

-----------------------------------------------------------------------------
(* A start finds no worker and nobody who waits for one. *)
LEMMA StartInv ==
  ASSUME TypeOK, Orderly, NEW c \in Callers, StartQueueWorker(c)
  PROVE  Orderly'
<1>1. PICK w \in Tasks : task' = [task EXCEPT ![w] = NewTask] /\ loopTask' = w
  BY DEF StartQueueWorker
<1>2. Live = {} /\ \A d \in Callers : stopping[d] = None
  BY ManagerAssumption DEF StartQueueWorker, Orderly, AwaitsWorker, Live
<1>3. Live' = {w} /\ ~task'[w].cancelled
  BY <1>1, <1>2 DEF Live, TypeOK, NewTask
<1> QED
  BY <1>1, <1>2, <1>3 DEF Orderly, AwaitsWorker, CancelledIsAwaited, StartQueueWorker

(* A stop that overlaps no other is the only one that waits. *)
LEMMA StopInv ==
  ASSUME TypeOK, Orderly, NEW c \in Callers, StopQueueWorker(c), ~crossed'
  PROVE  Orderly'
<1>1. \A d \in Callers : stopping[d] = None
  BY DEF StopQueueWorker
<1>2. Live' = Live /\ loopTask' = loopTask
  BY DEF StopQueueWorker, Live, TypeOK
<1>3. \A d \in Callers : stopping'[d] = IF d = c THEN loopTask ELSE None
  BY <1>1 DEF StopQueueWorker, TypeOK
<1> QED
  BY <1>1, <1>2, <1>3 DEF Orderly, AwaitsWorker, CancelledIsAwaited, TypeOK

(* When a stop forgets _loop_task, no worker is left and nobody else waits. *)
LEMMA StoppedInv ==
  ASSUME TypeOK, Orderly, NEW c \in Callers, ~crossed', StopEndedWorker(c) \/ StopReturns(c)
  PROVE  Orderly'
<1>1. Live = {} /\ Live' = Live
  BY DEF StopEndedWorker, StopReturns, Orderly, AwaitsWorker, Live
<1>2. \A d \in Callers : stopping'[d] = None
  BY DEF StopEndedWorker, StopReturns, Orderly, AwaitsWorker, TypeOK
<1> QED
  BY <1>1, <1>2 DEF Orderly, AwaitsWorker, CancelledIsAwaited

(* A task that goes on starts no other and is not cancelled by itself. *)
LEMMA LoopInv ==
  ASSUME TypeOK, Orderly, NEW w \in Tasks,
         ProcessQueueLoop(w) \/ JobCancelled(w) \/ JobSurvives(w)
  PROVE  Orderly'
<1>1. UNCHANGED <<loopTask, stopping>>
  BY DEF ProcessQueueLoop, Begin, TakeJob, JobEnds, Break, JobCancelled, JobSurvives
<1>2. PICK r \in TaskRecord : /\ task' = [task EXCEPT ![w] = r]
                              /\ w \in Live /\ ~r.cancelled
  BY OneTask
<1>3. \A v \in Tasks : task'[v] = IF v = w THEN r ELSE task[v]
  BY <1>2 DEF TypeOK
<1>4. Live' \subseteq Live
  BY <1>2, <1>3 DEF Live
<1> QED
  BY <1>1, <1>2, <1>3, <1>4 DEF Orderly, AwaitsWorker, CancelledIsAwaited, Live

LEMMA NextInv ==
  ASSUME ManagerInv, [Next]_vars
  PROVE  ManagerInv'
<1>1. TypeOK'
  BY NextTypes DEF ManagerInv
<1>2. ~crossed' => ~crossed
  BY DEF Next, vars, EnqueueTask, StartQueueWorker, StopQueueWorker, StopEndedWorker, StopReturns,
     ProcessQueueLoop, Begin, TakeJob, JobEnds, Break, JobCancelled, JobSurvives
<1>3. SUFFICES ASSUME ~crossed' PROVE Orderly'
  BY <1>1 DEF ManagerInv
<1>4. TypeOK /\ Orderly
  BY <1>2, <1>3 DEF ManagerInv
<1>5. CASE EnqueueTask \/ UNCHANGED vars
  BY <1>4, <1>5 DEF EnqueueTask, vars, Orderly, AwaitsWorker, CancelledIsAwaited, Live
<1> QED
  BY <1>3, <1>4, <1>5, StartInv, StopInv, StoppedInv, LoopInv DEF Next

LEMMA WorkerIsOne == ManagerInv => OneWorker
<1>1. ASSUME ManagerInv, ~crossed
      PROVE  /\ Live \subseteq {loopTask}
             /\ (\A c \in Callers : stopping[c] = None) => \A w \in Live : ~task[w].cancelled
  <2>1. Orderly
    BY <1>1 DEF ManagerInv
  <2>2. None \notin Live
    BY ManagerAssumption DEF Live
  <2> QED
    BY <2>1, <2>2 DEF Orderly, CancelledIsAwaited
<1> QED
  BY <1>1 DEF OneWorker

-----------------------------------------------------------------------------
(* SelfInspection.  Until a start overlaps a stop, the loop that lives is  *)
(* the one in _loop_task, and whoever stops it waits for it, alone and     *)
(* with the flag cleared.                                                  *)
InspectionTyped ==
  /\ isRunning \in BOOLEAN /\ restarted \in BOOLEAN
  /\ loop \in [Loops -> [step : {"new", "sleep", "done"}, cancelled : BOOLEAN]]
  /\ inspectionTask \in Loops \cup {NoLoop}
  /\ inspectionStopping \in [Operators -> Loops \cup {NoLoop}]

Waiting == {o \in Operators : inspectionStopping[o] # NoLoop}

InspectionOrderly ==
  /\ Inspection!Live \subseteq {inspectionTask}
  /\ \A o \in Waiting : inspectionStopping[o] = inspectionTask /\ ~isRunning
  /\ \A o, p \in Waiting : o = p
  /\ ~isRunning /\ Waiting = {} => Inspection!Live = {}

InspectionInv == InspectionTyped /\ (~restarted => InspectionOrderly)

LEMMA EndedIsTyped ==
  /\ Inspection!Ended \in [step : {"new", "sleep", "done"}, cancelled : BOOLEAN]
  /\ Inspection!Ended.step = "done"
BY DEF Inspection!Ended

LEMMA InitInspection == Inspection!Init => InspectionInv
<1> SUFFICES ASSUME Inspection!Init PROVE InspectionInv
  OBVIOUS
<1>1. InspectionTyped
  BY EndedIsTyped DEF Inspection!Init, InspectionTyped
<1>2. Inspection!Live = {} /\ Waiting = {}
  BY EndedIsTyped DEF Inspection!Init, Inspection!Live, Waiting
<1> QED
  BY <1>1, <1>2 DEF InspectionInv, InspectionOrderly

(* Operators.                                                              *)
LEMMA StartInspection ==
  ASSUME NoLoop \notin Loops, InspectionInv, NEW o \in Operators, Inspection!Start(o)
  PROVE  InspectionInv'
<1>1. PICK l \in Loops :
        /\ Inspection!Unused(l)
        /\ loop' = [loop EXCEPT ![l] = [step |-> "new", cancelled |-> FALSE]]
        /\ inspectionTask' = l
  BY DEF Inspection!Start
<1>2. /\ isRunning' = TRUE /\ ~isRunning /\ UNCHANGED <<node, inspectionStopping>>
      /\ restarted' = (restarted \/ \E d \in Operators : inspectionStopping[d] # NoLoop)
  BY DEF Inspection!Start
<1>3. InspectionTyped'
  BY <1>1, <1>2 DEF InspectionInv, InspectionTyped
<1>4. ASSUME ~restarted'
      PROVE  InspectionOrderly'
  <2>1. Waiting = {} /\ Waiting' = {} /\ Inspection!Live = {}
    BY <1>2, <1>4 DEF InspectionInv, InspectionOrderly, Waiting
  <2>2. Inspection!Live' \subseteq {l}
    BY <1>1, <2>1 DEF Inspection!Live, InspectionInv, InspectionTyped
  <2> QED
    BY <1>1, <1>2, <2>1, <2>2 DEF InspectionOrderly
<1> QED
  BY <1>3, <1>4 DEF InspectionInv

LEMMA StopInspection ==
  ASSUME NoLoop \notin Loops, InspectionInv, NEW o \in Operators, Inspection!Stop(o)
  PROVE  InspectionInv'
<1>1. /\ inspectionStopping[o] = NoLoop /\ isRunning /\ isRunning' = FALSE
      /\ UNCHANGED <<node, restarted>>
  BY DEF Inspection!Stop
<1>2. CASE /\ inspectionTask \in Inspection!Live
           /\ loop' = [loop EXCEPT ![inspectionTask].cancelled = TRUE]
           /\ inspectionStopping' = [inspectionStopping EXCEPT ![o] = inspectionTask]
           /\ UNCHANGED inspectionTask
  <2>1. inspectionTask \in Loops /\ inspectionTask # NoLoop
    BY <1>2 DEF Inspection!Live
  <2>2. InspectionTyped'
    BY <1>1, <1>2, <2>1 DEF InspectionInv, InspectionTyped
  <2>3. Inspection!Live' = Inspection!Live
    BY <1>2 DEF Inspection!Live, InspectionInv, InspectionTyped
  <2>4. ASSUME ~restarted'
        PROVE  InspectionOrderly'
    <3>1. Waiting = {}
      BY <1>1, <2>4 DEF InspectionInv, InspectionOrderly
    <3>2. Waiting' = {o} /\ inspectionStopping'[o] = inspectionTask
      BY <1>2, <2>1, <3>1 DEF Waiting, InspectionInv, InspectionTyped
    <3> QED
      BY <1>1, <1>2, <2>3, <2>4, <3>2 DEF InspectionInv, InspectionOrderly
  <2> QED
    BY <2>2, <2>4 DEF InspectionInv
<1>3. CASE /\ inspectionTask \notin Inspection!Live
           /\ inspectionTask' = NoLoop
           /\ UNCHANGED <<loop, inspectionStopping>>
  <2>1. InspectionTyped'
    BY <1>1, <1>3 DEF InspectionInv, InspectionTyped
  <2>2. ASSUME ~restarted'
        PROVE  InspectionOrderly'
    <3>1. Waiting = {} /\ Waiting' = Waiting /\ Inspection!Live = {}
      BY <1>1, <1>3, <2>2 DEF InspectionInv, InspectionOrderly, Waiting
    <3>2. Inspection!Live' = {}
      BY <1>3, <3>1 DEF Inspection!Live
    <3> QED
      BY <3>1, <3>2 DEF InspectionOrderly
  <2> QED
    BY <2>1, <2>2 DEF InspectionInv
<1> QED
  BY <1>2, <1>3 DEF Inspection!Stop

LEMMA StopReturnsInspection ==
  ASSUME InspectionInv, NEW o \in Operators, Inspection!StopReturns(o)
  PROVE  InspectionInv'
<1>1. /\ inspectionStopping[o] # NoLoop /\ inspectionStopping[o] \notin Inspection!Live
      /\ inspectionStopping' = [inspectionStopping EXCEPT ![o] = NoLoop]
      /\ inspectionTask' = NoLoop /\ UNCHANGED <<node, isRunning, loop, restarted>>
  BY DEF Inspection!StopReturns
<1>2. InspectionTyped'
  BY <1>1 DEF InspectionInv, InspectionTyped
<1>3. ASSUME ~restarted'
      PROVE  InspectionOrderly'
  <2>1. Waiting = {o} /\ Inspection!Live = {}
    BY <1>1, <1>3 DEF InspectionInv, InspectionOrderly, Waiting
  <2>2. Waiting' = {}
    BY <1>1, <2>1 DEF Waiting, InspectionInv, InspectionTyped
  <2>3. Inspection!Live' = {}
    BY <1>1, <2>1 DEF Inspection!Live
  <2> QED
    BY <2>2, <2>3 DEF InspectionOrderly
<1> QED
  BY <1>2, <1>3 DEF InspectionInv

(* The loop itself goes on, or ends.                                       *)
LEMMA LoopInspection ==
  ASSUME InspectionInv, NEW l \in Loops, Inspection!RunInspectionLoop(l)
  PROVE  InspectionInv'
<1>1. /\ l \in Inspection!Live
      /\ UNCHANGED <<isRunning, inspectionTask, inspectionStopping, restarted>>
  BY DEF Inspection!RunInspectionLoop, Inspection!Inspect, Inspection!Break
<1>2. loop' \in [Loops -> [step : {"new", "sleep", "done"}, cancelled : BOOLEAN]]
  <2>1. CASE Inspection!Inspect(l)
    BY <2>1 DEF Inspection!Inspect, InspectionInv, InspectionTyped
  <2>2. CASE Inspection!Break(l)
    BY <2>2, EndedIsTyped DEF Inspection!Break, InspectionInv, InspectionTyped
  <2> QED
    BY <2>1, <2>2 DEF Inspection!RunInspectionLoop
<1>3. \A k \in Loops : k # l => loop'[k] = loop[k]
  BY DEF Inspection!RunInspectionLoop, Inspection!Inspect, Inspection!Break, InspectionInv,
     InspectionTyped
<1>4. Inspection!Live' \subseteq Inspection!Live
  BY <1>1, <1>3 DEF Inspection!Live
<1>5. Waiting' = Waiting
  BY <1>1 DEF Waiting
<1> QED
  BY <1>1, <1>2, <1>4, <1>5 DEF InspectionInv, InspectionTyped, InspectionOrderly

LEMMA NextInspection ==
  ASSUME NoLoop \notin Loops, InspectionInv, [Inspection!Next]_inspectionVars
  PROVE  InspectionInv'
<1>1. ASSUME UNCHANGED <<isRunning, loop, inspectionTask, inspectionStopping, restarted>>
      PROVE  InspectionInv'
  BY <1>1 DEF InspectionInv, InspectionTyped, InspectionOrderly, Waiting, Inspection!Live
<1>2. ASSUME NEW n \in Nodes,
             Inspection!Register(n) \/ Inspection!Deregister(n) \/ Inspection!Degrade(n)
      PROVE  InspectionInv'
  BY <1>1, <1>2 DEF Inspection!Register, Inspection!Deregister, Inspection!Degrade
<1> QED
  BY <1>1, <1>2, StartInspection, StopInspection, StopReturnsInspection, LoopInspection
     DEF Inspection!Next, inspectionVars

LEMMA InspectionIsOne == InspectionInv => Inspection!OneLoop
<1>1. ASSUME InspectionInv, ~restarted
      PROVE  InspectionOrderly
  BY <1>1 DEF InspectionInv
<1>2. ASSUME InspectionOrderly
      PROVE  Inspection!Cardinality({l \in Inspection!Live : ~loop[l].cancelled}) <= 1
  <2> DEFINE S == {l \in Inspection!Live : ~loop[l].cancelled}
  <2>1. S \in SUBSET {inspectionTask}
    BY <1>2 DEF InspectionOrderly
  <2>2. IsFiniteSet({inspectionTask}) /\ Cardinality({inspectionTask}) = 1
    BY FS_Singleton
  <2> HIDE DEF S
  <2>3. Cardinality(S) <= 1
    BY <2>1, <2>2, FS_Subset
  <2>4. Inspection!Cardinality(S) = Cardinality(S)
    BY DEF Inspection!Cardinality, Cardinality
  <2> QED
    BY <2>3, <2>4 DEF S
<1>3. ASSUME InspectionOrderly, ~isRunning, \A o \in Operators : inspectionStopping[o] = NoLoop
      PROVE  Inspection!Live = {}
  BY <1>3 DEF InspectionOrderly, Waiting
<1>4. InspectionOrderly => Inspection!Live \subseteq {inspectionTask}
  BY DEF InspectionOrderly
<1> QED
  BY <1>1, <1>2, <1>3, <1>4 DEF Inspection!OneLoop

-----------------------------------------------------------------------------
(* WorkflowEngine.  Whatever is at work was called by the step the run is  *)
(* at, with what the names it reads hold still.                            *)
AtWork ==
  calls # {} => /\ outcome \in {"running", "failed"} /\ at <= Len(plan)
                /\ calls \subseteq Engine!CallsOf(Engine!Step)

Writes(j, n) == plan[j].into = n /\ ~plan[j].parallel /\ plan[j].foreach = NoName

HasHandler(use) == use \in Module!Registered \cup {"workflow.invoke"}

(* What a name holds is the result of the last step that writes it.        *)
StateOrdered ==
  \A n \in DOMAIN state :
    /\ n \notin {NoName, Blocked}
    /\ Engine!Writer(n, at) # 0
    /\ IF HasHandler(plan[Engine!Writer(n, at)].use)
       THEN state[n].by = Engine!Writer(n, at)
       ELSE state[n] = NoValue

EngineInv ==
  /\ at \in Nat \ {0} /\ Len(plan) \in Nat
  /\ outcome \in {"idle", "running", "returned", "failed"}
  /\ outcome = "idle" => calls = {} /\ DOMAIN state = {}
  /\ AtWork
  /\ StateOrdered

(* What a step calls.                                                      *)
LEMMA CallsOfStep ==
  ASSUME NEW c \in Engine!CallsOf(Engine!Step)
  PROVE  /\ c.step = at
         /\ c.got # NoValue => c.got = IF Engine!Step.parallel
                                       THEN Engine!BranchInput(Engine!Step)
                                       ELSE Engine!InputOf(Engine!Step)
         /\ ~Engine!Step.parallel => Engine!CallsOf(Engine!Step) = {c}
         /\ ~Engine!Step.parallel /\ Engine!Step.foreach = NoName => c.use = Engine!Step.use
<1>1. \A use, own, branch, input :
        LET d == Engine!Call(use, own, branch, input)
        IN  d.step = at /\ d.use = use /\ (d.got # NoValue => d.got = input)
  BY DEF Engine!Call
<1>2. CASE Engine!Step.parallel
  BY <1>1, <1>2 DEF Engine!CallsOf
<1>3. CASE ~Engine!Step.parallel /\ Engine!Step.foreach # NoName
  BY <1>1, <1>3 DEF Engine!CallsOf
<1>4. CASE ~Engine!Step.parallel /\ Engine!Step.foreach = NoName
  BY <1>1, <1>4 DEF Engine!CallsOf
<1> QED
  BY <1>2, <1>3, <1>4

LEMMA StepIsCalled ==
  ASSUME ~Engine!Step.parallel, Engine!Step.foreach = NoName
  PROVE  Engine!CallsOf(Engine!Step) # {}
BY DEF Engine!CallsOf

(* The last writer before the next step.                                   *)
LEMMA WriterNext ==
  ASSUME NEW n, NEW k \in Nat \ {0}
  PROVE  Engine!Writer(n, k + 1) = IF Writes(k, n) THEN k ELSE Engine!Writer(n, k)
<1> DEFINE W(m) == {j \in 1..m - 1 : Writes(j, n)}
<1>1. \A m : Engine!Writer(n, m) = IF W(m) = {} THEN 0
                                   ELSE CHOOSE j \in W(m) : \A i \in W(m) : i <= j
  BY DEF Engine!Writer, Writes
<1>2. CASE Writes(k, n)
  <2>1. k \in W(k + 1) /\ \A i \in W(k + 1) : i <= k
    BY <1>2
  <2>2. \A j \in W(k + 1) : (\A i \in W(k + 1) : i <= j) => j = k
    BY <2>1
  <2> HIDE DEF W
  <2>3. (CHOOSE j \in W(k + 1) : \A i \in W(k + 1) : i <= j) = k
    BY <2>1, <2>2
  <2> QED
    BY <1>1, <1>2, <2>1, <2>3
<1>3. CASE ~Writes(k, n)
  <2>1. W(k + 1) = W(k)
    BY <1>3
  <2> HIDE DEF W
  <2> QED
    BY <1>1, <1>3, <2>1
<1> QED
  BY <1>2, <1>3

LEMMA InitEngine == Engine!Init => EngineInv
BY DEF Engine!Init, EngineInv, AtWork, StateOrdered

(* The definitions are sequences.                                          *)
LEMMA PlansAreSequences ==
  \A name \in DOMAIN Module!Definitions : Len(Module!Definitions[name]) \in Nat
<1>1. /\ Len(Module!ControlGraph) \in Nat /\ Len(Module!LargeGraph) \in Nat
      /\ Len(Module!Shapes) \in Nat
  BY DEF Module!ControlGraph, Module!LargeGraph, Module!Shapes
<1> QED
  BY <1>1 DEF Module!Definitions

LEMMA StartEngine ==
  ASSUME EngineInv, NEW name \in Requested, Engine!Start(name)
  PROVE  EngineInv'
<1>1. calls = {} /\ DOMAIN state = {} /\ UNCHANGED <<at, item, state, calls>>
  BY DEF EngineInv, Engine!Start
<1>2. outcome' \in {"running", "failed"} /\ Len(plan') \in Nat
  BY PlansAreSequences DEF EngineInv, Engine!Start
<1> QED
  BY <1>1, <1>2 DEF EngineInv, AtWork, StateOrdered

(* What was written stays in order as long as the run stays where it is.   *)
LEMMA SameStateOrdered ==
  ASSUME EngineInv, UNCHANGED <<plan, at, state>>
  PROVE  StateOrdered'
<1>1. \A n : Engine!Writer(n, at)' = Engine!Writer(n, at)
  BY DEF Engine!Writer
<1> QED
  BY <1>1 DEF EngineInv, StateOrdered, HasHandler

LEMMA InvokeEngine ==
  ASSUME EngineInv, Engine!Invoke
  PROVE  EngineInv'
<1>1. /\ outcome = "running" /\ at <= Len(plan) /\ calls' = Engine!CallsOf(Engine!Step)
      /\ UNCHANGED <<plan, at, item, state, outcome>>
  BY DEF Engine!Invoke, Engine!Under
<1>2. Engine!CallsOf(Engine!Step)' = Engine!CallsOf(Engine!Step)
  BY <1>1 DEF Engine!CallsOf, Engine!Step, Engine!Call, Engine!BranchInput, Engine!InputOf,
     Engine!ValueOf, Engine!Items
<1>3. StateOrdered'
  BY <1>1, SameStateOrdered
<1> QED
  BY <1>1, <1>2, <1>3 DEF EngineInv, AtWork

(* The run goes on to the next step, which writes a name or does not.      *)
LEMMA NextStepOrdered ==
  ASSUME EngineInv, at' = at + 1, UNCHANGED <<plan, state>>,
         \A n \in DOMAIN state : ~Writes(at, n)
  PROVE  StateOrdered'
<1>1. \A n \in DOMAIN state : Engine!Writer(n, at)' = Engine!Writer(n, at)
  <2> TAKE n \in DOMAIN state
  <2>1. Engine!Writer(n, at)' = Engine!Writer(n, at + 1)
    BY DEF Engine!Writer
  <2> QED
    BY <2>1, WriterNext DEF EngineInv
<1> QED
  BY <1>1 DEF EngineInv, StateOrdered

LEMMA PassEngine ==
  ASSUME EngineInv, Engine!PassOver
  PROVE  EngineInv'
<1>1. /\ outcome = "running" /\ calls = {} /\ Engine!CallsOf(Engine!Step) = {}
      /\ at' = at + 1 /\ UNCHANGED <<plan, state, calls, outcome>>
  BY DEF Engine!PassOver, Engine!Under
<1>2. \A n \in DOMAIN state : ~Writes(at, n)
  BY <1>1, StepIsCalled DEF Writes, Engine!Step
<1>3. StateOrdered'
  BY <1>1, <1>2, NextStepOrdered
<1> QED
  BY <1>1, <1>3 DEF EngineInv, AtWork

(* As long as the run stays where it is, so does what it reads.            *)
LEMMA FewerCalls ==
  ASSUME EngineInv, UNCHANGED <<plan, at, item, state>>,
         calls' \subseteq calls, calls # {}, outcome' \in {outcome, "failed"}
  PROVE  EngineInv'
<1>1. Engine!CallsOf(Engine!Step)' = Engine!CallsOf(Engine!Step)
  BY DEF Engine!CallsOf, Engine!Step, Engine!Call, Engine!BranchInput, Engine!InputOf,
     Engine!ValueOf, Engine!Items
<1>2. StateOrdered'
  BY SameStateOrdered
<1> QED
  BY <1>1, <1>2 DEF EngineInv, AtWork

LEMMA ResolveEngine ==
  ASSUME EngineInv, NEW c \in calls, Engine!Resolve(c)
  PROVE  EngineInv'
<1>1. /\ calls' = calls \ {c} /\ UNCHANGED <<plan, outcome>>
      /\ outcome \in {"running", "failed"} /\ c \in Engine!CallsOf(Engine!Step)
      /\ calls \subseteq Engine!CallsOf(Engine!Step)
  BY DEF Engine!Resolve, EngineInv, AtWork
<1>2. CASE UNCHANGED <<at, item, state>>
  BY <1>1, <1>2, FewerCalls
<1>3. CASE /\ Engine!Step.parallel /\ Engine!AllAnswered(c)
           /\ at' = at + 1 /\ UNCHANGED <<item, state>>
  <2>1. calls' = {}
    BY <1>1, <1>3 DEF Engine!AllAnswered
  <2>2. StateOrdered'
    BY <1>1, <1>3, NextStepOrdered DEF Writes, Engine!Step
  <2> QED
    BY <1>1, <1>3, <2>1, <2>2 DEF EngineInv, AtWork
<1>4. CASE /\ ~Engine!Step.parallel /\ Engine!Step.foreach # NoName
           /\ item' = item + 1 /\ UNCHANGED <<at, state>>
  <2>1. calls' = {}
    BY <1>1, <1>4, CallsOfStep
  <2>2. StateOrdered'
    BY <1>1, <1>4, SameStateOrdered
  <2> QED
    BY <1>1, <1>4, <2>1, <2>2 DEF EngineInv, AtWork
<1>5. ASSUME ~Engine!Step.parallel, Engine!Step.foreach = NoName,
             NEW v \in Engine!ResultsOf(c), state' = Engine!Kept(v), at' = at + 1
      PROVE  EngineInv'
  <2>1. calls' = {} /\ c.use = plan[at].use /\ c.step = at
    BY <1>1, <1>5, CallsOfStep DEF Engine!Step
  <2>2. IF HasHandler(plan[at].use) THEN v.by = at ELSE v = NoValue
    BY <1>5, <2>1 DEF Engine!ResultsOf, HasHandler
  <2>3. CASE plan[at].into \in {NoName, Blocked}
    <3>1. state' = state
      BY <1>5, <2>3 DEF Engine!Kept, Engine!Step
    <3>2. \A n \in DOMAIN state : ~Writes(at, n)
      BY <2>3 DEF EngineInv, StateOrdered, Writes
    <3>3. StateOrdered'
      BY <1>1, <1>5, <3>1, <3>2, NextStepOrdered
    <3> QED
      BY <1>1, <1>5, <2>1, <3>3 DEF EngineInv, AtWork
  <2>4. CASE plan[at].into \notin {NoName, Blocked}
    <3>1. /\ DOMAIN state' = DOMAIN state \cup {plan[at].into}
          /\ \A n \in DOMAIN state' : state'[n] = IF n = plan[at].into THEN v ELSE state[n]
      BY <1>5, <2>4 DEF Engine!Kept, Engine!Step
    <3>2. \A n : Engine!Writer(n, at)' = IF n = plan[at].into THEN at ELSE Engine!Writer(n, at)
      <4> TAKE n
      <4>1. Engine!Writer(n, at)' = Engine!Writer(n, at + 1)
        BY <1>1, <1>5 DEF Engine!Writer
      <4>2. Writes(at, n) <=> n = plan[at].into
        BY <1>5 DEF Writes, Engine!Step
      <4>3. Engine!Writer(n, at + 1) = IF Writes(at, n) THEN at ELSE Engine!Writer(n, at)
        BY WriterNext DEF EngineInv
      <4> QED
        BY <4>1, <4>2, <4>3
    <3>3. at # 0 /\ plan' = plan
      BY <1>1 DEF EngineInv
    <3>4. ASSUME NEW n \in DOMAIN state'
          PROVE  /\ n \notin {NoName, Blocked}
                 /\ Engine!Writer(n, at)' # 0
                 /\ IF HasHandler(plan'[Engine!Writer(n, at)'].use)
                    THEN state'[n].by = Engine!Writer(n, at)'
                    ELSE state'[n] = NoValue
      <4>1. CASE n = plan[at].into
        BY <2>2, <2>4, <3>1, <3>2, <3>3, <4>1
      <4>2. CASE n # plan[at].into
        BY <3>1, <3>2, <3>3, <4>2 DEF EngineInv, StateOrdered
      <4> QED
        BY <4>1, <4>2
    <3>5. StateOrdered'
      BY <3>4 DEF StateOrdered, HasHandler
    <3> QED
      BY <1>1, <1>5, <2>1, <3>5 DEF EngineInv, AtWork
  <2> QED
    BY <2>3, <2>4
<1> QED
  BY <1>1, <1>2, <1>3, <1>4, <1>5 DEF Engine!Resolve

LEMMA NextEngine ==
  ASSUME EngineInv, [Engine!Next]_engineVars
  PROVE  EngineInv'
<1>1. CASE Engine!Answered
  <2>1. ASSUME NEW c \in calls, Engine!Reject(c)
        PROVE  EngineInv'
    BY <2>1, FewerCalls DEF Engine!Reject
  <2> QED
    BY <1>1, <2>1, ResolveEngine DEF Engine!Answered
<1>2. CASE Engine!Return
  <2>1. /\ outcome = "running" /\ at > Len(plan) /\ outcome' = "returned"
        /\ UNCHANGED <<plan, at, item, state, calls>>
    BY <1>2 DEF Engine!Return
  <2>2. calls = {}
    BY <2>1 DEF EngineInv, AtWork
  <2>3. StateOrdered'
    BY <2>1, SameStateOrdered
  <2> QED
    BY <2>1, <2>2, <2>3 DEF EngineInv, AtWork
<1>3. CASE UNCHANGED engineVars
  <2>1. UNCHANGED <<plan, at, item, state, calls, outcome>>
    BY <1>3 DEF engineVars
  <2>2. StateOrdered'
    BY <2>1, SameStateOrdered
  <2>3. Engine!CallsOf(Engine!Step)' = Engine!CallsOf(Engine!Step)
    BY <2>1 DEF Engine!CallsOf, Engine!Step, Engine!Call, Engine!BranchInput, Engine!InputOf,
       Engine!ValueOf, Engine!Items
  <2> QED
    BY <2>1, <2>2, <2>3 DEF EngineInv, AtWork
<1> QED
  BY <1>1, <1>2, <1>3, StartEngine, InvokeEngine, PassEngine DEF Engine!Next

LEMMA EngineOrdered == EngineInv => StageOrder
<1> SUFFICES ASSUME EngineInv PROVE StageOrder
  OBVIOUS
<1>1. \A c \in calls :
        /\ c.step = at /\ outcome \in {"running", "failed"}
        /\ c.got # NoValue => c.got = IF Engine!Step.parallel
                                      THEN Engine!BranchInput(Engine!Step)
                                      ELSE Engine!InputOf(Engine!Step)
  BY CallsOfStep DEF EngineInv, AtWork
<1>2. Engine!StageBarrier
  BY <1>1 DEF Engine!StageBarrier
<1>3. Engine!DataflowOrder
  BY <1>1 DEF Engine!DataflowOrder, EngineInv, StateOrdered, HasHandler
<1> QED
  BY <1>2, <1>3 DEF StageOrder

-----------------------------------------------------------------------------
(* Transformer.  A broadcast on the call stack has told its event to the   *)
(* listeners before its `next' and to nobody else; who has not heard of an *)
(* event is told by such a broadcast.                                      *)
FrameOf ==
  [call : {"broadcast"}, event : Nat, next : Nat \ {0}] \cup [call : {"listener"}]
    \cup [call : {"cycle"}, size : PayloadSizes,
          at : {"bounds", "dup", "beta", "omega", "complete", "done", "refused"}]

OtherEvents ==
  {"SESSION_START", "SECURITY_ALERT", "EXECUTION_FAILURE", "VAULT_LOG", "SESSION_COMPLETE"}

EventOf == [type : {"TRANSFORMATION"} \cup OtherEvents, form : Forms!Forms, count : Nat]

ListenerOf == [heard : Seq(Nat), since : Nat]

FormsTyped ==
  /\ running \in Seq(FrameOf) /\ told \in Seq(EventOf) /\ listeners \in Seq(ListenerOf)
  /\ currentForm \in Forms!Forms /\ transformationCount \in Nat /\ depth \in Nat

Telling == {k \in DOMAIN running : running[k].call = "broadcast"}

Hears(l, e) == \E n \in DOMAIN l.heard : l.heard[n] = e

TellingInv ==
  /\ \A k \in Telling : running[k].event \in 1..Len(told) /\ running[k].next <= Len(listeners) + 1
  /\ \A j, k \in Telling : running[j].event = running[k].event => j = k
  /\ \A k \in Telling, i \in DOMAIN listeners : Hears(listeners[i], running[k].event) <=> i < running[k].next

HeardInv ==
  \A i \in DOMAIN listeners :
    /\ \A n \in DOMAIN listeners[i].heard : listeners[i].heard[n] \in 1..Len(told)
    /\ \A m, n \in DOMAIN listeners[i].heard :
         listeners[i].heard[m] = listeners[i].heard[n] => m = n
    /\ listeners[i].since <= Len(told)
    /\ \A e \in listeners[i].since + 1..Len(told) :
         Hears(listeners[i], e) \/ \E k \in Telling : running[k].event = e

(* The first listener hears of an event before anything can broadcast another one. *)
FirstInv ==
  /\ \A k \in Telling : running[k].next = 1 => k = Len(running) /\ running[k].event = Len(told)
  /\ (\E k \in DOMAIN running : running[k].call = "listener") => listeners # <<>>
  /\ listeners # <<>> =>
       /\ \A k \in Telling : listeners[1].since < running[k].event
       /\ \A n \in DOMAIN listeners[1].heard : listeners[1].since < listeners[1].heard[n]
       /\ \A m, n \in DOMAIN listeners[1].heard :
            m < n => listeners[1].heard[m] < listeners[1].heard[n]

Shift(e) == told[e].type = "TRANSFORMATION"

CountsInv ==
  /\ \A e \in DOMAIN told : Shift(e) => told[e].count <= transformationCount
  /\ \A d, e \in DOMAIN told : Shift(d) /\ Shift(e) /\ d < e => told[d].count < told[e].count
  /\ \A e \in DOMAIN told :
       Shift(e) /\ (\A d \in DOMAIN told : Shift(d) => d <= e) =>
         told[e].form = currentForm /\ told[e].count = transformationCount

(* A cycle that has looked at the bounds goes on exactly if its payload fits. *)
CycleHolds(f) ==
  f.call = "cycle" /\ f.at # "bounds" => ((f.at # "refused") <=> Forms!WithinCapacity(f.size))

CycleInv ==
  (\A k \in DOMAIN running : CycleHolds(running[k])) /\ Forms!CycleDependsOnSize

FormsInv == FormsTyped /\ TellingInv /\ HeardInv /\ FirstInv /\ CountsInv /\ CycleInv

LEMMA InitForms == Forms!Init => FormsInv
BY DEF Forms!Init, FormsInv, FormsTyped, TellingInv, HeardInv, FirstInv, CountsInv, CycleInv,
   Forms!CycleDependsOnSize, Telling, Forms!Forms

(* What a frame is.                                                        *)
LEMMA FramesAre ==
  ASSUME NEW f \in FrameOf
  PROVE  /\ f.call \in {"broadcast", "listener", "cycle"}
         /\ f.call = "broadcast" =>
              /\ f.event \in Nat /\ f.next \in Nat \ {0}
              /\ f = [call |-> "broadcast", event |-> f.event, next |-> f.next]
         /\ f.call = "cycle" =>
              /\ f.size \in PayloadSizes
              /\ f.at \in {"bounds", "dup", "beta", "omega", "complete", "done", "refused"}
              /\ f = [call |-> "cycle", size |-> f.size, at |-> f.at]
BY DEF FrameOf

LEMMA BroadcastIsFrame ==
  ASSUME NEW e \in Nat, NEW n \in Nat \ {0}
  PROVE  [call |-> "broadcast", event |-> e, next |-> n] \in FrameOf
BY DEF FrameOf

(* The frame at the end of the call stack, and those before it.            *)
LEMMA TopFrame ==
  ASSUME FormsTyped, running # <<>>
  PROVE  /\ Len(running) \in Nat \ {0} /\ DOMAIN running = 1..Len(running)
         /\ Forms!Last(running) = running[Len(running)]
         /\ running[Len(running)] \in FrameOf
         /\ Forms!Front(running) \in Seq(FrameOf)
         /\ DOMAIN Forms!Front(running) = 1..Len(running) - 1
         /\ Len(Forms!Front(running)) = Len(running) - 1
         /\ \A k \in 1..Len(running) - 1 : Forms!Front(running)[k] = running[k]
<1>1. running \in Seq(FrameOf) /\ Len(running) \in Nat \ {0} /\ DOMAIN running = 1..Len(running)
  BY DEF FormsTyped
<1>2. Forms!Last(running) = running[Len(running)]
  BY DEF Forms!Last
<1>3. running[Len(running)] \in FrameOf
  BY <1>1
<1> PICK n : n = Len(running) - 1
  OBVIOUS
<1>4. Forms!Front(running) = SubSeq(running, 1, n) /\ n \in Nat /\ n <= Len(running)
  BY <1>1 DEF Forms!Front
<1>5. /\ SubSeq(running, 1, n) \in Seq(FrameOf) /\ Len(SubSeq(running, 1, n)) = n
      /\ \A k \in 1..n : SubSeq(running, 1, n)[k] = running[k]
  BY <1>1, <1>4
<1>6. DOMAIN SubSeq(running, 1, n) = 1..n
  BY <1>5
<1> QED
  BY <1>1, <1>2, <1>3, <1>4, <1>5, <1>6

LEMMA ListenersAre ==
  ASSUME FormsTyped
  PROVE  /\ Len(listeners) \in Nat /\ DOMAIN listeners = 1..Len(listeners)
         /\ \A i \in DOMAIN listeners :
              /\ listeners[i] \in ListenerOf /\ listeners[i].since \in Nat
              /\ listeners[i].heard \in Seq(Nat)
              /\ Len(listeners[i].heard) \in Nat
              /\ DOMAIN listeners[i].heard = 1..Len(listeners[i].heard)
<1>1. /\ Len(listeners) \in Nat /\ DOMAIN listeners = 1..Len(listeners)
      /\ \A i \in 1..Len(listeners) : listeners[i] \in ListenerOf
  BY DEF FormsTyped
<1>2. \A l \in ListenerOf : /\ l.since \in Nat /\ l.heard \in Seq(Nat)
                            /\ Len(l.heard) \in Nat /\ DOMAIN l.heard = 1..Len(l.heard)
  BY DEF ListenerOf
<1> QED
  BY <1>1, <1>2

(* A stack on which the same broadcasts wait, and cycles that may be there. *)
StackOver(stack) ==
  /\ stack \in Seq(FrameOf)
  /\ \A k \in Telling : k \in DOMAIN stack /\ stack[k] = running[k]
  /\ \A k \in DOMAIN stack :
       /\ stack[k].call = "broadcast" => k \in Telling
       /\ stack[k].call = "listener" => k \in DOMAIN running /\ running[k].call = "listener"
       /\ CycleHolds(stack[k])

LEMMA BroadcastOver ==
  ASSUME FormsInv, NEW stack, StackOver(stack), NEW e \in EventOf,
         Forms!Running # "broadcast", Forms!Broadcast(stack, e), UNCHANGED listeners
  PROVE  /\ running' \in Seq(FrameOf) /\ told' \in Seq(EventOf)
         /\ TellingInv' /\ HeardInv' /\ FirstInv'
         /\ \A k \in DOMAIN running' : CycleHolds(running'[k])
<1> USE DEF FormsInv
<1> PICK p : p = Len(stack) + 1
  OBVIOUS
<1> PICK t : t = Len(told) + 1
  OBVIOUS
<1>1. /\ p \in Nat \ {0} /\ t \in Nat \ {0} /\ DOMAIN stack = 1..p - 1 /\ Len(told) = t - 1
      /\ told' = Append(told, e) /\ Len(told') = t /\ told' \in Seq(EventOf)
  BY DEF StackOver, FormsTyped, Forms!Broadcast
<1>2. /\ running' \in Seq(FrameOf) /\ Len(running') = p /\ DOMAIN running' = 1..p
      /\ running'[p] = [call |-> "broadcast", event |-> t, next |-> 1]
      /\ \A k \in 1..p - 1 : running'[k] = stack[k]
  BY <1>1, BroadcastIsFrame DEF StackOver, Forms!Broadcast
<1>3. /\ Telling' = Telling \cup {p} /\ p \notin Telling
      /\ \A k \in Telling : running'[k] = running[k]
      /\ running'[p].event = t /\ running'[p].next = 1
  <2>1. running'[p].call = "broadcast" /\ running'[p].event = t /\ running'[p].next = 1
    BY <1>2
  <2>2. \A k \in Telling : k \in 1..p - 1 /\ stack[k] = running[k] /\ running[k].call = "broadcast"
    BY <1>1 DEF StackOver, Telling
  <2>3. \A k \in 1..p - 1 : stack[k].call = "broadcast" => k \in Telling
    BY <1>1 DEF StackOver
  <2>4. \A k : k \in Telling' <=> k \in 1..p /\ running'[k].call = "broadcast"
    BY <1>2 DEF Telling
  <2>5. p \notin Telling /\ \A k \in Telling : running'[k] = running[k]
    BY <1>1, <1>2, <2>2
  <2>6. ASSUME NEW k
        PROVE  k \in Telling' <=> k \in Telling \/ k = p
    <3>1. k \in 1..p <=> k \in 1..p - 1 \/ k = p
      BY ONLY <1>1
    <3>2. k \in 1..p - 1 => running'[k] = stack[k]
      BY ONLY <1>2
    <3>3. k \in Telling => k \in 1..p - 1 /\ stack[k].call = "broadcast"
      BY ONLY <2>2
    <3>4. k \in 1..p - 1 /\ stack[k].call = "broadcast" => k \in Telling
      BY ONLY <2>3
    <3>5. k \in Telling' <=> k \in 1..p /\ running'[k].call = "broadcast"
      BY ONLY <2>4
    <3> QED
      BY ONLY <2>1, <3>1, <3>2, <3>3, <3>4, <3>5
  <2>7. Telling' = Telling \cup {p}
    BY ONLY <2>6
  <2> QED
    BY <2>1, <2>5, <2>7
<1>4. \A k \in Telling : /\ running[k].event \in 1..t - 1 /\ running[k].next \in Nat
                          /\ running[k].next > 1
  <2> TAKE k \in Telling
  <2>1. running[k].event \in 1..t - 1 /\ running[k].next \in Nat \ {0}
    BY <1>1, FramesAre DEF Telling, TellingInv, FormsTyped
  <2>2. running[k].next # 1
    <3>1. ASSUME running[k].next = 1 PROVE FALSE
      <4>1. k = Len(running) /\ running # <<>>
        BY <3>1 DEF FirstInv, Telling
      <4> QED
        BY <4>1, TopFrame DEF Forms!Running, Telling
    <3> QED
      BY <3>1
  <2> QED
    BY <2>1, <2>2
<1>5. \A i : \A a : Hears(listeners'[i], a) <=> Hears(listeners[i], a)
  BY DEF Hears
<1>6. \A i \in DOMAIN listeners : ~Hears(listeners[i], t)
  BY <1>1 DEF Hears, HeardInv
<1>7. Len(listeners) \in Nat /\ DOMAIN listeners = 1..Len(listeners)
  BY ListenersAre
<1>8. TellingInv'
  <2>1. \A k \in Telling' : /\ running'[k].event \in 1..t
                             /\ running'[k].next <= Len(listeners) + 1
    BY <1>1, <1>3, <1>4, <1>7 DEF TellingInv
  <2>2. \A j, k \in Telling' : running'[j].event = running'[k].event => j = k
    BY <1>1, <1>3, <1>4 DEF TellingInv
  <2>3. \A k \in Telling', i \in DOMAIN listeners :
          Hears(listeners[i], running'[k].event) <=> i < running'[k].next
    <3> TAKE k \in Telling', i \in DOMAIN listeners
    <3>1. CASE k = p
      BY <1>3, <1>6, <1>7, <3>1
    <3>2. CASE k \in Telling
      BY <1>3, <3>2 DEF TellingInv
    <3> QED
      BY <1>3, <3>1, <3>2
  <2> QED
    BY <1>1, <1>5, <2>1, <2>2, <2>3 DEF TellingInv
<1>9. HeardInv'
  <2> SUFFICES ASSUME NEW i \in DOMAIN listeners
               PROVE  /\ \A n \in DOMAIN listeners[i].heard : listeners[i].heard[n] \in 1..t
                      /\ \A m, n \in DOMAIN listeners[i].heard :
                           listeners[i].heard[m] = listeners[i].heard[n] => m = n
                      /\ listeners[i].since <= t
                      /\ \A a \in listeners[i].since + 1..t :
                           Hears(listeners[i], a) \/ \E k \in Telling' : running'[k].event = a
    BY <1>1, <1>5 DEF HeardInv
  <2>1. listeners[i].since \in Nat
    BY ListenersAre
  <2>2. ASSUME NEW a \in listeners[i].since + 1..t
        PROVE  Hears(listeners[i], a) \/ \E k \in Telling' : running'[k].event = a
    <3>1. CASE a = t
      BY <1>3, <3>1
    <3>2. CASE a # t
      <4>1. a \in listeners[i].since + 1..Len(told)
        BY <1>1, <2>1, <3>2
      <4> QED
        BY <1>3, <4>1 DEF HeardInv
    <3> QED
      BY <3>1, <3>2
  <2>3. listeners[i].since <= Len(told)
    BY DEF HeardInv
  <2> QED
    BY <1>1, <2>1, <2>2, <2>3 DEF HeardInv
<1>10. FirstInv'
  <2>1. \A k \in Telling' : running'[k].next = 1 => k = p /\ running'[k].event = t
    BY <1>3, <1>4
  <2>2. (\E k \in DOMAIN running' : running'[k].call = "listener") => listeners # <<>>
    BY <1>1, <1>2 DEF StackOver, FirstInv
  <2>3. listeners # <<>> =>
          /\ \A k \in Telling' : listeners[1].since < running'[k].event
          /\ \A n \in DOMAIN listeners[1].heard : listeners[1].since < listeners[1].heard[n]
          /\ \A m, n \in DOMAIN listeners[1].heard :
               m < n => listeners[1].heard[m] < listeners[1].heard[n]
    <3> SUFFICES ASSUME listeners # <<>>
                 PROVE  \A k \in Telling' : listeners[1].since < running'[k].event
      BY DEF FirstInv
    <3>1. 1 \in DOMAIN listeners
      BY <1>7 DEF FormsTyped
    <3>2. listeners[1].since \in Nat /\ listeners[1].since <= t - 1
      BY <1>1, <3>1, ListenersAre DEF HeardInv
    <3> QED
      BY <1>1, <1>3, <3>2 DEF FirstInv
  <2> QED
    BY <1>1, <1>2, <2>1, <2>2, <2>3 DEF FirstInv
<1>11. \A k \in DOMAIN running' : CycleHolds(running'[k])
  BY <1>1, <1>2 DEF StackOver, CycleHolds
<1> QED
  BY <1>1, <1>2, <1>8, <1>9, <1>10, <1>11

(* What a frame that is done takes with it: a broadcast has told everybody. *)
LEMMA FramePopped ==
  ASSUME FormsInv, running # <<>>, running' = Forms!Front(running), UNCHANGED <<told, listeners>>,
         Len(running) \in Telling => running[Len(running)].next > Len(listeners)
  PROVE  /\ running' \in Seq(FrameOf)
         /\ TellingInv' /\ HeardInv' /\ FirstInv'
         /\ \A k \in DOMAIN running' : CycleHolds(running'[k])
<1> USE DEF FormsInv
<1>1. /\ running' \in Seq(FrameOf) /\ Len(running) \in Nat \ {0}
      /\ DOMAIN running = 1..Len(running) /\ DOMAIN running' = 1..Len(running) - 1
      /\ \A k \in 1..Len(running) - 1 : running'[k] = running[k]
  BY TopFrame
<1>2. /\ Telling' = Telling \ {Len(running)}
      /\ \A k \in Telling' : running'[k] = running[k]
  BY <1>1 DEF Telling
<1>3. \A i : \A a : Hears(listeners'[i], a) <=> Hears(listeners[i], a)
  BY DEF Hears
<1>4. TellingInv'
  BY <1>2, <1>3 DEF TellingInv
<1>5. HeardInv'
  <2>1. ASSUME NEW i \in DOMAIN listeners, NEW a \in listeners[i].since + 1..Len(told)
        PROVE  Hears(listeners[i], a) \/ \E k \in Telling' : running'[k].event = a
    <3>1. CASE \E k \in Telling : k # Len(running) /\ running[k].event = a
      BY <1>2, <3>1
    <3>2. CASE Len(running) \in Telling /\ running[Len(running)].event = a
      <4>1. i \in 1..Len(listeners) /\ Len(listeners) \in Nat
        BY DEF FormsTyped
      <4>2. running[Len(running)].next \in Nat
        BY <1>1, <3>2, FramesAre DEF Telling, FormsTyped
      <4>3. i < running[Len(running)].next
        BY <3>2, <4>1, <4>2
      <4> QED
        BY <3>2, <4>3 DEF TellingInv
    <3> QED
      BY <3>1, <3>2 DEF HeardInv
  <2> QED
    BY <1>3, <2>1 DEF HeardInv
<1>6. FirstInv'
  <2>1. \A k \in Telling' : running'[k].next # 1
    BY <1>2 DEF FirstInv
  <2>2. (\E k \in DOMAIN running' : running'[k].call = "listener") => listeners # <<>>
    BY <1>1 DEF FirstInv
  <2> QED
    BY <1>2, <2>1, <2>2 DEF FirstInv
<1>7. \A k \in DOMAIN running' : CycleHolds(running'[k])
  BY <1>1 DEF CycleInv
<1> QED
  BY <1>1, <1>4, <1>5, <1>6, <1>7

(* Another frame in the place of the last one.                             *)
Replaced(stack, f) ==
  /\ stack \in Seq(FrameOf) /\ Len(stack) = Len(running)
  /\ DOMAIN stack = 1..Len(running)
  /\ stack[Len(running)] = f
  /\ \A k \in 1..Len(running) - 1 : stack[k] = running[k]

LEMMA TopReplaced ==
  ASSUME FormsTyped, running # <<>>, NEW f \in FrameOf, NEW stack,
         stack = Forms!Front(running) \o <<f>>
  PROVE  Replaced(stack, f)
<1> PICK front : front = Forms!Front(running)
  OBVIOUS
<1>1. /\ Len(running) \in Nat \ {0} /\ front \in Seq(FrameOf) /\ Len(front) = Len(running) - 1
      /\ \A k \in 1..Len(running) - 1 : front[k] = running[k]
  BY TopFrame
<1>2. stack = front \o <<f>> /\ <<f>> \in Seq(FrameOf) /\ Len(<<f>>) = 1 /\ <<f>>[1] = f
  OBVIOUS
<1>3. stack \in Seq(FrameOf) /\ Len(stack) = Len(running)
  BY <1>1, <1>2
<1>4. stack[Len(running)] = f
  BY <1>1, <1>2
<1>5. \A k \in 1..Len(running) - 1 : stack[k] = running[k]
  BY <1>1, <1>2
<1> QED
  BY <1>1, <1>3, <1>4, <1>5 DEF Replaced

(* What a number appended to a sequence of numbers adds to it.             *)
Appended(h, x, g) ==
  /\ g \in Seq(Nat)
  /\ \A e : (\E k \in DOMAIN g : g[k] = e) <=> ((\E k \in DOMAIN h : h[k] = e) \/ e = x)
  /\ (\A k \in DOMAIN h : h[k] # x) /\ (\A k, m \in DOMAIN h : h[k] = h[m] => k = m)
       => \A k, m \in DOMAIN g : g[k] = g[m] => k = m
  /\ (\A k \in DOMAIN h : h[k] < x) /\ (\A k, m \in DOMAIN h : k < m => h[k] < h[m])
       => \A k, m \in DOMAIN g : k < m => g[k] < g[m]

LEMMA AppendKeeps ==
  ASSUME NEW h \in Seq(Nat), NEW x \in Nat
  PROVE  Appended(h, x, Append(h, x))
<1> PICK g : g = Append(h, x)
  OBVIOUS
<1> PICK n : n = Len(h)
  OBVIOUS
<1>1. /\ n \in Nat /\ g \in Seq(Nat) /\ DOMAIN h = 1..n /\ DOMAIN g = 1..n + 1
      /\ g[n + 1] = x /\ \A k \in 1..n : g[k] = h[k]
  OBVIOUS
<1>2. \A k : k \in 1..n + 1 <=> k \in 1..n \/ k = n + 1
  BY <1>1
<1>3. \A k, m \in 1..n + 1 : k < m => k \in 1..n /\ (m \in 1..n \/ m = n + 1)
  BY ONLY <1>1
<1>4. \A e : (\E k \in DOMAIN g : g[k] = e) <=> ((\E k \in DOMAIN h : h[k] = e) \/ e = x)
  BY ONLY <1>1, <1>2
<1>5. ASSUME \A k \in DOMAIN h : h[k] # x, \A k, m \in DOMAIN h : h[k] = h[m] => k = m
      PROVE  \A k, m \in DOMAIN g : g[k] = g[m] => k = m
  BY ONLY <1>1, <1>2, <1>5
<1>6. ASSUME \A k \in DOMAIN h : h[k] < x, \A k, m \in DOMAIN h : k < m => h[k] < h[m]
      PROVE  \A k, m \in DOMAIN g : k < m => g[k] < g[m]
  BY ONLY <1>1, <1>3, <1>6
<1> QED
  BY <1>1, <1>4, <1>5, <1>6 DEF Appended

(* The next listener hears of the event of the broadcast that runs.        *)
LEMMA ListenerHears ==
  ASSUME FormsInv, Forms!Deliver
  PROVE  /\ running' \in Seq(FrameOf) /\ listeners' \in Seq(ListenerOf)
         /\ TellingInv' /\ HeardInv' /\ FirstInv'
         /\ \A k \in DOMAIN running' : CycleHolds(running'[k])
<1> USE DEF FormsInv
<1> PICK p : p = Len(running)
  OBVIOUS
<1> PICK b : b = running[p]
  OBVIOUS
<1>1. /\ running # <<>> /\ p \in Nat \ {0} /\ DOMAIN running = 1..p /\ b \in FrameOf
      /\ Forms!Last(running) = b /\ p \in Telling
      /\ b.event \in Nat /\ b.next \in Nat \ {0}
      /\ b = [call |-> "broadcast", event |-> b.event, next |-> b.next]
  <2>1. running # <<>>
    BY DEF Forms!Deliver, Forms!Running
  <2>2. /\ p \in Nat \ {0} /\ DOMAIN running = 1..p /\ b \in FrameOf
        /\ Forms!Last(running) = b
    BY <2>1, TopFrame
  <2>3. b.call = "broadcast"
    BY <2>1, <2>2 DEF Forms!Deliver, Forms!Running
  <2> QED
    BY <2>1, <2>2, <2>3, FramesAre DEF Telling
<1> PICK j : j = b.next
  OBVIOUS
<1>2. /\ Len(listeners) \in Nat /\ j \in 1..Len(listeners) /\ DOMAIN listeners = 1..Len(listeners)
      /\ listeners' = [listeners EXCEPT ![j].heard = Append(@, b.event)]
      /\ told' = told
      /\ running' = Append(Forms!Front(running) \o <<[b EXCEPT !.next = @ + 1]>>,
                           [call |-> "listener"])
  BY <1>1, ListenersAre DEF Forms!Deliver
<1>3. /\ running' \in Seq(FrameOf) /\ DOMAIN running' = 1..p + 1
      /\ \A k \in 1..p - 1 : running'[k] = running[k]
      /\ running'[p] = [call |-> "broadcast", event |-> b.event, next |-> j + 1]
      /\ running'[p + 1] = [call |-> "listener"] /\ Len(running') = p + 1
  <2> PICK c : c = [call |-> "broadcast", event |-> b.event, next |-> j + 1]
    OBVIOUS
  <2>1. c \in FrameOf
    <3>1. b.event \in Nat /\ j + 1 \in Nat \ {0}
      BY <1>1, <1>2
    <3>2. [call |-> "broadcast", event |-> b.event, next |-> j + 1] \in FrameOf
      BY ONLY <3>1, BroadcastIsFrame
    <3> QED
      BY <3>2, Zenon
  <2>2. [b EXCEPT !.next = @ + 1] = c
    BY <1>1
  <2> PICK stack : stack = Forms!Front(running) \o <<c>>
    OBVIOUS
  <2>3. /\ stack \in Seq(FrameOf) /\ Len(stack) = p /\ stack[p] = c
        /\ \A k \in 1..p - 1 : stack[k] = running[k]
    <3>1. FormsTyped /\ running # <<>> /\ stack = Forms!Front(running) \o <<c>>
      BY <1>1
    <3>2. /\ stack \in Seq(FrameOf) /\ Len(stack) = Len(running)
          /\ DOMAIN stack = 1..Len(running)
          /\ stack[Len(running)] = c
          /\ \A k \in 1..Len(running) - 1 : stack[k] = running[k]
      <4>1. Replaced(stack, c)
        BY ONLY <2>1, <3>1, TopReplaced
      <4> QED
        BY ONLY <4>1 DEF Replaced
    <3> QED
      BY <3>2
  <2>4. running' = Append(stack, [call |-> "listener"])
    BY <1>2, <2>2
  <2>5. [call |-> "listener"] \in FrameOf
    BY DEF FrameOf
  <2> QED
    BY <1>1, <2>3, <2>4, <2>5
<1>4. /\ Telling' = Telling
      /\ \A k \in Telling : running'[k].event = running[k].event
      /\ \A k \in Telling : running'[k].next = IF k = p THEN j + 1 ELSE running[k].next
  <2>1. \A k : k \in Telling <=> k \in 1..p /\ running[k].call = "broadcast"
    BY <1>1 DEF Telling
  <2>2. \A k : k \in Telling' <=> k \in 1..p + 1 /\ running'[k].call = "broadcast"
    BY <1>3 DEF Telling
  <2>3. /\ p \in Nat \ {0} /\ running[p].call = "broadcast" /\ running[p].event = b.event
        /\ running'[p].call = "broadcast" /\ running'[p].event = b.event
        /\ running'[p].next = j + 1 /\ running'[p + 1].call # "broadcast"
    <3>1. p \in Nat \ {0} /\ running[p] = b
      BY <1>1
    <3>2. b.call = "broadcast"
      BY ONLY <1>1
    <3> QED
      BY ONLY <1>3, <3>1, <3>2
  <2>4. \A k \in 1..p - 1 : running'[k] = running[k]
    BY ONLY <1>3
  <2>5. ASSUME NEW k
        PROVE  k \in Telling' <=> k \in Telling
    <3>1. /\ k \in 1..p <=> k \in 1..p - 1 \/ k = p
          /\ k \in 1..p + 1 <=> k \in 1..p \/ k = p + 1
      BY ONLY <2>3
    <3> QED
      BY ONLY <2>1, <2>2, <2>3, <2>4, <3>1
  <2>6. ASSUME NEW k \in Telling
        PROVE  /\ running'[k].event = running[k].event
               /\ running'[k].next = IF k = p THEN j + 1 ELSE running[k].next
    <3>1. k \in 1..p - 1 \/ k = p
      BY <2>1, <2>3
    <3> QED
      BY ONLY <2>3, <2>4, <3>1
  <2> QED
    BY ONLY <2>5, <2>6
<1>5. /\ listeners' \in Seq(ListenerOf) /\ Len(listeners') = Len(listeners)
      /\ DOMAIN listeners' = DOMAIN listeners
      /\ \A i \in DOMAIN listeners : listeners'[i].since = listeners[i].since
      /\ \A i \in DOMAIN listeners : i # j => listeners'[i] = listeners[i]
      /\ listeners'[j].heard = Append(listeners[j].heard, b.event)
  <2>1. listeners[j] \in ListenerOf /\ listeners[j].heard \in Seq(Nat)
    BY <1>2, ListenersAre
  <2>2. listeners[j] = [heard |-> listeners[j].heard, since |-> listeners[j].since]
        /\ listeners[j].since \in Nat
    BY <2>1 DEF ListenerOf
  <2>3. PICK l : l = [heard |-> Append(listeners[j].heard, b.event), since |-> listeners[j].since]
    OBVIOUS
  <2>4. l \in ListenerOf
    BY <1>1, <2>1, <2>2, <2>3 DEF ListenerOf
  <2>5. [listeners[j] EXCEPT !.heard = Append(@, b.event)] = l
    <3>1. PICK q : q = listeners[j]
      OBVIOUS
    <3>2. PICK heard, since : heard = q.heard /\ since = q.since
      OBVIOUS
    <3>3. q = [heard |-> heard, since |-> since]
      BY ONLY <2>2, <3>1, <3>2
    <3>4. [q EXCEPT !.heard = Append(@, b.event)] = [heard |-> Append(heard, b.event), since |-> since]
      BY ONLY <3>3
    <3> QED
      BY ONLY <2>3, <3>1, <3>2, <3>4
  <2>6. listeners' = [listeners EXCEPT ![j] = l]
    BY <1>2, <2>5
  <2>7. listeners \in Seq(ListenerOf)
    BY DEF FormsTyped
  <2>8. listeners' \in Seq(ListenerOf) /\ Len(listeners') = Len(listeners)
    <3>1. PICK n : n = Len(listeners)
      OBVIOUS
    <3>2. n \in Nat /\ j \in 1..n /\ listeners \in [1..n -> ListenerOf]
      BY ONLY <1>2, <2>7, <3>1
    <3>3. listeners' \in [1..n -> ListenerOf]
      BY ONLY <2>4, <2>6, <3>2
    <3>4. listeners' \in Seq(ListenerOf) /\ Len(listeners') = n
      BY ONLY <3>2, <3>3
    <3> QED
      BY ONLY <3>1, <3>4
  <2>9. DOMAIN listeners' = DOMAIN listeners /\ listeners'[j] = l
        /\ \A i \in DOMAIN listeners : i # j => listeners'[i] = listeners[i]
    BY ONLY <1>2, <2>6
  <2> QED
    BY ONLY <2>3, <2>8, <2>9
<1> PICK h : h = listeners[j].heard
  OBVIOUS
<1> PICK g : g = listeners'[j].heard
  OBVIOUS
<1>6. /\ g \in Seq(Nat)
      /\ \A e : (\E k \in DOMAIN g : g[k] = e) <=> ((\E k \in DOMAIN h : h[k] = e) \/ e = b.event)
      /\ (\A k \in DOMAIN h : h[k] # b.event) /\ (\A k, m \in DOMAIN h : h[k] = h[m] => k = m)
           => \A k, m \in DOMAIN g : g[k] = g[m] => k = m
      /\ (\A k \in DOMAIN h : h[k] < b.event) /\ (\A k, m \in DOMAIN h : k < m => h[k] < h[m])
           => \A k, m \in DOMAIN g : k < m => g[k] < g[m]
  <2>1. h \in Seq(Nat) /\ g = Append(h, b.event) /\ b.event \in Nat
    <3>1. h = listeners[j].heard /\ g = listeners'[j].heard /\ FormsTyped
      OBVIOUS
    <3>2. j \in DOMAIN listeners /\ b.event \in Nat
      BY ONLY <1>1, <1>2
    <3>3. listeners[j].heard \in Seq(Nat)
      BY ONLY <3>1, <3>2, ListenersAre
    <3> QED
      BY ONLY <1>5, <3>1, <3>2, <3>3, Zenon
  <2>2. Appended(h, b.event, g)
    BY <2>1, AppendKeeps
  <2> QED
    BY ONLY <2>2 DEF Appended
<1>7. \A i \in DOMAIN listeners : \A a :
        Hears(listeners'[i], a) <=> Hears(listeners[i], a) \/ (i = j /\ a = b.event)
  <2> TAKE i \in DOMAIN listeners
  <2> TAKE a
  <2>1. CASE i = j
    <3>1. Hears(listeners'[i], a) <=> \E k \in DOMAIN g : g[k] = a
      BY <2>1 DEF Hears
    <3>2. Hears(listeners[i], a) <=> \E k \in DOMAIN h : h[k] = a
      BY <2>1 DEF Hears
    <3>3. Hears(listeners'[i], a) <=> (Hears(listeners[i], a) \/ a = b.event)
      BY ONLY <1>6, <3>1, <3>2
    <3> QED
      BY ONLY <2>1, <3>3
  <2>2. CASE i # j
    BY ONLY <1>5, <2>2 DEF Hears
  <2> QED
    BY <2>1, <2>2
<1>8. /\ b.event \in 1..Len(told) /\ ~Hears(listeners[j], b.event)
      /\ \A k \in DOMAIN h : h[k] \in 1..Len(told) /\ h[k] # b.event
  <2>1. b.event \in 1..Len(told) /\ ~Hears(listeners[j], b.event)
    <3>1. TellingInv
      OBVIOUS
    <3>2. running[p] = b /\ p \in Telling /\ j \in DOMAIN listeners /\ j = b.next /\ j \in Nat
      BY <1>1, <1>2
    <3>3. /\ running[p].event \in 1..Len(told)
          /\ Hears(listeners[j], running[p].event) <=> j < running[p].next
      BY ONLY <3>1, <3>2, Zenon DEF TellingInv
    <3>4. ~(j < j)
      BY ONLY <3>2
    <3> QED
      BY ONLY <3>2, <3>3, <3>4, Zenon
  <2> QED
    BY <1>2, <1>6, <2>1, Zenon DEF HeardInv, Hears
<1>9. TellingInv'
  <2>1. \A k \in Telling' : /\ running'[k].event \in 1..Len(told)
                             /\ running'[k].next <= Len(listeners) + 1
    <3> TAKE k \in Telling'
    <3>1. running[k].event \in 1..Len(told) /\ running[k].next <= Len(listeners) + 1
      BY <1>4 DEF TellingInv
    <3>2. j + 1 <= Len(listeners) + 1
      BY <1>2
    <3> QED
      BY <1>4, <3>1, <3>2
  <2>2. \A i, k \in Telling' : running'[i].event = running'[k].event => i = k
    BY <1>4 DEF TellingInv
  <2>3. \A k \in Telling', i \in DOMAIN listeners :
          Hears(listeners'[i], running'[k].event) <=> i < running'[k].next
    <3> TAKE k \in Telling', i \in DOMAIN listeners
    <3>1. Hears(listeners[i], running[k].event) <=> i < running[k].next
      BY <1>4 DEF TellingInv
    <3>2. CASE k = p
      <4>1. Hears(listeners'[i], b.event) <=> i < j \/ i = j
        BY <1>7, <3>1, <3>2
      <4>2. running'[k].event = b.event /\ running'[k].next = j + 1
        BY <1>4, <3>2
      <4>3. i < j + 1 <=> i < j \/ i = j
        BY <1>2
      <4>4. Hears(listeners'[i], running'[k].event) <=> Hears(listeners'[i], b.event)
        BY <4>2 DEF Hears
      <4> QED
        BY <4>1, <4>2, <4>3, <4>4
    <3>3. CASE k # p
      <4>1. running[k].event # b.event
        BY <1>1, <1>4, <3>3 DEF TellingInv
      <4>2. Hears(listeners'[i], running[k].event) <=> Hears(listeners[i], running[k].event)
        <5> PICK a : a = running[k].event
          OBVIOUS
        <5>1. Hears(listeners'[i], a) <=> Hears(listeners[i], a)
          BY <1>7, <4>1
        <5>2. running'[k].event = a
          BY <1>4
        <5> QED
          BY <1>5, <1>7, <4>1, <5>1, <5>2 DEF Hears
      <4>3. Hears(listeners'[i], running[k].event) <=> Hears(listeners'[i], running'[k].event)
        BY <1>4 DEF Hears
      <4> QED
        BY <1>4, <3>1, <3>3, <4>2
    <3> QED
      BY <3>2, <3>3
  <2> QED
    BY ONLY <1>2, <1>5, <2>1, <2>2, <2>3, Zenon DEF TellingInv
<1>10. HeardInv'
  <2> SUFFICES ASSUME NEW i \in DOMAIN listeners
               PROVE  /\ \A k \in DOMAIN listeners'[i].heard : listeners'[i].heard[k] \in 1..Len(told)
                      /\ \A k, m \in DOMAIN listeners'[i].heard :
                           listeners'[i].heard[k] = listeners'[i].heard[m] => k = m
                      /\ listeners'[i].since <= Len(told)
                      /\ \A a \in listeners'[i].since + 1..Len(told) :
                           Hears(listeners'[i], a) \/ \E k \in Telling' : running'[k].event = a
    <3>1. told' = told /\ DOMAIN listeners' = DOMAIN listeners
      BY ONLY <1>2, <1>5
    <3> QED
      BY <3>1, Zenon DEF HeardInv
  <2>1. /\ \A k \in DOMAIN listeners'[i].heard : listeners'[i].heard[k] \in 1..Len(told)
        /\ \A k, m \in DOMAIN listeners'[i].heard :
             listeners'[i].heard[k] = listeners'[i].heard[m] => k = m
    <3>1. CASE i = j
      <4>1. \A k, m \in DOMAIN h : h[k] = h[m] => k = m
        BY <1>2 DEF HeardInv
      <4>2. \A k, m \in DOMAIN g : g[k] = g[m] => k = m
        BY ONLY <1>6, <1>8, <4>1
      <4>3. \A k \in DOMAIN g : g[k] \in 1..Len(told)
        BY ONLY <1>6, <1>8
      <4>4. g = listeners'[i].heard
        BY <3>1
      <4> QED
        BY ONLY <4>2, <4>3, <4>4
    <3>2. CASE i # j
      <4>1. listeners'[i] = listeners[i]
        BY <1>5, <3>2
      <4>2. HeardInv
        OBVIOUS
      <4> QED
        BY <4>1, <4>2 DEF HeardInv
    <3> QED
      BY <3>1, <3>2
  <2>2. listeners'[i].since <= Len(told)
    BY <1>5, Zenon DEF HeardInv
  <2>3. \A a \in listeners'[i].since + 1..Len(told) :
          Hears(listeners'[i], a) \/ \E k \in Telling' : running'[k].event = a
    <3>1. \A a \in listeners[i].since + 1..Len(told) :
            Hears(listeners[i], a) \/ \E k \in Telling : running[k].event = a
      BY DEF HeardInv
    <3>2. listeners'[i].since = listeners[i].since
      BY <1>5
    <3> QED
      BY ONLY <1>4, <1>7, <3>1, <3>2
  <2> QED
    BY <2>1, <2>2, <2>3
<1>11. FirstInv'
  <2>1. \A k \in Telling' : running'[k].next # 1
    <3>1. j + 1 # 1
      BY <1>2
    <3>2. \A k \in Telling : k # p => running[k].next # 1
      BY DEF FirstInv
    <3> QED
      BY <1>4, <3>1, <3>2
  <2>2. 1 \in DOMAIN listeners /\ listeners # <<>> /\ listeners' # <<>>
    BY ONLY <1>2, <1>5
  <2>3. \A k \in Telling' : listeners'[1].since < running'[k].event
    BY <1>4, <1>5, <2>2 DEF FirstInv
  <2>4. /\ \A k \in DOMAIN listeners'[1].heard : listeners'[1].since < listeners'[1].heard[k]
        /\ \A k, m \in DOMAIN listeners'[1].heard :
             k < m => listeners'[1].heard[k] < listeners'[1].heard[m]
    <3>1. CASE j = 1
      <4>1. listeners[1].since < b.event
        BY <1>1, <2>2 DEF FirstInv
      <4>2. b.event = Len(told)
        BY <1>1, <3>1 DEF FirstInv
      <4>3. \A k \in DOMAIN h : listeners[1].since < h[k]
        BY <2>2, <3>1 DEF FirstInv
      <4>4. \A k, m \in DOMAIN h : k < m => h[k] < h[m]
        BY <2>2, <3>1 DEF FirstInv
      <4>5. \A k \in DOMAIN h : h[k] < b.event
        BY <1>1, <1>8, <4>2
      <4>6. listeners'[1].since = listeners[1].since /\ g = listeners'[1].heard
        BY <1>5, <2>2, <3>1
      <4>7. \A k \in DOMAIN g : listeners'[1].since < g[k]
        <5> TAKE k \in DOMAIN g
        <5>1. (\E i \in DOMAIN h : h[i] = g[k]) \/ g[k] = b.event
          BY ONLY <1>6
        <5> QED
          BY ONLY <4>1, <4>3, <4>6, <5>1
      <4>8. \A k, m \in DOMAIN g : k < m => g[k] < g[m]
        BY ONLY <1>6, <4>4, <4>5
      <4> QED
        BY ONLY <4>6, <4>7, <4>8
    <3>2. CASE j # 1
      BY <1>5, <2>2, <3>2 DEF FirstInv
    <3> QED
      BY <3>1, <3>2
  <2> QED
    BY <2>1, <2>2, <2>3, <2>4 DEF FirstInv
<1>12. \A k \in DOMAIN running' : CycleHolds(running'[k])
  BY <1>1, <1>3 DEF CycleInv, CycleHolds
<1> QED
  BY <1>3, <1>5, <1>9, <1>10, <1>11, <1>12

(* Whoever registers has missed what was told before, and nothing else.    *)
LEMMA ListenerComes ==
  ASSUME FormsInv, Forms!RegisterListener
  PROVE  FormsInv'
<1> USE DEF FormsInv
<1> PICK n : n = Len(listeners) + 1
  OBVIOUS
<1> PICK new : new = [heard |-> <<>>, since |-> Len(told)]
  OBVIOUS
<1>1. /\ n \in Nat \ {0} /\ DOMAIN listeners = 1..n - 1 /\ Len(listeners) = n - 1
      /\ listeners \in Seq(ListenerOf) /\ Len(told) \in Nat /\ new \in ListenerOf
  BY ListenersAre DEF FormsTyped, ListenerOf
<1>2. /\ UNCHANGED <<currentForm, transformationCount, depth, running, told, returned>>
      /\ listeners' = Append(listeners, new) /\ Forms!OutsideRuns
  BY DEF Forms!RegisterListener
<1>3. /\ listeners' \in Seq(ListenerOf) /\ Len(listeners') = n /\ DOMAIN listeners' = 1..n
      /\ listeners'[n] = new /\ \A i \in 1..n - 1 : listeners'[i] = listeners[i]
  BY <1>1, <1>2
<1>4. Telling' = Telling
  BY <1>2 DEF Telling
<1>5. /\ \A i \in 1..n - 1 : \A a : Hears(listeners'[i], a) <=> Hears(listeners[i], a)
      /\ \A a : ~Hears(listeners'[n], a)
  BY <1>1, <1>3 DEF Hears
<1>6. \A k \in Telling : running[k].next \in Nat /\ running[k].next <= n /\ running[k].event \in Nat
  <2> TAKE k \in Telling
  <2>1. running[k] \in FrameOf /\ running[k].call = "broadcast"
    BY DEF Telling, FormsTyped
  <2> QED
    BY <1>1, <2>1, FramesAre DEF TellingInv
<1>7. TellingInv'
  <2>1. \A k \in Telling, i \in 1..n : Hears(listeners'[i], running[k].event) <=> i < running[k].next
    <3> TAKE k \in Telling, i \in 1..n
    <3>1. CASE i = n
      <4>1. ~Hears(listeners'[n], running[k].event)
        BY <1>3 DEF Hears
      <4> QED
        BY <1>1, <1>6, <3>1, <4>1
    <3>2. CASE i # n
      <4>1. i \in 1..n - 1
        BY <1>1, <3>2
      <4>2. Hears(listeners'[i], running[k].event) <=> Hears(listeners[i], running[k].event)
        BY <1>2, <1>3, <4>1 DEF Hears
      <4> QED
        BY <1>1, <4>1, <4>2 DEF TellingInv
    <3> QED
      BY <3>1, <3>2
  <2>2. \A k \in Telling : running[k].event \in 1..Len(told) /\ running[k].next <= n + 1
    BY <1>1, <1>6 DEF TellingInv
  <2>3. \A i, k \in Telling : running[i].event = running[k].event => i = k
    BY DEF TellingInv
  <2> QED
    BY <1>2, <1>3, <1>4, <2>1, <2>2, <2>3 DEF TellingInv
<1>8. HeardInv'
  <2> SUFFICES ASSUME NEW i \in 1..n
               PROVE  /\ \A k \in DOMAIN listeners'[i].heard : listeners'[i].heard[k] \in 1..Len(told)
                      /\ \A k, m \in DOMAIN listeners'[i].heard :
                           listeners'[i].heard[k] = listeners'[i].heard[m] => k = m
                      /\ listeners'[i].since <= Len(told)
                      /\ \A a \in listeners'[i].since + 1..Len(told) :
                           Hears(listeners'[i], a) \/ \E k \in Telling' : running'[k].event = a
    BY <1>2, <1>3 DEF HeardInv
  <2>1. CASE i = n
    <3>1. listeners'[i].heard = <<>> /\ listeners'[i].since = Len(told) /\ DOMAIN listeners'[i].heard = {}
      BY <1>3, <2>1
    <3>2. listeners'[i].since + 1..Len(told) = {}
      BY <1>1, <3>1
    <3> QED
      BY <1>1, <3>1, <3>2
  <2>2. CASE i # n
    <3>1. i \in 1..n - 1 /\ listeners'[i] = listeners[i]
      BY <1>1, <1>3, <2>2
    <3> QED
      BY <1>1, <1>2, <1>4, <1>5, <3>1 DEF HeardInv
  <2> QED
    BY <2>1, <2>2
<1>9. FirstInv'
  <2>1. CASE n = 1
    <3>1. listeners = <<>>
      BY <1>1, <2>1
    <3>2. running = <<>>
      <4>1. ASSUME running # <<>> PROVE FALSE
        <5>1. running[Len(running)].call = "listener"
          BY <1>2, <4>1, TopFrame, FramesAre DEF Forms!OutsideRuns, Forms!Running
        <5> QED
          BY <3>1, <4>1, <5>1, TopFrame DEF FirstInv
      <4> QED
        BY <4>1
    <3>3. Telling = {} /\ DOMAIN running = {}
      BY <3>2 DEF Telling
    <3>4. listeners'[1].heard = <<>> /\ DOMAIN listeners'[1].heard = {}
      BY <1>3, <2>1
    <3> QED
      BY <1>2, <1>4, <3>3, <3>4 DEF FirstInv
  <2>2. CASE n # 1
    <3>1. 1 \in 1..n - 1 /\ listeners # <<>> /\ listeners'[1] = listeners[1]
      BY <1>1, <1>3, <2>2
    <3> QED
      BY <1>2, <1>4, <3>1 DEF FirstInv
  <2> QED
    BY <2>1, <2>2
<1>10. CountsInv' /\ CycleInv'
  BY <1>2 DEF CountsInv, CycleInv, Shift, Forms!CycleDependsOnSize, CycleHolds
<1>11. FormsTyped'
  BY <1>2, <1>3 DEF FormsTyped
<1> QED
  BY <1>7, <1>8, <1>9, <1>10, <1>11

(* What is told next to the events told so far.                            *)
LEMMA ToldNext ==
  ASSUME FormsTyped, NEW e \in EventOf, told' = Append(told, e)
  PROVE  /\ Len(told) \in Nat /\ DOMAIN told = 1..Len(told) /\ DOMAIN told' = 1..Len(told) + 1
         /\ told'[Len(told) + 1] = e
         /\ \A k \in 1..Len(told) : told'[k] = told[k] /\ told[k] \in EventOf
         /\ \A k \in 1..Len(told) + 1 : k \in 1..Len(told) \/ k = Len(told) + 1
BY DEF FormsTyped

LEMMA MorphCounts ==
  ASSUME FormsTyped, CountsInv, NEW e \in EventOf, told' = Append(told, e),
         transformationCount' = transformationCount + 1,
         e.type = "TRANSFORMATION", e.form = currentForm', e.count = transformationCount'
  PROVE  CountsInv'
<1> PICK n : n = Len(told)
  OBVIOUS
<1>1. /\ n \in Nat /\ DOMAIN told = 1..n /\ DOMAIN told' = 1..n + 1 /\ told'[n + 1] = e
      /\ \A k \in 1..n : told'[k] = told[k] /\ told[k] \in EventOf
      /\ \A k \in 1..n + 1 : k \in 1..n \/ k = n + 1
  BY ToldNext
<1>2. transformationCount \in Nat /\ \A k \in 1..n : told[k].count \in Nat
  BY <1>1 DEF FormsTyped, EventOf
<1>3. \A k \in 1..n : Shift(k) => told[k].count <= transformationCount
  BY <1>1 DEF CountsInv
<1>4. /\ \A k \in 1..n : Shift(k)' <=> Shift(k)
      /\ Shift(n + 1)'
  BY <1>1 DEF Shift
<1>5. \A k \in DOMAIN told' : Shift(k)' => told'[k].count <= transformationCount'
  BY <1>1, <1>2, <1>3, <1>4
<1>6. \A d, k \in DOMAIN told' :
        Shift(d)' /\ Shift(k)' /\ d < k => told'[d].count < told'[k].count
  <2> SUFFICES ASSUME NEW d \in 1..n + 1, NEW k \in 1..n + 1, Shift(d)', Shift(k)', d < k
               PROVE  told'[d].count < told'[k].count
    BY <1>1
  <2>1. d \in 1..n /\ Shift(d) /\ told'[d] = told[d]
    BY <1>1, <1>4
  <2>2. CASE k = n + 1
    BY <1>1, <1>2, <1>3, <2>1, <2>2
  <2>3. CASE k \in 1..n
    BY <1>1, <1>4, <2>1, <2>3 DEF CountsInv
  <2> QED
    BY <1>1, <2>2, <2>3
<1>7. \A k \in DOMAIN told' :
        Shift(k)' /\ (\A d \in DOMAIN told' : Shift(d)' => d <= k) =>
          told'[k].form = currentForm' /\ told'[k].count = transformationCount'
  <2> SUFFICES ASSUME NEW k \in 1..n + 1, n + 1 <= k
               PROVE  told'[k].form = currentForm' /\ told'[k].count = transformationCount'
    BY <1>1, <1>4
  <2> QED
    BY <1>1
<1> QED
  BY <1>5, <1>6, <1>7 DEF CountsInv, Shift

LEMMA AnnounceCounts ==
  ASSUME FormsTyped, CountsInv, NEW e \in EventOf, told' = Append(told, e),
         UNCHANGED <<currentForm, transformationCount>>, e.type # "TRANSFORMATION"
  PROVE  CountsInv'
<1> PICK n : n = Len(told)
  OBVIOUS
<1>1. /\ n \in Nat /\ DOMAIN told = 1..n /\ DOMAIN told' = 1..n + 1 /\ told'[n + 1] = e
      /\ \A k \in 1..n : told'[k] = told[k]
      /\ \A k \in 1..n + 1 : k \in 1..n \/ k = n + 1
  BY ToldNext
<1>2. \A k \in DOMAIN told' : Shift(k)' <=> k \in DOMAIN told /\ Shift(k)
  BY <1>1 DEF Shift
<1>3. \A k \in DOMAIN told' : Shift(k)' => k \in DOMAIN told /\ Shift(k) /\ told'[k] = told[k]
  BY <1>1, <1>2
<1>4. \A k \in DOMAIN told : Shift(k) => k \in DOMAIN told' /\ Shift(k)'
  BY <1>1, <1>2
<1> QED
  BY <1>3, <1>4 DEF CountsInv, Shift

(* A transformation, and another event, of a step that keeps the rest.     *)
LEMMA MorphOver ==
  ASSUME FormsInv, NEW stack, StackOver(stack), NEW form \in Forms!Forms,
         Forms!Running # "broadcast", Forms!Morph(stack, form),
         UNCHANGED <<listeners, returned>>, depth' \in Nat
  PROVE  FormsInv'
<1>1. transformationCount \in Nat /\ transformationCount' = transformationCount + 1
      /\ currentForm' = form
  BY DEF FormsInv, FormsTyped, Forms!Morph
<1> PICK e : e = [type |-> "TRANSFORMATION", form |-> form, count |-> transformationCount + 1]
  OBVIOUS
<1>2. e \in EventOf /\ Forms!Broadcast(stack, e) /\ told' = Append(told, e)
  <2>1. Forms!Broadcast(stack, [type |-> "TRANSFORMATION", form |-> form,
                                count |-> transformationCount'])
    BY DEF Forms!Morph
  <2>2. Forms!Broadcast(stack, e)
    BY <1>1, <2>1
  <2>3. e \in EventOf
    BY <1>1 DEF EventOf
  <2> QED
    BY <2>2, <2>3 DEF Forms!Broadcast
<1>3. e.type = "TRANSFORMATION" /\ e.form = currentForm' /\ e.count = transformationCount'
  BY <1>1
<1>4. CountsInv'
  BY <1>1, <1>2, <1>3, MorphCounts DEF FormsInv
<1>5. /\ running' \in Seq(FrameOf) /\ told' \in Seq(EventOf)
      /\ TellingInv' /\ HeardInv' /\ FirstInv'
      /\ \A k \in DOMAIN running' : CycleHolds(running'[k])
  BY <1>2, BroadcastOver
<1>6. FormsTyped'
  BY <1>1, <1>5 DEF FormsInv, FormsTyped
<1>7. Forms!CycleDependsOnSize'
  BY DEF FormsInv, CycleInv, Forms!CycleDependsOnSize
<1> QED
  BY <1>4, <1>5, <1>6, <1>7 DEF FormsInv, CycleInv, CycleHolds

LEMMA AnnounceOver ==
  ASSUME FormsInv, NEW stack, StackOver(stack), NEW type \in OtherEvents,
         Forms!Running # "broadcast", Forms!Announce(stack, type),
         UNCHANGED <<currentForm, transformationCount, listeners, returned>>, depth' \in Nat
  PROVE  FormsInv'
<1> PICK e : e = [type |-> type, form |-> currentForm, count |-> transformationCount]
  OBVIOUS
<1>1. currentForm \in Forms!Forms /\ transformationCount \in Nat
  BY DEF FormsInv, FormsTyped
<1>2. e \in EventOf /\ Forms!Broadcast(stack, e) /\ told' = Append(told, e)
  BY <1>1 DEF EventOf, Forms!Announce, Forms!Broadcast
<1>3. e.type # "TRANSFORMATION"
  BY DEF OtherEvents
<1>4. CountsInv'
  BY <1>2, <1>3, AnnounceCounts DEF FormsInv
<1>5. /\ running' \in Seq(FrameOf) /\ told' \in Seq(EventOf)
      /\ TellingInv' /\ HeardInv' /\ FirstInv'
      /\ \A k \in DOMAIN running' : CycleHolds(running'[k])
  BY <1>2, BroadcastOver
<1>6. FormsTyped'
  BY <1>1, <1>5 DEF FormsInv, FormsTyped
<1>7. Forms!CycleDependsOnSize'
  BY DEF FormsInv, CycleInv, Forms!CycleDependsOnSize
<1> QED
  BY <1>4, <1>5, <1>6, <1>7 DEF FormsInv, CycleInv, CycleHolds

LEMMA PopOver ==
  ASSUME FormsInv, running # <<>>, running' = Forms!Front(running),
         UNCHANGED <<currentForm, transformationCount, depth, told, listeners>>,
         Len(running) \in Telling => running[Len(running)].next > Len(listeners),
         Forms!CycleDependsOnSize'
  PROVE  FormsInv'
<1>1. /\ running' \in Seq(FrameOf)
      /\ TellingInv' /\ HeardInv' /\ FirstInv'
      /\ \A k \in DOMAIN running' : CycleHolds(running'[k])
  BY FramePopped
<1>2. FormsTyped' /\ CountsInv'
  BY <1>1 DEF FormsInv, FormsTyped, CountsInv, Shift
<1> QED
  BY <1>1, <1>2 DEF FormsInv, CycleInv, CycleHolds

(* The stacks on which something is broadcast.                             *)
LEMMA OutsideStack ==
  ASSUME FormsInv
  PROVE  StackOver(running)
BY DEF FormsInv, FormsTyped, StackOver, Telling, CycleInv

LEMMA CycleStack ==
  ASSUME FormsInv, NEW size \in PayloadSizes
  PROVE  StackOver(Append(running, [call |-> "cycle", size |-> size, at |-> "bounds"]))
<1> PICK f : f = [call |-> "cycle", size |-> size, at |-> "bounds"]
  OBVIOUS
<1> PICK stack : stack = Append(running, f)
  OBVIOUS
<1>1. f \in FrameOf /\ CycleHolds(f) /\ f.call = "cycle"
  BY DEF FrameOf, CycleHolds
<1>2. running \in Seq(FrameOf)
  BY DEF FormsInv, FormsTyped
<1>3. /\ Len(running) \in Nat /\ DOMAIN running = 1..Len(running)
      /\ stack \in Seq(FrameOf) /\ DOMAIN stack = 1..Len(running) + 1
      /\ stack[Len(running) + 1] = f /\ \A k \in 1..Len(running) : stack[k] = running[k]
  BY <1>1, <1>2
<1>4. \A k \in 1..Len(running) + 1 : k \in 1..Len(running) \/ k = Len(running) + 1
  BY <1>3
<1>5. \A k \in Telling : k \in DOMAIN stack /\ stack[k] = running[k]
  BY <1>3 DEF Telling
<1>6. \A k \in DOMAIN stack :
        /\ stack[k].call = "broadcast" => k \in Telling
        /\ stack[k].call = "listener" => k \in DOMAIN running /\ running[k].call = "listener"
        /\ CycleHolds(stack[k])
  BY <1>1, <1>3, <1>4 DEF FormsInv, CycleInv, Telling
<1> QED
  BY <1>3, <1>5, <1>6 DEF StackOver

LEMMA CycleIsOn ==
  ASSUME FormsInv, Forms!Running = "cycle"
  PROVE  /\ running # <<>> /\ Forms!Last(running) = running[Len(running)]
         /\ Forms!Last(running) \in FrameOf /\ Forms!Last(running).call = "cycle"
         /\ Len(running) \in DOMAIN running
         /\ Len(running) \notin Telling
<1>1. running # <<>>
  BY DEF Forms!Running
<1> QED
  BY <1>1, TopFrame DEF FormsInv, Forms!Running, Telling

LEMMA GoOnStack ==
  ASSUME FormsInv, Forms!Running = "cycle",
         NEW place \in {"dup", "beta", "omega", "complete", "done", "refused"},
         (place # "refused") <=> Forms!WithinCapacity(Forms!Last(running).size)
  PROVE  StackOver(Forms!GoOn(place))
<1> PICK c : c = Forms!Last(running)
  OBVIOUS
<1> PICK f : f = [call |-> "cycle", size |-> c.size, at |-> place]
  OBVIOUS
<1> PICK stack : stack = Forms!GoOn(place)
  OBVIOUS
<1>1. running # <<>> /\ c \in FrameOf /\ c.call = "cycle" /\ Len(running) \notin Telling
  BY CycleIsOn
<1>2. c.size \in PayloadSizes /\ [c EXCEPT !.at = place] = f
  <2>1. c.size \in PayloadSizes /\ c = [call |-> "cycle", size |-> c.size, at |-> c.at]
    BY <1>1, FramesAre
  <2> QED
    BY <2>1
<1>3. f \in FrameOf /\ f.call = "cycle"
  BY <1>2 DEF FrameOf
<1>4. CycleHolds(f)
  BY DEF CycleHolds
<1>5. stack = Forms!Front(running) \o <<f>>
  BY <1>2 DEF Forms!GoOn
<1>6. /\ stack \in Seq(FrameOf) /\ Len(stack) = Len(running)
      /\ DOMAIN stack = 1..Len(running)
      /\ stack[Len(running)] = f
      /\ \A k \in 1..Len(running) - 1 : stack[k] = running[k]
  <2>1. FormsTyped /\ running # <<>> /\ stack = Forms!Front(running) \o <<f>>
    BY <1>1, <1>5 DEF FormsInv
  <2>2. f \in FrameOf
    BY <1>3
  <2>3. Replaced(stack, f)
    BY ONLY <2>1, <2>2, TopReplaced
  <2> QED
    BY ONLY <2>3 DEF Replaced
<1>7. /\ Len(running) \in Nat \ {0} /\ DOMAIN running = 1..Len(running)
      /\ \A k \in 1..Len(running) : k \in 1..Len(running) - 1 \/ k = Len(running)
  <2> PICK n : n = Len(running)
    OBVIOUS
  <2>1. n \in Nat \ {0} /\ DOMAIN running = 1..n
    BY <1>1, TopFrame DEF FormsInv
  <2>2. \A k \in 1..n : k \in 1..n - 1 \/ k = n
    BY ONLY <2>1
  <2> QED
    BY <2>1, <2>2
<1>8. \A k \in Telling : k \in DOMAIN stack /\ stack[k] = running[k]
  BY <1>1, <1>6, <1>7 DEF Telling
<1>9. \A k \in DOMAIN stack :
        /\ stack[k].call = "broadcast" => k \in Telling
        /\ stack[k].call = "listener" => k \in DOMAIN running /\ running[k].call = "listener"
        /\ CycleHolds(stack[k])
  BY <1>3, <1>4, <1>6, <1>7 DEF FormsInv, CycleInv, Telling
<1> QED
  BY <1>6, <1>8, <1>9 DEF StackOver

LEMMA NextForms ==
  ASSUME FormsInv, [Forms!Next]_formVars
  PROVE  FormsInv'
<1>1. ASSUME NEW form \in Forms!Forms, Forms!Transform(form)
      PROVE  FormsInv'
  <2>1. Forms!Running # "broadcast" /\ Forms!Morph(running, form)
        /\ UNCHANGED <<depth, listeners, returned>>
    BY <1>1 DEF Forms!Transform, Forms!Asked, Forms!OutsideRuns
  <2>2. depth' \in Nat
    BY <2>1 DEF FormsInv, FormsTyped
  <2> QED
    BY <2>1, <2>2, MorphOver, OutsideStack
<1>2. ASSUME NEW size \in PayloadSizes, Forms!ExecuteInfinityLoopCycle(size)
      PROVE  FormsInv'
  <2> PICK stack : stack = Append(running, [call |-> "cycle", size |-> size, at |-> "bounds"])
    OBVIOUS
  <2>1. /\ Forms!Running # "broadcast" /\ Forms!Announce(stack, "SESSION_START")
        /\ UNCHANGED <<currentForm, transformationCount, depth, listeners, returned>>
    BY <1>2 DEF Forms!ExecuteInfinityLoopCycle, Forms!Asked, Forms!OutsideRuns
  <2>2. depth' \in Nat /\ StackOver(stack)
    BY <2>1, CycleStack DEF FormsInv, FormsTyped
  <2>3. "SESSION_START" \in OtherEvents
    BY DEF OtherEvents
  <2> QED
    BY <2>1, <2>2, <2>3, AnnounceOver
<1>3. CASE Forms!Deliver
  <2>1. /\ running' \in Seq(FrameOf) /\ listeners' \in Seq(ListenerOf)
        /\ TellingInv' /\ HeardInv' /\ FirstInv'
        /\ \A k \in DOMAIN running' : CycleHolds(running'[k])
    BY <1>3, ListenerHears
  <2>2. UNCHANGED <<currentForm, transformationCount, depth, told, returned>>
    BY <1>3 DEF Forms!Deliver
  <2>3. FormsTyped' /\ CountsInv' /\ Forms!CycleDependsOnSize'
    BY <2>1, <2>2 DEF FormsInv, FormsTyped, CountsInv, Shift, CycleInv, Forms!CycleDependsOnSize
  <2> QED
    BY <2>1, <2>3 DEF FormsInv, CycleInv, CycleHolds
<1>4. CASE Forms!ListenerEnds
  <2>1. /\ running # <<>> /\ running' = Forms!Front(running) /\ Forms!Last(running).call = "listener"
        /\ UNCHANGED <<currentForm, transformationCount, depth, told, listeners, returned>>
    BY <1>4 DEF Forms!ListenerEnds, Forms!Running
  <2>2. Len(running) \notin Telling
    BY <2>1, TopFrame DEF FormsInv, Telling
  <2>3. Forms!CycleDependsOnSize'
    BY <2>1 DEF FormsInv, CycleInv, Forms!CycleDependsOnSize
  <2> QED
    BY <2>1, <2>2, <2>3, PopOver
<1>5. CASE Forms!BroadcastEnds
  <2>1. /\ running # <<>> /\ running' = Forms!Front(running)
        /\ Forms!Last(running).next > Len(listeners)
        /\ UNCHANGED <<currentForm, transformationCount, depth, told, listeners, returned>>
    BY <1>5 DEF Forms!BroadcastEnds, Forms!Running
  <2>2. running[Len(running)].next > Len(listeners)
    BY <2>1, TopFrame DEF FormsInv
  <2>3. Forms!CycleDependsOnSize'
    BY <2>1 DEF FormsInv, CycleInv, Forms!CycleDependsOnSize
  <2> QED
    BY <2>1, <2>2, <2>3, PopOver
<1>6. CASE Forms!UseScript
  <2>1. UNCHANGED <<currentForm, transformationCount, running, told, listeners, returned>>
    BY <1>6 DEF Forms!UseScript
  <2>2. depth' \in Nat
    BY <1>6 DEF Forms!UseScript, Forms!AfterDup, Forms!AfterEqualVerify, Forms!AfterCheckSig,
       Forms!AfterHash160, FormsInv, FormsTyped
  <2> QED
    BY <2>1, <2>2 DEF FormsInv, FormsTyped, TellingInv, Telling, HeardInv, FirstInv, CountsInv,
       Shift, CycleInv, Forms!CycleDependsOnSize
<1>7. CASE Forms!CheckBounds
  <2>1. /\ Forms!Running = "cycle" /\ UNCHANGED <<depth, listeners, returned>>
        /\ IF Forms!WithinCapacity(Forms!Last(running).size)
           THEN Forms!Morph(Forms!GoOn("dup"), "ALPHA_SCRIPT")
           ELSE /\ Forms!Announce(Forms!GoOn("refused"), "SECURITY_ALERT")
                /\ UNCHANGED <<currentForm, transformationCount>>
    BY <1>7 DEF Forms!CheckBounds, Forms!CycleAt
  <2>2. depth' \in Nat /\ Forms!Running # "broadcast" /\ "ALPHA_SCRIPT" \in Forms!Forms
    BY <2>1 DEF FormsInv, FormsTyped, Forms!Forms
  <2>3. CASE Forms!WithinCapacity(Forms!Last(running).size)
    <3>1. StackOver(Forms!GoOn("dup"))
      BY <2>1, <2>3, GoOnStack
    <3> QED
      BY <2>1, <2>2, <2>3, <3>1, MorphOver
  <2>4. CASE ~Forms!WithinCapacity(Forms!Last(running).size)
    <3>1. StackOver(Forms!GoOn("refused"))
      BY <2>1, <2>4, GoOnStack
    <3>2. "SECURITY_ALERT" \in OtherEvents
      BY DEF OtherEvents
    <3> QED
      BY <2>1, <2>2, <2>4, <3>1, <3>2, AnnounceOver
  <2> QED
    BY <2>3, <2>4
<1>8. ASSUME NEW from \in {"dup", "beta", "omega", "complete"}, Forms!CycleAt(from)
      PROVE  /\ Forms!Running = "cycle" /\ Forms!Running # "broadcast"
             /\ \A place \in {"beta", "omega", "complete", "done"} : StackOver(Forms!GoOn(place))
  <2>1. Forms!Running = "cycle" /\ Forms!Last(running).at = from
    BY <1>8 DEF Forms!CycleAt
  <2>2. CycleHolds(Forms!Last(running)) /\ Forms!Last(running).call = "cycle"
    BY <2>1, CycleIsOn DEF FormsInv, CycleInv
  <2>3. Forms!WithinCapacity(Forms!Last(running).size)
    BY <2>1, <2>2 DEF CycleHolds
  <2> QED
    BY <2>1, <2>3, GoOnStack
<1>9. CASE Forms!PushAndDup
  <2>1. depth \in Nat
    BY DEF FormsInv, FormsTyped
  <2>2. /\ Forms!CycleAt("dup") /\ Forms!Morph(Forms!GoOn("beta"), "BETA_VAULT")
        /\ UNCHANGED <<listeners, returned>>
    BY <1>9, <2>1 DEF Forms!PushAndDup
  <2>3. depth' \in Nat /\ "BETA_VAULT" \in Forms!Forms
    BY <1>9, <2>1 DEF Forms!PushAndDup, Forms!AfterDup, Forms!Forms
  <2> QED
    BY <1>8, <2>2, <2>3, MorphOver
<1>10. CASE Forms!Beta
  <2>1. /\ Forms!CycleAt("beta") /\ Forms!Announce(Forms!GoOn("omega"), "VAULT_LOG")
        /\ UNCHANGED <<currentForm, transformationCount, depth, listeners, returned>>
    BY <1>10 DEF Forms!Beta
  <2>2. depth' \in Nat
    BY <2>1 DEF FormsInv, FormsTyped
  <2>3. "VAULT_LOG" \in OtherEvents
    BY DEF OtherEvents
  <2> QED
    BY <1>8, <2>1, <2>2, <2>3, AnnounceOver
<1>11. CASE Forms!Omega
  <2>1. /\ Forms!CycleAt("omega") /\ Forms!Morph(Forms!GoOn("complete"), "OMEGA_INFINITY")
        /\ UNCHANGED <<depth, listeners, returned>>
    BY <1>11 DEF Forms!Omega
  <2>2. depth' \in Nat /\ "OMEGA_INFINITY" \in Forms!Forms
    BY <2>1 DEF FormsInv, FormsTyped, Forms!Forms
  <2> QED
    BY <1>8, <2>1, <2>2, MorphOver
<1>12. CASE Forms!Complete
  <2>1. /\ Forms!CycleAt("complete") /\ Forms!Announce(Forms!GoOn("done"), "SESSION_COMPLETE")
        /\ UNCHANGED <<currentForm, transformationCount, depth, listeners, returned>>
    BY <1>12 DEF Forms!Complete
  <2>2. depth' \in Nat
    BY <2>1 DEF FormsInv, FormsTyped
  <2>3. "SESSION_COMPLETE" \in OtherEvents
    BY DEF OtherEvents
  <2> QED
    BY <1>8, <2>1, <2>2, <2>3, AnnounceOver
<1>13. CASE Forms!CycleReturns
  <2> PICK c : c = Forms!Last(running)
    OBVIOUS
  <2>1. /\ Forms!Running = "cycle" /\ c.at \in {"done", "refused"}
        /\ returned' = returned \cup {[size |-> c.size, ok |-> c.at = "done"]}
        /\ running' = Forms!Front(running)
        /\ UNCHANGED <<currentForm, transformationCount, depth, told, listeners>>
    BY <1>13 DEF Forms!CycleReturns, Forms!CycleAt
  <2>2. running # <<>> /\ Len(running) \notin Telling /\ c.call = "cycle" /\ CycleHolds(c)
    BY <2>1, CycleIsOn DEF FormsInv, CycleInv
  <2>3. (c.at = "done") <=> Forms!WithinCapacity(c.size)
    BY <2>1, <2>2 DEF CycleHolds
  <2>4. Forms!CycleDependsOnSize'
    <3>1. \A r \in returned : r.ok = Forms!WithinCapacity(r.size)
      BY DEF FormsInv, CycleInv, Forms!CycleDependsOnSize
    <3>2. (c.at = "done") = Forms!WithinCapacity(c.size)
      BY <2>3 DEF Forms!WithinCapacity
    <3> QED
      BY <2>1, <3>1, <3>2 DEF Forms!CycleDependsOnSize
  <2> QED
    BY <2>1, <2>2, <2>4, PopOver
<1>14. CASE UNCHANGED formVars
  BY <1>14 DEF formVars, FormsInv, FormsTyped, TellingInv, Telling, HeardInv, FirstInv, CountsInv,
     Shift, CycleInv, Forms!CycleDependsOnSize
<1> QED
  BY <1>1, <1>2, <1>3, <1>4, <1>5, <1>6, <1>7, <1>9, <1>10, <1>11, <1>12, <1>13, <1>14,
     ListenerComes DEF Forms!Next

(* When all calls have returned nobody waits to be told.                   *)
LEMMA EveryListenerServed == FormsInv => ListenersAreServed
<1> SUFFICES ASSUME FormsInv PROVE ListenersAreServed
  OBVIOUS
<1>1. Forms!EveryEventHeardOnce
  <2> SUFFICES ASSUME running = <<>>, NEW i \in DOMAIN listeners
               PROVE  /\ Forms!IsInjective(listeners[i].heard)
                      /\ listeners[i].since + 1..Len(told) \subseteq Forms!ToSet(listeners[i].heard)
    BY DEF Forms!EveryEventHeardOnce, Forms!Quiet
  <2>1. Telling = {}
    BY DEF Telling
  <2>2. Forms!IsInjective(listeners[i].heard)
    BY DEF FormsInv, HeardInv, Forms!IsInjective
  <2> QED
    BY <2>1, <2>2 DEF FormsInv, HeardInv, Hears, Forms!ToSet
<1>2. Forms!FirstListenerIsCurrent
  <2> SUFFICES ASSUME listeners # <<>>
               PROVE  Forms!FirstListenerIsCurrent
    BY DEF Forms!FirstListenerIsCurrent
  <2> PICK h : h = listeners[1].heard
    OBVIOUS
  <2>1. /\ 1 \in DOMAIN listeners /\ listeners[1].since \in Nat
        /\ \A k \in DOMAIN h : h[k] \in 1..Len(told) /\ listeners[1].since < h[k]
        /\ \A k, m \in DOMAIN h : k < m => h[k] < h[m]
        /\ DOMAIN h = 1..Len(h) /\ Len(h) \in Nat
    <3>1. 1 \in DOMAIN listeners
      BY ListenersAre DEF FormsInv, FormsTyped
    <3> QED
      BY <3>1, ListenersAre DEF FormsInv, HeardInv, FirstInv
  <2>2. Len(told) \in Nat /\ DOMAIN told = 1..Len(told)
    BY DEF FormsInv, FormsTyped
  <2>3. \A k, m \in DOMAIN h : Shift(h[k]) /\ Shift(h[m]) /\ k < m => told[h[k]].count < told[h[m]].count
    BY <2>1, <2>2 DEF FormsInv, CountsInv
  <2>4. ASSUME NEW k \in DOMAIN h, Shift(h[k]), running = <<>>,
               \A m \in DOMAIN h : Shift(h[m]) => m <= k
        PROVE  told[h[k]].form = currentForm /\ told[h[k]].count = transformationCount
    <3>1. Telling = {}
      BY <2>4 DEF Telling
    <3>2. \A d \in DOMAIN told : Shift(d) => d <= h[k]
      <4> SUFFICES ASSUME NEW d \in 1..Len(told), Shift(d), h[k] < d PROVE FALSE
        BY <2>1, <2>2
      <4>1. d \in listeners[1].since + 1..Len(told)
        BY <2>1, <2>2
      <4>2. PICK m \in DOMAIN h : h[m] = d
        BY <2>1, <3>1, <4>1 DEF FormsInv, HeardInv, Hears
      <4>3. m <= k
        BY <2>4, <4>2
      <4>4. h[m] <= h[k]
        BY <2>1, <4>3
      <4> QED
        BY <2>1, <2>2, <4>2, <4>4
    <3> QED
      BY <2>1, <2>2, <2>4, <3>2 DEF FormsInv, CountsInv
  <2> QED
    BY <2>1, <2>3, <2>4 DEF Forms!FirstListenerIsCurrent, Forms!Quiet, Shift
<1>3. Forms!CycleDependsOnSize
  BY DEF FormsInv, CycleInv
<1> QED
  BY <1>1, <1>2, <1>3 DEF ListenersAreServed

-----------------------------------------------------------------------------
(* Templates.  A set of natural numbers that is not empty has a least element. *)
LEMMA LeastExists ==
  ASSUME NEW T, T \subseteq Nat, T # {}
  PROVE  \E i \in T : \A j \in T : i <= j
<1> DEFINE R == OpToRel(<, Nat)
<1>1. IsWellFoundedOn(R, Nat)
  BY NatLessThanWellFounded
<1>2. \A i, j \in Nat : j < i => <<j, i>> \in R
  BY DEF OpToRel
<1> HIDE DEF R
<1>3. PICK i \in T : \A j \in T : ~ (<<j, i>> \in R)
  BY <1>1, WFMin
<1>4. \A j \in T : ~ (j < i)
  BY <1>2, <1>3, Zenon
<1> QED
  BY <1>4

(* Induction up to n, over a set, and what it gives: a function defined    *)
(* from one value to the next exists.                                      *)
LEMMA UpTo ==
  ASSUME NEW n \in Nat, NEW A, 0 \in A, \A i \in 1..n : i - 1 \in A => i \in A
  PROVE  \A i \in 0..n : i \in A
<1> PICK D : D = {i \in 0..n : i \notin A}
  OBVIOUS
<1>1. SUFFICES ASSUME D # {} PROVE FALSE
  OBVIOUS
<1>2. D \subseteq Nat
  OBVIOUS
<1>3. PICK m \in D : \A j \in D : m <= j
  BY <1>1, <1>2, LeastExists
<1>4. m \in 1..n /\ m - 1 \in 0..n /\ ~ (m <= m - 1)
  BY <1>2, <1>3
<1> QED
  BY <1>3, <1>4

Row(f, v, D, m) == f[0] = v /\ \A i \in 1..m : f[i] = D[<<f[i - 1], i>>]

LEMMA RowsExist ==
  ASSUME NEW n \in Nat, NEW V, NEW v \in V, NEW D,
         \A x \in V, i \in 1..n : D[<<x, i>>] \in V
  PROVE  \E f \in [0..n -> V] : Row(f, v, D, n)
<1> PICK A : A = {m \in 0..n : \E f \in [0..m -> V] : Row(f, v, D, m)}
  OBVIOUS
<1>1. 0 \in A
  <2>1. [i \in 0..0 |-> v] \in [0..0 -> V] /\ Row([i \in 0..0 |-> v], v, D, 0)
    BY DEF Row
  <2> QED
    BY <2>1
<1>2. ASSUME NEW m \in 1..n, m - 1 \in A
      PROVE  m \in A
  <2>1. PICK f \in [0..m - 1 -> V] : Row(f, v, D, m - 1)
    BY <1>2
  <2>2. m \in 0..n /\ m - 1 \in 0..m - 1 /\ m \notin 0..m - 1 /\ 0 \in 0..m - 1
        /\ 0..m = 0..(m - 1) \cup {m} /\ 1..m = 1..(m - 1) \cup {m}
        /\ \A i \in 1..m : i - 1 \in 0..m - 1
    OBVIOUS
  <2> PICK g : g = [i \in 0..m |-> IF i = m THEN D[<<f[m - 1], m>>] ELSE f[i]]
    OBVIOUS
  <2>3. f[m - 1] \in V
    BY <2>2
  <2>4. D[<<f[m - 1], m>>] \in V
    BY <2>3
  <2>5. g \in [0..m -> V]
    BY <2>2, <2>4
  <2>6. g[m] = D[<<f[m - 1], m>>] /\ \A i \in 0..m - 1 : g[i] = f[i]
    BY <2>2
  <2>7. Row(g, v, D, m)
    <3>1. g[0] = v
      BY <2>1, <2>2, <2>6 DEF Row
    <3>2. g[m] = D[<<g[m - 1], m>>]
      BY <2>2, <2>6
    <3>3. \A i \in 1..m - 1 : g[i] = D[<<g[i - 1], i>>]
      <4>1. \A i \in 1..m - 1 : i \in 0..m - 1 /\ i - 1 \in 0..m - 1
        OBVIOUS
      <4> QED
        BY <2>1, <2>6, <4>1 DEF Row
    <3> QED
      BY <2>2, <3>1, <3>2, <3>3 DEF Row
  <2> QED
    BY <2>2, <2>5, <2>7
<1>3. n \in A
  <2>1. \A i \in 0..n : i \in A
    BY <1>1, <1>2, UpTo
  <2> QED
    BY <2>1
<1> QED
  BY <1>3

(* What references begin and end with. *)
Dollar == "${"
Brace  == "}"

LEMMA EndsDiffer == Dollar # Brace
BY DEF Dollar, Brace

(* Values are texts, no key that leads to one contains a brace, and no type is one. *)
TextHypotheses ==
  /\ \E T : Tokens \subseteq T /\ \A c \in DOMAIN Known : Known[c] \in Seq(T)
  /\ \A c \in DOMAIN Known : \A i \in DOMAIN c : c[i] # Brace
  /\ Brace \notin Types

(* indexOf finds the first place. *)
LEMMA FirstPlace ==
  ASSUME NEW T, NEW text \in Seq(T), NEW token, NEW k \in Nat \ {0}
  PROVE  \/ /\ Params!IndexOf(text, token, k) = 0
            /\ \A i \in k..Len(text) : text[i] # token
         \/ /\ Params!IndexOf(text, token, k) \in k..Len(text)
            /\ text[Params!IndexOf(text, token, k)] = token
            /\ \A i \in k..Params!IndexOf(text, token, k) - 1 : text[i] # token
<1> PICK At : At = {i \in k..Len(text) : text[i] = token}
  OBVIOUS
<1> PICK p : p = Params!IndexOf(text, token, k)
  OBVIOUS
<1>1. p = IF At = {} THEN 0 ELSE CHOOSE i \in At : \A j \in At : i <= j
  BY DEF Params!IndexOf
<1>2. CASE At = {}
  BY <1>1, <1>2
<1>3. CASE At # {}
  <2>1. At \subseteq Nat
    OBVIOUS
  <2>2. \E i \in At : \A j \in At : i <= j
    BY <1>3, <2>1, LeastExists
  <2>3. p \in At /\ \A j \in At : p <= j
    BY <1>1, <1>3, <2>2, Zenon
  <2>4. p \in k..Len(text) /\ text[p] = token
    BY <2>3
  <2>5. \A i \in k..p - 1 : i \in k..Len(text) /\ ~(p <= i)
    BY <2>4
  <2> QED
    BY <2>3, <2>4, <2>5
<1> QED
  BY <1>2, <1>3

LEMMA OnlyPlace ==
  ASSUME NEW T, NEW text \in Seq(T), NEW token, NEW k \in Nat \ {0}, NEW p \in k..Len(text),
         text[p] = token, \A i \in k..p - 1 : text[i] # token
  PROVE  Params!IndexOf(text, token, k) = p
<1> PICK m : m = Params!IndexOf(text, token, k)
  OBVIOUS
<1>1. \/ m = 0 /\ \A i \in k..Len(text) : text[i] # token
      \/ m \in k..Len(text) /\ text[m] = token /\ \A i \in k..m - 1 : text[i] # token
  BY FirstPlace
<1>2. m \in k..Len(text) /\ text[m] = token /\ \A i \in k..m - 1 : text[i] # token
  BY <1>1
<1>3. ~(m < p) /\ ~(p < m)
  BY <1>2
<1> QED
  BY <1>2, <1>3

(* The parts a text is cut into are texts. *)
LEMMA PartIsText ==
  ASSUME NEW T, NEW text \in Seq(T), NEW a \in Nat \ {0}, NEW b \in Int, b <= Len(text)
  PROVE  /\ SubSeq(text, a, b) \in Seq(T)
         /\ Len(SubSeq(text, a, b)) = IF a <= b THEN b - a + 1 ELSE 0
         /\ \A i \in 1..b - a + 1 : SubSeq(text, a, b)[i] = text[a + i - 1]
OBVIOUS

LEMMA ValueIsText ==
  ASSUME NEW T, \A c \in DOMAIN Known : Known[c] \in Seq(T), NEW c
  PROVE  Params!AsText(Params!ResolvePath(c)) \in Seq(T)
BY DEF Params!AsText, Params!ResolvePath

(* Where a reference is. *)
LEMMA RefEnds ==
  ASSUME NEW T, NEW text \in Seq(T), NEW s \in 1..Len(text), NEW e \in 1..Len(text),
         Params!Ref(text, s, e)
  PROVE  /\ e \in s + 1..Len(text) /\ text[s] = Dollar /\ text[e] = Brace
         /\ \A i \in s..e - 1 : text[i] # Brace
         /\ Params!Supported(SubSeq(text, s + 1, e - 1))
<1>1. /\ text[s] = Dollar /\ e = Params!IndexOf(text, Brace, s)
      /\ Params!Supported(SubSeq(text, s + 1, e - 1))
  BY DEF Params!Ref, Brace, Dollar
<1>2. s \in Nat \ {0} /\ e # 0
  OBVIOUS
<1>3. \/ Params!IndexOf(text, Brace, s) = 0
      \/ /\ Params!IndexOf(text, Brace, s) \in s..Len(text)
         /\ text[Params!IndexOf(text, Brace, s)] = Brace
         /\ \A i \in s..Params!IndexOf(text, Brace, s) - 1 : text[i] # Brace
  BY <1>2, FirstPlace
<1>4. e \in s..Len(text) /\ text[e] = Brace /\ \A i \in s..e - 1 : text[i] # Brace
  BY <1>1, <1>2, <1>3
<1>5. Dollar # Brace
  BY EndsDiffer
<1>6. e # s
  BY <1>1, <1>4, <1>5
<1>7. e \in s + 1..Len(text)
  BY <1>2, <1>4, <1>6
<1> QED
  BY <1>1, <1>4, <1>7

LEMMA RefIs ==
  ASSUME NEW T, NEW text \in Seq(T), NEW s \in 1..Len(text), NEW e \in s..Len(text),
         text[s] = Dollar, text[e] = Brace, \A i \in s..e - 1 : text[i] # Brace,
         Params!Supported(SubSeq(text, s + 1, e - 1))
  PROVE  Params!Ref(text, s, e)
<1>1. s \in Nat \ {0}
  OBVIOUS
<1>2. Params!IndexOf(text, Brace, s) = e
  BY <1>1, OnlyPlace
<1> QED
  BY <1>2 DEF Params!Ref, Brace, Dollar

FirstRef(text, s, e) ==
  /\ s \in 1..Len(text) /\ e \in 1..Len(text)
  /\ Params!Ref(text, s, e) /\ \A t \in 1..s - 1 : ~Params!Ref(text, t, e)

LEMMA ReferencesAre ==
  ASSUME NEW T, NEW text \in Seq(T)
  PROVE  /\ \A r \in Params!References(text) :
              r = <<r[1], r[2]>> /\ FirstRef(text, r[1], r[2])
         /\ \A s, e : FirstRef(text, s, e) => <<s, e>> \in Params!References(text)
BY DEF FirstRef, Params!References

(* What a reference is replaced by, and what is left of the other tokens. *)
LEMMA PlainPiece ==
  ASSUME NEW T, NEW text \in Seq(T), NEW i \in 1..Len(text),
         \A s, e \in 1..Len(text) : Params!Ref(text, s, e) => ~(s <= i /\ i <= e)
  PROVE  Params!Piece(text, i) = <<text[i]>>
<1>1. ASSUME NEW r \in Params!References(text), r[1] <= i, i <= r[2] \/ r[1] = i
      PROVE  FALSE
  <2> PICK s, e : s = r[1] /\ e = r[2]
    OBVIOUS
  <2>1. s \in 1..Len(text) /\ e \in 1..Len(text) /\ Params!Ref(text, s, e)
    BY ReferencesAre DEF FirstRef
  <2>2. e \in s + 1..Len(text)
    BY <2>1, RefEnds
  <2> QED
    BY <1>1, <2>1, <2>2
<1>2. \A r \in Params!References(text) : r[1] \in 1..Len(text)
  BY ReferencesAre DEF FirstRef
<1>3. ~\E r \in Params!References(text) : r[1] = i
  BY <1>1, <1>2
<1>4. ~\E r \in Params!References(text) : r[1] < i /\ i <= r[2]
  BY <1>1, <1>2
<1> QED
  BY <1>3, <1>4 DEF Params!Piece

LEMMA RefPiece ==
  ASSUME NEW T, NEW text \in Seq(T), NEW s, NEW e, FirstRef(text, s, e)
  PROVE  Params!Piece(text, s) = Params!AsText(Params!ResolvePath(SubSeq(text, s + 1, e - 1)))
<1> PICK R : R = Params!References(text)
  OBVIOUS
<1>1. <<s, e>> \in R
  BY ReferencesAre
<1>2. ASSUME NEW r \in R, r[1] = s
      PROVE  r = <<s, e>>
  <2>1. r = <<r[1], r[2]>> /\ FirstRef(text, r[1], r[2])
    BY ReferencesAre
  <2>2. r[2] = Params!IndexOf(text, Brace, s) /\ e = Params!IndexOf(text, Brace, s)
    BY <1>2, <2>1 DEF Params!Ref, FirstRef, Brace
  <2> QED
    BY <1>2, <2>1, <2>2
<1> PICK c : c = CHOOSE r \in R : r[1] = s
  OBVIOUS
<1>3. c = <<s, e>>
  <2>1. \E r \in R : r[1] = s
    BY <1>1
  <2>2. c \in R /\ c[1] = s
    BY <2>1, Zenon
  <2> QED
    BY <1>2, <2>2
<1>4. \E r \in R : r[1] = s
  BY <1>1
<1>5. Params!Piece(text, s)
      = Params!AsText(Params!ResolvePath(SubSeq(text, c[1] + 1, c[2] - 1)))
  BY <1>4 DEF Params!Piece
<1> QED
  BY <1>3, <1>5

LEMMA GonePiece ==
  ASSUME NEW T, NEW text \in Seq(T), NEW s, NEW e, FirstRef(text, s, e), NEW i \in s + 1..e
  PROVE  Params!Piece(text, i) = <<>>
<1>1. s \in 1..Len(text) /\ e \in 1..Len(text) /\ Params!Ref(text, s, e)
  BY DEF FirstRef
<1>2. e \in s + 1..Len(text) /\ text[e] = Brace /\ \A j \in s..e - 1 : text[j] # Brace
  BY <1>1, RefEnds
<1>3. /\ s \in Nat /\ e \in Nat /\ i \in Nat /\ 1 <= s /\ s < i /\ i <= e /\ e <= Len(text)
      /\ i \in Nat \ {0} /\ e \in i..Len(text) /\ s \in 1..i - 1
  <2>1. Len(text) \in Nat /\ s \in Nat /\ e \in Nat /\ i \in Nat
    BY <1>1
  <2> QED
    BY <1>1, <2>1
<1>4. ASSUME NEW r \in Params!References(text), r[1] = i
      PROVE  FALSE
  <2>1. FirstRef(text, i, r[2])
    BY <1>4, ReferencesAre
  <2>2. r[2] = Params!IndexOf(text, Brace, i) /\ ~Params!Ref(text, s, r[2])
    BY <1>1, <1>3, <2>1 DEF FirstRef, Params!Ref, Brace
  <2>3. \A j \in i..e - 1 : text[j] # Brace
    BY <1>2, <1>3
  <2>4. Params!IndexOf(text, Brace, i) = e
    BY <1>2, <1>3, <2>3, OnlyPlace
  <2> QED
    BY <1>1, <2>2, <2>4
<1>5. \E r \in Params!References(text) : r[1] < i /\ i <= r[2]
  <2>1. <<s, e>> \in Params!References(text) /\ <<s, e>>[1] < i /\ i <= <<s, e>>[2]
    BY <1>1, <1>3, ReferencesAre
  <2> QED
    BY <2>1
<1>6. ~\E r \in Params!References(text) : r[1] = i
  BY <1>4
<1> QED
  BY <1>5, <1>6 DEF Params!Piece

(* P lists what the first tokens of the text become. *)
Pieced(text, P, T) ==
  /\ P \in [0..Len(text) -> Seq(T)]
  /\ P[0] = <<>>
  /\ \A i \in 1..Len(text) : P[i] = P[i - 1] \o Params!Piece(text, i)

LEMMA SequenceIs ==
  ASSUME NEW T, NEW w \in Seq(T)
  PROVE  w = [i \in 1..Len(w) |-> w[i]]
OBVIOUS

LEMMA JoinedInTurn ==
  ASSUME NEW T, NEW w \in Seq(T), NEW v \in Seq(T), NEW c \in T
  PROVE  w \o (v \o <<c>>) = (w \o v) \o <<c>>
OBVIOUS

LEMMA LongerPart ==
  ASSUME NEW T, NEW text \in Seq(T), NEW w \in Seq(T), NEW a \in 1..Len(text), NEW b \in a..Len(text)
  PROVE  w \o SubSeq(text, a, b) = (w \o SubSeq(text, a, b - 1)) \o <<text[b]>>
<1> PICK u, v : u = SubSeq(text, a, b) /\ v = SubSeq(text, a, b - 1)
  OBVIOUS
<1>1. /\ a \in Nat \ {0} /\ b \in Nat /\ a <= b /\ b <= Len(text) /\ b - 1 <= Len(text)
      /\ text[b] \in T /\ Len(text) \in Nat
  OBVIOUS
<1>2. /\ u \in Seq(T) /\ Len(u) = b - a + 1 /\ \A i \in 1..b - a + 1 : u[i] = text[a + i - 1]
      /\ v \in Seq(T) /\ Len(v) = b - a /\ \A i \in 1..b - a : v[i] = text[a + i - 1]
  <2>1. Len(v) = b - a
    <3>1. Len(v) = IF a <= b - 1 THEN b - 1 - a + 1 ELSE 0
      BY <1>1, PartIsText
    <3> QED
      BY <1>1, <3>1
  <2>2. \A i \in 1..b - 1 - a + 1 : v[i] = text[a + i - 1]
    BY <1>1, PartIsText
  <2>3. b - 1 - a + 1 = b - a
    BY <1>1
  <2> QED
    BY <1>1, <2>1, <2>2, <2>3, PartIsText
<1>3. u = v \o <<text[b]>>
  <2>1. /\ v \o <<text[b]>> \in Seq(T) /\ Len(v \o <<text[b]>>) = b - a + 1
        /\ \A i \in 1..b - a : (v \o <<text[b]>>)[i] = v[i]
        /\ (v \o <<text[b]>>)[b - a + 1] = text[b]
    BY <1>1, <1>2
  <2>2. \A i \in 1..b - a + 1 : (v \o <<text[b]>>)[i] = u[i]
    BY <1>1, <1>2, <2>1
  <2> PICK k : k = b - a + 1
    OBVIOUS
  <2> PICK z : z = v \o <<text[b]>>
    OBVIOUS
  <2>3. z \in Seq(T) /\ Len(z) = k /\ u \in Seq(T) /\ Len(u) = k
    BY <1>2, <2>1
  <2>4. u = [i \in 1..k |-> u[i]] /\ z = [i \in 1..k |-> z[i]]
    BY <2>3, SequenceIs, Zenon
  <2>5. \A i \in 1..k : z[i] = u[i]
    BY <2>2
  <2> QED
    BY <2>4, <2>5, Zenon
<1>4. w \o (v \o <<text[b]>>) = (w \o v) \o <<text[b]>>
  <2>1. text[b] \in T /\ v \in Seq(T)
    BY <1>1, <1>2
  <2> QED
    BY ONLY w \in Seq(T), <2>1, JoinedInTurn
<1> QED
  BY <1>3, <1>4

(* Tokens that stay are appended as they are, and tokens that go are not. *)
LEMMA KeptStretch ==
  ASSUME NEW T, NEW text \in Seq(T), NEW P, Pieced(text, P, T),
         NEW a \in 1..Len(text) + 1, NEW b \in a - 1..Len(text),
         \A i \in a..b : Params!Piece(text, i) = <<text[i]>>
  PROVE  P[b] = P[a - 1] \o SubSeq(text, a, b)
<1>1. a \in Nat \ {0} /\ b \in Nat /\ a - 1 <= b /\ b <= Len(text) /\ Len(text) \in Nat
  OBVIOUS
<1> PICK w : w = P[a - 1]
  OBVIOUS
<1>2. w \in Seq(T)
  <2>1. a - 1 \in 0..Len(text)
    BY <1>1
  <2> QED
    BY <2>1 DEF Pieced
<1> PICK A : A = {m \in 0..b - a + 1 : P[a - 1 + m] = w \o SubSeq(text, a, a - 1 + m)}
  OBVIOUS
<1>3. 0 \in A
  <2>1. SubSeq(text, a, a - 1) = <<>>
    BY <1>1
  <2>2. a - 1 + 0 = a - 1 /\ 0 \in 0..b - a + 1
    BY <1>1
  <2>3. w \o <<>> = w
    BY <1>2
  <2> QED
    BY <2>1, <2>2, <2>3
<1>4. ASSUME NEW m \in 1..b - a + 1, m - 1 \in A
      PROVE  m \in A
  <2> PICK c : c = a - 1 + m
    OBVIOUS
  <2>1. c \in a..b /\ c \in 1..Len(text) /\ c \in a..Len(text) /\ a - 1 + (m - 1) = c - 1
        /\ a \in 1..Len(text) /\ m \in 0..b - a + 1
    BY <1>1
  <2>2. P[c - 1] = w \o SubSeq(text, a, c - 1)
    BY <1>4, <2>1
  <2>3. P[c] = P[c - 1] \o <<text[c]>>
    BY <2>1 DEF Pieced
  <2>4. w \o SubSeq(text, a, c) = (w \o SubSeq(text, a, c - 1)) \o <<text[c]>>
    BY <1>2, <2>1, LongerPart
  <2> QED
    BY <2>1, <2>2, <2>3, <2>4
<1>5. b - a + 1 \in Nat
  BY <1>1
<1>6. b - a + 1 \in A
  <2> PICK n \in Nat : n = b - a + 1
    BY <1>5
  <2>1. \A m \in 0..n : m \in A
    BY <1>3, <1>4, UpTo
  <2>2. n \in 0..n
    OBVIOUS
  <2>3. n \in A
    BY <2>1, <2>2, Zenon
  <2> QED
    BY <2>3
<1>7. a - 1 + (b - a + 1) = b
  BY <1>1
<1> QED
  BY <1>6, <1>7

LEMMA GoneStretch ==
  ASSUME NEW T, NEW text \in Seq(T), NEW P, Pieced(text, P, T),
         NEW a \in 1..Len(text) + 1, NEW b \in a - 1..Len(text),
         \A i \in a..b : Params!Piece(text, i) = <<>>
  PROVE  P[b] = P[a - 1]
<1>1. a \in Nat \ {0} /\ b \in Nat /\ a - 1 <= b /\ b <= Len(text) /\ Len(text) \in Nat
  OBVIOUS
<1> PICK A : A = {m \in 0..b - a + 1 : P[a - 1 + m] = P[a - 1]}
  OBVIOUS
<1>2. 0 \in A
  BY <1>1
<1>3. ASSUME NEW m \in 1..b - a + 1, m - 1 \in A
      PROVE  m \in A
  <2> PICK c : c = a - 1 + m
    OBVIOUS
  <2>1. c \in a..b /\ c \in 1..Len(text) /\ c - 1 \in 0..Len(text) /\ a - 1 + (m - 1) = c - 1
        /\ m \in 0..b - a + 1
    BY <1>1
  <2>2. P[c - 1] = P[a - 1] /\ P[c - 1] \in Seq(T)
    BY <1>3, <2>1 DEF Pieced
  <2>3. P[c] = P[c - 1] \o <<>>
    BY <2>1 DEF Pieced
  <2> QED
    BY <2>1, <2>2, <2>3
<1>4. b - a + 1 \in Nat
  BY <1>1
<1>5. b - a + 1 \in A
  <2> PICK n \in Nat : n = b - a + 1
    BY <1>4
  <2>1. \A m \in 0..n : m \in A
    BY <1>2, <1>3, UpTo
  <2>2. n \in 0..n
    OBVIOUS
  <2>3. n \in A
    BY <2>1, <2>2, Zenon
  <2> QED
    BY <2>3
<1>6. a - 1 + (b - a + 1) = b
  BY <1>1
<1> QED
  BY <1>5, <1>6

(* The rounds of the loop: all in front of `last' has become what it becomes, and a
   reference either ends there or begins at `next' or later. *)
LoopState(text, P, T, x) ==
  /\ x \in [result : Seq(T), last : Nat, next : Nat]
  /\ 1 <= x.last /\ x.last <= x.next /\ x.next <= Len(text) + 1
  /\ x.result = P[x.last - 1]
  /\ \A s, e \in 1..Len(text) : Params!Ref(text, s, e) => s >= x.next \/ e < x.last

Opening(text, x) == Params!IndexOf(text, Dollar, x.next)
Closing(text, x) == Params!IndexOf(text, Brace, Opening(text, x) + 1)
Over(text, x)    == Opening(text, x) = 0 \/ Closing(text, x) = 0

(* A "${" that is no reference is stepped over. *)
LEMMA StepOver ==
  ASSUME NEW T, NEW text \in Seq(T), NEW P, NEW x, LoopState(text, P, T, x),
         NEW s, NEW e, s = Opening(text, x), e = Closing(text, x), ~Over(text, x)
  PROVE  /\ s \in x.next..Len(text) /\ e \in s + 1..Len(text) /\ s \in Nat /\ e \in Nat
         /\ text[s] = Dollar /\ text[e] = Brace
         /\ \A i \in x.next..s - 1 : text[i] # Dollar
         /\ \A i \in s..e - 1 : text[i] # Brace
<1>1. x.next \in Nat \ {0}
  BY DEF LoopState
<1>2. s # 0 /\ e # 0
  BY DEF Over
<1>3. s \in x.next..Len(text) /\ text[s] = Dollar /\ \A i \in x.next..s - 1 : text[i] # Dollar
  BY <1>1, <1>2, FirstPlace DEF Opening
<1>4. s + 1 \in Nat \ {0} /\ s \in Nat
  BY <1>1, <1>3
<1>5. e = Params!IndexOf(text, Brace, s + 1)
  BY DEF Closing
<1>6. /\ e \in s + 1..Len(text) /\ text[e] = Brace
      /\ \A i \in s + 1..e - 1 : text[i] # Brace
  BY <1>2, <1>4, <1>5, FirstPlace
<1>7. \A i \in s..e - 1 : i = s \/ i \in s + 1..e - 1
  BY <1>4, <1>6
<1>8. \A i \in s..e - 1 : text[i] # Brace
  BY <1>3, <1>6, <1>7, EndsDiffer
<1> QED
  BY <1>3, <1>4, <1>6, <1>8

LEMMA RoundSkips ==
  ASSUME NEW T, NEW text \in Seq(T), NEW P, NEW x, LoopState(text, P, T, x), ~Over(text, x),
         ~Params!Supported(SubSeq(text, Opening(text, x) + 1, Closing(text, x) - 1))
  PROVE  LoopState(text, P, T, Params!Round(text, x)) /\ Params!Round(text, x).next > x.next
<1> PICK s, e : s = Opening(text, x) /\ e = Closing(text, x)
  OBVIOUS
<1> PICK y : y = [x EXCEPT !.next = s + 1]
  OBVIOUS
<1>1. /\ s \in x.next..Len(text) /\ e \in s + 1..Len(text) /\ s \in Nat /\ e \in Nat
      /\ text[s] = Dollar /\ text[e] = Brace
      /\ \A i \in x.next..s - 1 : text[i] # Dollar
      /\ \A i \in s..e - 1 : text[i] # Brace
  BY StepOver
<1>2. Params!Round(text, x) = y
  BY DEF Params!Round, Opening, Closing, Over, Dollar, Brace
<1>3. /\ x \in [result : Seq(T), last : Nat, next : Nat]
      /\ 1 <= x.last /\ x.last <= x.next /\ x.next <= Len(text) + 1
      /\ x.result = P[x.last - 1]
      /\ \A a, b \in 1..Len(text) : Params!Ref(text, a, b) => a >= x.next \/ b < x.last
  BY DEF LoopState
<1>4. y = [result |-> x.result, last |-> x.last, next |-> s + 1]
  BY <1>3
<1>5. /\ y \in [result : Seq(T), last : Nat, next : Nat] /\ y.next = s + 1
      /\ y.last = x.last /\ y.result = x.result /\ x.next < y.next /\ y.next <= Len(text) + 1
  <2>1. x.result \in Seq(T) /\ x.last \in Nat /\ x.next \in Nat /\ s + 1 \in Nat
    BY ONLY <1>1, <1>3
  <2>2. x.next < s + 1 /\ s + 1 <= Len(text) + 1
    BY ONLY <1>1, <2>1
  <2> QED
    BY <1>4, <2>1, <2>2
<1>6. ASSUME NEW a \in 1..Len(text), NEW b \in 1..Len(text), Params!Ref(text, a, b)
      PROVE  a >= y.next \/ b < y.last
  <2>1. /\ b \in a + 1..Len(text) /\ text[a] = Dollar
        /\ Params!Supported(SubSeq(text, a + 1, b - 1))
        /\ b = Params!IndexOf(text, Brace, a)
    BY <1>6, RefEnds DEF Params!Ref, Brace
  <2>2. CASE a = s
    <3>1. Params!IndexOf(text, Brace, s) = e
      <4>1. s \in Nat \ {0} /\ e \in s..Len(text)
        BY ONLY <1>1, <1>3
      <4> QED
        BY <1>1, <4>1, OnlyPlace
    <3> QED
      BY <2>1, <2>2, <3>1
  <2>3. CASE a # s
    <3>1. ~(a >= x.next /\ a < s)
      BY ONLY <1>1, <1>3, <2>1
    <3> QED
      BY <1>1, <1>3, <1>5, <1>6, <2>3, <3>1
  <2> QED
    BY <2>2, <2>3
<1> QED
  BY <1>2, <1>3, <1>5, <1>6 DEF LoopState

LEMMA Below ==
  ASSUME NEW n \in Nat, NEW s \in 1..n, NEW a \in 1..s - 1
  PROVE  a \in 1..n /\ a < s /\ a \in Nat
OBVIOUS

LEMMA RoundReplaces ==
  ASSUME NEW T, NEW text \in Seq(T), \A c \in DOMAIN Known : Known[c] \in Seq(T),
         NEW P, Pieced(text, P, T), NEW x, LoopState(text, P, T, x), ~Over(text, x),
         Params!Supported(SubSeq(text, Opening(text, x) + 1, Closing(text, x) - 1))
  PROVE  LoopState(text, P, T, Params!Round(text, x)) /\ Params!Round(text, x).next > x.next
<1> PICK s : s = Opening(text, x)
  OBVIOUS
<1> PICK e : e = Closing(text, x)
  OBVIOUS
<1>1. /\ s \in x.next..Len(text) /\ e \in s + 1..Len(text) /\ s \in Nat /\ e \in Nat
      /\ text[s] = Dollar /\ text[e] = Brace
      /\ \A i \in x.next..s - 1 : text[i] # Dollar
      /\ \A i \in s..e - 1 : text[i] # Brace
  BY StepOver
<1>2. /\ x \in [result : Seq(T), last : Nat, next : Nat]
      /\ 1 <= x.last /\ x.last <= x.next /\ x.next <= Len(text) + 1
      /\ x.result = P[x.last - 1]
      /\ \A a, b \in 1..Len(text) : Params!Ref(text, a, b) => a >= x.next \/ b < x.last
  BY DEF LoopState
<1> PICK k : k = x.last
  OBVIOUS
<1> PICK m : m = x.next
  OBVIOUS
<1>3. /\ k \in Nat /\ m \in Nat /\ s \in Nat /\ e \in Nat /\ Len(text) \in Nat
      /\ 1 <= k /\ k <= m /\ m <= s /\ s < e /\ e <= Len(text)
  <2>1. k = x.last /\ m = x.next /\ Len(text) \in Nat
    OBVIOUS
  <2>2. x.last \in Nat /\ x.next \in Nat /\ 1 <= x.last /\ x.last <= x.next
    BY ONLY <1>2
  <2>3. s \in m..Len(text) /\ e \in s + 1..Len(text) /\ s \in Nat /\ e \in Nat
    BY ONLY <1>1, <2>1, Zenon
  <2>4. k \in Nat /\ m \in Nat /\ 1 <= k /\ k <= m
    BY ONLY <2>1, <2>2, Zenon
  <2> QED
    BY ONLY <2>1, <2>3, <2>4
<1> PICK v : v = Params!AsText(Params!ResolvePath(SubSeq(text, s + 1, e - 1)))
  OBVIOUS
<1> PICK y : y = [result |-> (x.result \o SubSeq(text, k, s - 1)) \o v, last |-> e + 1, next |-> e + 1]
  OBVIOUS
<1>4. Params!Round(text, x) = y
  BY DEF Params!Round, Opening, Closing, Over, Dollar, Brace
<1>5. v \in Seq(T)
  BY ValueIsText
<1>6. FirstRef(text, s, e)
  <2>1. s \in 1..Len(text) /\ e \in s..Len(text) /\ e \in 1..Len(text)
    BY ONLY <1>3
  <2>2. Params!Ref(text, s, e)
    BY <1>1, <2>1, RefIs
  <2>3. ASSUME NEW a \in 1..s - 1, Params!Ref(text, a, e)
        PROVE  FALSE
    <3>1. a \in 1..Len(text) /\ a < s /\ a \in Nat
      BY <1>3, <2>1, Below
    <3>2. text[a] = Dollar
      BY <2>1, <2>3, <3>1, RefEnds
    <3>3. a < m
      <4>1. m = x.next
        OBVIOUS
      <4>2. a \notin m..s - 1
        BY ONLY <1>1, <3>2, <4>1, Zenon
      <4> QED
        BY ONLY <1>3, <3>1, <4>2
    <3>4. a >= m \/ e < k
      BY <1>2, <2>1, <2>3, <3>1
    <3> QED
      BY ONLY <1>3, <3>1, <3>3, <3>4
  <2> QED
    BY <2>1, <2>2, <2>3 DEF FirstRef
<1>7. P[s - 1] = P[k - 1] \o SubSeq(text, k, s - 1)
  <2>1. ASSUME NEW i \in k..s - 1
        PROVE  Params!Piece(text, i) = <<text[i]>>
    <3>1. i \in 1..Len(text) /\ i \in Nat /\ k <= i /\ i < s
      BY ONLY <1>3
    <3>2. ASSUME NEW a \in 1..Len(text), NEW b \in 1..Len(text), Params!Ref(text, a, b),
                 a <= i, i <= b
          PROVE  FALSE
      <4>1. a >= m \/ b < k
        BY <1>2, <3>2
      <4>2. a >= m /\ a < s
        BY ONLY <1>3, <3>1, <3>2, <4>1
      <4>3. a \in m..s - 1
        BY <1>3, <4>2
      <4>4. text[a] = Dollar
        BY <3>2, RefEnds
      <4> QED
        BY <1>1, <4>3, <4>4
    <3> QED
      BY <3>1, <3>2, PlainPiece
  <2>2. k \in 1..Len(text) + 1 /\ s - 1 \in k - 1..Len(text)
    BY ONLY <1>3
  <2> QED
    BY <2>1, <2>2, KeptStretch
<1>8. P[s] = P[s - 1] \o v
  <2>1. s \in 1..Len(text)
    BY ONLY <1>3
  <2>2. Params!Piece(text, s) = v
    BY <1>6, RefPiece
  <2> QED
    BY <2>1, <2>2 DEF Pieced
<1>9. P[e] = P[s]
  <2>1. \A i \in s + 1..e : Params!Piece(text, i) = <<>>
    BY <1>6, GonePiece
  <2>2. s + 1 \in 1..Len(text) + 1 /\ e \in (s + 1) - 1..Len(text) /\ (s + 1) - 1 = s
    BY ONLY <1>3
  <2>3. PICK a : a = s + 1
    OBVIOUS
  <2>4. a \in 1..Len(text) + 1 /\ e \in a - 1..Len(text)
    BY ONLY <2>2, <2>3
  <2>5. \A i \in a..e : Params!Piece(text, i) = <<>>
    BY ONLY <2>1, <2>3
  <2>6. P[e] = P[a - 1]
    BY ONLY text \in Seq(T), Pieced(text, P, T), <2>4, <2>5, GoneStretch
  <2> QED
    BY <2>2, <2>3, <2>6
<1>10. (e + 1) - 1 = e /\ e \in 0..Len(text)
  BY <1>3
<1>11. y.result = P[e] /\ P[e] \in Seq(T)
  BY <1>2, <1>7, <1>8, <1>9, <1>10 DEF Pieced
<1>12. /\ y \in [result : Seq(T), last : Nat, next : Nat] /\ y.last = e + 1 /\ y.next = e + 1
       /\ m < y.next /\ y.next <= Len(text) + 1 /\ 1 <= y.last /\ y.last <= y.next
  <2>1. e + 1 \in Nat /\ m < e + 1 /\ e + 1 <= Len(text) + 1 /\ 1 <= e + 1
    BY ONLY <1>3
  <2>2. y.last = e + 1 /\ y.next = e + 1 /\ y = [result |-> y.result, last |-> e + 1, next |-> e + 1]
    OBVIOUS
  <2>3. y \in [result : Seq(T), last : Nat, next : Nat]
    BY <1>11, <2>1, <2>2
  <2> QED
    BY <2>1, <2>2, <2>3
<1>13. ASSUME NEW a \in 1..Len(text), NEW b \in 1..Len(text), Params!Ref(text, a, b)
       PROVE  a >= y.next \/ b < y.last
  <2>1. /\ a \in Nat /\ b \in Nat /\ text[a] = Dollar /\ b = Params!IndexOf(text, Brace, a)
        /\ \A i \in a..b - 1 : text[i] # Brace
    <3>1. b = Params!IndexOf(text, Brace, a)
      BY <1>13 DEF Params!Ref, Brace
    <3> QED
      BY <1>13, <3>1, RefEnds
  <2>2. CASE a < m
    <3>1. b < k
      <4>1. a >= m \/ b < k
        BY <1>2, <1>13
      <4> QED
        BY ONLY <1>3, <2>1, <2>2, <4>1
    <3>2. b < e + 1
      BY ONLY <1>3, <2>1, <3>1
    <3> QED
      BY <1>12, <3>2
  <2>3. CASE m <= a /\ a <= e
    <3>1. a \notin m..s - 1
      BY <1>1, <2>1
    <3>2. s <= a
      BY <1>3, <2>1, <2>3, <3>1
    <3>3. a \in Nat \ {0} /\ e \in a..Len(text) /\ \A i \in a..e - 1 : i \in s..e - 1
      BY ONLY <1>3, <2>1, <2>3, <3>2
    <3>4. Params!IndexOf(text, Brace, a) = e
      BY <1>1, <3>3, OnlyPlace
    <3>5. b < e + 1
      BY <1>3, <2>1, <3>4
    <3> QED
      BY <1>12, <3>5
  <2>4. CASE e < a
    <3>1. a >= e + 1
      BY <1>3, <2>1, <2>4
    <3> QED
      BY <1>12, <3>1
  <2> QED
    BY ONLY <1>3, <2>1, <2>2, <2>3, <2>4
<1> QED
  BY <1>4, <1>10, <1>11, <1>12, <1>13 DEF LoopState

(* When no reference is left, what stands behind the last one stays.       *)
LEMMA RestStays ==
  ASSUME NEW T, NEW text \in Seq(T), NEW P, Pieced(text, P, T), NEW x, LoopState(text, P, T, x),
         Over(text, x)
  PROVE  x.result \o SubSeq(text, x.last, Len(text)) = P[Len(text)]
<1> PICK k, m : k = x.last /\ m = x.next
  OBVIOUS
<1>1. /\ k \in Nat /\ m \in Nat /\ Len(text) \in Nat /\ 1 <= k /\ k <= m /\ m <= Len(text) + 1
      /\ x.result = P[k - 1]
      /\ \A a, b \in 1..Len(text) : Params!Ref(text, a, b) => a >= m \/ b < k
  BY DEF LoopState
<1> PICK s : s = Opening(text, x)
  OBVIOUS
<1>2. ASSUME NEW a \in 1..Len(text), NEW b \in 1..Len(text), Params!Ref(text, a, b), a >= m
      PROVE  FALSE
  <2>1. b \in a + 1..Len(text) /\ text[a] = Dollar /\ text[b] = Brace
    BY <1>2, RefEnds
  <2>2. m \in Nat \ {0} /\ a \in m..Len(text)
    BY <1>1, <1>2
  <2>3. \/ s = 0 /\ \A i \in m..Len(text) : text[i] # Dollar
        \/ s \in m..Len(text) /\ \A i \in m..s - 1 : text[i] # Dollar
    BY <2>2, FirstPlace DEF Opening
  <2>4. s \in m..Len(text) /\ \A i \in m..s - 1 : text[i] # Dollar
    BY <2>1, <2>2, <2>3
  <2>5. s \in Nat /\ s + 1 \in Nat \ {0} /\ s <= a /\ s # 0
    BY ONLY <1>1, <2>1, <2>2, <2>4
  <2>6. Params!IndexOf(text, Brace, s + 1) = 0
    BY <2>5 DEF Over, Closing
  <2>7. \A i \in s + 1..Len(text) : text[i] # Brace
    BY <2>5, <2>6, FirstPlace
  <2>8. b \in s + 1..Len(text)
    BY <1>1, <2>1, <2>5
  <2> QED
    BY <2>1, <2>7, <2>8
<1>3. ASSUME NEW i \in k..Len(text)
      PROVE  Params!Piece(text, i) = <<text[i]>>
  <2>1. i \in 1..Len(text) /\ i \in Nat /\ k <= i
    BY <1>1
  <2>2. \A a, b \in 1..Len(text) : Params!Ref(text, a, b) => ~(a <= i /\ i <= b)
    BY <1>1, <1>2, <2>1
  <2> QED
    BY <2>1, <2>2, PlainPiece
<1>4. k \in 1..Len(text) + 1 /\ Len(text) \in k - 1..Len(text)
  BY <1>1
<1>5. P[Len(text)] = P[k - 1] \o SubSeq(text, k, Len(text))
  BY <1>3, <1>4, KeptStretch
<1> QED
  BY <1>1, <1>5

(* The loop replaces the references of a text and nothing else.            *)
LEMMA InterpolateIsPieced ==
  ASSUME NEW T, NEW text \in Seq(T), \A c \in DOMAIN Known : Known[c] \in Seq(T),
         NEW P, Pieced(text, P, T)
  PROVE  Params!Interpolate(text) = P[Len(text)]
<1> PICK n \in Nat : n = Len(text)
  OBVIOUS
<1> PICK S : S = {x \in [result : Seq(T), last : Nat, next : Nat] : LoopState(text, P, T, x)}
  OBVIOUS
<1> PICK first : first = [result |-> <<>>, last |-> 1, next |-> 1]
  OBVIOUS
<1>1. first \in S
  <2>1. P[0] = <<>> /\ <<>> \in Seq(T)
    BY DEF Pieced
  <2>2. first \in [result : Seq(T), last : Nat, next : Nat]
    BY <2>1
  <2>3. LoopState(text, P, T, first)
    BY <2>1, <2>2 DEF LoopState
  <2> QED
    BY <2>2, <2>3
<1>2. ASSUME NEW x \in S
      PROVE  /\ Params!Round(text, x) \in S
             /\ Over(text, x) => Params!Round(text, x) = x
             /\ ~Over(text, x) => Params!Round(text, x).next > x.next
  <2>1. LoopState(text, P, T, x)
    OBVIOUS
  <2>2. CASE Over(text, x)
    <3>1. Params!Round(text, x) = x
      BY <2>2 DEF Params!Round, Over, Opening, Closing, Dollar, Brace
    <3> QED
      BY <2>2, <3>1
  <2>3. CASE ~Over(text, x)
    <3>1. LoopState(text, P, T, Params!Round(text, x)) /\ Params!Round(text, x).next > x.next
      BY <2>1, <2>3, RoundSkips, RoundReplaces
    <3>2. Params!Round(text, x) \in [result : Seq(T), last : Nat, next : Nat]
      BY <3>1 DEF LoopState
    <3> QED
      BY <2>3, <3>1, <3>2
  <2> QED
    BY <2>2, <2>3
<1> PICK D : D = [q \in S \X (1..n) |-> Params!Round(text, q[1])]
  OBVIOUS
<1>3. \A x \in S, i \in 1..n : D[<<x, i>>] = Params!Round(text, x) /\ D[<<x, i>>] \in S
  BY <1>2
<1>4. PICK g \in [0..n -> S] : Row(g, first, D, n)
  BY <1>1, <1>3, RowsExist
<1>5. \A i \in 1..n : i \in 0..n /\ i - 1 \in 0..n /\ i # 0
  OBVIOUS
<1> DEFINE Eq(f) == f = [i \in 0..n |-> IF i = 0 THEN first ELSE Params!Round(text, f[i - 1])]
<1>6. Eq(g)
  <2>1. g[0] = first /\ \A i \in 1..n : g[i] = Params!Round(text, g[i - 1])
    BY <1>3, <1>4, <1>5 DEF Row
  <2>2. \A i \in 0..n : i = 0 \/ i \in 1..n
    OBVIOUS
  <2>3. \A i \in 0..n : g[i] = IF i = 0 THEN first ELSE Params!Round(text, g[i - 1])
    BY <1>5, <2>1, <2>2
  <2> QED
    BY <2>3
<1> DEFINE f == CHOOSE h : Eq(h)
<1>7. Params!Interpolate(text) = f[n].result \o SubSeq(text, f[n].last, n)
  BY DEF Params!Interpolate
<1>8. Eq(f)
  BY <1>6, Zenon
<1> HIDE DEF f
<1>9. f[0] = first /\ \A i \in 1..n : f[i] = Params!Round(text, f[i - 1])
  BY <1>5, <1>8
<1> DEFINE Good(i) == f[i] \in S /\ (Over(text, f[i]) \/ f[i].next >= i + 1)
<1> PICK A : A = {i \in 0..n : Good(i)}
  OBVIOUS
<1>10. 0 \in A
  <2>1. f[0] \in S /\ f[0].next = 1
    BY <1>1, <1>9
  <2> QED
    BY <2>1
<1>11. ASSUME NEW i \in 1..n, i - 1 \in A
       PROVE  i \in A
  <2> PICK x : x = f[i - 1]
    OBVIOUS
  <2>1. x \in S /\ (Over(text, x) \/ x.next >= (i - 1) + 1) /\ f[i] = Params!Round(text, x)
    BY <1>9, <1>11
  <2>2. /\ f[i] \in S /\ (Over(text, x) => f[i] = x)
        /\ (~Over(text, x) => f[i].next > x.next)
    BY <1>2, <2>1
  <2>3. x.next \in Nat /\ f[i].next \in Nat /\ i \in Nat
    BY <2>1, <2>2
  <2>4. Over(text, f[i]) \/ f[i].next >= i + 1
    BY ONLY <2>1, <2>2, <2>3
  <2> QED
    BY <1>5, <2>2, <2>4
<1>12. n \in A
  <2>1. \A i \in 0..n : i \in A
    BY <1>10, <1>11, UpTo
  <2>2. n \in 0..n
    OBVIOUS
  <2> QED
    BY <2>1, <2>2, Zenon
<1> PICK x : x = f[n]
  OBVIOUS
<1>13. LoopState(text, P, T, x) /\ (Over(text, x) \/ x.next >= n + 1)
  BY <1>12
<1>14. Over(text, x)
  <2>1. CASE x.next >= n + 1
    <3>1. x.next \in Nat \ {0}
      BY <1>13 DEF LoopState
    <3>2. Opening(text, x) = 0 \/ Opening(text, x) \in x.next..n
      BY <3>1, FirstPlace DEF Opening
    <3>3. Opening(text, x) = 0
      BY <2>1, <3>1, <3>2
    <3> QED
      BY <3>3 DEF Over
  <2> QED
    BY <1>13, <2>1
<1> QED
  BY <1>7, <1>13, <1>14, RestStays

LEMMA PieceIsText ==
  ASSUME NEW T, NEW text \in Seq(T), \A c \in DOMAIN Known : Known[c] \in Seq(T),
         NEW i \in 1..Len(text)
  PROVE  Params!Piece(text, i) \in Seq(T)
<1>1. CASE \E r \in Params!References(text) : r[1] = i
  <2> PICK r : r = CHOOSE q \in Params!References(text) : q[1] = i
    OBVIOUS
  <2>1. Params!Piece(text, i) = Params!AsText(Params!ResolvePath(SubSeq(text, r[1] + 1, r[2] - 1)))
    BY <1>1 DEF Params!Piece
  <2> QED
    BY <2>1, ValueIsText
<1>2. CASE ~\E r \in Params!References(text) : r[1] = i
  <2>1. Params!Piece(text, i) = <<>> \/ Params!Piece(text, i) = <<text[i]>>
    BY <1>2 DEF Params!Piece
  <2>2. <<>> \in Seq(T) /\ \A z \in T : <<z>> \in Seq(T)
    OBVIOUS
  <2>3. text[i] \in T
    OBVIOUS
  <2> QED
    BY <2>1, <2>2, <2>3, Zenon
<1> QED
  BY <1>1, <1>2

LEMMA SubstitutedIsPieced ==
  ASSUME NEW T, NEW text \in Seq(T), \A c \in DOMAIN Known : Known[c] \in Seq(T), text # <<>>
  PROVE  \E P : Pieced(text, P, T) /\ Params!Substituted(text) = P[Len(text)]
<1> PICK n \in Nat : n = Len(text)
  OBVIOUS
<1>1. n \in 1..n /\ DOMAIN text = 1..n /\ n # 0
  OBVIOUS
<1>2. \A i \in 1..n : i \in 0..n /\ i - 1 \in 0..n /\ i # 0 /\ (i # 1 => i - 1 \in 1..n)
  OBVIOUS
<1> PICK seqs : seqs = [i \in 1..n |-> Params!Piece(text, i)]
  OBVIOUS
<1>3. \A i \in 1..n : seqs[i] = Params!Piece(text, i) /\ seqs[i] \in Seq(T)
  BY PieceIsText
<1> PICK D : D = [q \in Seq(T) \X (1..n) |-> q[1] \o seqs[q[2]]]
  OBVIOUS
<1>4. \A w \in Seq(T), i \in 1..n : D[<<w, i>>] = w \o seqs[i] /\ D[<<w, i>>] \in Seq(T)
  <2>1. \A w, v \in Seq(T) : w \o v \in Seq(T)
    OBVIOUS
  <2>2. \A w \in Seq(T), i \in 1..n : D[<<w, i>>] = w \o seqs[i]
    OBVIOUS
  <2> QED
    BY <1>3, <2>1, <2>2
<1>5. <<>> \in Seq(T)
  OBVIOUS
<1>6. PICK P \in [0..n -> Seq(T)] : Row(P, <<>>, D, n)
  BY <1>4, <1>5, RowsExist
<1>7. P[0] = <<>> /\ \A i \in 1..n : P[i] = P[i - 1] \o seqs[i]
  BY <1>2, <1>4, <1>6 DEF Row
<1>8. Pieced(text, P, T)
  BY <1>3, <1>6, <1>7 DEF Pieced
<1> DEFINE Eq(h) == h = [i \in 1..n |-> IF i = 1 THEN seqs[i] ELSE h[i - 1] \o seqs[i]]
<1> PICK g : g = [i \in 1..n |-> P[i]]
  OBVIOUS
<1>9. Eq(g)
  <2>1. \A i \in 1..n : i # 1 => g[i] = g[i - 1] \o seqs[i]
    BY <1>2, <1>7
  <2>2. \A w \in Seq(T) : <<>> \o w = w
    OBVIOUS
  <2>3. P[1] = P[0] \o seqs[1] /\ 1 \in 1..n
    <3>1. 1 \in 1..n /\ 1 - 1 = 0
      BY <1>1
    <3> QED
      BY <1>7, <3>1
  <2>4. g[1] = seqs[1]
    <3>1. seqs[1] \in Seq(T)
      BY <1>3, <2>3
    <3>2. P[1] = seqs[1]
      BY <1>7, <2>2, <2>3, <3>1
    <3> QED
      BY <2>3, <3>2
  <2>5. \A i \in 1..n : g[i] = IF i = 1 THEN seqs[i] ELSE g[i - 1] \o seqs[i]
    BY <2>1, <2>4
  <2> QED
    BY <2>5
<1> DEFINE f == CHOOSE h : Eq(h)
<1>10. Params!Substituted(text) = f[n]
  <2>1. Len(seqs) = n
    BY <1>1, <1>3
  <2>2. Params!Substituted(text) = Params!FlattenSeq(seqs)
    BY <1>1 DEF Params!Substituted
  <2> QED
    BY <1>1, <2>1, <2>2 DEF Params!FlattenSeq
<1>11. Eq(f)
  <2> HIDE DEF Eq
  <2> QED
    BY <1>9, Zenon
<1> HIDE DEF f
<1>12. \A i \in 1..n : f[i] = IF i = 1 THEN seqs[i] ELSE f[i - 1] \o seqs[i]
  BY <1>11
<1> PICK A : A = {i \in 0..n : i # 0 => f[i] = g[i]}
  OBVIOUS
<1>13. 0 \in A
  OBVIOUS
<1>14. ASSUME NEW i \in 1..n, i - 1 \in A
       PROVE  i \in A
  <2>1. CASE i = 1
    BY <1>2, <1>9, <1>12, <2>1
  <2>2. CASE i # 1
    <3>1. i - 1 \in 1..n /\ f[i - 1] = g[i - 1]
      BY <1>2, <1>14, <2>2
    <3>2. f[i] = f[i - 1] \o seqs[i]
      BY <1>12, <2>2
    <3>3. g[i] = g[i - 1] \o seqs[i]
      BY <1>9, <2>2
    <3> QED
      BY <1>2, <3>1, <3>2, <3>3
  <2> QED
    BY <2>1, <2>2
<1>15. f[n] = P[n]
  <2>1. \A i \in 0..n : i \in A
    BY <1>13, <1>14, UpTo
  <2>2. n \in 0..n
    OBVIOUS
  <2>3. n \in A
    BY <2>1, <2>2, Zenon
  <2>4. f[n] = g[n]
    BY <1>1, <2>3
  <2> QED
    BY <1>1, <2>4
<1> QED
  BY <1>8, <1>10, <1>15

LEMMA InterpolateSubstitutes ==
  ASSUME NEW T, NEW text \in Seq(T), \A c \in DOMAIN Known : Known[c] \in Seq(T), text # <<>>
  PROVE  Params!Interpolate(text) = Params!Substituted(text)
BY SubstitutedIsPieced, InterpolateIsPieced

(* The type of a reference is the same with the closing brace as without, if there is a dot. *)
Dot == "."

LEMMA FromFirst ==
  ASSUME NEW T, NEW w \in Seq(T)
  PROVE  \/ /\ Params!IndexOf(w, Dot, 1) = 0
            /\ \A i \in 1..Len(w) : w[i] # Dot
         \/ /\ Params!IndexOf(w, Dot, 1) \in 1..Len(w)
            /\ w[Params!IndexOf(w, Dot, 1)] = Dot
            /\ \A i \in 1..Params!IndexOf(w, Dot, 1) - 1 : w[i] # Dot
<1>1. 1 \in Nat \ {0}
  OBVIOUS
<1> QED
  BY <1>1, FirstPlace

LEMMA SameParts ==
  ASSUME NEW T, NEW v \in Seq(T), NEW w \in Seq(T), NEW k \in Nat, k <= Len(v), k <= Len(w),
         \A i \in 1..k : v[i] = w[i]
  PROVE  SubSeq(v, 1, k) = SubSeq(w, 1, k)
OBVIOUS

LEMMA TypeOfLonger ==
  ASSUME NEW T, NEW c \in Seq(T), NEW t \in Seq(T), Len(t) = Len(c) + 1,
         t[Len(t)] = Brace, \A i \in 1..Len(c) : c[i] = t[i]
  PROVE  \/ Params!TypeOf(c) = Params!TypeOf(t)
         \/ Params!TypeOf(c) = c /\ Params!TypeOf(t) = t
<1> PICK d : d = Params!IndexOf(c, Dot, 1)
  OBVIOUS
<1> PICK q : q = Params!IndexOf(t, Dot, 1)
  OBVIOUS
<1>1. \/ d = 0 /\ \A i \in 1..Len(c) : c[i] # Dot
      \/ d \in 1..Len(c) /\ c[d] = Dot /\ \A i \in 1..d - 1 : c[i] # Dot
  BY FromFirst
<1>2. \/ q = 0 /\ \A i \in 1..Len(t) : t[i] # Dot
      \/ q \in 1..Len(t) /\ t[q] = Dot /\ \A i \in 1..q - 1 : t[i] # Dot
  BY FromFirst
<1>3. Len(c) \in Nat /\ Len(t) \in Nat
  OBVIOUS
<1>4. CASE d = 0
  <2>1. Brace # Dot
    BY DEF Brace, Dot
  <2>2. \A i \in 1..Len(t) : i = Len(t) \/ i \in 1..Len(c)
    BY <1>3
  <2>3. \A i \in 1..Len(t) : t[i] # Dot
    BY <1>1, <1>3, <1>4, <2>1, <2>2
  <2>4. q = 0
    BY <1>2, <2>3
  <2> QED
    BY <1>4, <2>4 DEF Params!TypeOf, Dot
<1>5. CASE d # 0
  <2>1. /\ d \in 1..Len(c) /\ d \in 1..Len(t) /\ c[d] = Dot /\ d \in Nat
        /\ \A i \in 1..d - 1 : c[i] # Dot
        /\ \A i \in 1..d : i \in 1..Len(c) /\ i \in 1..Len(t)
    BY <1>1, <1>3, <1>5
  <2>2. \A i \in 1..d : t[i] = c[i]
    BY <2>1
  <2>3. t[d] = Dot /\ \A i \in 1..d - 1 : t[i] # Dot
    BY <2>1, <2>2
  <2>4. q \in 1..Len(t) /\ t[q] = Dot /\ \A i \in 1..q - 1 : t[i] # Dot
    BY <1>2, <2>1, <2>3
  <2>5. ~(q < d) /\ ~(d < q)
    BY <1>3, <2>1, <2>3, <2>4
  <2>6. q = d
    BY <1>3, <2>1, <2>4, <2>5
  <2>7. d - 1 \in Nat /\ d - 1 <= Len(c) /\ d - 1 <= Len(t) /\ \A i \in 1..d - 1 : i \in 1..d
    BY <1>3, <2>1
  <2>8. SubSeq(t, 1, d - 1) = SubSeq(c, 1, d - 1)
    BY <2>2, <2>7, SameParts
  <2>9. Params!TypeOf(c) = SubSeq(c, 1, d - 1) /\ Params!TypeOf(t) = SubSeq(t, 1, d - 1)
    BY <1>5, <2>6 DEF Params!TypeOf, Dot
  <2> QED
    BY <2>8, <2>9
<1> QED
  BY <1>4, <1>5

(* A text that is one reference is its value, one that starts with a       *)
(* reference and ends with another is lost, and any other is substituted.  *)
LEMMA TextIsResolved ==
  ASSUME TextHypotheses, NEW text \in Seq(Tokens), text # <<>>
  PROVE  Params!ResolveText(text)
         = IF <<1, Len(text)>> \in Params!References(text)
           THEN Params!ResolvePath(SubSeq(text, 2, Len(text) - 1))
           ELSE IF text[1] = Dollar /\ text[Len(text)] = Brace /\ Params!Supported(Tail(text))
           THEN Undefined
           ELSE Params!Substituted(text)
<1> PICK T : /\ text \in Seq(T) /\ \A c \in DOMAIN Known : Known[c] \in Seq(T)
  <2>1. PICK T : Tokens \subseteq T /\ \A c \in DOMAIN Known : Known[c] \in Seq(T)
    BY DEF TextHypotheses
  <2>2. text \in Seq(T)
    BY <2>1
  <2> QED
    BY <2>1, <2>2
<1> PICK n \in Nat : n = Len(text)
  OBVIOUS
<1> PICK t : t = Tail(text)
  OBVIOUS
<1> PICK c : c = SubSeq(text, 2, n - 1)
  OBVIOUS
<1>1. n \in 1..n /\ n >= 1 /\ 1 \in 1..n
  OBVIOUS
<1> DEFINE Ends == text[1] = Dollar /\ text[n] = Brace
<1>2. Params!ResolveText(text)
      = IF Ends /\ Params!Supported(c) THEN Params!ResolvePath(c) ELSE Params!Interpolate(text)
  BY DEF Params!ResolveText, Params!Last, Dollar, Brace
<1>3. Params!Interpolate(text) = Params!Substituted(text)
  BY InterpolateSubstitutes
<1>4. Ends => n >= 2
  <2>1. n = 1 => ~Ends
    BY EndsDiffer
  <2> QED
    BY <1>1, <2>1
<1> DEFINE Whole == <<1, n>> \in Params!References(text)
<1>5. Whole <=> Params!Ref(text, 1, n)
  <2>1. Whole <=> FirstRef(text, 1, n)
    <3>1. Whole => FirstRef(text, <<1, n>>[1], <<1, n>>[2])
      BY ReferencesAre
    <3> QED
      BY <3>1, ReferencesAre
  <2>2. FirstRef(text, 1, n) <=> Params!Ref(text, 1, n)
    BY <1>1 DEF FirstRef
  <2> QED
    BY <2>1, <2>2
<1>6. Whole <=> Ends /\ Params!Supported(c) /\ \A i \in 1..n - 1 : text[i] # Brace
  <2>1. Params!Ref(text, 1, n) => Ends /\ Params!Supported(c) /\ \A i \in 1..n - 1 : text[i] # Brace
    BY <1>1, RefEnds
  <2>2. Ends /\ Params!Supported(c) /\ (\A i \in 1..n - 1 : text[i] # Brace) => Params!Ref(text, 1, n)
    BY <1>1, RefIs
  <2> QED
    BY <1>5, <2>1, <2>2
<1> HIDE DEF Whole
<1>7. CASE ~Ends
  BY <1>2, <1>3, <1>6, <1>7 DEF Whole
<1>8. CASE Ends
  <2>1. /\ \/ Params!TypeOf(c) = Params!TypeOf(t)
           \/ Params!TypeOf(c) = c /\ Params!TypeOf(t) = t
        /\ c \in Seq(T) /\ Len(c) = n - 2 /\ \A i \in 1..n - 2 : c[i] = text[i + 1]
        /\ t \in Seq(T) /\ Len(t) = n - 1 /\ \A i \in 1..n - 1 : t[i] = text[i + 1]
    <3>1. n \in Nat /\ n = Len(text) /\ n >= 2 /\ text[n] = Brace
      BY <1>4, <1>8
    <3>2. c \in Seq(T) /\ Len(c) = n - 2 /\ \A i \in 1..n - 2 : c[i] = text[i + 1]
      BY <3>1
    <3>3. t \in Seq(T) /\ Len(t) = n - 1 /\ \A i \in 1..n - 1 : t[i] = text[i + 1]
      BY <3>1
    <3>4. Len(t) = Len(c) + 1 /\ t[Len(t)] = Brace /\ \A i \in 1..Len(c) : c[i] = t[i]
      BY <3>1, <3>2, <3>3
    <3>5. \/ Params!TypeOf(c) = Params!TypeOf(t)
          \/ Params!TypeOf(c) = c /\ Params!TypeOf(t) = t
      BY <3>2, <3>3, <3>4, TypeOfLonger
    <3> QED
      BY <3>2, <3>3, <3>5
  <2>2. ASSUME ~Whole, Params!Supported(t)
        PROVE  Params!Supported(c) /\ Params!ResolvePath(c) = Undefined
    <3>1. ~(Params!TypeOf(t) = t)
      <4>1. ASSUME NEW type \in Types, t = <<type>>
            PROVE  FALSE
        <5>1. Len(t) = 1 /\ t[1] = type
          BY <4>1
        <5>2. n = 2 /\ t[1] = text[2] /\ text[2] = Brace
          BY <1>8, <2>1, <5>1
        <5> QED
          BY <5>1, <5>2 DEF TextHypotheses
      <4> QED
        BY <2>2, <4>1 DEF Params!Supported
    <3>2. Params!Supported(c)
      BY <2>1, <2>2, <3>1 DEF Params!Supported
    <3>3. PICK i \in 1..n - 1 : text[i] = Brace
      BY <1>6, <1>8, <2>2, <3>2
    <3>4. i # 1
      BY <1>8, <3>3, EndsDiffer
    <3>5. i - 1 \in 1..n - 2 /\ (i - 1) + 1 = i
      BY <3>4
    <3>6. c[i - 1] = Brace /\ i - 1 \in DOMAIN c
      BY <2>1, <3>3, <3>5
    <3>7. c \notin DOMAIN Known
      BY <3>6 DEF TextHypotheses
    <3>8. Params!ResolvePath(c) = Undefined
      BY <3>7 DEF Params!ResolvePath
    <3> QED
      BY <3>2, <3>8
  <2>3. ASSUME ~Whole, Params!Supported(c)
        PROVE  Params!Supported(t)
    <3>1. ~(Params!TypeOf(c) = c)
      <4>1. ASSUME NEW type \in Types, c = <<type>>
            PROVE  FALSE
        <5> PICK w : w = <<type>>
          OBVIOUS
        <5>0. Len(w) = 1 /\ w[1] = type /\ c = w
          BY <4>1
        <5>1. Len(c) = 1 /\ c[1] = type
          BY <5>0, Zenon
        <5>2. n = 3 /\ c[1] = text[2]
          BY <2>1, <5>1
        <5>3. type # Brace
          BY DEF TextHypotheses
        <5>4. \A i \in 1..n - 1 : i = 1 \/ i = 2
          BY <5>2
        <5>5. \A i \in 1..n - 1 : text[i] # Brace
          BY <1>8, <5>1, <5>2, <5>3, <5>4, EndsDiffer
        <5> QED
          BY <1>6, <1>8, <2>3, <5>5
      <4> QED
        BY <2>3, <4>1 DEF Params!Supported
    <3> QED
      BY <2>1, <2>3, <3>1 DEF Params!Supported
  <2>4. CASE Whole
    <3>1. Params!ResolveText(text) = Params!ResolvePath(c)
      BY <1>2, <1>6, <2>4
    <3> QED
      BY <2>4, <3>1 DEF Whole
  <2>5. CASE ~Whole /\ Params!Supported(t)
    <3>1. Params!ResolveText(text) = Undefined
      BY <1>2, <1>8, <2>2, <2>5
    <3> QED
      BY <1>8, <2>5, <3>1 DEF Whole
  <2>6. CASE ~Whole /\ ~Params!Supported(t)
    <3>1. Params!ResolveText(text) = Params!Substituted(text)
      BY <1>2, <1>3, <2>3, <2>6
    <3> QED
      BY <2>6, <3>1 DEF Whole
  <2> QED
    BY <2>4, <2>5, <2>6
<1> QED
  BY <1>7, <1>8

(* Objects.  What Valid keeps, pair by pair.                               *)
ValidSteps(o, f) ==
  /\ f[0] = <<>>
  /\ \A i \in 1..Len(o) :
       f[i] = IF o[i].key \in BlockedKeys THEN f[i - 1] ELSE Append(f[i - 1], o[i])

LEMMA ValidBySteps ==
  ASSUME NEW R, NEW o \in Seq(R)
  PROVE  \E f \in [0..Len(o) -> Seq(R)] : ValidSteps(o, f) /\ Params!Valid(o) = f[Len(o)]
<1> PICK n \in Nat : n = Len(o)
  OBVIOUS
<1> DEFINE Kept(w, i) == IF o[i].key \in BlockedKeys THEN w ELSE Append(w, o[i])
<1>1. \A w \in Seq(R), i \in 1..n : Kept(w, i) \in Seq(R)
  <2>1. \A i \in 1..n : o[i] \in R
    OBVIOUS
  <2>2. \A w \in Seq(R), r \in R : Append(w, r) \in Seq(R)
    OBVIOUS
  <2> QED
    BY <2>1, <2>2, Zenon
<1> HIDE DEF Kept
<1> PICK D : D = [q \in Seq(R) \X (1..n) |-> Kept(q[1], q[2])]
  OBVIOUS
<1>2. \A w \in Seq(R), i \in 1..n : D[<<w, i>>] = Kept(w, i) /\ D[<<w, i>>] \in Seq(R)
  BY <1>1
<1>3. <<>> \in Seq(R)
  OBVIOUS
<1>4. PICK g \in [0..n -> Seq(R)] : Row(g, <<>>, D, n)
  BY <1>2, <1>3, RowsExist
<1>5. \A i \in 1..n : i \in 0..n /\ i - 1 \in 0..n /\ i # 0
  OBVIOUS
<1>6. g[0] = <<>> /\ \A i \in 1..n : g[i] = Kept(g[i - 1], i)
  BY <1>2, <1>4, <1>5 DEF Row
<1> DEFINE Eq(h) == h = [i \in 0..n |-> IF i = 0 THEN <<>> ELSE Kept(h[i - 1], i)]
<1>7. Eq(g)
  <2>1. \A i \in 0..n : i = 0 \/ i \in 1..n
    OBVIOUS
  <2>2. \A i \in 0..n : g[i] = IF i = 0 THEN <<>> ELSE Kept(g[i - 1], i)
    BY <1>5, <1>6, <2>1
  <2> QED
    BY <2>2
<1> DEFINE f == CHOOSE h : Eq(h)
<1>8. Params!Valid(o) = f[n]
  BY DEF Params!Valid, Kept
<1>9. Eq(f)
  <2> HIDE DEF Eq
  <2> QED
    BY <1>7, Zenon
<1> HIDE DEF f
<1>10. f[0] = <<>> /\ \A i \in 1..n : f[i] = Kept(f[i - 1], i)
  <2>1. \A i \in 0..n : f[i] = IF i = 0 THEN <<>> ELSE Kept(f[i - 1], i)
    BY <1>9
  <2>2. 0 \in 0..n
    OBVIOUS
  <2> QED
    BY <1>5, <2>1, <2>2, Zenon
<1> PICK A : A = {i \in 0..n : f[i] \in Seq(R)}
  OBVIOUS
<1>11. 0 \in A
  <2>1. f[0] \in Seq(R) /\ 0 \in 0..n
    BY <1>3, <1>10
  <2> QED
    BY <2>1
<1>12. \A i \in 1..n : i - 1 \in A => i \in A
  BY <1>1, <1>5, <1>10
<1>13. \A i \in 0..n : f[i] \in Seq(R)
  BY <1>11, <1>12, UpTo
<1>14. f \in [0..n -> Seq(R)]
  BY <1>9, <1>13
<1>15. ValidSteps(o, f)
  BY <1>10 DEF ValidSteps, Kept
<1> QED
  BY <1>8, <1>14, <1>15

LEMMA AppendBoth ==
  ASSUME NEW R, NEW w \in Seq(R), NEW v \in Seq(R), NEW r \in R
  PROVE  w \o Append(v, r) = Append(w \o v, r)
OBVIOUS

LEMMA PrefixGrows ==
  ASSUME NEW R, NEW o \in Seq(R), NEW i \in 1..Len(o)
  PROVE  Append(SubSeq(o, 1, i - 1), o[i]) = SubSeq(o, 1, i)
OBVIOUS

(* The pairs in front of the first refused key are kept, and those behind  *)
(* it as if they stood alone.                                              *)
LEMMA ValidSplits ==
  ASSUME NEW R, NEW o \in Seq(R), NEW m \in 0..Len(o),
         \A i \in 1..m : o[i].key \notin BlockedKeys
  PROVE  Params!Valid(o) = SubSeq(o, 1, m) \o Params!Valid(SubSeq(o, m + 1, Len(o)))
<1> PICK n \in Nat : n = Len(o)
  OBVIOUS
<1>0. PICK q : q = SubSeq(o, m + 1, n)
  OBVIOUS
<1>1. m \in Nat /\ n - m \in Nat /\ m <= n
  OBVIOUS
<1>2. q \in Seq(R) /\ Len(q) = n - m /\ \A j \in 1..n - m : q[j] = o[m + j]
  <2>1. q \in Seq(R) /\ Len(q) = n - m
    BY <1>0, <1>1
  <2>2. \A j \in 1..n - m : q[j] = o[(m + 1) + j - 1] /\ (m + 1) + j - 1 = m + j
    BY <1>0, <1>1
  <2> QED
    BY <2>1, <2>2
<1> PICK k \in Nat : k = n - m
  BY <1>1
<1>3. PICK f \in [0..n -> Seq(R)] : ValidSteps(o, f) /\ Params!Valid(o) = f[n]
  BY ValidBySteps
<1>4. PICK g \in [0..k -> Seq(R)] : ValidSteps(q, g) /\ Params!Valid(q) = g[k]
  <2>1. \E g \in [0..Len(q) -> Seq(R)] : ValidSteps(q, g) /\ Params!Valid(q) = g[Len(q)]
    BY <1>2, ValidBySteps
  <2>2. Len(q) = k
    BY <1>2
  <2> QED
    BY <2>1, <2>2
<1>5. /\ f[0] = <<>>
      /\ \A i \in 1..n : f[i] = IF o[i].key \in BlockedKeys THEN f[i - 1] ELSE Append(f[i - 1], o[i])
      /\ g[0] = <<>>
      /\ \A j \in 1..k : g[j] = IF q[j].key \in BlockedKeys THEN g[j - 1] ELSE Append(g[j - 1], q[j])
  BY <1>2, <1>3, <1>4 DEF ValidSteps
<1>6. f[m] = SubSeq(o, 1, m)
  <2> PICK A : A = {i \in 0..m : f[i] = SubSeq(o, 1, i)}
    OBVIOUS
  <2>1. 0 \in A
    <3>1. SubSeq(o, 1, 0) = <<>>
      OBVIOUS
    <3>2. f[0] = SubSeq(o, 1, 0)
      BY <1>5, <3>1
    <3>3. 0 \in 0..m
      BY <1>1
    <3> QED
      BY <3>2, <3>3
  <2>2. ASSUME NEW i \in 1..m, i - 1 \in A
        PROVE  i \in A
    <3>1. i \in 1..n /\ i \in 0..m /\ i - 1 \in 0..n
      BY <1>1
    <3>2. f[i] = Append(f[i - 1], o[i]) /\ f[i - 1] = SubSeq(o, 1, i - 1)
      BY <1>5, <2>2, <3>1
    <3>3. Append(SubSeq(o, 1, i - 1), o[i]) = SubSeq(o, 1, i)
      BY <3>1, PrefixGrows
    <3> QED
      BY <3>1, <3>2, <3>3
  <2>3. \A i \in 0..m : i \in A
    BY <1>1, <2>1, <2>2, UpTo
  <2>4. m \in 0..m
    BY <1>1
  <2>5. m \in A
    BY <2>3, <2>4, Zenon
  <2> QED
    BY <2>5
<1>10. PICK w : w = SubSeq(o, 1, m)
  OBVIOUS
<1>7. w \in Seq(R)
  BY <1>1, <1>10
<1>8. f[m + k] = w \o g[k]
  <2> PICK A : A = {j \in 0..k : f[m + j] = w \o g[j]}
    OBVIOUS
  <2>1. 0 \in A
    <3>1. w \o <<>> = w
      BY <1>7
    <3>2. m + 0 = m /\ 0 \in 0..k
      BY <1>1
    <3> QED
      BY <1>5, <1>6, <1>10, <3>1, <3>2
  <2>2. ASSUME NEW j \in 1..k, j - 1 \in A
        PROVE  j \in A
    <3> PICK i : i = m + j
      OBVIOUS
    <3>1. i \in 1..n /\ m + (j - 1) = i - 1 /\ j \in 0..k /\ j - 1 \in 0..k /\ j \in 1..n - m
      BY <1>1
    <3>2. q[j] = o[i] /\ o[i] \in R
      BY <1>2, <3>1
    <3>3. f[i - 1] = w \o g[j - 1] /\ g[j - 1] \in Seq(R)
      BY <2>2, <3>1
    <3>4. w \o Append(g[j - 1], o[i]) = Append(w \o g[j - 1], o[i])
      <4>1. \A x \in Seq(R), r \in R : w \o Append(x, r) = Append(w \o x, r)
        BY <1>7, AppendBoth
      <4> QED
        BY <3>2, <3>3, <4>1, Zenon
    <3>5. CASE o[i].key \in BlockedKeys
      BY <1>5, <3>1, <3>2, <3>3, <3>5
    <3>6. CASE o[i].key \notin BlockedKeys
      <4>1. f[i] = Append(f[i - 1], o[i]) /\ g[j] = Append(g[j - 1], o[i])
        BY <1>5, <3>1, <3>2, <3>6
      <4> QED
        BY <3>1, <3>3, <3>4, <4>1
    <3> QED
      BY <3>5, <3>6
  <2>3. \A j \in 0..k : j \in A
    BY <2>1, <2>2, UpTo
  <2>4. k \in 0..k
    OBVIOUS
  <2>5. k \in A
    BY <2>3, <2>4, Zenon
  <2> QED
    BY <2>5
<1>9. m + k = n
  BY <1>1
<1> QED
  BY <1>0, <1>3, <1>4, <1>8, <1>9, <1>10

(* A pair with its text resolved; one whose text stays is the same pair.   *)
Fixed(r) == [r EXCEPT !.text = Params!ResolveText(@)]

LEMMA ResolvedIs ==
  ASSUME NEW R, NEW a \in Seq(R), NEW W, \A r \in R : Fixed(r) \in W
  PROVE  /\ Params!Resolved(a) \in Seq(W) /\ Len(Params!Resolved(a)) = Len(a)
         /\ \A i \in 1..Len(a) : Params!Resolved(a)[i] = Fixed(a[i])
<1>1. Params!Resolved(a) = [i \in 1..Len(a) |-> Fixed(a[i])]
  BY DEF Params!Resolved, Fixed
<1>2. \A i \in 1..Len(a) : Fixed(a[i]) \in W
  OBVIOUS
<1> QED
  BY <1>1, <1>2

LEMMA BothAre ==
  ASSUME NEW W, NEW u \in Seq(W), NEW v \in Seq(W)
  PROVE  /\ u \o v \in Seq(W) /\ Len(u \o v) = Len(u) + Len(v)
         /\ \A i \in 1..Len(u) : (u \o v)[i] = u[i]
         /\ \A i \in 1..Len(v) : (u \o v)[Len(u) + i] = v[i]
OBVIOUS

LEMMA ResolvedOfBoth ==
  ASSUME NEW R, NEW a \in Seq(R), NEW b \in Seq(R)
  PROVE  Params!Resolved(a \o b) = Params!Resolved(a) \o Params!Resolved(b)
<1> PICK W : W = {Fixed(r) : r \in R}
  OBVIOUS
<1>1. \A r \in R : Fixed(r) \in W
  OBVIOUS
<1>2. PICK c : c = a \o b
  OBVIOUS
<1>3. PICK u : u = Params!Resolved(a)
  OBVIOUS
<1>4. PICK v : v = Params!Resolved(b)
  OBVIOUS
<1>5. PICK z : z = Params!Resolved(c)
  OBVIOUS
<1>6. PICK y : y = u \o v
  OBVIOUS
<1>7. PICK k \in Nat : k = Len(a)
  OBVIOUS
<1>8. PICK l \in Nat : l = Len(b)
  OBVIOUS
<1>9. /\ c \in Seq(R) /\ Len(c) = k + l
      /\ \A i \in 1..k : c[i] = a[i]
      /\ \A i \in 1..l : c[k + i] = b[i]
  BY <1>2, <1>7, <1>8
<1>10. /\ u \in Seq(W) /\ Len(u) = k /\ \A i \in 1..k : u[i] = Fixed(a[i])
       /\ v \in Seq(W) /\ Len(v) = l /\ \A i \in 1..l : v[i] = Fixed(b[i])
  <2>1. /\ u \in Seq(W) /\ Len(u) = Len(a) /\ \A i \in 1..Len(a) : u[i] = Fixed(a[i])
        /\ v \in Seq(W) /\ Len(v) = Len(b) /\ \A i \in 1..Len(b) : v[i] = Fixed(b[i])
    BY <1>1, <1>3, <1>4, ResolvedIs
  <2> QED
    BY <1>7, <1>8, <2>1
<1>11. z \in Seq(W) /\ Len(z) = k + l /\ \A i \in 1..k + l : z[i] = Fixed(c[i])
  <2>1. z \in Seq(W) /\ Len(z) = Len(c) /\ \A i \in 1..Len(c) : z[i] = Fixed(c[i])
    BY <1>1, <1>5, <1>9, ResolvedIs
  <2> QED
    BY <1>9, <2>1
<1>12. /\ y \in Seq(W) /\ Len(y) = k + l
       /\ \A i \in 1..k : y[i] = u[i]
       /\ \A i \in 1..l : y[k + i] = v[i]
  <2>1. /\ y \in Seq(W) /\ Len(y) = Len(u) + Len(v)
        /\ \A i \in 1..Len(u) : y[i] = u[i]
        /\ \A i \in 1..Len(v) : y[Len(u) + i] = v[i]
    <3>1. u \in Seq(W) /\ v \in Seq(W)
      BY <1>10
    <3> QED
      BY <1>6, <3>1, BothAre
  <2>2. Len(u) = k /\ Len(v) = l
    BY <1>10
  <2> QED
    BY <2>1, <2>2
<1>13. ASSUME NEW i \in 1..k + l
       PROVE  y[i] = z[i]
  <2>1. CASE i \in 1..k
    BY <1>9, <1>10, <1>11, <1>12, <2>1
  <2>2. CASE i \notin 1..k
    <3>1. PICK j : j = i - k
      OBVIOUS
    <3>2. j \in 1..l /\ i = k + j
      BY <2>2, <3>1
    <3>3. z[i] = Fixed(b[j])
      BY <1>9, <1>11, <3>2
    <3>4. y[i] = Fixed(b[j])
      BY <1>10, <1>12, <3>2
    <3> QED
      BY <3>3, <3>4
  <2> QED
    BY <2>1, <2>2
<1>14. PICK n : n = k + l
  OBVIOUS
<1>15. z = [i \in 1..n |-> z[i]] /\ y = [i \in 1..n |-> y[i]]
  BY <1>11, <1>12, <1>14, SequenceIs, Zenon
<1>16. y = z
  BY <1>13, <1>14, <1>15, Zenon
<1> QED
  BY <1>2, <1>3, <1>4, <1>5, <1>6, <1>16, Zenon

(* Copying from the first change on is resolving everything.               *)
LEMMA ObjectIsResolved ==
  ASSUME NEW K, NEW S, NEW o \in Seq([key : K, text : S])
  PROVE  Params!ResolveObject(o) = Params!Resolved(Params!Valid(o))
<1>1. PICK R : R = [key : K, text : S]
  OBVIOUS
<1>2. PICK n \in Nat : n = Len(o)
  OBVIOUS
<1>3. o \in Seq(R) /\ DOMAIN o = 1..n /\ \A i \in 1..n : o[i] \in R
  <2>1. o \in Seq(R)
    BY <1>1, Zenon
  <2> QED
    BY <1>2, <2>1
<1>4. PICK C : C = Params!Changes(o)
  OBVIOUS
<1>5. C = {i \in 1..n : o[i].key \in BlockedKeys \/ Params!ResolveText(o[i].text) # o[i].text}
  BY <1>3, <1>4 DEF Params!Changes
<1>6. ASSUME NEW m \in 0..n, \A i \in 1..m : i \notin C
      PROVE  Params!Resolved(Params!Valid(o))
             = SubSeq(o, 1, m) \o Params!Resolved(Params!Valid(SubSeq(o, m + 1, n)))
  <2>1. PICK w : w = SubSeq(o, 1, m)
    OBVIOUS
  <2>2. PICK q : q = SubSeq(o, m + 1, n)
    OBVIOUS
  <2>3. /\ w \in Seq(R) /\ Len(w) = m /\ \A i \in 1..m : w[i] = o[i]
        /\ q \in Seq(R)
    BY <1>2, <1>3, <2>1, <2>2
  <2>4. \A i \in 1..m : i \in 1..n /\ o[i].key \notin BlockedKeys
                        /\ Params!ResolveText(o[i].text) = o[i].text
    BY <1>5, <1>6
  <2>5. Params!Valid(o) = w \o Params!Valid(q)
    BY <1>2, <1>3, <2>1, <2>2, <2>4, ValidSplits
  <2>6. Params!Valid(q) \in Seq(R)
    <3>1. PICK f \in [0..Len(q) -> Seq(R)] : Params!Valid(q) = f[Len(q)]
      BY <2>3, ValidBySteps
    <3>2. Len(q) \in 0..Len(q)
      BY <2>3
    <3> QED
      BY <3>1, <3>2
  <2>7. Params!Resolved(Params!Valid(o)) = Params!Resolved(w) \o Params!Resolved(Params!Valid(q))
    BY <2>3, <2>5, <2>6, ResolvedOfBoth
  <2>8. Params!Resolved(w) = w
    <3>1. \A i \in 1..m : Fixed(w[i]) = w[i]
      <4>1. \A r \in R : r = [key |-> r.key, text |-> r.text]
        BY <1>1
      <4>2. \A r \in R : Fixed(r) = [key |-> r.key, text |-> Params!ResolveText(r.text)]
        BY <1>1 DEF Fixed
      <4>3. \A r \in R : Params!ResolveText(r.text) = r.text => Fixed(r) = r
        BY <4>1, <4>2
      <4> QED
        BY <1>3, <2>3, <2>4, <4>3
    <3>2. Params!Resolved(w) = [i \in 1..m |-> Fixed(w[i])]
      BY <2>3 DEF Params!Resolved, Fixed
    <3>3. w = [i \in 1..m |-> w[i]]
      BY <2>3, SequenceIs, Zenon
    <3> QED
      BY <3>1, <3>2, <3>3
  <2> QED
    BY <2>1, <2>2, <2>7, <2>8
<1>7. CASE C = {}
  <2>1. Params!ResolveObject(o) = o
    BY <1>4, <1>7 DEF Params!ResolveObject
  <2>2. Params!Resolved(Params!Valid(o))
        = SubSeq(o, 1, n) \o Params!Resolved(Params!Valid(SubSeq(o, n + 1, n)))
    BY <1>6, <1>7
  <2>3. SubSeq(o, 1, n) = o /\ SubSeq(o, n + 1, n) = <<>>
    BY <1>2, <1>3
  <2>4. Params!Resolved(Params!Valid(<<>>)) = <<>>
    <3>1. <<>> \in Seq(R) /\ Len(<<>>) = 0
      OBVIOUS
    <3>2. PICK f : ValidSteps(<<>>, f) /\ Params!Valid(<<>>) = f[0]
      BY <3>1, ValidBySteps
    <3>3. Params!Valid(<<>>) = <<>>
      BY <3>2 DEF ValidSteps
    <3> QED
      BY <3>3 DEF Params!Resolved
  <2>5. o \o <<>> = o
    BY <1>3
  <2> QED
    BY <2>1, <2>2, <2>3, <2>4, <2>5
<1>8. CASE C # {}
  <2>1. \E i \in C : \A j \in C : i <= j
    <3>1. C \subseteq Nat
      BY <1>5
    <3> QED
      BY <1>8, <3>1, LeastExists
  <2>2. PICK first : first = CHOOSE i \in C : \A j \in C : i <= j
    OBVIOUS
  <2>3. first \in C /\ \A j \in C : first <= j
    BY <2>1, <2>2, Zenon
  <2>4. first \in 1..n
    BY <1>5, <2>3
  <2>5. first - 1 \in 0..n /\ (first - 1) + 1 = first
    BY <2>4
  <2>6. \A i \in 1..first - 1 : i \notin C
    BY <2>3, <2>4
  <2>7. Params!Resolved(Params!Valid(o))
        = SubSeq(o, 1, first - 1) \o Params!Resolved(Params!Valid(SubSeq(o, first, n)))
    BY <1>6, <2>5, <2>6
  <2>8. Params!ResolveObject(o)
        = SubSeq(o, 1, first - 1) \o Params!Resolved(Params!Valid(SubSeq(o, first, n)))
    BY <1>2, <1>4, <1>8, <2>2 DEF Params!ResolveObject
  <2> QED
    BY <2>7, <2>8
<1> QED
  BY <1>7, <1>8

(* One call resolves one text or one object.                              *)
LEMMA TextIsOnePass ==
  ASSUME TextHypotheses, Params!CallText
  PROVE  Params!SinglePass' /\ Params!CopyIsWhole'
<1>1. PICK text \in Params!Texts : /\ given' = [text |-> text]
                                  /\ answer' = [text |-> Params!ResolveText(text)]
  <2>1. PICK g \in [text : Params!Texts] : given' = g
    BY DEF Params!CallText
  <2>2. g = [text |-> g.text] /\ g.text \in Params!Texts
    OBVIOUS
  <2>3. answer' = [text |-> Params!ResolveText(g.text)]
    BY <2>1 DEF Params!CallText
  <2> QED
    BY <2>1, <2>2, <2>3
<1>2. text \in Seq(Tokens) /\ text # <<>>
  BY DEF Params!Texts
<1>3. "object" \notin DOMAIN given'
  BY <1>1
<1>4. given'.text = text /\ answer'.text = Params!ResolveText(text)
  BY <1>1
<1>5. Params!CopyIsWhole'
  BY <1>3 DEF Params!CopyIsWhole
<1>6. Params!SinglePass'
  BY <1>2, <1>4, TextIsResolved DEF Params!SinglePass, Params!Last, Dollar, Brace
<1> QED
  BY <1>5, <1>6

LEMMA ObjectIsWhole ==
  ASSUME Params!CallObject
  PROVE  Params!SinglePass' /\ Params!CopyIsWhole'
<1>1. PICK o \in Params!Objects : /\ given' = [object |-> o]
                                 /\ answer' = [object |-> Params!ResolveObject(o)]
  <2>1. PICK g \in [object : Params!Objects] : given' = g
    BY DEF Params!CallObject
  <2>2. g = [object |-> g.object] /\ g.object \in Params!Objects
    OBVIOUS
  <2>3. answer' = [object |-> Params!ResolveObject(g.object)]
    BY <2>1 DEF Params!CallObject
  <2> QED
    BY <2>1, <2>2, <2>3
<1>2. o \in Seq([key : Keys, text : Samples])
  <2>1. PICK n \in 1..MaxKeys : o \in [1..n -> [key : Keys, text : Samples]]
    BY DEF Params!Objects
  <2>2. n \in Nat
    OBVIOUS
  <2>3. PICK R : R = [key : Keys, text : Samples]
    OBVIOUS
  <2>4. o \in [1..n -> R]
    BY <2>1, <2>3
  <2>5. o \in Seq(R)
    BY <2>2, <2>4
  <2> QED
    BY <2>3, <2>5
<1>3. "text" \notin DOMAIN given'
  BY <1>1
<1>4. given'.object = o /\ answer'.object = Params!ResolveObject(o)
  BY <1>1
<1>5. Params!SinglePass'
  BY <1>3 DEF Params!SinglePass
<1>6. Params!CopyIsWhole'
  BY <1>2, <1>4, ObjectIsResolved DEF Params!CopyIsWhole
<1> QED
  BY <1>5, <1>6

-----------------------------------------------------------------------------
(* A step of the loops is one of each component, or none of it.            *)
LEMMA LoopsStep ==
  ASSUME [LoopsNext]_<<vars, inspectionVars, engineVars, templateVars, formVars>>
  PROVE  /\ [Next]_vars /\ [Inspection!Next]_inspectionVars
         /\ [Engine!Next]_engineVars /\ [Params!Next]_templateVars /\ [Forms!Next]_formVars
BY DEF LoopsNext

(* NodeManager.start and stop, SelfInspection.start and stop: until a start overlaps a stop
   of its own loop, one task at most is alive of each, and once a stop has returned none is. *)
THEOREM LoopsRunOnce ==
  ASSUME NoLoop \notin Loops
  PROVE  LoopsSpec => []OneOfEach
<1>1. LoopsInit => ManagerInv /\ InspectionInv
  BY InitInv, InitInspection DEF LoopsInit
<1>2. ManagerInv /\ InspectionInv
        /\ [LoopsNext]_<<vars, inspectionVars, engineVars, templateVars, formVars>>
      => ManagerInv' /\ InspectionInv'
  BY LoopsStep, NextInv, NextInspection
<1>3. ManagerInv /\ InspectionInv => OneOfEach
  BY WorkerIsOne, InspectionIsOne DEF OneOfEach
<1> QED
  BY <1>1, <1>2, <1>3, PTL DEF LoopsSpec

(* WorkflowEngine.run and PipelineEngine.run: every call at work belongs to the step the run
   is at, and what it was given is the result of the last step before it that wrote the
   name it reads. *)
THEOREM StagesAreOrdered == LoopsSpec => []StageOrder
<1>1. LoopsInit => EngineInv
  BY InitEngine DEF LoopsInit
<1>2. EngineInv /\ [LoopsNext]_<<vars, inspectionVars, engineVars, templateVars, formVars>>
      => EngineInv'
  BY LoopsStep, NextEngine
<1>3. EngineInv => StageOrder
  BY EngineOrdered
<1> QED
  BY <1>1, <1>2, <1>3, PTL DEF LoopsSpec

(* resolveParams: the references of a text are replaced in one pass, whatever the values that
   come in look like, and an object that is copied from its first change on is resolved as a
   whole. *)
THEOREM ParametersAreResolved ==
  ASSUME TextHypotheses
  PROVE  LoopsSpec => []ParamsResolved
<1>1. LoopsInit => ParamsResolved
  BY DEF LoopsInit, Params!Init, ParamsResolved, Params!SinglePass, Params!CopyIsWhole
<1>2. ParamsResolved /\ [LoopsNext]_<<vars, inspectionVars, engineVars, templateVars, formVars>>
      => ParamsResolved'
  <2> SUFFICES ASSUME ParamsResolved,
                      [LoopsNext]_<<vars, inspectionVars, engineVars, templateVars, formVars>>
               PROVE  ParamsResolved'
    OBVIOUS
  <2>1. CASE Params!CallText
    BY <2>1, TextIsOnePass DEF ParamsResolved
  <2>2. CASE Params!CallObject
    BY <2>2, ObjectIsWhole DEF ParamsResolved
  <2>3. CASE UNCHANGED templateVars
    BY <2>3 DEF templateVars, ParamsResolved, Params!SinglePass, Params!CopyIsWhole
  <2> QED
    BY <2>1, <2>2, <2>3, LoopsStep DEF Params!Next
<1> QED
  BY <1>1, <1>2, PTL DEF LoopsSpec

(* NotificationDispatcher.broadcast and executeInfinityLoopCycle, under listeners that call
   the engine again: every listener hears of every event once, the first one in order, and
   a cycle succeeds exactly if its payload fits. *)
THEOREM ReentryIsServed == LoopsSpec => []ListenersAreServed
<1>1. LoopsInit => FormsInv
  BY InitForms DEF LoopsInit
<1>2. FormsInv /\ [LoopsNext]_<<vars, inspectionVars, engineVars, templateVars, formVars>>
      => FormsInv'
  BY LoopsStep, NextForms
<1>3. FormsInv => ListenersAreServed
  BY EveryListenerServed
<1> QED
  BY <1>1, <1>2, <1>3, PTL DEF LoopsSpec

-----------------------------------------------------------------------------
(* NodeManager without the hypothesis that no two stops overlapped.  A cancelled worker is
   awaited; until a job strays, whoever is awaited was cancelled or has ended, and a worker
   that ended in _loop_task is awaited by somebody who will clear it. *)
AwaitedIsCancelled ==
  \A c \in Callers : stopping[c] \in Live => task[stopping[c]].cancelled

EndedIsAwaited ==
  loopTask # None => loopTask \in Live \/ \E c \in Callers : stopping[c] = loopTask

WaitingInv == CancelledIsAwaited /\ (~astray => AwaitedIsCancelled /\ EndedIsAwaited)

LEMMA WaitingInit == Init => WaitingInv
<1> SUFFICES ASSUME Init PROVE WaitingInv
  OBVIOUS
<1>1. Live = {}
  BY DEF Init, Live, NoTask
<1> QED
  BY <1>1 DEF Init, WaitingInv, CancelledIsAwaited, AwaitedIsCancelled, EndedIsAwaited

(* The new worker is one nobody waits for. *)
LEMMA WaitingStart ==
  ASSUME TypeOK, WaitingInv, NEW c \in Callers, StartQueueWorker(c)
  PROVE  WaitingInv'
<1>1. UNCHANGED <<stopping, astray>>
  BY DEF StartQueueWorker
<1>2. PICK w \in Tasks : Unused(w) /\ task' = [task EXCEPT ![w] = NewTask] /\ loopTask' = w
  BY DEF StartQueueWorker
<1>3. \A v \in Tasks : task'[v] = IF v = w THEN NewTask ELSE task[v]
  BY <1>2 DEF TypeOK
<1>4. NewTask.step = "new" /\ ~NewTask.cancelled
  BY DEF NewTask
<1>5. Live' = Live \cup {w} /\ Live \subseteq Tasks /\ \A d \in Callers : stopping[d] # w
  BY <1>2, <1>3, <1>4 DEF Live, Unused
<1>6. CancelledIsAwaited'
  BY ONLY WaitingInv, <1>1, <1>3, <1>4, <1>5
     DEF WaitingInv, CancelledIsAwaited
<1>7. AwaitedIsCancelled => AwaitedIsCancelled'
  BY ONLY <1>1, <1>3, <1>5 DEF AwaitedIsCancelled
<1>8. EndedIsAwaited'
  BY <1>2, <1>5 DEF EndedIsAwaited
<1> QED
  BY ONLY WaitingInv, <1>1, <1>6, <1>7, <1>8 DEF WaitingInv

(* A stop cancels the worker it goes on to wait for. *)
LEMMA WaitingStop ==
  ASSUME TypeOK, WaitingInv, NEW c \in Callers, StopQueueWorker(c)
  PROVE  WaitingInv'
<1>1. loopTask \in Live /\ stopping[c] = None /\ UNCHANGED <<loopTask, astray>>
  BY DEF StopQueueWorker
<1>2. /\ task' = [task EXCEPT ![loopTask].cancelled = TRUE]
      /\ stopping' = [stopping EXCEPT ![c] = loopTask]
  BY DEF StopQueueWorker
<1>3. \A v \in Tasks : /\ task'[v].step = task[v].step
                       /\ task'[v].cancelled = (v = loopTask \/ task[v].cancelled)
  BY <1>2 DEF TypeOK, TaskRecord
<1>4. Live' = Live
  BY <1>3 DEF Live
<1>5. \A d \in Callers : stopping'[d] = IF d = c THEN loopTask ELSE stopping[d]
  BY <1>2 DEF TypeOK
<1>6. None \notin Live /\ Live \subseteq Tasks
  BY ManagerAssumption DEF Live
<1>7. CancelledIsAwaited'
  <2> SUFFICES ASSUME NEW v \in Live', task'[v].cancelled
               PROVE  \E d \in Callers : stopping'[d] = v
    BY DEF CancelledIsAwaited
  <2>1. CASE v = loopTask
    BY <1>5, <2>1
  <2>2. CASE v # loopTask
    <3>1. v \in Live /\ v \in Tasks /\ task[v].cancelled
      BY <1>3, <1>4, <1>6, <2>2
    <3>2. PICK d \in Callers : stopping[d] = v
      BY <3>1 DEF WaitingInv, CancelledIsAwaited
    <3>3. v # None
      BY <1>6, <3>1
    <3>4. d # c
      BY <1>1, <3>2, <3>3
    <3> QED
      BY <1>5, <3>2, <3>4
  <2> QED
    BY <2>1, <2>2
<1>8. AwaitedIsCancelled => AwaitedIsCancelled'
  <2> SUFFICES ASSUME AwaitedIsCancelled, NEW d \in Callers, stopping'[d] \in Live'
               PROVE  task'[stopping'[d]].cancelled
    BY DEF AwaitedIsCancelled
  <2>1. CASE d = c
    BY <1>1, <1>3, <1>5, <1>6, <2>1
  <2>2. CASE d # c
    <3>1. stopping'[d] = stopping[d] /\ stopping[d] \in Live
      BY <1>4, <1>5, <2>2
    <3> QED
      BY <1>3, <1>6, <3>1 DEF AwaitedIsCancelled
  <2> QED
    BY <2>1, <2>2
<1>9. EndedIsAwaited'
  BY <1>1, <1>4 DEF EndedIsAwaited
<1> QED
  BY ONLY WaitingInv, <1>1, <1>7, <1>8, <1>9 DEF WaitingInv

(* A stop that is over has waited for a worker that ended, and leaves _loop_task empty. *)
LEMMA WaitingStopped ==
  ASSUME TypeOK, WaitingInv, NEW c \in Callers, StopEndedWorker(c) \/ StopReturns(c)
  PROVE  WaitingInv'
<1>1. loopTask' = None /\ UNCHANGED <<task, astray>>
  BY DEF StopEndedWorker, StopReturns
<1>2. Live' = Live /\ None \notin Live
  BY <1>1, ManagerAssumption DEF Live
<1>3. \A d \in Callers : stopping'[d] = stopping[d] \/ (stopping'[d] = None /\ stopping[d] \notin Live)
  <2>1. CASE StopEndedWorker(c)
    BY <2>1 DEF StopEndedWorker
  <2>2. CASE StopReturns(c)
    <3>1. stopping' = [stopping EXCEPT ![c] = None] /\ stopping[c] \notin Live
      BY <2>2 DEF StopReturns
    <3>2. \A d \in Callers : stopping'[d] = IF d = c THEN None ELSE stopping[d]
      BY <3>1 DEF TypeOK
    <3> QED
      BY <3>1, <3>2
  <2> QED
    BY <2>1, <2>2
<1>4. CancelledIsAwaited'
  BY ONLY WaitingInv, <1>1, <1>2, <1>3 DEF WaitingInv, CancelledIsAwaited
<1>5. AwaitedIsCancelled => AwaitedIsCancelled'
  BY ONLY <1>1, <1>2, <1>3 DEF AwaitedIsCancelled
<1>6. EndedIsAwaited'
  BY ONLY <1>1 DEF EndedIsAwaited
<1> QED
  BY ONLY WaitingInv, <1>1, <1>4, <1>5, <1>6 DEF WaitingInv

(* A worker goes on only when it was not cancelled, or strays, and one that was cancelled ends. *)
LEMMA WaitingLoop ==
  ASSUME TypeOK, WaitingInv, NEW w \in Tasks, ProcessQueueLoop(w) \/ JobCancelled(w) \/ JobSurvives(w)
  PROVE  WaitingInv'
<1>1. UNCHANGED <<loopTask, stopping>> /\ (astray => astray')
  BY DEF ProcessQueueLoop, Begin, TakeJob, JobEnds, Break, JobCancelled, JobSurvives, TypeOK
<1>2. PICK r \in TaskRecord : task' = [task EXCEPT ![w] = r] /\ w \in Live /\ ~r.cancelled
  BY OneTask
<1>3. \A v \in Tasks : task'[v] = IF v = w THEN r ELSE task[v]
  BY <1>2 DEF TypeOK
<1>4. Live' \subseteq Live /\ Live \ {w} \subseteq Live' /\ Live \subseteq Tasks
  BY <1>2, <1>3 DEF Live
<1>5. CancelledIsAwaited'
  BY ONLY WaitingInv, <1>1, <1>2, <1>3, <1>4 DEF WaitingInv, CancelledIsAwaited
<1>6. SUFFICES ASSUME ~astray' PROVE AwaitedIsCancelled' /\ EndedIsAwaited'
  BY <1>5 DEF WaitingInv
<1>7. AwaitedIsCancelled /\ EndedIsAwaited
  BY <1>1, <1>6 DEF WaitingInv
<1>8. w \in Live' => ~task[w].cancelled
  <2>1. CASE Break(w)
    BY <2>1, <1>3 DEF Break, Live, NoTask, TypeOK
  <2>2. CASE Begin(w) \/ TakeJob(w) \/ JobEnds(w)
    BY <2>2 DEF Begin, TakeJob, JobEnds, NewTask
  <2>3. ~JobCancelled(w) /\ ~JobSurvives(w)
    BY <1>6 DEF JobCancelled, JobSurvives
  <2> QED
    BY <2>1, <2>2, <2>3 DEF ProcessQueueLoop
<1>9. AwaitedIsCancelled'
  <2> SUFFICES ASSUME NEW c \in Callers, stopping[c] \in Live'
               PROVE  task'[stopping[c]].cancelled
    BY <1>1 DEF AwaitedIsCancelled
  <2>1. task[stopping[c]].cancelled
    BY <1>4, <1>7 DEF AwaitedIsCancelled
  <2>2. stopping[c] # w
    BY <1>8, <2>1
  <2> QED
    BY <1>3, <1>4, <2>1, <2>2
<1>10. w \in Live' \/ task[w].cancelled
  <2>1. CASE Break(w)
    BY <2>1 DEF Break
  <2>2. CASE Begin(w) \/ TakeJob(w) \/ JobEnds(w)
    BY <2>2 DEF Begin, TakeJob, JobEnds, Goto, Live, TypeOK, TaskRecord
  <2>3. ~JobCancelled(w) /\ ~JobSurvives(w)
    BY <1>6 DEF JobCancelled, JobSurvives
  <2> QED
    BY <2>1, <2>2, <2>3 DEF ProcessQueueLoop
<1>11. EndedIsAwaited'
  BY ONLY WaitingInv, <1>1, <1>2, <1>4, <1>7, <1>10
     DEF EndedIsAwaited, WaitingInv, CancelledIsAwaited
<1> QED
  BY <1>9, <1>11

LEMMA WaitingNext ==
  ASSUME TypeOK, WaitingInv, [Next]_vars
  PROVE  WaitingInv'
<1>1. CASE EnqueueTask \/ UNCHANGED vars
  <2>1. UNCHANGED <<task, loopTask, stopping, astray>>
    BY <1>1 DEF EnqueueTask, vars
  <2> QED
    BY <2>1 DEF WaitingInv, CancelledIsAwaited, AwaitedIsCancelled, EndedIsAwaited, Live
<1> QED
  BY <1>1, WaitingStart, WaitingStop, WaitingStopped, WaitingLoop DEF Next

(* nodes.py stop_queue_worker and _process_queue_loop, what WaitingEnds rests on,
   however starts and stops overlapped before: until a job strays, a caller of
   stop_queue_worker waits for a task that has ended or is cancelled and can only end,
   and a task that is in _loop_task while nobody stops it runs and was not cancelled. *)
THEOREM NobodyWaitsInVain ==
  LoopsSpec =>
    [](~astray => /\ \A c \in Callers : stopping[c] \in Live => task[stopping[c]].cancelled
                  /\ loopTask # None /\ (\A c \in Callers : stopping[c] = None)
                       => loopTask \in Live /\ ~task[loopTask].cancelled)
<1> DEFINE Served == ~astray => /\ \A c \in Callers : stopping[c] \in Live => task[stopping[c]].cancelled
                                /\ loopTask # None /\ (\A c \in Callers : stopping[c] = None)
                                     => loopTask \in Live /\ ~task[loopTask].cancelled
<1>1. LoopsInit => TypeOK /\ WaitingInv
  BY InitInv, WaitingInit DEF LoopsInit, ManagerInv
<1>2. TypeOK /\ WaitingInv /\ [LoopsNext]_<<vars, inspectionVars, engineVars, templateVars, formVars>> => (TypeOK /\ WaitingInv)'
  BY LoopsStep, NextTypes, WaitingNext
<1>3. WaitingInv => Served
  <2>1. None \notin Live
    BY ManagerAssumption DEF Live
  <2> QED
    BY <2>1 DEF WaitingInv, CancelledIsAwaited, AwaitedIsCancelled, EndedIsAwaited
<1> QED
  BY <1>1, <1>2, <1>3, PTL DEF LoopsSpec

-----------------------------------------------------------------------------
(* SelfInspection without the hypothesis that no start overlapped a stop: while the flag is set
   a loop runs that nobody has cancelled, and whoever is awaited was cancelled or has ended. *)
Running == {l \in Inspection!Live : ~loop[l].cancelled}

InspectionServed ==
  /\ isRunning => Running # {}
  /\ \A o \in Operators :
       inspectionStopping[o] \in Inspection!Live => loop[inspectionStopping[o]].cancelled

LEMMA ServedInit == Inspection!Init => InspectionServed
<1>1. Inspection!Init => Inspection!Live = {} /\ ~isRunning
  BY DEF Inspection!Init, Inspection!Live, Inspection!Ended
<1> QED
  BY <1>1 DEF InspectionServed

LEMMA ServedStart ==
  ASSUME InspectionInv, InspectionServed, NEW o \in Operators, Inspection!Start(o)
  PROVE  InspectionServed'
<1> DEFINE New == [step |-> "new", cancelled |-> FALSE]
<1>1. PICK l \in Loops : Inspection!Unused(l) /\ loop' = [loop EXCEPT ![l] = New]
  BY DEF Inspection!Start
<1>2. UNCHANGED inspectionStopping
  BY DEF Inspection!Start
<1>3. \A m \in Loops : loop'[m] = IF m = l THEN New ELSE loop[m]
  BY <1>1 DEF InspectionInv, InspectionTyped
<1>4. /\ Inspection!Live' = Inspection!Live \cup {l}
      /\ Inspection!Live \subseteq Loops
      /\ \A p \in Operators : inspectionStopping[p] # l
  BY <1>1, <1>3 DEF Inspection!Live, Inspection!Unused
<1>5. l \in Running'
  BY <1>3, <1>4 DEF Running
<1>6. \A p \in Operators :
        inspectionStopping'[p] \in Inspection!Live' => loop'[inspectionStopping'[p]].cancelled
  BY <1>2, <1>3, <1>4 DEF InspectionServed
<1> QED
  BY <1>5, <1>6 DEF InspectionServed

LEMMA ServedStop ==
  ASSUME InspectionInv, InspectionServed, NEW o \in Operators,
         Inspection!Stop(o) \/ Inspection!StopReturns(o), NoLoop \notin Loops
  PROVE  InspectionServed'
<1>1. Inspection!Live \subseteq Loops
  BY DEF Inspection!Live
<1>2. CASE /\ isRunning' = FALSE /\ inspectionTask \in Inspection!Live
           /\ loop' = [loop EXCEPT ![inspectionTask].cancelled = TRUE]
           /\ inspectionStopping' = [inspectionStopping EXCEPT ![o] = inspectionTask]
  <2>1. \A l \in Loops : /\ loop'[l].step = loop[l].step
                         /\ loop'[l].cancelled = (l = inspectionTask \/ loop[l].cancelled)
    BY <1>2 DEF InspectionInv, InspectionTyped
  <2>2. Inspection!Live' = Inspection!Live
    BY <2>1 DEF Inspection!Live
  <2>3. \A p \in Operators :
          inspectionStopping'[p] = IF p = o THEN inspectionTask ELSE inspectionStopping[p]
    BY <1>2 DEF InspectionInv, InspectionTyped
  <2>4. \A p \in Operators :
          inspectionStopping'[p] \in Inspection!Live' => loop'[inspectionStopping'[p]].cancelled
    BY <1>1, <2>1, <2>2, <2>3 DEF InspectionServed
  <2> QED
    BY <1>2, <2>4 DEF InspectionServed
<1>3. CASE isRunning' = FALSE /\ UNCHANGED <<loop, inspectionStopping>>
  BY <1>3 DEF InspectionServed, Inspection!Live
<1>4. CASE Inspection!StopReturns(o)
  <2>1. /\ inspectionStopping' = [inspectionStopping EXCEPT ![o] = NoLoop]
        /\ UNCHANGED <<isRunning, loop>>
    BY <1>4 DEF Inspection!StopReturns
  <2>2. Inspection!Live' = Inspection!Live /\ Running' = Running
    BY <2>1 DEF Inspection!Live, Running
  <2>3. \A p \in Operators : inspectionStopping'[p] \in {NoLoop, inspectionStopping[p]}
    BY <2>1 DEF InspectionInv, InspectionTyped
  <2>4. \A p \in Operators :
          inspectionStopping'[p] \in Inspection!Live' => loop'[inspectionStopping'[p]].cancelled
    BY <1>1, <2>1, <2>2, <2>3 DEF InspectionServed
  <2> QED
    BY <2>1, <2>2, <2>4 DEF InspectionServed
<1> QED
  BY <1>2, <1>3, <1>4 DEF Inspection!Stop

(* A loop that goes on was not cancelled; one that ends was, or the flag is cleared. *)
LEMMA ServedLoop ==
  ASSUME InspectionInv, InspectionServed, NEW l \in Loops, Inspection!RunInspectionLoop(l)
  PROVE  InspectionServed'
<1>1. UNCHANGED <<isRunning, inspectionStopping>> /\ l \in Inspection!Live
  BY DEF Inspection!RunInspectionLoop, Inspection!Inspect, Inspection!Break
<1>2. Inspection!Live \subseteq Loops
  BY DEF Inspection!Live
<1>3. CASE Inspection!Inspect(l)
  <2>1. loop' = [loop EXCEPT ![l].step = "sleep"] /\ ~loop[l].cancelled
    BY <1>3 DEF Inspection!Inspect
  <2>2. \A m \in Loops : /\ loop'[m].step = IF m = l THEN "sleep" ELSE loop[m].step
                         /\ loop'[m].cancelled = loop[m].cancelled
    BY <2>1 DEF InspectionInv, InspectionTyped
  <2>3. Inspection!Live' = Inspection!Live
    BY <1>1, <2>2 DEF Inspection!Live
  <2>4. Running' = Running
    BY <1>2, <2>2, <2>3 DEF Running
  <2> QED
    BY <1>1, <1>2, <2>2, <2>3, <2>4 DEF InspectionServed
<1>4. CASE Inspection!Break(l)
  <2>1. /\ loop[l].cancelled \/ ~isRunning
        /\ loop' = [loop EXCEPT ![l] = Inspection!Ended]
    BY <1>4 DEF Inspection!Break
  <2>2. \A m \in Loops : loop'[m] = IF m = l THEN Inspection!Ended ELSE loop[m]
    BY <2>1 DEF InspectionInv, InspectionTyped
  <2>3. Inspection!Live' = Inspection!Live \ {l}
    BY <2>2 DEF Inspection!Live, Inspection!Ended
  <2>4. isRunning => Running \subseteq Running'
    BY <1>2, <2>1, <2>2, <2>3 DEF Running
  <2>5. \A p \in Operators :
          inspectionStopping'[p] \in Inspection!Live' => loop'[inspectionStopping'[p]].cancelled
    BY <1>1, <1>2, <2>2, <2>3 DEF InspectionServed
  <2> QED
    BY <1>1, <2>4, <2>5 DEF InspectionServed
<1> QED
  BY <1>3, <1>4 DEF Inspection!RunInspectionLoop

LEMMA ServedNext ==
  ASSUME NoLoop \notin Loops, InspectionInv, InspectionServed, [Inspection!Next]_inspectionVars
  PROVE  InspectionServed'
<1>1. ASSUME UNCHANGED <<isRunning, loop, inspectionStopping>>
      PROVE  InspectionServed'
  BY <1>1 DEF InspectionServed, Running, Inspection!Live
<1>2. ASSUME NEW n \in Nodes,
             Inspection!Register(n) \/ Inspection!Deregister(n) \/ Inspection!Degrade(n)
      PROVE  InspectionServed'
  BY <1>1, <1>2 DEF Inspection!Register, Inspection!Deregister, Inspection!Degrade
<1> QED
  BY <1>1, <1>2, ServedStart, ServedStop, ServedLoop DEF Inspection!Next, inspectionVars

(* telemetry.py start, stop and _run_inspection_loop, what NodesRecover rests on, however starts
   and stops overlapped before: as long as the flag is set a loop is there that was not
   cancelled, and a caller of stop waits for a loop that has ended or was cancelled. *)
THEOREM FlagMeansInspected ==
  ASSUME NoLoop \notin Loops
  PROVE  LoopsSpec =>
           []/\ isRunning => \E l \in Inspection!Live : ~loop[l].cancelled
             /\ \A o \in Operators :
                  inspectionStopping[o] \in Inspection!Live => loop[inspectionStopping[o]].cancelled
<1> DEFINE Served == /\ isRunning => \E l \in Inspection!Live : ~loop[l].cancelled
                     /\ \A o \in Operators :
                          inspectionStopping[o] \in Inspection!Live => loop[inspectionStopping[o]].cancelled
<1>1. LoopsInit => InspectionInv /\ InspectionServed
  BY InitInspection, ServedInit DEF LoopsInit
<1>2. /\ InspectionInv /\ InspectionServed
      /\ [LoopsNext]_<<vars, inspectionVars, engineVars, templateVars, formVars>>
      => (InspectionInv /\ InspectionServed)'
  BY LoopsStep, NextInspection, ServedNext
<1>3. InspectionServed => Served
  BY DEF InspectionServed, Running
<1> QED
  BY <1>1, <1>2, <1>3, PTL DEF LoopsSpec

-----------------------------------------------------------------------------
(* WorkflowEngine.  A step of a run goes on to the next step of the plan, to the next item of
   the list it is at, or to fewer calls, at least one; calls are made when none is at work. *)
RunAdvances ==
  outcome = "running" /\ outcome' = "running" =>
    /\ plan' = plan
    /\ \/ UNCHANGED engineVars
       \/ at <= Len(plan) /\ at' = at + 1 /\ calls' = {}
       \/ at' = at /\ item' = item + 1 /\ item < Engine!Items /\ calls' = {}
       \/ /\ at' = at /\ item' = item /\ calls' # {}
          /\ calls = {} \/ (calls' \subseteq calls /\ calls' # calls)

LEMMA ResolveAdvances ==
  ASSUME EngineInv, NEW c \in calls, Engine!Resolve(c), outcome = "running"
  PROVE  RunAdvances
<1>1. /\ calls' = calls \ {c} /\ plan' = plan /\ at <= Len(plan)
      /\ c \in Engine!CallsOf(Engine!Step) /\ calls \subseteq Engine!CallsOf(Engine!Step)
  BY DEF Engine!Resolve, EngineInv, AtWork
<1>2. CASE at' = at + 1 /\ (Engine!Step.parallel => Engine!AllAnswered(c))
  <2>1. calls' = {}
    BY <1>1, <1>2, CallsOfStep DEF Engine!AllAnswered
  <2> QED
    BY <1>1, <1>2, <2>1 DEF RunAdvances
<1>3. CASE Engine!Step.parallel /\ at' = at /\ item' = item /\ ~Engine!AllAnswered(c)
  BY <1>1, <1>3 DEF RunAdvances, Engine!AllAnswered
<1>4. CASE /\ ~Engine!Step.parallel /\ Engine!Step.foreach # NoName
           /\ item' = item + 1 /\ at' = at
  <2>1. calls' = {}
    BY <1>1, <1>4, CallsOfStep
  <2>2. item < Engine!Items
    BY <1>1, <1>4 DEF Engine!CallsOf
  <2> QED
    BY <1>1, <1>4, <2>1, <2>2 DEF RunAdvances
<1> QED
  BY <1>2, <1>3, <1>4 DEF Engine!Resolve

LEMMA EngineAdvances ==
  ASSUME EngineInv, [Engine!Next]_engineVars
  PROVE  RunAdvances
<1>1. CASE UNCHANGED engineVars
  BY <1>1 DEF RunAdvances, engineVars
<1>2. ASSUME NEW name \in Requested, Engine!Start(name)
      PROVE  RunAdvances
  BY <1>2 DEF Engine!Start, RunAdvances
<1>3. CASE Engine!Invoke
  BY <1>3 DEF Engine!Invoke, RunAdvances
<1>4. CASE Engine!PassOver
  BY <1>4 DEF Engine!PassOver, Engine!Under, RunAdvances
<1>5. ASSUME NEW c \in calls, Engine!Resolve(c) \/ Engine!Reject(c)
      PROVE  RunAdvances
  BY <1>5, ResolveAdvances DEF Engine!Reject, RunAdvances
<1>6. CASE Engine!Return
  BY <1>6 DEF Engine!Return, RunAdvances
<1> QED
  BY <1>1, <1>2, <1>3, <1>4, <1>5, <1>6 DEF Engine!Next, Engine!Answered

(* WorkflowEngine.run and PipelineEngine.run, what RunEnds rests on: a run never goes back to a
   step, never makes the calls of a step or an item again, leaves it only when none of them is
   out, and as long as some are the only thing that happens to it is that one is answered. *)
THEOREM RunsGoForward ==
  LoopsSpec => [][RunAdvances]_<<vars, inspectionVars, engineVars, templateVars, formVars>>
<1>1. LoopsInit => EngineInv
  BY InitEngine DEF LoopsInit
<1>2. EngineInv /\ [LoopsNext]_<<vars, inspectionVars, engineVars, templateVars, formVars>>
      => EngineInv' /\ RunAdvances
  BY LoopsStep, NextEngine, EngineAdvances
<1> QED
  BY <1>1, <1>2, PTL DEF LoopsSpec
=============================================================================

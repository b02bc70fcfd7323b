--------------------------- MODULE WorkflowEngine ---------------------------
(* One run of a pipeline or a workflow, src/src/engine/runtime/orchestrator.ts, as
   src/src/os/orchestrator/predatorOrchestrator.ts starts it.  The steps of a
   definition are one sequence (sources, stages and sinks, or the steps of a workflow)
   and a step is
     use      the name of its action;
     own      it has params of its own, which then are all its handler gets;
     from     the names it reads, "many" when they are written as an array;
     into     where its result is kept: source.name, stage.emit, step.output;
     foreach  the name of the list it is called for, item by item;
     parallel, branches  the branches of a parallel stage.
   A value is known by the step that made it and the length of the list it is.      *)
EXTENDS Integers, Sequences

CONSTANTS
  Definitions,   \* name -> sequence of steps, the loaded module
  Requested,     \* the names asked for, some of which are not there
  Registered,    \* the actions that have a handler
  Lengths,       \* what handlers return: how long a list, or NotAList
  NotAList, NoName, Blocked, \* Blocked: __proto__, constructor, prototype
  NoValue        \* null or undefined

VARIABLES
  plan,     \* the steps of the run
  at, item, \* the step it is at, and how many items of a foreach are done
  state,    \* name -> value, as far as written
  calls,    \* the actions called and not yet answered
  outcome   \* "idle", "running", "returned" or "failed"

vars == <<plan, at, item, state, calls, outcome>>

Init ==
  /\ plan = <<>> /\ at = 1 /\ item = 0
  /\ state = <<>>
  /\ calls = {}
  /\ outcome = "idle"

(* PredatorOrchestrator.runPipeline, runWorkflow. *)
Start(name) ==
  /\ outcome = "idle"
  /\ IF name \in DOMAIN Definitions
     THEN outcome' = "running" /\ plan' = Definitions[name]
     ELSE outcome' = "failed" /\ UNCHANGED plan
  /\ UNCHANGED <<at, item, state, calls>>

-----------------------------------------------------------------------------
Step == plan[at]
Under == outcome = "running" /\ at <= Len(plan)

ValueOf(name) == IF name \in DOMAIN state THEN state[name] ELSE NoValue

(* The input of a step: one value, or all of an array. *)
InputOf(s) ==
  IF s.from = <<>> THEN NoValue
  ELSE IF s.many THEN [i \in DOMAIN s.from |-> ValueOf(s.from[i])]
  ELSE ValueOf(s.from[1])

(* All branches get the input of their stage, of an array the first name only; what
   a branch itself says under "from" is written over. *)
BranchInput(s) == IF s.from = <<>> THEN NoValue ELSE ValueOf(s.from[1])

(* executeAction passes step.params || step: a step with params gets no input. *)
Call(use, own, branch, input) ==
  [step |-> at, branch |-> branch, use |-> use, got |-> IF own THEN NoValue ELSE input]

(* How often the step at hand is called for the items of its list. *)
Items ==
  LET v == ValueOf(Step.foreach) IN
  IF v = NoValue THEN 0 ELSE IF v.list = NotAList THEN 0 ELSE v.list

CallsOf(s) ==
  IF s.parallel
  THEN {Call(s.branches[b].use, s.branches[b].own, b, BranchInput(s)) : b \in DOMAIN s.branches}
  ELSE IF s.foreach # NoName
  THEN IF item < Items THEN {Call(s.use, s.own, item + 1, NoValue)} ELSE {}
  ELSE {Call(s.use, s.own, 0, InputOf(s))}

Invoke ==
  /\ Under
  /\ calls = {}
  /\ CallsOf(Step) # {}
  /\ calls' = CallsOf(Step)
  /\ UNCHANGED <<plan, at, item, state, outcome>>

(* Mutant: Promise.all of nothing is not passed. *)
PassItems ==
  /\ Under
  /\ calls = {}
  /\ CallsOf(Step) = {} /\ ~Step.parallel
  /\ at' = at + 1 /\ item' = 0
  /\ UNCHANGED <<plan, state, calls, outcome>>

(* No branch, no item left, or no list at all. *)
PassOver ==
  /\ Under
  /\ calls = {}
  /\ CallsOf(Step) = {}
  /\ at' = at + 1 /\ item' = 0
  /\ UNCHANGED <<plan, state, calls, outcome>>

(* Mutant: the first result stays. *)
KeptFirst(value) ==
  IF Step.into \in {NoName, Blocked} \cup DOMAIN state THEN state
  ELSE [n \in DOMAIN state \cup {Step.into} |-> IF n = Step.into THEN value ELSE state[n]]

(* The result of a single call is kept under a name that is allowed; those of
   branches and of items are dropped. *)
Kept(value) ==
  IF Step.into \in {NoName, Blocked} THEN state
  ELSE [n \in DOMAIN state \cup {Step.into} |-> IF n = Step.into THEN value ELSE state[n]]

(* workflow.invoke runs nothing and says so; an action without a handler is null. *)
ResultsOf(c) ==
  IF c.use = "workflow.invoke" THEN [by : {c.step}, list : {NotAList}]
  ELSE IF c.use \in Registered THEN [by : {c.step}, list : Lengths]
  ELSE {NoValue}

(* Mutant: Promise.race. *)
AnyAnswered(c) == c \in calls

AllAnswered(c) == calls = {c}

(* A handler answers.  Promise.all waits for every branch; a run that has failed no
   longer listens. *)
Resolve(c) ==
  /\ calls' = calls \ {c}
  /\ IF outcome = "failed" THEN UNCHANGED <<at, item, state>>
     ELSE \/ /\ Step.parallel
             /\ at' = IF AllAnswered(c) THEN at + 1 ELSE at
             /\ UNCHANGED <<item, state>>
          \/ /\ ~Step.parallel /\ Step.foreach # NoName
             /\ item' = item + 1
             /\ UNCHANGED <<at, state>>
          \/ /\ ~Step.parallel /\ Step.foreach = NoName
             /\ \E v \in ResultsOf(c) : state' = Kept(v)
             /\ at' = at + 1
             /\ UNCHANGED item
  /\ UNCHANGED <<plan, outcome>>

(* A handler throws: the run fails at once, with the other branches still at work. *)
Reject(c) ==
  /\ c.use \in Registered
  /\ calls' = calls \ {c}
  /\ outcome' = "failed"
  /\ UNCHANGED <<plan, at, item, state>>

Return ==
  /\ outcome = "running"
  /\ at > Len(plan)
  /\ outcome' = "returned"
  /\ UNCHANGED <<plan, at, item, state, calls>>

Answered == \E c \in calls : Resolve(c) \/ Reject(c)

Next ==
  \/ \E name \in Requested : Start(name)
  \/ Invoke \/ PassOver \/ Answered \/ Return

(* The event loop goes on, and every handler ends. *)
Fairness == WF_vars(Invoke) /\ WF_vars(PassOver) /\ WF_vars(Answered) /\ WF_vars(Return)

Spec == Init /\ [][Next]_vars

-----------------------------------------------------------------------------
Values == [by : 1..Len(plan), list : Lengths] \cup {NoValue}

(* A stage is a barrier: whatever is at work belongs to the step the run is at, and
   nothing is once the run has returned.  Only a run that failed leaves branches
   behind it, and it never gets past them. *)
StageBarrier ==
  \A c \in calls : c.step = at /\ outcome \in {"running", "failed"}

(* The last single step before k that writes n, 0 when there is none. *)
Writer(n, k) ==
  LET Writing == {j \in 1..k - 1 : plan[j].into = n /\ ~plan[j].parallel /\ plan[j].foreach = NoName}
  IN IF Writing = {} THEN 0 ELSE CHOOSE j \in Writing : \A i \in Writing : i <= j

(* A name always holds the result of the last step before this one that writes it, in
   the order of the definition and however the branches in between ended; the others
   hold nothing.  What a handler at work was given, its names hold still. *)
DataflowOrder ==
  /\ \A n \in DOMAIN state :
       /\ Writer(n, at) # 0
       /\ IF plan[Writer(n, at)].use \in Registered \cup {"workflow.invoke"}
          THEN state[n].by = Writer(n, at)
          ELSE state[n] = NoValue
  /\ \A c \in calls :
       c.got # NoValue => c.got = IF Step.parallel THEN BranchInput(Step) ELSE InputOf(Step)

(* Every run ends, whatever its branches do. *)
RunEnds == (outcome = "running") ~> (outcome \in {"returned", "failed"})
=============================================================================

---------------------------- MODULE SiapWorkflow ----------------------------
(***************************************************************************)
(* The workflow of SIAP cases (api/src/modules/siap) and the escalation of *)
(* overdue tasks (api/src/modules/sla).                                    *)
(*                                                                         *)
(* Every handler reads a task or a case, checks what it read, and writes   *)
(* later, without looking again: the writes of one handler are one         *)
(* transaction, but between the read and the transaction other requests    *)
(* and the sweep of the SLA worker come in.  So a request is a job that    *)
(* begins with a read and ends with a commit, and MaxInFlight bounds how   *)
(* many of them are under way at once.  Module SiapHistory says what holds *)
(* of a case as long as none of its jobs is overtaken by another.          *)
(*                                                                         *)
(* Left out: who may act (a SUPER_ADMIN passes every check of a role, so   *)
(* that somebody always may), whom a task is assigned to, the timeline and *)
(* the audit log, and the rows of domain_events a handler adds when its    *)
(* transaction is done, which module Outbox is about.                      *)
(***************************************************************************)
EXTENDS Integers, Sequences, FiniteSets

CONSTANTS
  Case,
  NoCase,
  LastStage,    \* the workflow is DRAFT, stage 1 .. LastStage, COMPLETED
  Timed,        \* the stages whose transition has slaDays
  MaxTasks,     \* bound: tasks created in a behaviour
  MaxMoves,     \* bound: moves of a case in a behaviour
  Request,      \* requests that can be under way at once
  Sweep,        \* sweeps of the SLA worker, and by hand, under way at once
  SweepLimit,   \* the most tasks a sweep takes at once
  MaxInFlight,  \* bound: jobs of both kinds under way at once
  MaxFaults     \* bound: jobs that fail in a behaviour

Job == Request \cup Sweep
Task == 1 .. MaxTasks
Draft == 0
Done == LastStage + 1
Stage == 1 .. LastStage

ASSUME BoundAssumption ==
  /\ LastStage \in Nat \ {0}
  /\ Timed \subseteq Stage
  /\ MaxTasks \in Nat
  /\ MaxMoves \in Nat
  /\ SweepLimit \in Nat \ {0}
  /\ MaxInFlight \in Nat \ {0}
  /\ MaxFaults \in Nat

ASSUME NameAssumption == NoCase \notin Case /\ Request \cap Sweep = {}

VARIABLES
  created,  \* the cases that exist
  stage,    \* SiapCase.currentState
  trail,    \* trail[c]: the moves in workflow_logs, oldest first
  tasks,    \* number of tasks created
  caseOf,   \* SiapTask.caseId
  taskOf,   \* SiapTask.taskType, the stage the task belongs to
  status,   \* SiapTask.status, "NONE" before the task exists
  sla,      \* SlaTracking.status of the task, "NONE" if it has no deadline
  closed,   \* the task's SlaTracking.completedAt is set
  late,     \* the task's dueAt is past
  job,      \* what each job holds in memory
  faults    \* jobs that failed so far

caseVars == <<created, stage, trail>>
taskVars == <<tasks, caseOf, taskOf, status>>
slaVars == <<sla, closed, late>>
vars == <<caseVars, taskVars, slaVars, job, faults>>

Open == {"ASSIGNED", "IN_PROGRESS", "OVERDUE", "RETURNED"}
Move == [from : Draft .. Done, to : Draft .. Done]
Unread == -1

Idle == [op |-> "idle"]
Jobs ==
  {Idle}
  \cup [op : {"submit"}, case : Case]
  \cup [op : {"start", "return"}, task : Task]
  \cup [op : {"assign"}, task : Task, was : Open]
  \cup [op : {"complete"}, task : Task, at : {Unread} \cup (Draft .. Done)]
  \cup [op : {"sweep"}, left : SUBSET Task]

TypeOK ==
  /\ created \subseteq Case
  /\ stage \in [Case -> Draft .. Done]
  /\ trail \in [Case -> Seq(Move)]
  /\ tasks \in 0 .. MaxTasks
  /\ caseOf \in [Task -> Case \cup {NoCase}]
  /\ taskOf \in [Task -> Stage]
  /\ status \in [Task -> {"NONE", "COMPLETED"} \cup Open]
  /\ sla \in [Task -> {"NONE", "ON_TRACK", "OVERDUE", "COMPLETED"}]
  /\ closed \in [Task -> BOOLEAN]
  /\ late \in [Task -> BOOLEAN]
  /\ job \in [Job -> Jobs]
  /\ faults \in 0 .. MaxFaults

Init ==
  /\ created = {}
  /\ stage = [c \in Case |-> Draft]
  /\ trail = [c \in Case |-> <<>>]
  /\ tasks = 0
  /\ caseOf = [t \in Task |-> NoCase]
  /\ taskOf = [t \in Task |-> 1]
  /\ status = [t \in Task |-> "NONE"]
  /\ sla = [t \in Task |-> "NONE"]
  /\ closed = [t \in Task |-> FALSE]
  /\ late = [t \in Task |-> FALSE]
  /\ job = [j \in Job |-> Idle]
  /\ faults = 0

-----------------------------------------------------------------------------
\* Variant with a bug: the transition found is the one after the next.
NextStageSkips(s) == IF s + 2 <= Done THEN s + 2 ELSE Done

(* The active transition from a state; a state without one leads to         *)
(* COMPLETED.                                                               *)
NextStage(s) == IF s = Done THEN Done ELSE s + 1

\* Variant with a bug: the task keeps the status the table gives by default.
AddTaskCreated(c, s, statuses, deadlines) ==
  /\ tasks < MaxTasks
  /\ tasks' = tasks + 1
  /\ caseOf' = [caseOf EXCEPT ![tasks'] = c]
  /\ taskOf' = [taskOf EXCEPT ![tasks'] = s]
  /\ status' = [statuses EXCEPT ![tasks'] = "CREATED"]
  /\ sla' = [deadlines EXCEPT ![tasks'] = IF s \in Timed THEN "ON_TRACK" ELSE "NONE"]

\* createTaskForTransition, on top of what the transaction wrote before it.
AddTask(c, s, statuses, deadlines) ==
  /\ tasks < MaxTasks
  /\ tasks' = tasks + 1
  /\ caseOf' = [caseOf EXCEPT ![tasks'] = c]
  /\ taskOf' = [taskOf EXCEPT ![tasks'] = s]
  /\ status' = [statuses EXCEPT ![tasks'] = "ASSIGNED"]
  /\ sla' = [deadlines EXCEPT ![tasks'] = IF s \in Timed THEN "ON_TRACK" ELSE "NONE"]

(* Variants with a bug: the task is made for the state that was left; the   *)
(* move is not logged.                                                      *)
MoveCaseOldTask(c, from, to, statuses, deadlines) ==
  /\ Len(trail[c]) < MaxMoves
  /\ stage' = [stage EXCEPT ![c] = to]
  /\ trail' = [trail EXCEPT ![c] = Append(@, [from |-> from, to |-> to])]
  /\ IF to = Done
     THEN status' = statuses /\ sla' = deadlines /\ UNCHANGED <<tasks, caseOf, taskOf>>
     ELSE AddTask(c, from, statuses, deadlines)

MoveCaseUnlogged(c, from, to, statuses, deadlines) ==
  /\ Len(trail[c]) < MaxMoves
  /\ stage' = [stage EXCEPT ![c] = to]
  /\ UNCHANGED trail
  /\ IF to = Done
     THEN status' = statuses /\ sla' = deadlines /\ UNCHANGED <<tasks, caseOf, taskOf>>
     ELSE AddTask(c, to, statuses, deadlines)

(* The case moves on and gets a task for its new stage; COMPLETED has none. *)
MoveCase(c, from, to, statuses, deadlines) ==
  /\ Len(trail[c]) < MaxMoves
  /\ stage' = [stage EXCEPT ![c] = to]
  /\ trail' = [trail EXCEPT ![c] = Append(@, [from |-> from, to |-> to])]
  /\ IF to = Done
     THEN status' = statuses /\ sla' = deadlines /\ UNCHANGED <<tasks, caseOf, taskOf>>
     ELSE AddTask(c, to, statuses, deadlines)

\* Variant with a bug: a deadline that was missed is not completed any more.
SlaDoneInTimeOnly(t) ==
  IF sla[t] = "ON_TRACK" THEN [sla EXCEPT ![t] = "COMPLETED"] ELSE sla

\* completeSlaForTask, a row that is already completed stays as it is.
SlaDone(t) ==
  IF sla[t] # "NONE" /\ ~closed[t] THEN [sla EXCEPT ![t] = "COMPLETED"] ELSE sla

InFlight == {j \in Job : job[j] # Idle}

Begin(j, what) ==
  /\ job[j] = Idle
  /\ Cardinality(InFlight) < MaxInFlight
  /\ job' = [job EXCEPT ![j] = what]
  /\ UNCHANGED <<caseVars, taskVars, slaVars, faults>>

End(j) == job' = [job EXCEPT ![j] = Idle]

-----------------------------------------------------------------------------
CreateCase(c) ==
  /\ c \notin created
  /\ created' = created \cup {c}
  /\ UNCHANGED <<stage, trail, taskVars, slaVars, job, faults>>

BeginSubmit(j, c) ==
  /\ j \in Request
  /\ c \in created
  /\ stage[c] = Draft
  /\ Begin(j, [op |-> "submit", case |-> c])

Submit(j) ==
  /\ job[j].op = "submit"
  /\ MoveCase(job[j].case, Draft, 1, status, sla)
  /\ End(j)
  /\ UNCHANGED <<created, closed, late, faults>>

BeginStart(j, t) ==
  /\ j \in Request
  /\ status[t] \in {"ASSIGNED", "OVERDUE"}
  /\ Begin(j, [op |-> "start", task |-> t])

Start(j) ==
  /\ job[j].op = "start"
  /\ status' = [status EXCEPT ![job[j].task] = "IN_PROGRESS"]
  /\ End(j)
  /\ UNCHANGED <<caseVars, tasks, caseOf, taskOf, slaVars, faults>>

\* Variant with a bug: a completed task can be completed again.
BeginCompleteAgain(j, t) ==
  /\ j \in Request
  /\ status[t] \in {"IN_PROGRESS", "OVERDUE", "COMPLETED"}
  /\ Begin(j, [op |-> "complete", task |-> t, at |-> Unread])

(* The task and its case are two queries of one find, so that the case may  *)
(* be younger than the task.                                                *)
BeginComplete(j, t) ==
  /\ j \in Request
  /\ status[t] \in {"IN_PROGRESS", "OVERDUE"}
  /\ Begin(j, [op |-> "complete", task |-> t, at |-> Unread])

ReadCase(j) ==
  /\ job[j].op = "complete"
  /\ job[j].at = Unread
  /\ job' = [job EXCEPT ![j].at = stage[caseOf[job[j].task]]]
  /\ UNCHANGED <<caseVars, taskVars, slaVars, faults>>

(* The next stage is computed from the case as it was read, and the task is *)
(* the one that was read, whatever has become of both.                      *)
Complete(j) ==
  LET t == job[j].task
      at == job[j].at
  IN  /\ job[j].op = "complete"
      /\ at # Unread
      /\ MoveCase(caseOf[t], at, NextStage(at),
                  [status EXCEPT ![t] = "COMPLETED"], SlaDone(t))
      /\ closed' = [closed EXCEPT ![t] = @ \/ sla[t] # "NONE"]
      /\ End(j)
      /\ UNCHANGED <<created, late, faults>>

BeginAssign(j, t) ==
  /\ j \in Request
  /\ status[t] \in Open
  /\ Begin(j, [op |-> "assign", task |-> t, was |-> status[t]])

(* Together with the new assignee the status is written back as it was      *)
(* read.                                                                    *)
Assign(j) ==
  /\ job[j].op = "assign"
  /\ status' = [status EXCEPT ![job[j].task] = job[j].was]
  /\ End(j)
  /\ UNCHANGED <<caseVars, tasks, caseOf, taskOf, slaVars, faults>>

BeginReturn(j, t) ==
  /\ j \in Request
  /\ status[t] \in Open \ {"RETURNED"}
  /\ Begin(j, [op |-> "return", task |-> t])

Return(j) ==
  /\ job[j].op = "return"
  /\ status' = [status EXCEPT ![job[j].task] = "RETURNED"]
  /\ End(j)
  /\ UNCHANGED <<caseVars, tasks, caseOf, taskOf, slaVars, faults>>

-----------------------------------------------------------------------------
(* Time: the deadline of a task passes.  Of a task that is completed, or    *)
(* marked overdue already, nobody looks at the deadline any more.           *)
MissDeadline(t) ==
  /\ sla[t] = "ON_TRACK"
  /\ ~late[t]
  /\ late' = [late EXCEPT ![t] = TRUE]
  /\ UNCHANGED <<caseVars, taskVars, sla, closed, job, faults>>

\* Variants with a bug: a status is missing from the filter.
OverdueNotStarted ==
  {t \in Task : /\ sla[t] = "ON_TRACK" /\ ~closed[t] /\ late[t]
                /\ status[t] \in {"ASSIGNED", "RETURNED"}}
OverdueNotReturned ==
  {t \in Task : /\ sla[t] = "ON_TRACK" /\ ~closed[t] /\ late[t]
                /\ status[t] \in {"ASSIGNED", "IN_PROGRESS"}}

\* findOverdueSlaCandidates
Overdue ==
  {t \in Task : /\ sla[t] = "ON_TRACK" /\ ~closed[t] /\ late[t]
                /\ status[t] \in {"ASSIGNED", "IN_PROGRESS", "RETURNED"}}

(* A sweep takes what its limit admits: the timer has one limit, a sweep by *)
(* hand names its own.                                                      *)
BeginSweep(j) ==
  /\ j \in Sweep
  /\ \E due \in SUBSET Overdue :
       /\ Cardinality(due) \in 1 .. SweepLimit
       /\ Begin(j, [op |-> "sweep", left |-> due])

\* The sweep is done with task t, whatever came of it.
Sweeped(j, t) ==
  LET rest == job[j].left \ {t}
  IN  job' = [job EXCEPT ![j] = IF rest = {} THEN Idle ELSE [op |-> "sweep", left |-> rest]]

(* escalateOne, on a task that was a candidate when the sweep began.        *)
Escalate(j, t) ==
  /\ job[j].op = "sweep"
  /\ t \in job[j].left
  /\ sla' = [sla EXCEPT ![t] = "OVERDUE"]
  /\ status' = [status EXCEPT ![t] = "OVERDUE"]
  /\ Sweeped(j, t)
  /\ UNCHANGED <<caseVars, tasks, caseOf, taskOf, closed, late, faults>>

-----------------------------------------------------------------------------
Fault == faults < MaxFaults /\ faults' = faults + 1

(* The transaction is rolled back, as when it loses a deadlock, and the     *)
(* request answers with an error.                                           *)
RequestFails(j) ==
  /\ Fault
  /\ j \in Request
  /\ job[j] # Idle
  /\ End(j)
  /\ UNCHANGED <<caseVars, taskVars, slaVars>>

(* The sweep logs the error and goes on with the next task.                 *)
EscalationFails(j, t) ==
  /\ Fault
  /\ job[j].op = "sweep"
  /\ t \in job[j].left
  /\ Sweeped(j, t)
  /\ UNCHANGED <<caseVars, taskVars, slaVars>>

(* The process ends and is started again; what is not committed is gone.    *)
Crash ==
  /\ Fault
  /\ InFlight # {}
  /\ job' = [j \in Job |-> Idle]
  /\ UNCHANGED <<caseVars, taskVars, slaVars>>

-----------------------------------------------------------------------------
Proceed(j) ==
  \/ Submit(j) \/ Start(j) \/ ReadCase(j) \/ Complete(j) \/ Assign(j) \/ Return(j)
  \/ \E t \in Task : Escalate(j, t)

Next ==
  \/ \E c \in Case : CreateCase(c)
  \/ \E j \in Request, c \in Case : BeginSubmit(j, c)
  \/ \E j \in Request, t \in Task :
       BeginStart(j, t) \/ BeginComplete(j, t) \/ BeginAssign(j, t) \/ BeginReturn(j, t)
  \/ \E j \in Sweep : BeginSweep(j)
  \/ \E t \in Task : MissDeadline(t)
  \/ \E j \in Job : Proceed(j) \/ RequestFails(j)
  \/ \E j \in Sweep, t \in Task : EscalationFails(j, t)
  \/ Crash

Spec == Init /\ [][Next]_vars

(* Time passes, the timer of the SLA worker keeps firing and what is under  *)
(* way goes on.  Nobody has to ask for anything.                            *)
Fairness ==
  /\ \A t \in Task : WF_vars(MissDeadline(t))
  /\ WF_vars(\E j \in Sweep : BeginSweep(j))
  /\ \A j \in Job : WF_vars(Proceed(j))

(* A staff that does what it can: every task that may be started, or        *)
(* completed, again and again, is started, or completed, at last.           *)
Diligence ==
  \A t \in Task :
    /\ SF_vars(\E j \in Request : BeginStart(j, t))
    /\ SF_vars(\E j \in Request : BeginComplete(j, t))

FairSpec == Spec /\ Fairness
DiligentSpec == FairSpec /\ Diligence

-----------------------------------------------------------------------------
(* What survives any interleaving of requests and sweeps.                   *)

OpenTasks(c) == {t \in Task : caseOf[t] = c /\ status[t] \in Open}

(* An active case is never adrift: some task of the very stage it is at is  *)
(* open, although stale requests may complete tasks twice and move the case *)
(* back and forth.                                                          *)
NeverAdrift ==
  \A c \in Case : stage[c] \in Stage => \E t \in OpenTasks(c) : taskOf[t] = stage[c]

(* The workflow log tells where the case is, and how many tasks it ever     *)
(* had: the last move in the log leads to the current state, and each move  *)
(* to a stage made one task of that stage.                                  *)
TrailAgrees ==
  \A c \in Case :
    /\ stage[c] = IF trail[c] = <<>> THEN Draft ELSE trail[c][Len(trail[c])].to
    /\ \A s \in Stage :
         Cardinality({i \in DOMAIN trail[c] : trail[c][i].to = s})
           = Cardinality({t \in Task : caseOf[t] = c /\ taskOf[t] = s})

(* A missed deadline does not go unnoticed: the sweep marks it overdue      *)
(* unless the task is completed first, whatever the requests do meanwhile.  *)
DeadlinesAreNoticed ==
  \A t \in Task : late[t] ~> (sla[t] = "OVERDUE" \/ closed[t])

(* A task returned in time, and so at rest, is handed back by the sweep:    *)
(* the deadline it will miss makes it OVERDUE.                              *)
ReturnedInTimeComesBack ==
  \A t \in Task :
    (status[t] = "RETURNED" /\ sla[t] = "ON_TRACK") ~> status[t] # "RETURNED"

-----------------------------------------------------------------------------
(* What a message of the code claims and the model refutes.                 *)

(* "dikembalikan untuk revisi": a task returned for revision is taken up    *)
(* again.                                                                   *)
ReturnedComesBack ==
  \A t \in Task : (status[t] = "RETURNED") ~> (status[t] # "RETURNED")

=============================================================================

----------------------------- MODULE SiapProofs -----------------------------
(***************************************************************************)
(* What holds of SIAP cases for every number of cases, stages, tasks,      *)
(* requests and sweeps under way at once.  TypeOK is not inductive alone:  *)
(* a job acts on the task it once read, so that the invariant must know    *)
(* that this task exists and belongs to a case.                            *)
(*                                                                         *)
(* What a job that was overtaken can break comes last.  There the          *)
(* inductive invariant is that of a case of which no job was overtaken     *)
(* nothing is open but one task, that of the stage the case is at          *)
(* (Intact); the log and the deadlines follow.                             *)
(***************************************************************************)
EXTENDS SiapHistory, FiniteSetTheorems, TLAPS

Existing == 1 .. tasks

\* A task that exists has a case, and nothing else has been touched.
TasksExist ==
  \A t \in Task :
    /\ t \in Existing => caseOf[t] \in Case
    /\ t \notin Existing => status[t] = "NONE"

\* What a job holds in memory is about tasks that exist.
JobsExist ==
  \A j \in Job :
    /\ job[j].op \in {"start", "return", "assign", "complete"} => job[j].task \in Existing
    /\ job[j].op = "sweep" => job[j].left \subseteq Existing

Types == TypeOK /\ TasksExist /\ JobsExist

\* NeverAdrift, with the witness among the tasks that exist.
Manned ==
  \A c \in Case : stage[c] \in Stage =>
    \E t \in Existing : caseOf[t] = c /\ taskOf[t] = stage[c] /\ status[t] \in Open

-----------------------------------------------------------------------------
\* The fields of a job, by what it does.
LEMMA JobFields ==
  ASSUME TypeOK, NEW j \in Job
  PROVE  /\ job[j].op = "submit" => job[j].case \in Case
         /\ job[j].op \in {"start", "return", "assign", "complete"} => job[j].task \in Task
         /\ job[j].op = "assign" => job[j].was \in Open
         /\ job[j].op = "complete" => job[j].at \in {Unread} \cup (Draft .. Done)
         /\ job[j].op = "sweep" => job[j].left \in SUBSET Task
BY DEF TypeOK, Jobs, Idle

\* A job that begins.
LEMMA BeginTypes ==
  ASSUME Types, NEW j \in Job, NEW what \in Jobs, Begin(j, what),
         what.op \in {"start", "return", "assign", "complete"} => what.task \in Existing,
         what.op = "sweep" => what.left \subseteq Existing
  PROVE  Types'
<1>1. TypeOK'
  BY DEF Types, TypeOK, Begin, caseVars, taskVars, slaVars
<1>2. TasksExist'
  BY DEF Types, TasksExist, Begin, taskVars, Existing
<1>3. JobsExist'
  BY DEF Types, TypeOK, JobsExist, Begin, taskVars, Existing
<1>. QED BY <1>1, <1>2, <1>3 DEF Types

\* A job that ends, or goes on with less to do.
LEMMA EndTypes ==
  ASSUME Types, NEW j \in Job, NEW what \in Jobs,
         job' = [job EXCEPT ![j] = what], tasks' >= tasks, tasks' \in Nat,
         \/ what = Idle
         \/ what.op = "sweep" /\ what.left \subseteq Existing
  PROVE  job' \in [Job -> Jobs] /\ JobsExist'
<1>1. Existing \subseteq Existing'
  BY DEF Types, TypeOK, Existing
<1>2. job' \in [Job -> Jobs]
  BY DEF Types, TypeOK
<1>3. ASSUME NEW k \in Job
      PROVE  /\ job'[k].op \in {"start", "return", "assign", "complete"}
                  => job'[k].task \in Existing'
             /\ job'[k].op = "sweep" => job'[k].left \subseteq Existing'
  <2>1. CASE k = j
    BY <1>1, <2>1 DEF Types, TypeOK, Idle
  <2>2. CASE k # j
    BY <1>1, <2>2 DEF Types, TypeOK, JobsExist
  <2>. QED BY <2>1, <2>2
<1>. QED BY <1>2, <1>3 DEF JobsExist

\* Steps that write the status of one task that exists, and end a job.
LEMMA StatusTypes ==
  ASSUME Types, NEW j \in Job, NEW t \in Existing, NEW s \in Open, End(j),
         status' = [status EXCEPT ![t] = s],
         UNCHANGED <<caseVars, tasks, caseOf, taskOf, slaVars, faults>>
  PROVE  Types'
<1>1. t \in Task /\ tasks' \in Nat /\ tasks' >= tasks
  BY BoundAssumption DEF Types, TypeOK, Existing, Task
<1>2. Idle \in Jobs
  BY DEF Jobs
<1>3. job' \in [Job -> Jobs] /\ JobsExist'
  BY <1>1, <1>2, EndTypes DEF End
<1>4. TypeOK'
  BY <1>1, <1>3 DEF Types, TypeOK, caseVars, slaVars
<1>5. TasksExist'
  BY <1>1 DEF Types, TypeOK, TasksExist, Existing
<1>. QED BY <1>3, <1>4, <1>5 DEF Types

\* A move of a case, on top of statuses and deadlines of the right type.
LEMMA MoveTypes ==
  ASSUME Types, NEW c \in Case, NEW from \in Draft .. Done, NEW to \in 1 .. Done,
         NEW st, NEW dl, MoveCase(c, from, to, st, dl),
         st \in [Task -> {"NONE", "COMPLETED"} \cup Open],
         \A t \in Task : t \notin Existing => st[t] = "NONE",
         dl \in [Task -> {"NONE", "ON_TRACK", "OVERDUE", "COMPLETED"}]
  PROVE  /\ stage' \in [Case -> Draft .. Done]
         /\ trail' \in [Case -> Seq(Move)]
         /\ tasks' \in 0 .. MaxTasks /\ tasks' >= tasks
         /\ caseOf' \in [Task -> Case \cup {NoCase}]
         /\ taskOf' \in [Task -> Stage]
         /\ status' \in [Task -> {"NONE", "COMPLETED"} \cup Open]
         /\ sla' \in [Task -> {"NONE", "ON_TRACK", "OVERDUE", "COMPLETED"}]
         /\ TasksExist'
<1> USE DEF Types
<1>1. to \in Draft .. Done
  BY BoundAssumption DEF Draft, Done
<1>2. stage' \in [Case -> Draft .. Done]
  BY <1>1 DEF MoveCase, TypeOK
<1>3. trail' \in [Case -> Seq(Move)]
  <2>1. [from |-> from, to |-> to] \in Move
    BY <1>1 DEF Move
  <2>2. trail[c] \in Seq(Move)
    BY DEF TypeOK
  <2>3. Append(trail[c], [from |-> from, to |-> to]) \in Seq(Move)
    BY <2>1, <2>2
  <2>. QED BY <2>3 DEF MoveCase, TypeOK
<1>4. CASE to = Done
  <2>1. status' = st /\ sla' = dl /\ UNCHANGED <<tasks, caseOf, taskOf>>
    BY <1>4 DEF MoveCase
  <2>2. TasksExist'
    BY <2>1 DEF TypeOK, TasksExist, Existing
  <2>. QED BY <1>2, <1>3, <2>1, <2>2, BoundAssumption DEF TypeOK
<1>5. CASE to # Done
  <2>1. AddTask(c, to, st, dl) /\ to \in Stage
    BY <1>5, BoundAssumption DEF MoveCase, Stage, Done
  <2>2. tasks' = tasks + 1 /\ tasks' \in Task /\ tasks' \in 0 .. MaxTasks
    BY <2>1, BoundAssumption DEF AddTask, TypeOK, Task
  <2>3. /\ caseOf' \in [Task -> Case \cup {NoCase}]
        /\ taskOf' \in [Task -> Stage]
    BY <2>1, <2>2 DEF AddTask, TypeOK
  <2>4. status' \in [Task -> {"NONE", "COMPLETED"} \cup Open]
    BY <2>1, <2>2 DEF AddTask, Open
  <2>5. sla' \in [Task -> {"NONE", "ON_TRACK", "OVERDUE", "COMPLETED"}]
    BY <2>1, <2>2 DEF AddTask
  <2>6. Existing' = Existing \cup {tasks'} /\ tasks \in Nat
    BY <2>2 DEF Existing, TypeOK
  <2>7. \A t \in Task : t # tasks' => caseOf'[t] = caseOf[t] /\ status'[t] = st[t]
    BY <2>1 DEF AddTask, TypeOK
  <2>8. caseOf'[tasks'] = c
    BY <2>1, <2>2 DEF AddTask, TypeOK
  <2>9. TasksExist'
    BY <2>6, <2>7, <2>8 DEF TasksExist
  <2>. QED BY <1>2, <1>3, <2>2, <2>3, <2>4, <2>5, <2>6, <2>9
<1>. QED BY <1>4, <1>5

\* Submit moves a case that exists from DRAFT to its first stage.
LEMMA SubmitTypes ==
  ASSUME Types, NEW j \in Job, Submit(j)
  PROVE  Types'
<1> DEFINE c == job[j].case
<1>1. c \in Case /\ MoveCase(c, Draft, 1, status, sla)
  BY JobFields DEF Submit, Types
<1>2. Draft \in Draft .. Done /\ 1 \in 1 .. Done
  BY BoundAssumption DEF Draft, Done
<1>3. /\ stage' \in [Case -> Draft .. Done]
      /\ trail' \in [Case -> Seq(Move)]
      /\ tasks' \in 0 .. MaxTasks /\ tasks' >= tasks
      /\ caseOf' \in [Task -> Case \cup {NoCase}]
      /\ taskOf' \in [Task -> Stage]
      /\ status' \in [Task -> {"NONE", "COMPLETED"} \cup Open]
      /\ sla' \in [Task -> {"NONE", "ON_TRACK", "OVERDUE", "COMPLETED"}]
      /\ TasksExist'
  BY <1>1, <1>2, MoveTypes DEF Types, TypeOK, TasksExist
<1>4. job' \in [Job -> Jobs] /\ JobsExist'
  <2>1. Idle \in Jobs /\ tasks' \in Nat
    BY <1>3 DEF Jobs
  <2>. QED BY <1>3, <2>1, EndTypes DEF Submit, End
<1>5. created' = created /\ closed' = closed /\ late' = late /\ faults' = faults
  BY DEF Submit
<1>6. TypeOK'
  BY <1>3, <1>4, <1>5 DEF Types, TypeOK
<1>. QED BY <1>3, <1>4, <1>6 DEF Types

\* Complete moves the case of the task from wherever it was read.
LEMMA CompleteTypes ==
  ASSUME Types, NEW j \in Job, Complete(j)
  PROVE  Types'
<1> DEFINE t == job[j].task
           at == job[j].at
           st == [status EXCEPT ![t] = "COMPLETED"]
<1>1. job[j].op = "complete" /\ at # Unread
  BY DEF Complete
<1>2. t \in Task /\ t \in Existing /\ caseOf[t] \in Case /\ at \in Draft .. Done
  <2>1. t \in Task /\ at \in {Unread} \cup (Draft .. Done)
    BY <1>1, JobFields DEF Types
  <2>2. t \in Existing
    BY <1>1 DEF Types, JobsExist
  <2>. QED BY <1>1, <2>1, <2>2 DEF Types, TasksExist
<1>3. NextStage(at) \in 1 .. Done
  BY <1>2, BoundAssumption DEF NextStage, Draft, Done
<1>4. st \in [Task -> {"NONE", "COMPLETED"} \cup Open]
  BY <1>2 DEF Types, TypeOK
<1>5. \A u \in Task : u \notin Existing => st[u] = "NONE"
  BY <1>2 DEF Types, TypeOK, TasksExist
<1>6. SlaDone(t) \in [Task -> {"NONE", "ON_TRACK", "OVERDUE", "COMPLETED"}]
  BY <1>2 DEF SlaDone, Types, TypeOK
<1>7. MoveCase(caseOf[t], at, NextStage(at), st, SlaDone(t))
  BY DEF Complete
<1>8. /\ stage' \in [Case -> Draft .. Done]
      /\ trail' \in [Case -> Seq(Move)]
      /\ tasks' \in 0 .. MaxTasks /\ tasks' >= tasks
      /\ caseOf' \in [Task -> Case \cup {NoCase}]
      /\ taskOf' \in [Task -> Stage]
      /\ status' \in [Task -> {"NONE", "COMPLETED"} \cup Open]
      /\ sla' \in [Task -> {"NONE", "ON_TRACK", "OVERDUE", "COMPLETED"}]
      /\ TasksExist'
  BY <1>2, <1>3, <1>4, <1>5, <1>6, <1>7, MoveTypes
<1>9. job' \in [Job -> Jobs] /\ JobsExist'
  <2>1. Idle \in Jobs /\ tasks' \in Nat
    BY <1>8 DEF Jobs
  <2>. QED BY <1>8, <2>1, EndTypes DEF Complete, End
<1>10. closed' \in [Task -> BOOLEAN]
  <2>1. closed' = [closed EXCEPT ![t] = @ \/ sla[t] # "NONE"]
    BY DEF Complete
  <2>2. closed \in [Task -> BOOLEAN]
    BY DEF Types, TypeOK
  <2>. QED BY <1>2, <2>1, <2>2
<1>11. created' = created /\ late' = late /\ faults' = faults
  BY DEF Complete
<1>12. TypeOK'
  BY <1>8, <1>9, <1>10, <1>11 DEF Types, TypeOK
<1>. QED BY <1>8, <1>9, <1>12 DEF Types

\* A sweep that is done with a task, escalated or not.
LEMMA SweepTypes ==
  ASSUME Types, NEW j \in Job, NEW t \in Task, job[j].op = "sweep", t \in job[j].left,
         Sweeped(j, t), tasks' = tasks
  PROVE  t \in Existing /\ job' \in [Job -> Jobs] /\ JobsExist'
<1> DEFINE rest == job[j].left \ {t}
           what == IF rest = {} THEN Idle ELSE [op |-> "sweep", left |-> rest]
<1>1. job[j].left \subseteq Existing /\ job[j].left \in SUBSET Task
  BY JobFields DEF Types, JobsExist
<1>2. what \in Jobs
  BY <1>1 DEF Jobs
<1>3. \/ what = Idle
      \/ what.op = "sweep" /\ what.left \subseteq Existing
  <2>1. CASE rest = {}
    BY <2>1
  <2>2. CASE rest # {}
    <3>1. what = [op |-> "sweep", left |-> rest]
      BY <2>2
    <3>. QED BY <1>1, <3>1
  <2>. QED BY <2>1, <2>2
<1>4. tasks' \in Nat /\ tasks' >= tasks
  BY DEF Types, TypeOK
<1>5. job' = [job EXCEPT ![j] = what]
  BY DEF Sweeped
<1>6. job' \in [Job -> Jobs] /\ JobsExist'
  <2>. HIDE DEF what
  <2>. QED BY <1>2, <1>3, <1>4, <1>5, EndTypes
<1>. QED BY <1>1, <1>6

\* Only tasks that exist are read: the others have no status to act on.
LEMMA ReadsExist ==
  ASSUME Types, NEW t \in Task, status[t] # "NONE"
  PROVE  t \in Existing
BY DEF Types, TasksExist

(* The types of the workflow's state, and that no job ever acts on a task   *)
(* that does not exist, are kept by every step.                             *)
THEOREM TypesStep == Types /\ [Next]_vars => Types'
<1> SUFFICES ASSUME Types, [Next]_vars PROVE Types'
  OBVIOUS
<1>1. ASSUME NEW c \in Case, CreateCase(c) PROVE Types'
  BY <1>1 DEF CreateCase, Types, TypeOK, TasksExist, JobsExist, Existing, taskVars, slaVars
<1>2. ASSUME NEW j \in Request, NEW c \in Case, BeginSubmit(j, c) PROVE Types'
  <2> DEFINE what == [op |-> "submit", case |-> c]
  <2>1. j \in Job /\ what \in Jobs /\ what.op = "submit"
    BY DEF Job, Jobs
  <2>2. Begin(j, what)
    BY <1>2 DEF BeginSubmit
  <2>. HIDE DEF what
  <2>. QED BY <2>1, <2>2, BeginTypes
<1>3. ASSUME NEW j \in Request, NEW t \in Task, NEW op \in {"start", "return"},
             status[t] # "NONE", Begin(j, [op |-> op, task |-> t])
      PROVE  Types'
  <2> DEFINE what == [op |-> op, task |-> t]
  <2>1. j \in Job /\ what \in Jobs /\ what.op # "sweep" /\ what.task = t
    BY DEF Job, Jobs
  <2>2. t \in Existing /\ Begin(j, what)
    BY <1>3, ReadsExist
  <2>. HIDE DEF what
  <2>. QED BY <2>1, <2>2, BeginTypes
<1>4. ASSUME NEW j \in Request, NEW t \in Task, BeginStart(j, t) \/ BeginReturn(j, t)
      PROVE  Types'
  BY <1>3, <1>4 DEF BeginStart, BeginReturn, Open
<1>5. ASSUME NEW j \in Request, NEW t \in Task, BeginComplete(j, t) PROVE Types'
  <2> DEFINE what == [op |-> "complete", task |-> t, at |-> Unread]
  <2>1. j \in Job /\ what \in Jobs /\ what.op # "sweep" /\ what.task = t
    BY DEF Job, Jobs
  <2>2. t \in Existing /\ Begin(j, what)
    BY <1>5, ReadsExist DEF BeginComplete
  <2>. HIDE DEF what
  <2>. QED BY <2>1, <2>2, BeginTypes
<1>6. ASSUME NEW j \in Request, NEW t \in Task, BeginAssign(j, t) PROVE Types'
  <2> DEFINE what == [op |-> "assign", task |-> t, was |-> status[t]]
  <2>1. j \in Job /\ what \in Jobs /\ what.op # "sweep" /\ what.task = t
    BY <1>6 DEF Job, Jobs, BeginAssign
  <2>2. t \in Existing /\ Begin(j, what)
    BY <1>6, ReadsExist DEF BeginAssign, Open
  <2>. HIDE DEF what
  <2>. QED BY <2>1, <2>2, BeginTypes
<1>7. ASSUME NEW j \in Sweep, BeginSweep(j) PROVE Types'
  <2>1. PICK due \in SUBSET Overdue : Begin(j, [op |-> "sweep", left |-> due])
    BY <1>7 DEF BeginSweep
  <2> DEFINE what == [op |-> "sweep", left |-> due]
  <2>2. due \subseteq Existing /\ due \subseteq Task
    BY ReadsExist DEF Overdue
  <2>3. j \in Job /\ what \in Jobs /\ what.op = "sweep" /\ what.left = due
    BY <2>2 DEF Job, Jobs
  <2>. HIDE DEF what
  <2>. QED BY <2>1, <2>2, <2>3, BeginTypes DEF what
<1>8. ASSUME NEW t \in Task, MissDeadline(t) PROVE Types'
  BY <1>8 DEF MissDeadline, Types, TypeOK, TasksExist, JobsExist, Existing, caseVars, taskVars
<1>9. ASSUME NEW j \in Job, Start(j) \/ Return(j) \/ Assign(j) PROVE Types'
  <2>1. job[j].op \in {"start", "return", "assign"}
    BY <1>9 DEF Start, Return, Assign
  <2>2. job[j].task \in Existing /\ (job[j].op = "assign" => job[j].was \in Open)
    BY <2>1, JobFields DEF Types, JobsExist
  <2>3. \E s \in Open : status' = [status EXCEPT ![job[j].task] = s]
    BY <1>9, <2>2 DEF Start, Return, Assign, Open
  <2>. QED BY <1>9, <2>2, <2>3, StatusTypes DEF Start, Return, Assign
<1>10. ASSUME NEW j \in Job, ReadCase(j) PROVE Types'
  <2> DEFINE t == job[j].task
             what == [job[j] EXCEPT !.at = stage[caseOf[t]]]
  <2>1. job[j].op = "complete" /\ t \in Task /\ t \in Existing /\ caseOf[t] \in Case
    BY <1>10, JobFields DEF ReadCase, Types, JobsExist, TasksExist
  <2>2. stage[caseOf[t]] \in Draft .. Done
    BY <2>1 DEF Types, TypeOK
  <2>3. what = [op |-> "complete", task |-> t, at |-> stage[caseOf[t]]]
    <3>1. job[j] \in [op : {"complete"}, task : Task, at : {Unread} \cup (Draft .. Done)]
      <4>1. job[j] \in Jobs
        BY DEF Types, TypeOK
      <4>. QED BY <2>1, <4>1 DEF Jobs, Idle
    <3>2. job[j] = [op |-> "complete", task |-> t, at |-> job[j].at]
      BY <3>1
    <3>. QED BY <3>2
  <2>4. what \in Jobs /\ what.op = "complete" /\ what.task = t
    BY <2>1, <2>2, <2>3 DEF Jobs
  <2>5. job' = [job EXCEPT ![j] = what] /\ UNCHANGED <<caseVars, taskVars, slaVars, faults>>
    BY <1>10 DEF ReadCase
  <2>. HIDE DEF what
  <2>6. TypeOK'
    BY <2>4, <2>5 DEF Types, TypeOK, caseVars, taskVars, slaVars
  <2>7. TasksExist'
    BY <2>5 DEF Types, TasksExist, Existing, taskVars
  <2>8. JobsExist'
    BY <2>1, <2>4, <2>5 DEF Types, TypeOK, JobsExist, Existing, taskVars
  <2>. QED BY <2>6, <2>7, <2>8 DEF Types
<1>11. ASSUME NEW j \in Job, NEW t \in Task, Escalate(j, t) PROVE Types'
  <2>1. t \in Existing /\ job' \in [Job -> Jobs] /\ JobsExist'
    BY <1>11, SweepTypes DEF Escalate
  <2>2. TypeOK'
    BY <1>11, <2>1 DEF Escalate, Types, TypeOK, caseVars, Open
  <2>3. TasksExist'
    BY <1>11, <2>1 DEF Escalate, Types, TypeOK, TasksExist, Existing
  <2>. QED BY <2>1, <2>2, <2>3 DEF Types
<1>12. ASSUME UNCHANGED <<caseVars, taskVars, slaVars>>, faults' \in 0 .. MaxFaults,
              job' \in [Job -> Jobs], JobsExist'
       PROVE  Types'
  BY <1>12 DEF Types, TypeOK, TasksExist, Existing, caseVars, taskVars, slaVars
<1>13. Fault => faults' \in 0 .. MaxFaults
  BY BoundAssumption DEF Fault, Types, TypeOK
<1>14. ASSUME NEW j \in Job, RequestFails(j) PROVE Types'
  <2>1. Idle \in Jobs
    BY DEF Jobs
  <2>2. tasks' \in Nat /\ tasks' >= tasks
    BY <1>14 DEF RequestFails, taskVars, Types, TypeOK
  <2>3. job' = [job EXCEPT ![j] = Idle]
    BY <1>14 DEF RequestFails, End
  <2>4. job' \in [Job -> Jobs] /\ JobsExist'
    BY <2>1, <2>2, <2>3, EndTypes
  <2>. QED BY <1>12, <1>13, <1>14, <2>4 DEF RequestFails
<1>15. ASSUME NEW j \in Sweep, NEW t \in Task, EscalationFails(j, t) PROVE Types'
  <2>1. job' \in [Job -> Jobs] /\ JobsExist'
    BY <1>15, SweepTypes DEF EscalationFails, taskVars, Job
  <2>. QED BY <1>12, <1>13, <1>15, <2>1 DEF EscalationFails
<1>16. CASE Crash
  <2>1. job' = [j \in Job |-> Idle]
    BY <1>16 DEF Crash
  <2>2. job' \in [Job -> Jobs] /\ JobsExist'
    <3>1. Idle \in Jobs /\ Idle.op = "idle"
      BY DEF Jobs, Idle
    <3>2. \A j \in Job : job'[j] = Idle
      BY <2>1
    <3>3. JobsExist'
      BY <3>1, <3>2 DEF JobsExist
    <3>4. job' \in [Job -> Jobs]
      BY <2>1, <3>1
    <3>. QED BY <3>3, <3>4
  <2>. QED BY <1>12, <1>13, <1>16, <2>2 DEF Crash
<1>17. CASE UNCHANGED vars
  BY <1>17 DEF vars, Types, TypeOK, TasksExist, JobsExist, Existing, caseVars, taskVars, slaVars
<1>. QED
  BY <1>1, <1>2, <1>4, <1>5, <1>6, <1>7, <1>8, <1>9, <1>10, <1>11, <1>14, <1>15, <1>16, <1>17,
     SubmitTypes, CompleteTypes
  DEF Next, Proceed

(* The state of the workflow keeps its types: TypeOK of the run siap,       *)
(* for any number of jobs under way.                                        *)
THEOREM WorkflowTypeCorrect == Spec => []TypeOK
<1>1. Init => Types
  BY BoundAssumption
  DEF Init, Types, TypeOK, TasksExist, JobsExist, Jobs, Idle, Existing, Stage, Task, Draft, Done
<1>2. Types => TypeOK
  BY DEF Types
<1>. QED BY <1>1, <1>2, TypesStep, PTL DEF Spec

-----------------------------------------------------------------------------
\* A step that moves no case, makes no task and leaves open tasks open.
LEMMA MannedOfStatus ==
  ASSUME Types, Types', Manned, stage' = stage, tasks' = tasks,
         caseOf' = caseOf, taskOf' = taskOf,
         \A t \in Task : status[t] \in Open => status'[t] \in Open
  PROVE  Manned'
<1>1. Existing' = Existing /\ Existing \subseteq Task
  BY BoundAssumption DEF Existing, Task, Types, TypeOK
<1>. QED BY <1>1 DEF Manned

\* A move of case c that touches no task of another case.
LEMMA MannedOfMove ==
  ASSUME Types, Types', Manned, NEW c \in Case, NEW from, NEW to \in 1 .. Done,
         NEW st \in [Task -> {"NONE", "COMPLETED"} \cup Open], NEW dl,
         MoveCase(c, from, to, st, dl),
         \A t \in Existing : caseOf[t] # c => st[t] = status[t]
  PROVE  Manned'
<1>0. Existing \subseteq Task /\ tasks \in Nat
  BY BoundAssumption DEF Existing, Task, Types, TypeOK
<1>1. stage' = [stage EXCEPT ![c] = to]
  BY DEF MoveCase
<1>2. CASE to = Done
  <2>1. status' = st /\ UNCHANGED <<tasks, caseOf, taskOf>>
    BY <1>2 DEF MoveCase
  <2>2. stage'[c] = Done /\ Done \notin Stage
    BY <1>1, <1>2, BoundAssumption DEF Types, TypeOK, Stage, Done
  <2>3. \A d \in Case : d # c => stage'[d] = stage[d]
    BY <1>1 DEF Types, TypeOK
  <2>. QED BY <2>1, <2>2, <2>3 DEF Manned, Existing
<1>3. CASE to # Done
  <2> DEFINE n == tasks + 1
  <2>1. /\ n \in Task /\ tasks' = n
        /\ caseOf' = [caseOf EXCEPT ![n] = c]
        /\ taskOf' = [taskOf EXCEPT ![n] = to]
        /\ status' = [st EXCEPT ![n] = "ASSIGNED"]
    BY <1>0, <1>3, BoundAssumption DEF MoveCase, AddTask, Task, Types, TypeOK
  <2>2. n \notin Existing /\ Existing' = Existing \cup {n}
    BY <1>0, <2>1 DEF Existing
  <2>. HIDE DEF n
  <2>3. caseOf'[n] = c /\ taskOf'[n] = to /\ status'[n] \in Open
    BY <2>1 DEF Types, TypeOK, Open
  <2>4. \A t \in Existing :
          caseOf'[t] = caseOf[t] /\ taskOf'[t] = taskOf[t] /\ status'[t] = st[t]
    BY <1>0, <2>1, <2>2 DEF Types, TypeOK
  <2>5. ASSUME NEW d \in Case, stage'[d] \in Stage
        PROVE  \E t \in Existing' :
                 caseOf'[t] = d /\ taskOf'[t] = stage'[d] /\ status'[t] \in Open
    <3>1. CASE d = c
      <4>1. stage'[d] = to
        BY <1>1, <3>1 DEF Types, TypeOK
      <4>. QED BY <2>2, <2>3, <3>1, <4>1
    <3>2. CASE d # c
      <4>1. stage'[d] = stage[d]
        BY <1>1, <3>2 DEF Types, TypeOK
      <4>2. PICK t \in Existing :
              caseOf[t] = d /\ taskOf[t] = stage[d] /\ status[t] \in Open
        BY <2>5, <4>1 DEF Manned
      <4>3. st[t] = status[t]
        BY <3>2, <4>2
      <4>. QED BY <2>2, <2>4, <4>1, <4>2, <4>3
    <3>. QED BY <3>1, <3>2
  <2>. QED BY <2>5 DEF Manned
<1>. QED BY <1>2, <1>3

(* Whatever stale requests and sweeps write, the case that a transaction    *)
(* leaves active has an open task for its state, made by that transaction.  *)
THEOREM MannedStep == Types /\ Types' /\ Manned /\ [Next]_vars => Manned'
<1> SUFFICES ASSUME Types, Types', Manned, [Next]_vars PROVE Manned'
  OBVIOUS
<1>1. ASSUME UNCHANGED <<stage, taskVars>> PROVE Manned'
  BY <1>1, MannedOfStatus DEF taskVars
<1>2. ASSUME NEW j \in Job, NEW t \in Task, NEW s \in Open,
             status' = [status EXCEPT ![t] = s], UNCHANGED <<stage, tasks, caseOf, taskOf>>
      PROVE  Manned'
  <2>1. \A u \in Task : status[u] \in Open => status'[u] \in Open
    BY <1>2 DEF Types, TypeOK
  <2>. QED BY <1>2, <2>1, MannedOfStatus
<1>3. ASSUME NEW j \in Job, Start(j) \/ Return(j) \/ Assign(j) PROVE Manned'
  <2>1. job[j].task \in Task /\ (job[j].op = "assign" => job[j].was \in Open)
    BY <1>3, JobFields DEF Start, Return, Assign, Types
  <2>2. \E s \in Open : status' = [status EXCEPT ![job[j].task] = s]
    BY <1>3, <2>1 DEF Start, Return, Assign, Open
  <2>3. UNCHANGED <<stage, tasks, caseOf, taskOf>>
    BY <1>3 DEF Start, Return, Assign, caseVars
  <2>. QED BY <1>2, <2>1, <2>2, <2>3
<1>4. ASSUME NEW j \in Job, NEW t \in Task, Escalate(j, t) PROVE Manned'
  BY <1>2, <1>4 DEF Escalate, caseVars, Open
<1>5. ASSUME NEW j \in Job, Submit(j) PROVE Manned'
  <2>1. job[j].case \in Case /\ MoveCase(job[j].case, Draft, 1, status, sla)
    BY <1>5, JobFields DEF Submit, Types
  <2>2. 1 \in 1 .. Done
    BY BoundAssumption DEF Done
  <2>3. status \in [Task -> {"NONE", "COMPLETED"} \cup Open]
    BY DEF Types, TypeOK
  <2>. QED BY <2>1, <2>2, <2>3, MannedOfMove
<1>6. ASSUME NEW j \in Job, Complete(j) PROVE Manned'
  <2> DEFINE t == job[j].task
             at == job[j].at
             st == [status EXCEPT ![t] = "COMPLETED"]
  <2>1. MoveCase(caseOf[t], at, NextStage(at), st, SlaDone(t))
    BY <1>6 DEF Complete
  <2>2. t \in Task /\ caseOf[t] \in Case /\ at \in Draft .. Done
    BY <1>6, JobFields DEF Complete, Types, JobsExist, TasksExist
  <2>3. NextStage(at) \in 1 .. Done
    BY <2>2, BoundAssumption DEF NextStage, Draft, Done
  <2>4. st \in [Task -> {"NONE", "COMPLETED"} \cup Open]
    BY <2>2 DEF Types, TypeOK
  <2>5. \A u \in Existing : caseOf[u] # caseOf[t] => st[u] = status[u]
    BY BoundAssumption DEF Types, TypeOK, Existing, Task
  <2>. HIDE DEF st, at
  <2>. QED BY <2>1, <2>2, <2>3, <2>4, <2>5, MannedOfMove
<1>. QED
  BY <1>1, <1>3, <1>4, <1>5, <1>6
  DEF Next, Proceed, CreateCase, BeginSubmit, BeginStart, BeginComplete, BeginAssign, BeginReturn,
      BeginSweep, Begin, ReadCase, MissDeadline, RequestFails, EscalationFails, Crash,
      vars, caseVars, taskVars

(* An active case always has an open task for the stage it is at, for any   *)
(* number of cases and of jobs under way: NeverAdrift of the run siap.      *)
THEOREM CaseNeverAdrift == Spec => []NeverAdrift
<1>1. Init => Types /\ Manned
  BY BoundAssumption
  DEF Init, Types, TypeOK, TasksExist, JobsExist, Jobs, Idle, Existing, Manned, Stage, Task,
      Draft, Done
<1>2. Types /\ Manned => NeverAdrift
  <2>1. Types => Existing \subseteq Task
    BY BoundAssumption DEF Types, TypeOK, Existing, Task
  <2>. QED BY <2>1 DEF Manned, NeverAdrift, OpenTasks
<1>. QED BY <1>1, <1>2, TypesStep, MannedStep, PTL DEF Spec

-----------------------------------------------------------------------------
\* The moves of case c to stage s in the log, and its tasks of that stage.
Moves(c, s) == {i \in DOMAIN trail[c] : trail[c][i].to = s}
Made(c, s) == {t \in Task : caseOf[t] = c /\ taskOf[t] = s}

LastTo(c) == IF trail[c] = <<>> THEN Draft ELSE trail[c][Len(trail[c])].to

\* TrailAgrees, and that the tasks still to be made belong to no case.
Logged ==
  /\ \A t \in Task : t \notin Existing => caseOf[t] = NoCase
  /\ \A c \in Case : stage[c] = LastTo(c)
  /\ \A c \in Case, s \in Stage : Cardinality(Moves(c, s)) = Cardinality(Made(c, s))

LEMMA CountsAreFinite ==
  ASSUME Types, NEW c \in Case, NEW s
  PROVE  /\ IsFiniteSet(Moves(c, s)) /\ Cardinality(Moves(c, s)) \in Nat
         /\ IsFiniteSet(Made(c, s)) /\ Cardinality(Made(c, s)) \in Nat
<1>1. trail[c] \in Seq(Move)
  BY DEF Types, TypeOK
<1>2. DOMAIN trail[c] = 1 .. Len(trail[c]) /\ Len(trail[c]) \in Nat
  BY <1>1
<1>3. IsFiniteSet(DOMAIN trail[c])
  BY <1>2, FS_Interval
<1>4. IsFiniteSet(Task)
  BY FS_Interval, BoundAssumption DEF Task
<1>5. Moves(c, s) \subseteq DOMAIN trail[c] /\ Made(c, s) \subseteq Task
  BY DEF Moves, Made
<1>6. IsFiniteSet(Moves(c, s)) /\ IsFiniteSet(Made(c, s))
  BY <1>3, <1>4, <1>5, FS_Subset
<1>. QED BY <1>6, FS_CardinalityType

\* The log and the tasks are left alone.
LEMMA LoggedOfUnchanged ==
  ASSUME Logged, UNCHANGED <<stage, trail, tasks, caseOf, taskOf>>
  PROVE  Logged'
BY DEF Logged, LastTo, Moves, Made, Existing

\* A move is one more entry of the log and, short of the end, one more task.
LEMMA LoggedOfMove ==
  ASSUME Types, Types', Logged, NEW c \in Case, NEW from \in Draft .. Done, NEW to \in 1 .. Done,
         NEW st, NEW dl, MoveCase(c, from, to, st, dl)
  PROVE  Logged'
<1> DEFINE n == tasks + 1
           k == Len(trail[c]) + 1
           m == [from |-> from, to |-> to]
<1>1. /\ trail[c] \in Seq(Move) /\ m \in Move
      /\ trail' = [trail EXCEPT ![c] = Append(@, m)]
      /\ stage' = [stage EXCEPT ![c] = to]
  BY BoundAssumption DEF MoveCase, Types, TypeOK, Move, Draft, Done
<1>2. trail'[c] = Append(trail[c], m) /\ \A d \in Case : d # c => trail'[d] = trail[d]
  BY <1>1 DEF Types, TypeOK
<1>3. /\ k \in Nat /\ Len(trail'[c]) = k /\ trail'[c] # <<>> /\ trail'[c][k].to = to
      /\ DOMAIN trail'[c] = DOMAIN trail[c] \cup {k} /\ k \notin DOMAIN trail[c]
      /\ \A i \in DOMAIN trail[c] : trail'[c][i] = trail[c][i]
  BY <1>1, <1>2
<1>. HIDE DEF k, m
<1>4. \A d \in Case : stage'[d] = LastTo(d)'
  BY <1>1, <1>2, <1>3 DEF Logged, LastTo, Types, TypeOK
<1>5. \A d \in Case : d # c => stage'[d] = stage[d]
  BY <1>1 DEF Types, TypeOK
<1>6. ASSUME NEW s \in Stage
      PROVE  Moves(c, s)' = IF s = to THEN Moves(c, s) \cup {k} ELSE Moves(c, s)
  BY <1>3 DEF Moves
<1>7. \A d \in Case, s \in Stage : d # c => Moves(d, s)' = Moves(d, s)
  BY <1>2 DEF Moves
<1>8. CASE to = Done
  <2>1. UNCHANGED <<tasks, caseOf, taskOf>>
    BY <1>8 DEF MoveCase
  <2>2. Done \notin Stage
    BY BoundAssumption DEF Done, Stage
  <2>3. \A d \in Case, s \in Stage : Moves(d, s)' = Moves(d, s) /\ Made(d, s)' = Made(d, s)
    BY <1>6, <1>7, <1>8, <2>1, <2>2 DEF Made
  <2>. QED BY <1>4, <2>1, <2>3 DEF Logged, Existing
<1>9. CASE to # Done
  <2>1. /\ n \in Task /\ tasks' = n /\ to \in Stage
        /\ caseOf' = [caseOf EXCEPT ![n] = c]
        /\ taskOf' = [taskOf EXCEPT ![n] = to]
    BY <1>9, BoundAssumption DEF MoveCase, AddTask, Task, Stage, Done, Types, TypeOK
  <2>2. n \notin Existing /\ Existing' = Existing \cup {n}
    BY <2>1 DEF Existing, Types, TypeOK
  <2>3. caseOf[n] = NoCase
    BY <2>1, <2>2 DEF Logged
  <2>. HIDE DEF n
  <2>4. caseOf'[n] = c /\ taskOf'[n] = to
    BY <2>1 DEF Types, TypeOK
  <2>5. \A t \in Task : t # n => caseOf'[t] = caseOf[t] /\ taskOf'[t] = taskOf[t]
    BY <2>1 DEF Types, TypeOK
  <2>6. \A d \in Case, s \in Stage :
          /\ n \notin Made(d, s)
          /\ Made(d, s)' = IF d = c /\ s = to THEN Made(d, s) \cup {n} ELSE Made(d, s)
    BY <2>1, <2>3, <2>4, <2>5, NameAssumption DEF Made
  <2>7. ASSUME NEW s \in Stage, s = to
        PROVE  Cardinality(Moves(c, s)') = Cardinality(Made(c, s)')
    <3>1. Moves(c, s)' = Moves(c, s) \cup {k} /\ Made(c, s)' = Made(c, s) \cup {n}
      BY <1>6, <2>6, <2>7
    <3>2. k \notin Moves(c, s) /\ n \notin Made(c, s)
      BY <1>3, <2>6 DEF Moves
    <3>3. IsFiniteSet(Moves(c, s)) /\ IsFiniteSet(Made(c, s))
      BY CountsAreFinite
    <3>4. /\ Cardinality(Moves(c, s) \cup {k}) = Cardinality(Moves(c, s)) + 1
          /\ Cardinality(Made(c, s) \cup {n}) = Cardinality(Made(c, s)) + 1
      BY <3>2, <3>3, FS_AddElement
    <3>. QED BY <3>1, <3>4 DEF Logged
  <2>8. \A d \in Case, s \in Stage : d # c \/ s # to =>
          Moves(d, s)' = Moves(d, s) /\ Made(d, s)' = Made(d, s)
    BY <1>6, <1>7, <2>6
  <2>9. \A d \in Case, s \in Stage : Cardinality(Moves(d, s)') = Cardinality(Made(d, s)')
    BY <2>7, <2>8 DEF Logged
  <2>10. \A t \in Task : t \notin Existing' => caseOf'[t] = NoCase
    BY <2>2, <2>5 DEF Logged
  <2>. QED BY <1>4, <2>9, <2>10 DEF Logged
<1>. QED BY <1>8, <1>9

(* Whatever stage a stale request moves its case to, the same transaction   *)
(* logs the move and makes the task.                                        *)
THEOREM LoggedStep == Types /\ Types' /\ Logged /\ [Next]_vars => Logged'
<1> SUFFICES ASSUME Types, Types', Logged, [Next]_vars PROVE Logged'
  OBVIOUS
<1>1. ASSUME NEW j \in Job, Submit(j) PROVE Logged'
  <2>1. job[j].case \in Case /\ MoveCase(job[j].case, Draft, 1, status, sla)
    BY <1>1, JobFields DEF Submit, Types
  <2>2. 1 \in 1 .. Done /\ Draft \in Draft .. Done
    BY BoundAssumption DEF Draft, Done
  <2>. QED BY <2>1, <2>2, LoggedOfMove
<1>2. ASSUME NEW j \in Job, Complete(j) PROVE Logged'
  <2> DEFINE t == job[j].task
             at == job[j].at
             st == [status EXCEPT ![t] = "COMPLETED"]
             dl == SlaDone(t)
  <2>1. MoveCase(caseOf[t], at, NextStage(at), st, dl)
    BY <1>2 DEF Complete
  <2>2. t \in Task /\ caseOf[t] \in Case /\ at \in Draft .. Done
    BY <1>2, JobFields DEF Complete, Types, JobsExist, TasksExist
  <2>3. NextStage(at) \in 1 .. Done
    BY <2>2, BoundAssumption DEF NextStage, Draft, Done
  <2>. HIDE DEF st, at, dl
  <2>. QED BY <2>1, <2>2, <2>3, LoggedOfMove
<1>3. CASE UNCHANGED <<stage, trail, tasks, caseOf, taskOf>>
  BY <1>3, LoggedOfUnchanged
<1>. QED
  BY <1>1, <1>2, <1>3
  DEF Next, Proceed, CreateCase, BeginSubmit, BeginStart, BeginComplete, BeginAssign, BeginReturn,
      BeginSweep, Begin, Start, ReadCase, Assign, Return, Escalate, MissDeadline, RequestFails,
      EscalationFails, Crash, vars, caseVars, taskVars

(* The workflow log tells where every case is and how many tasks of which   *)
(* stage it had, for any number of jobs under way: TrailAgrees of the run   *)
(* siap.                                                                    *)
THEOREM LogTellsState == Spec => []TrailAgrees
<1>1. Init => Types /\ Logged
  <2> SUFFICES ASSUME Init PROVE Types /\ Logged
    OBVIOUS
  <2>1. Types
    BY BoundAssumption
    DEF Init, Types, TypeOK, TasksExist, JobsExist, Jobs, Idle, Existing, Stage, Task, Draft, Done
  <2>2. \A c \in Case, s \in Stage : Moves(c, s) = {} /\ Made(c, s) = {}
    BY NameAssumption DEF Init, Moves, Made
  <2>3. \A c \in Case : stage[c] = LastTo(c)
    BY DEF Init, LastTo
  <2>. QED BY <2>1, <2>2, <2>3 DEF Init, Logged
<1>2. Logged => TrailAgrees
  BY DEF Logged, LastTo, Moves, Made, TrailAgrees
<1>. QED BY <1>1, <1>2, TypesStep, LoggedStep, PTL DEF Spec

-----------------------------------------------------------------------------
(* The cases of which no job was overtaken.                                 *)

LEMMA WatchedIsSpec == WatchedSpec => Spec
<1>1. [Next /\ Watch]_<<vars, crossed>> => [Next]_vars
  OBVIOUS
<1>. QED BY <1>1, PTL DEF WatchedSpec, WatchedInit, Spec

\* The log of a case at stage n.
PathTo(n) == [i \in 1 .. n |-> [from |-> i - 1, to |-> i]]

Truthful(t) ==
  /\ closed[t] => status[t] = "COMPLETED"
  /\ sla[t] # "NONE" => /\ (status[t] = "COMPLETED") <=> closed[t]
                        /\ closed[t] <=> sla[t] = "COMPLETED"
                        /\ status[t] = "OVERDUE" => sla[t] = "OVERDUE"

\* The case has walked its path, and nothing of it is open but one task.
Intact(c) ==
  /\ stage[c] # Draft => c \in created
  /\ trail[c] = PathTo(stage[c])
  /\ \A t \in Task : caseOf[t] = c =>
       Truthful(t) /\ (status[t] \in Open => taskOf[t] = stage[c])
  /\ \A t, u \in Task :
       caseOf[t] = c /\ caseOf[u] = c /\ status[t] \in Open /\ status[u] \in Open => t = u

\* The status an assignment is to write back is one the deadline knows of.
Recalled(w, c) ==
  w.op = "assign" /\ caseOf[w.task] = c /\ w.was = "OVERDUE" => sla[w.task] \in {"OVERDUE", "NONE"}

Untouched ==
  \A t \in Task : t \notin Existing => caseOf[t] = NoCase /\ sla[t] = "NONE" /\ ~closed[t]

Followed ==
  /\ Stale \subseteq crossed
  /\ \A c \in Case \ crossed : Intact(c) /\ \A j \in Job : Recalled(job[j], c)

-----------------------------------------------------------------------------
\* A step that does nothing to case c, or nothing to any case but c.
LeavesAlone(c) ==
  /\ stage'[c] = stage[c] /\ trail'[c] = trail[c]
  /\ c \in created => c \in created'
  /\ \A t \in Task :
       /\ caseOf'[t] = c <=> caseOf[t] = c
       /\ caseOf[t] = c => /\ status'[t] = status[t] /\ taskOf'[t] = taskOf[t]
                           /\ sla'[t] = sla[t] /\ closed'[t] = closed[t]

Only(c) == \A d \in Case : d # c => LeavesAlone(d)

LEMMA AloneIntact ==
  ASSUME NEW c \in Case, Intact(c), LeavesAlone(c)
  PROVE  Intact(c)'
<1>1. ASSUME NEW t \in Task, caseOf'[t] = c
      PROVE  /\ Truthful(t)' /\ (status'[t] \in Open => taskOf'[t] = stage'[c])
             /\ caseOf[t] = c /\ status'[t] = status[t]
  BY <1>1 DEF Intact, LeavesAlone, Truthful
<1>. QED BY <1>1 DEF Intact, LeavesAlone

\* What a step may do to a job: keep it, end it, cut a sweep, read, begin.
JobStep(k) ==
  \/ job'[k] = job[k]
  \/ job'[k] = Idle
  \/ \E left \in SUBSET job[k].left :
       job[k].op = "sweep" /\ job'[k] = [op |-> "sweep", left |-> left]
  \/ /\ job[k].op = "complete"
     /\ job'[k] = [op |-> "complete", task |-> job[k].task, at |-> stage[caseOf[job[k].task]]]
     /\ UNCHANGED <<caseVars, taskVars, slaVars>>
  \/ \E what \in Jobs :
       /\ job'[k] = what
       /\ \A c \in Case : StillSo(what, c)
       /\ what.op = "assign" => what.was = status[what.task]
       /\ UNCHANGED <<caseVars, taskVars, slaVars>>

LEMMA BeginStep ==
  ASSUME Types, NEW j \in Job, NEW what \in Jobs, Begin(j, what),
         \A c \in Case : StillSo(what, c),
         what.op = "assign" => what.was = status[what.task]
  PROVE  \A k \in Job : JobStep(k)
<1> SUFFICES ASSUME NEW k \in Job PROVE JobStep(k)
  OBVIOUS
<1>1. job'[k] = (IF k = j THEN what ELSE job[k]) /\ UNCHANGED <<caseVars, taskVars, slaVars>>
  BY DEF Begin, Types, TypeOK
<1>. QED BY <1>1 DEF JobStep

LEMMA EndStep ==
  ASSUME Types, NEW j \in Job, End(j)
  PROVE  \A k \in Job : JobStep(k)
BY DEF End, JobStep, Types, TypeOK

LEMMA SweepStep ==
  ASSUME Types, NEW j \in Job, NEW t \in Task, job[j].op = "sweep", Sweeped(j, t)
  PROVE  \A k \in Job : JobStep(k)
<1> DEFINE rest == job[j].left \ {t}
<1>1. job' = [job EXCEPT ![j] = IF rest = {} THEN Idle ELSE [op |-> "sweep", left |-> rest]]
  BY DEF Sweeped
<1>2. rest \in SUBSET job[j].left
  OBVIOUS
<1>. HIDE DEF rest
<1>. QED BY <1>1, <1>2 DEF JobStep, Types, TypeOK

(* The checks ask for all that is to be still so later on.                  *)
LEMMA JobSteps ==
  ASSUME Types, [Next]_vars
  PROVE  \A k \in Job : JobStep(k)
<1> DEFINE Goal == \A k \in Job : JobStep(k)
<1>1. ASSUME job' = job PROVE Goal
  BY <1>1 DEF JobStep
<1>2. ASSUME NEW j \in Request, NEW c \in Case, BeginSubmit(j, c) PROVE Goal
  <2> DEFINE what == [op |-> "submit", case |-> c]
  <2>1. j \in Job /\ what \in Jobs /\ what.op = "submit" /\ \A d \in Case : StillSo(what, d)
    BY <1>2 DEF Job, Jobs, StillSo, BeginSubmit
  <2>2. Begin(j, what)
    BY <1>2 DEF BeginSubmit
  <2>. HIDE DEF what
  <2>. QED BY <2>1, <2>2, BeginStep
<1>3. ASSUME NEW j \in Request, NEW t \in Task, NEW op \in {"start", "return"},
             status[t] \in Open, Begin(j, [op |-> op, task |-> t])
      PROVE  Goal
  <2> DEFINE what == [op |-> op, task |-> t]
  <2>1. j \in Job /\ what \in Jobs /\ what.op # "assign" /\ \A d \in Case : StillSo(what, d)
    BY <1>3 DEF Job, Jobs, StillSo
  <2>. HIDE DEF what
  <2>. QED BY <1>3, <2>1, BeginStep DEF what
<1>4. ASSUME NEW j \in Request, NEW t \in Task, BeginStart(j, t) \/ BeginReturn(j, t) PROVE Goal
  BY <1>3, <1>4 DEF BeginStart, BeginReturn, Open
<1>5. ASSUME NEW j \in Request, NEW t \in Task, BeginComplete(j, t) PROVE Goal
  <2> DEFINE what == [op |-> "complete", task |-> t, at |-> Unread]
  <2>1. j \in Job /\ what \in Jobs /\ what.op # "assign" /\ \A d \in Case : StillSo(what, d)
    BY <1>5 DEF Job, Jobs, StillSo, BeginComplete, Open
  <2>2. Begin(j, what)
    BY <1>5 DEF BeginComplete
  <2>. HIDE DEF what
  <2>. QED BY <2>1, <2>2, BeginStep
<1>6. ASSUME NEW j \in Request, NEW t \in Task, BeginAssign(j, t) PROVE Goal
  <2> DEFINE what == [op |-> "assign", task |-> t, was |-> status[t]]
  <2>1. /\ j \in Job /\ what \in Jobs /\ what.was = status[what.task]
        /\ \A d \in Case : StillSo(what, d)
    BY <1>6 DEF Job, Jobs, StillSo, BeginAssign
  <2>2. Begin(j, what)
    BY <1>6 DEF BeginAssign
  <2>. HIDE DEF what
  <2>. QED BY <2>1, <2>2, BeginStep
<1>7. ASSUME NEW j \in Sweep, BeginSweep(j) PROVE Goal
  <2>1. PICK due \in SUBSET Overdue : Begin(j, [op |-> "sweep", left |-> due])
    BY <1>7 DEF BeginSweep
  <2> DEFINE what == [op |-> "sweep", left |-> due]
  <2>2. due \subseteq Task /\ \A t \in due : status[t] \in Open
    BY DEF Overdue, Open
  <2>3. j \in Job /\ what \in Jobs /\ what.op # "assign" /\ \A d \in Case : StillSo(what, d)
    BY <2>2 DEF Job, Jobs, StillSo
  <2>. HIDE DEF what
  <2>. QED BY <2>1, <2>3, BeginStep DEF what
<1>8. ASSUME NEW j \in Job, ReadCase(j) PROVE Goal
  <2>1. job[j].op = "complete" /\ UNCHANGED <<caseVars, taskVars, slaVars>>
    BY <1>8 DEF ReadCase
  <2>2. job[j] \in [op : {"complete"}, task : Task, at : {Unread} \cup (Draft .. Done)]
    <3>1. job[j] \in Jobs
      BY DEF Types, TypeOK
    <3>. QED BY <2>1, <3>1 DEF Jobs, Idle
  <2>3. job' = [job EXCEPT ![j] = [@ EXCEPT !.at = stage[caseOf[job[j].task]]]]
    BY <1>8 DEF ReadCase
  <2>4. [job[j] EXCEPT !.at = stage[caseOf[job[j].task]]]
          = [op |-> "complete", task |-> job[j].task, at |-> stage[caseOf[job[j].task]]]
    BY <2>2
  <2>5. /\ job'[j] = [op |-> "complete", task |-> job[j].task,
                      at |-> stage[caseOf[job[j].task]]]
        /\ \A k \in Job : k # j => job'[k] = job[k]
    BY <2>3, <2>4 DEF Types, TypeOK
  <2>. QED BY <2>1, <2>5 DEF JobStep
<1>9. ASSUME NEW j \in Job, NEW t \in Task, Escalate(j, t) \/ EscalationFails(j, t) PROVE Goal
  BY <1>9, SweepStep DEF Escalate, EscalationFails
<1>10. ASSUME Crash PROVE Goal
  BY <1>10 DEF Crash, JobStep
<1>11. ASSUME NEW j \in Job,
              \/ Submit(j) \/ Start(j) \/ Complete(j) \/ Assign(j) \/ Return(j)
              \/ RequestFails(j)
       PROVE  Goal
  BY <1>11, EndStep DEF Submit, Start, Complete, Assign, Return, RequestFails
<1>. HIDE DEF Goal
<1>12. ASSUME \/ \E c \in Case : CreateCase(c)
              \/ \E t \in Task : MissDeadline(t)
              \/ UNCHANGED vars
       PROVE  Goal
  BY <1>1, <1>12 DEF CreateCase, MissDeadline, vars
<1>13. ASSUME NEW j \in Job, Proceed(j) \/ RequestFails(j) PROVE Goal
  BY <1>8, <1>9, <1>11, <1>13 DEF Proceed
<1>14. ASSUME NEW j \in Sweep, NEW t \in Task, EscalationFails(j, t) PROVE Goal
  BY <1>9, <1>14 DEF Job
<1>15. ASSUME NEW j \in Request, NEW t \in Task,
              \/ BeginStart(j, t) \/ BeginComplete(j, t) \/ BeginAssign(j, t)
              \/ BeginReturn(j, t)
       PROVE  Goal
  BY <1>4, <1>5, <1>6, <1>15
<1>16. ASSUME Next PROVE Goal
  BY <1>2, <1>7, <1>10, <1>12, <1>13, <1>14, <1>15, <1>16 DEF Next
<1>17. Goal
  BY <1>12, <1>16
<1>. QED BY <1>17 DEF Goal

\* No job is overtaken as far as a case goes that the step leaves alone.
LEMMA AloneStaysSo ==
  ASSUME Types, NEW c \in Case, LeavesAlone(c), NEW k \in Job, JobStep(k), StillSo(job[k], c)
  PROVE  StillSo(job[k], c)'
<1>1. /\ job[k].op \in {"start", "return", "assign", "complete"} => job[k].task \in Task
      /\ job[k].op = "sweep" => job[k].left \in SUBSET Task
  BY JobFields DEF Types
<1>2. CASE job'[k] = job[k]
  <2>1. job[k].op = "submit" /\ job[k].case = c => c \in created' /\ stage'[c] = Draft
    BY DEF StillSo, LeavesAlone
  <2>2. job[k].op \in {"start", "complete", "assign", "return"} /\ caseOf'[job[k].task] = c =>
          /\ status'[job[k].task] \in Open
          /\ job[k].op = "complete" /\ job[k].at # Unread => job[k].at = stage'[c]
    BY <1>1 DEF StillSo, LeavesAlone
  <2>3. job[k].op = "sweep" => \A t \in job[k].left : caseOf'[t] = c => status'[t] \in Open
    BY <1>1 DEF StillSo, LeavesAlone
  <2>. HIDE DEF Draft, Unread
  <2>. QED BY <1>2, <2>1, <2>2, <2>3 DEF StillSo
<1>3. CASE job'[k] = Idle
  BY <1>3 DEF StillSo, Idle
<1>4. ASSUME NEW left \in SUBSET job[k].left,
             job[k].op = "sweep", job'[k] = [op |-> "sweep", left |-> left]
      PROVE  StillSo(job[k], c)'
  <2>1. job'[k].op = "sweep" /\ job'[k].left = left
    BY <1>4
  <2>2. \A t \in left : caseOf'[t] = c => status'[t] \in Open
    BY <1>1, <1>4 DEF StillSo, LeavesAlone
  <2>. QED BY <2>1, <2>2 DEF StillSo
<1>5. CASE /\ job[k].op = "complete"
           /\ job'[k] = [op |-> "complete", task |-> job[k].task,
                         at |-> stage[caseOf[job[k].task]]]
           /\ UNCHANGED <<caseVars, taskVars, slaVars>>
  <2>1. /\ job'[k].op = "complete" /\ job'[k].task = job[k].task
        /\ job'[k].at = stage[caseOf[job[k].task]]
    BY <1>5
  <2>. QED BY <1>5, <2>1 DEF StillSo, caseVars, taskVars
<1>6. ASSUME NEW what \in Jobs, job'[k] = what, StillSo(what, c),
             UNCHANGED <<caseVars, taskVars, slaVars>>
      PROVE  StillSo(job[k], c)'
  BY <1>6 DEF StillSo, caseVars, taskVars
<1>. QED BY <1>2, <1>3, <1>4, <1>5, <1>6 DEF JobStep

-----------------------------------------------------------------------------
\* A move touches no case but its own, if what it builds on does not either.
LEMMA MoveOnly ==
  ASSUME Types, Untouched, NEW c \in Case, NEW from, NEW to \in 1 .. Done,
         NEW st \in [Task -> {"NONE", "COMPLETED"} \cup Open],
         NEW dl \in [Task -> {"NONE", "ON_TRACK", "OVERDUE", "COMPLETED"}],
         MoveCase(c, from, to, st, dl), created' = created,
         \A t \in Task : caseOf[t] # c =>
           st[t] = status[t] /\ dl[t] = sla[t] /\ closed'[t] = closed[t]
  PROVE  Only(c)
<1> SUFFICES ASSUME NEW d \in Case, d # c PROVE LeavesAlone(d)
  BY DEF Only
<1>1. stage'[d] = stage[d] /\ trail'[d] = trail[d]
  BY DEF MoveCase, Types, TypeOK
<1>2. CASE to = Done
  BY <1>1, <1>2 DEF MoveCase, LeavesAlone
<1>3. CASE to # Done
  <2> DEFINE n == tasks + 1
  <2>1. /\ n \in Task /\ n \notin Existing /\ caseOf' = [caseOf EXCEPT ![n] = c]
        /\ taskOf' = [taskOf EXCEPT ![n] = to] /\ status' = [st EXCEPT ![n] = "ASSIGNED"]
        /\ sla' = [dl EXCEPT ![n] = IF to \in Timed THEN "ON_TRACK" ELSE "NONE"]
    BY <1>3, BoundAssumption DEF MoveCase, AddTask, Task, Existing, Types, TypeOK
  <2>. HIDE DEF n
  <2>2. caseOf[n] # d /\ caseOf'[n] # d
    BY <2>1, NameAssumption DEF Untouched, Types, TypeOK
  <2>3. \A t \in Task : t # n => /\ caseOf'[t] = caseOf[t] /\ taskOf'[t] = taskOf[t]
                                 /\ status'[t] = st[t] /\ sla'[t] = dl[t]
    BY <2>1 DEF Types, TypeOK
  <2>. QED BY <1>1, <2>2, <2>3 DEF LeavesAlone
<1>. QED BY <1>2, <1>3

\* The case moves on from the stage it is at, with its task done.
LEMMA MoveIntact ==
  ASSUME Types, Types', Untouched, NEW c \in Case, c \in created, Intact(c), stage[c] # Done,
         NEW st \in [Task -> {"NONE", "COMPLETED"} \cup Open],
         NEW dl \in [Task -> {"NONE", "ON_TRACK", "OVERDUE", "COMPLETED"}],
         MoveCase(c, stage[c], stage[c] + 1, st, dl), created' = created,
         \A t \in Task : t \notin Existing => ~closed'[t],
         \A t \in Task : caseOf[t] = c =>
           /\ st[t] \notin Open
           /\ closed'[t] => st[t] = "COMPLETED"
           /\ dl[t] # "NONE" => /\ (st[t] = "COMPLETED") <=> closed'[t]
                                /\ closed'[t] <=> dl[t] = "COMPLETED"
  PROVE  Intact(c)'
<1> DEFINE to == stage[c] + 1
           new == IF to \in Timed THEN "ON_TRACK" ELSE "NONE"
<1>1. /\ stage[c] \in Nat /\ to \in Nat /\ to # Draft /\ stage'[c] = to
      /\ trail'[c] = Append(trail[c], [from |-> stage[c], to |-> to])
  BY BoundAssumption DEF MoveCase, Types, TypeOK, Draft, Done
<1>2. trail'[c] = PathTo(to)
  <2>1. trail[c] = PathTo(stage[c])
    BY DEF Intact
  <2>. QED BY <1>1, <2>1 DEF PathTo
<1>3. CASE to = Done
  <2>1. status' = st /\ sla' = dl /\ UNCHANGED <<tasks, caseOf, taskOf>>
    BY <1>3 DEF MoveCase
  <2>2. \A t \in Task : caseOf'[t] = c => status'[t] \notin Open /\ Truthful(t)'
    BY <2>1 DEF Truthful, Open
  <2>. QED BY <1>1, <1>2, <2>2 DEF Intact
<1>4. CASE to # Done
  <2>0. PICK n \in Task : n = tasks + 1
    BY <1>4, BoundAssumption DEF MoveCase, AddTask, Task, Types, TypeOK
  <2>1. /\ n \in Task /\ n \notin Existing
        /\ caseOf' = [caseOf EXCEPT ![n] = c] /\ taskOf' = [taskOf EXCEPT ![n] = to]
        /\ status' = [st EXCEPT ![n] = "ASSIGNED"]
        /\ sla' = [dl EXCEPT ![n] = new] /\ new \in {"ON_TRACK", "NONE"}
    BY <1>4, <2>0, BoundAssumption DEF MoveCase, AddTask, Task, Existing, Types, TypeOK
  <2>. HIDE DEF new
  <2>2. /\ taskOf'[n] = to /\ status'[n] = "ASSIGNED" /\ sla'[n] = new
        /\ ~closed'[n]
    BY <2>1 DEF Types, TypeOK
  <2>3. \A t \in Task : t # n =>
          caseOf'[t] = caseOf[t] /\ status'[t] = st[t] /\ sla'[t] = dl[t]
    BY <2>1 DEF Types, TypeOK
  <2>4. \A t \in Task : t # n /\ caseOf'[t] = c => status'[t] \notin Open /\ Truthful(t)'
    BY <2>3 DEF Truthful, Open
  <2>5. Truthful(n)'
    BY <2>1, <2>2 DEF Truthful
  <2>6. \A t \in Task : caseOf'[t] = c =>
          Truthful(t)' /\ (status'[t] \in Open => t = n /\ taskOf'[t] = stage'[c])
    BY <1>1, <2>2, <2>4, <2>5
  <2>. QED BY <1>1, <1>2, <2>6 DEF Intact
<1>. QED BY <1>3, <1>4

LEMMA SubmitKeeps ==
  ASSUME Types, Types', Untouched, NEW j \in Job, Submit(j), NEW c, c = job[j].case
  PROVE  /\ c \in Case /\ Only(c) /\ created' = created
         /\ Intact(c) /\ StillSo(job[j], c) =>
              /\ Intact(c)' /\ c \in created /\ stage[c] = Draft
              /\ stage' = [stage EXCEPT ![c] = @ + 1]
<1>1. /\ job[j].op = "submit" /\ c \in Case /\ MoveCase(c, Draft, 1, status, sla)
      /\ created' = created /\ closed' = closed
  BY JobFields DEF Submit, Types
<1>2. /\ status \in [Task -> {"NONE", "COMPLETED"} \cup Open] /\ 1 \in 1 .. Done
      /\ sla \in [Task -> {"NONE", "ON_TRACK", "OVERDUE", "COMPLETED"}]
      /\ Draft # Done /\ Draft \notin Stage
  BY BoundAssumption DEF Types, TypeOK, Done, Draft, Stage
<1>3. Only(c)
  BY <1>1, <1>2, MoveOnly
<1>4. ASSUME Intact(c), StillSo(job[j], c)
      PROVE  /\ Intact(c)' /\ c \in created /\ stage[c] = Draft
             /\ stage' = [stage EXCEPT ![c] = @ + 1]
  <2>1. c \in created /\ stage[c] = Draft
    BY <1>1, <1>4 DEF StillSo
  <2>2. \A t \in Task : caseOf[t] = c => status[t] \notin Open /\ Truthful(t)
    BY <1>2, <1>4, <2>1 DEF Intact, Types, TypeOK
  <2>3. MoveCase(c, stage[c], stage[c] + 1, status, sla) /\ stage[c] # Done
    BY <1>1, <1>2, <2>1 DEF Draft
  <2>4. Intact(c)'
    <3>1. \A t \in Task : t \notin Existing => ~closed'[t]
      BY <1>1 DEF Untouched
    <3>2. \A t \in Task : caseOf[t] = c =>
            /\ status[t] \notin Open
            /\ closed'[t] => status[t] = "COMPLETED"
            /\ sla[t] # "NONE" => /\ (status[t] = "COMPLETED") <=> closed'[t]
                                  /\ closed'[t] <=> sla[t] = "COMPLETED"
      BY <1>1, <2>2 DEF Truthful
    <3>. QED BY <1>1, <1>2, <1>4, <2>1, <2>3, <3>1, <3>2, MoveIntact
  <2>. QED BY <2>1, <2>3, <2>4 DEF MoveCase
<1>. QED BY <1>1, <1>3, <1>4

LEMMA CompleteKeeps ==
  ASSUME Types, Types', Untouched, NEW j \in Job, Complete(j),
         NEW t, t = job[j].task, NEW c, c = caseOf[t]
  PROVE  /\ t \in Existing /\ c \in Case /\ Only(c) /\ created' = created
         /\ \A u \in Existing : u # t => sla'[u] = sla[u]
         /\ status'[t] = "COMPLETED"
         /\ Intact(c) /\ StillSo(job[j], c) =>
              /\ Intact(c)' /\ c \in created /\ stage[c] \in Stage
              /\ stage' = [stage EXCEPT ![c] = @ + 1]
<1> DEFINE at == job[j].at
           st == [status EXCEPT ![t] = "COMPLETED"]
           dl == SlaDone(t)
<1>1. /\ job[j].op = "complete" /\ at # Unread /\ MoveCase(c, at, NextStage(at), st, dl)
      /\ created' = created /\ closed' = [closed EXCEPT ![t] = @ \/ sla[t] # "NONE"]
  BY DEF Complete
<1>2. t \in Task /\ t \in Existing /\ c \in Case /\ at \in Draft .. Done
  BY <1>1, JobFields DEF Types, JobsExist, TasksExist
<1>3. NextStage(at) \in 1 .. Done
  BY <1>2, BoundAssumption DEF NextStage, Draft, Done
<1>4. /\ st \in [Task -> {"NONE", "COMPLETED"} \cup Open] /\ st[t] = "COMPLETED"
      /\ dl \in [Task -> {"NONE", "ON_TRACK", "OVERDUE", "COMPLETED"}]
      /\ dl[t] = IF sla[t] # "NONE" /\ ~closed[t] THEN "COMPLETED" ELSE sla[t]
      /\ \A u \in Task : u # t => st[u] = status[u] /\ dl[u] = sla[u]
  BY <1>2 DEF SlaDone, Types, TypeOK
<1>5. closed'[t] = (closed[t] \/ sla[t] # "NONE")
      /\ \A u \in Task : u # t => closed'[u] = closed[u]
  <2>1. closed \in [Task -> BOOLEAN]
    BY DEF Types, TypeOK
  <2>. QED BY <1>1, <1>2, <2>1
<1>. HIDE DEF st, dl
<1>6. Only(c)
  BY <1>1, <1>2, <1>3, <1>4, <1>5, MoveOnly
<1>7. status'[t] = "COMPLETED" /\ \A u \in Existing : u # t => sla'[u] = sla[u]
  <2>1. \A u \in Existing : u \in Task /\ status'[u] = st[u] /\ sla'[u] = dl[u]
    BY <1>1, <1>4, BoundAssumption DEF MoveCase, AddTask, Existing, Types, TypeOK, Task
  <2>. QED BY <1>2, <1>4, <2>1
<1>8. ASSUME Intact(c), StillSo(job[j], c)
      PROVE  /\ Intact(c)' /\ c \in created /\ stage[c] \in Stage
             /\ stage' = [stage EXCEPT ![c] = @ + 1]
  <2>1. status[t] \in Open /\ at = stage[c]
    BY <1>1, <1>8 DEF StillSo
  <2>2. stage[c] = taskOf[t] /\ stage[c] \in Stage
    BY <1>2, <1>8, <2>1 DEF Intact, Types, TypeOK
  <2>3. /\ stage[c] # Done /\ stage[c] # Draft /\ NextStage(stage[c]) = stage[c] + 1
    BY <2>2, BoundAssumption DEF Stage, Done, Draft, NextStage
  <2>4. c \in created
    BY <1>8, <2>3 DEF Intact
  <2>5. MoveCase(c, stage[c], stage[c] + 1, st, dl)
    BY <1>1, <2>1, <2>3
  <2>6. ~closed[t] /\ sla[t] # "COMPLETED"
    BY <1>2, <1>8, <2>1 DEF Intact, Truthful, Open
  <2>7. ASSUME NEW u \in Task, caseOf[u] = c
        PROVE  /\ st[u] \notin Open
               /\ closed'[u] => st[u] = "COMPLETED"
               /\ dl[u] # "NONE" => /\ (st[u] = "COMPLETED") <=> closed'[u]
                                    /\ closed'[u] <=> dl[u] = "COMPLETED"
    <3>1. CASE u = t
      BY <1>4, <1>5, <2>6, <3>1 DEF Open
    <3>2. CASE u # t
      <4>1. status[u] \notin Open /\ Truthful(u)
        BY <1>2, <1>8, <2>1, <2>7, <3>2 DEF Intact
      <4>. QED BY <1>4, <1>5, <3>2, <4>1 DEF Truthful
    <3>. QED BY <3>1, <3>2
  <2>8. \A u \in Task : u \notin Existing => ~closed'[u]
    BY <1>2, <1>5 DEF Untouched
  <2>9. Intact(c)'
    BY <1>1, <1>2, <1>4, <1>8, <2>3, <2>4, <2>5, <2>7, <2>8, MoveIntact
  <2>10. stage' = [stage EXCEPT ![c] = @ + 1]
    BY <2>5 DEF MoveCase
  <2>. QED BY <2>2, <2>4, <2>9, <2>10
<1>. QED BY <1>1, <1>2, <1>6, <1>7, <1>8

\* A status that is written to one task, while the case stays where it is.
LEMMA StatusKeeps ==
  ASSUME Types, NEW t \in Existing, NEW s \in Open, status' = [status EXCEPT ![t] = s],
         sla' = sla \/ sla' = [sla EXCEPT ![t] = "OVERDUE"],
         UNCHANGED <<created, stage, trail, tasks, caseOf, taskOf, closed>>,
         NEW c, c = caseOf[t]
  PROVE  /\ c \in Case /\ Only(c)
         /\ \A u \in Existing : sla'[u] = sla[u] \/ sla'[u] = "OVERDUE"
         /\ /\ Intact(c) /\ status[t] \in Open
            /\ s = "OVERDUE" => sla'[t] \in {"OVERDUE", "NONE"}
            => Intact(c)'
<1>1. t \in Task /\ c \in Case /\ Existing \subseteq Task
  BY BoundAssumption DEF Existing, Task, Types, TypeOK, TasksExist
<1>2. /\ status'[t] = s /\ (sla'[t] = sla[t] \/ sla'[t] = "OVERDUE")
      /\ \A u \in Task : u # t => status'[u] = status[u] /\ sla'[u] = sla[u]
  BY <1>1 DEF Types, TypeOK
<1>3. Only(c)
  BY <1>1, <1>2 DEF Only, LeavesAlone
<1>4. ASSUME Intact(c), status[t] \in Open, s = "OVERDUE" => sla'[t] \in {"OVERDUE", "NONE"}
      PROVE  Intact(c)'
  <2>1. /\ s # "COMPLETED" /\ ~closed[t]
        /\ sla[t] # "COMPLETED" /\ taskOf[t] = stage[c]
    BY <1>1, <1>4 DEF Intact, Truthful, Open
  <2>2. Truthful(t)'
    BY <1>2, <1>4, <2>1 DEF Truthful
  <2>3. \A u \in Task : u # t /\ Truthful(u) => Truthful(u)'
    BY <1>2 DEF Truthful
  <2>4. \A u \in Task : status'[u] \in Open <=> status[u] \in Open
    BY <1>2, <1>4
  <2>. QED BY <1>4, <2>1, <2>2, <2>3, <2>4 DEF Intact
<1>. QED BY <1>1, <1>2, <1>3, <1>4

\* The steps that write to cases, and those that leave all of them alone.
Writing(j) ==
  \/ Submit(j) \/ Complete(j) \/ Start(j) \/ Assign(j) \/ Return(j)
  \/ \E t \in Task : Escalate(j, t)

LEMMA OthersLeaveAll ==
  ASSUME [Next]_vars, \A j \in Job : ~Writing(j)
  PROVE  /\ \A c \in Case : LeavesAlone(c)
         /\ UNCHANGED <<stage, trail, tasks, caseOf, taskOf, status, sla, closed>>
         /\ created' = created \/ \E c \in Case : created' = created \cup {c}
<1>1. /\ UNCHANGED <<stage, trail, tasks, caseOf, taskOf, status, sla, closed>>
      /\ created' = created \/ \E c \in Case : created' = created \cup {c}
  BY DEF Next, Proceed, Writing, CreateCase, BeginSubmit, BeginStart, BeginComplete, BeginAssign,
     BeginReturn, BeginSweep, Begin, ReadCase, MissDeadline, RequestFails, EscalationFails,
     Crash, vars, caseVars, taskVars, slaVars
<1>. QED BY <1>1 DEF LeavesAlone

\* A status that is written by the job of a case, or by a sweep.
LEMMA WriteKeeps ==
  ASSUME Types, NEW j \in Job, NEW u \in Task,
         Start(j) \/ Assign(j) \/ Return(j) \/ Escalate(j, u)
  PROVE  \E t \in Existing, c \in Case :
           /\ c = caseOf[t] /\ Only(c) /\ created' = created /\ stage' = stage
           /\ tasks' = tasks /\ taskOf' = taskOf /\ caseOf' = caseOf
           /\ \A v \in Existing : sla'[v] = sla[v] \/ sla'[v] = "OVERDUE"
           /\ Intact(c) /\ StillSo(job[j], c) /\ Recalled(job[j], c) => Intact(c)'
<1>1. CASE Start(j) \/ Assign(j) \/ Return(j)
  <2>1. PICK t \in Existing : t = job[j].task
    BY <1>1 DEF Start, Assign, Return, Types, JobsExist
  <2>2. PICK c : c = caseOf[t]
    OBVIOUS
  <2>3. PICK s \in Open :
          /\ status' = [status EXCEPT ![t] = s]
          /\ s = "OVERDUE" => job[j].op = "assign" /\ job[j].was = "OVERDUE"
    BY <1>1, <2>1, JobFields DEF Start, Assign, Return, Types, Open
  <2>4. UNCHANGED <<created, stage, trail, tasks, caseOf, taskOf, sla, closed>>
    BY <1>1 DEF Start, Assign, Return, caseVars, slaVars
  <2>5. StillSo(job[j], c) => status[t] \in Open
    BY <1>1, <2>1, <2>2 DEF Start, Assign, Return, StillSo
  <2>6. Recalled(job[j], c) => (s = "OVERDUE" => sla'[t] \in {"OVERDUE", "NONE"})
    BY <2>1, <2>2, <2>3, <2>4 DEF Recalled
  <2>. QED BY <2>2, <2>3, <2>4, <2>5, <2>6, StatusKeeps
<1>2. CASE Escalate(j, u)
  <2>1. /\ job[j].op = "sweep" /\ u \in job[j].left
        /\ sla' = [sla EXCEPT ![u] = "OVERDUE"] /\ status' = [status EXCEPT ![u] = "OVERDUE"]
        /\ UNCHANGED <<created, stage, trail, tasks, caseOf, taskOf, closed>>
    BY <1>2 DEF Escalate, caseVars
  <2>2. u \in Existing /\ sla'[u] = "OVERDUE" /\ "OVERDUE" \in Open
    BY <2>1 DEF Types, TypeOK, JobsExist, Open
  <2>3. PICK c : c = caseOf[u]
    OBVIOUS
  <2>4. StillSo(job[j], c) => status[u] \in Open
    BY <2>1, <2>3 DEF StillSo
  <2>. QED BY <2>1, <2>2, <2>3, <2>4, StatusKeeps
<1>. QED BY <1>1, <1>2

LEMMA UntouchedStep == Types /\ Types' /\ Untouched /\ [Next]_vars => Untouched'
<1> SUFFICES ASSUME Types, Types', Untouched, [Next]_vars PROVE Untouched'
  OBVIOUS
<1>0. tasks \in Nat
  BY DEF Types, TypeOK
<1>1. CASE \A j \in Job : ~Writing(j)
  BY <1>1, OthersLeaveAll DEF Untouched, Existing
<1>2. ASSUME NEW c, NEW from, NEW to, NEW st, NEW dl, MoveCase(c, from, to, st, dl),
             DOMAIN dl = Task,
             \A t \in Task : t \notin Existing => dl[t] = sla[t] /\ closed'[t] = closed[t]
      PROVE  Untouched'
  <2>1. CASE to = Done
    BY <1>2, <2>1 DEF MoveCase, Untouched, Existing
  <2>2. CASE to # Done
    <3>1. /\ tasks' = tasks + 1 /\ caseOf' = [caseOf EXCEPT ![tasks + 1] = c]
          /\ \A t \in Task : t # tasks + 1 => sla'[t] = dl[t]
      BY <1>0, <1>2, <2>2 DEF MoveCase, AddTask
    <3>2. \A t \in Task : t \notin Existing' =>
            t \notin Existing /\ caseOf'[t] = caseOf[t] /\ sla'[t] = dl[t]
      BY <1>0, <3>1 DEF Existing, Types, TypeOK
    <3>. QED BY <1>2, <3>2 DEF Untouched
  <2>. QED BY <2>1, <2>2
<1>3. ASSUME NEW j \in Job, Submit(j) PROVE Untouched'
  <2>1. DOMAIN sla = Task
    BY DEF Types, TypeOK
  <2>. QED BY <1>2, <1>3, <2>1 DEF Submit
<1>4. ASSUME NEW j \in Job, Complete(j) PROVE Untouched'
  <2>1. job[j].task \in Existing
    BY <1>4 DEF Complete, Types, JobsExist
  <2>2. \A t \in Task : t \notin Existing =>
          SlaDone(job[j].task)[t] = sla[t] /\ closed'[t] = closed[t]
    BY <1>4, <2>1 DEF Complete, SlaDone, Types, TypeOK
  <2>3. DOMAIN SlaDone(job[j].task) = Task
    BY DEF SlaDone, Types, TypeOK
  <2>. QED BY <1>2, <1>4, <2>2, <2>3 DEF Complete
<1>5. ASSUME NEW j \in Job, NEW t \in Task, Escalate(j, t) PROVE Untouched'
  <2>1. t \in Existing
    BY <1>5 DEF Escalate, Types, JobsExist
  <2>. QED BY <1>5, <2>1 DEF Escalate, caseVars, Untouched, Existing, Types, TypeOK
<1>6. ASSUME NEW j \in Job, Start(j) \/ Assign(j) \/ Return(j) PROVE Untouched'
  BY <1>6 DEF Start, Assign, Return, caseVars, slaVars, Untouched, Existing
<1>. QED BY <1>1, <1>3, <1>4, <1>5, <1>6 DEF Writing

\* What a step does to the deadline of a task an assignment is about.
LEMMA SlaSteps ==
  ASSUME Types, Types', Untouched, [Next]_vars, NEW t \in Existing
  PROVE  /\ t \in Existing' /\ caseOf'[t] = caseOf[t]
         /\ sla'[t] \in {sla[t], "OVERDUE"} \/ status'[t] = "COMPLETED"
<1>0. tasks \in Nat /\ t \in Task
  BY BoundAssumption DEF Types, TypeOK, Existing, Task
<1>1. CASE \A j \in Job : ~Writing(j)
  BY <1>1, OthersLeaveAll DEF Existing
<1>2. ASSUME NEW c, NEW from, NEW to, NEW st, NEW dl, MoveCase(c, from, to, st, dl)
      PROVE  t \in Existing' /\ caseOf'[t] = caseOf[t] /\ sla'[t] = dl[t]
  BY <1>0, <1>2 DEF MoveCase, AddTask, Existing, Types, TypeOK
<1>3. ASSUME NEW j \in Job, Submit(j)
      PROVE  t \in Existing' /\ caseOf'[t] = caseOf[t] /\ sla'[t] = sla[t]
  BY <1>2, <1>3 DEF Submit
<1>4. ASSUME NEW j \in Job, Complete(j)
      PROVE  /\ t \in Existing' /\ caseOf'[t] = caseOf[t]
             /\ sla'[t] = sla[t] \/ status'[t] = "COMPLETED"
  BY <1>2, <1>4, CompleteKeeps DEF Complete
<1>5. ASSUME NEW j \in Job, NEW u \in Task, Start(j) \/ Assign(j) \/ Return(j) \/ Escalate(j, u)
      PROVE  /\ t \in Existing' /\ caseOf'[t] = caseOf[t]
             /\ sla'[t] \in {sla[t], "OVERDUE"}
  BY <1>5, WriteKeeps DEF Existing
<1>. QED BY <1>0, <1>1, <1>3, <1>4, <1>5 DEF Writing

\* What an assignment is to write back stays what the deadline knows of.
LEMMA RecalledStep ==
  ASSUME Types, Types', Untouched, [Next]_vars, NEW c \in Case, NEW k \in Job,
         Recalled(job[k], c), Intact(c), StillSo(job[k], c)'
  PROVE  Recalled(job[k], c)'
<1> SUFFICES ASSUME job'[k].op = "assign", caseOf'[job'[k].task] = c, job'[k].was = "OVERDUE"
             PROVE  sla'[job'[k].task] \in {"OVERDUE", "NONE"}
  BY DEF Recalled
<1>1. PICK t : t = job'[k].task
  OBVIOUS
<1>2. status'[t] \in Open
  BY <1>1 DEF StillSo
<1>3. CASE job'[k] = job[k]
  <2>1. t \in Existing
    BY <1>1, <1>3 DEF Types, JobsExist
  <2>2. caseOf[t] = c /\ (sla'[t] \in {sla[t], "OVERDUE"})
    BY <1>1, <1>2, <2>1, SlaSteps DEF Open
  <2>3. sla[t] \in {"OVERDUE", "NONE"}
    BY <1>1, <1>3, <2>2 DEF Recalled
  <2>. QED BY <1>1, <2>2, <2>3
<1>4. ASSUME NEW what \in Jobs, job'[k] = what,
             what.op = "assign" => what.was = status[what.task],
             UNCHANGED <<caseVars, taskVars, slaVars>>
      PROVE  sla'[t] \in {"OVERDUE", "NONE"}
  <2>1. status[t] = "OVERDUE" /\ caseOf[t] = c /\ sla'[t] = sla[t]
    BY <1>1, <1>4 DEF taskVars, slaVars
  <2>2. t \in Task
    <3>1. what.op = "assign" /\ what.task = t
      BY <1>1, <1>4
    <3>. QED BY <1>4, <3>1 DEF Jobs, Idle
  <2>. QED BY <2>1, <2>2 DEF Intact, Truthful
<1>5. JobStep(k)
  BY JobSteps
<1>6. job'[k] # Idle /\ \A left : job'[k] # [op |-> "sweep", left |-> left]
  BY DEF Idle
<1>7. job'[k] # [op |-> "complete", task |-> job[k].task, at |-> stage[caseOf[job[k].task]]]
  OBVIOUS
<1>8. \/ job'[k] = job[k]
      \/ \E what \in Jobs :
           /\ job'[k] = what
           /\ what.op = "assign" => what.was = status[what.task]
           /\ UNCHANGED <<caseVars, taskVars, slaVars>>
  BY <1>5, <1>6, <1>7 DEF JobStep
<1>. QED BY <1>1, <1>3, <1>4, <1>8

(* However many jobs overlap: as long as no job of a case is overtaken, its *)
(* state, its log, its open task and its deadlines agree.                   *)
THEOREM FollowedStep ==
  ASSUME Types, Types', Untouched, Followed, [Next /\ Watch]_<<vars, crossed>>
  PROVE  Followed'
<1>1. CASE UNCHANGED <<vars, crossed>>
  <2>1. UNCHANGED <<created, stage, trail, tasks, caseOf, taskOf, status, sla, closed, job,
                    crossed>>
    BY <1>1 DEF vars, caseVars, taskVars, slaVars
  <2>. QED BY <2>1 DEF Followed, Stale, StillSo, Intact, Truthful, Recalled
<1>2. CASE Next /\ Watch
  <2>1. Stale' \subseteq crossed' /\ crossed \subseteq crossed'
    BY <1>2 DEF Watch
  <2>2. ASSUME NEW c \in Case, c \notin crossed'
        PROVE  Intact(c)' /\ \A j \in Job : Recalled(job[j], c)'
    <3>1. /\ Intact(c)
          /\ \A j \in Job : Recalled(job[j], c) /\ StillSo(job[j], c) /\ StillSo(job[j], c)'
      BY <2>1, <2>2 DEF Followed, Stale
    <3>2. \A j \in Job : Recalled(job[j], c)'
      BY <1>2, <3>1, RecalledStep
    <3>3. CASE LeavesAlone(c)
      BY <3>1, <3>2, <3>3, AloneIntact
    <3>4. ASSUME NEW j \in Job, Submit(j) PROVE LeavesAlone(c) \/ Intact(c)'
      BY <3>1, <3>4, SubmitKeeps DEF Only
    <3>5. ASSUME NEW j \in Job, Complete(j) PROVE LeavesAlone(c) \/ Intact(c)'
      BY <3>1, <3>5, CompleteKeeps DEF Only
    <3>6. ASSUME NEW j \in Job, NEW t \in Task,
                 Start(j) \/ Assign(j) \/ Return(j) \/ Escalate(j, t)
          PROVE  LeavesAlone(c) \/ Intact(c)'
      BY <3>1, <3>6, WriteKeeps DEF Only
    <3>7. CASE \A j \in Job : ~Writing(j)
      BY <1>2, <3>3, <3>7, OthersLeaveAll
    <3>8. ASSUME NEW j \in Job, Writing(j) PROVE LeavesAlone(c) \/ Intact(c)'
      <4>1. CASE Start(j) \/ Assign(j) \/ Return(j)
        <5>1. job[j].task \in Task
          BY <4>1, JobFields DEF Start, Assign, Return, Types
        <5>. QED BY <3>6, <4>1, <5>1
      <4>. QED BY <3>4, <3>5, <3>6, <3>8, <4>1 DEF Writing
    <3>. QED BY <3>2, <3>3, <3>7, <3>8
  <2>. QED BY <2>1, <2>2 DEF Followed
<1>. QED BY <1>1, <1>2

LEMMA FollowedInit == Init /\ crossed = {} => Types /\ Manned /\ Untouched /\ Followed
<1> SUFFICES ASSUME Init, crossed = {} PROVE Types /\ Manned /\ Untouched /\ Followed
  OBVIOUS
<1>1. Types /\ Manned /\ Untouched
  BY BoundAssumption
  DEF Init, Types, TypeOK, TasksExist, JobsExist, Jobs, Idle, Existing, Manned, Untouched, Stage,
      Task, Draft, Done
<1>2. Stale = {} /\ \A c \in Case, j \in Job : Recalled(job[j], c)
  BY DEF Init, Stale, StillSo, Recalled, Idle
<1>3. \A c \in Case : Intact(c)
  BY DEF Init, Intact, Truthful, PathTo, Open, Draft
<1>. QED BY <1>1, <1>2, <1>3 DEF Followed

LEMMA FollowedAlways == WatchedSpec => [](Types /\ Manned /\ Untouched /\ Followed)
<1>1. [Next /\ Watch]_<<vars, crossed>> => [Next]_vars
  OBVIOUS
<1>2. Types /\ Types' /\ Untouched /\ Followed /\ [Next /\ Watch]_<<vars, crossed>> => Followed'
  BY FollowedStep
<1>. QED
  BY <1>1, <1>2, FollowedInit, TypesStep, MannedStep, UntouchedStep, PTL
  DEF WatchedSpec, WatchedInit

(* The log of a case is a path without a gap until a job of the case is     *)
(* overtaken: TrailIsPath of the run siap, for any number of cases, stages, *)
(* overlapping jobs, failures and crashes.                                  *)
THEOREM LogIsPath == WatchedSpec => []TrailIsPath
<1>1. Types /\ Followed => TrailIsPath
  <2> SUFFICES ASSUME Types, Followed, NEW c \in Case \ crossed
               PROVE  trail[c] = [i \in 1 .. Len(trail[c]) |-> [from |-> i - 1, to |-> i]]
    BY DEF TrailIsPath
  <2>1. stage[c] \in Nat /\ trail[c] = PathTo(stage[c])
    BY BoundAssumption DEF Followed, Intact, Types, TypeOK, Draft, Done
  <2>2. Len(trail[c]) = stage[c]
    BY <2>1 DEF PathTo
  <2>. QED BY <2>1, <2>2 DEF PathTo
<1>. QED BY <1>1, FollowedAlways, PTL

(* Until a job of its case is overtaken the deadline of every task tells    *)
(* the truth about it, whatever requests and sweeps write to the task at    *)
(* the same time: DeadlineTellsTruth of the run siap, for any number of     *)
(* overlapping jobs.                                                        *)
THEOREM DeadlinesAreTrue == WatchedSpec => []DeadlineTellsTruth
<1>1. Types /\ Untouched /\ Followed => DeadlineTellsTruth
  <2> SUFFICES ASSUME Types, Untouched, Followed, NEW t \in Task, caseOf[t] \notin crossed,
                      sla[t] # "NONE"
               PROVE  /\ (status[t] = "COMPLETED") <=> closed[t]
                      /\ closed[t] <=> sla[t] = "COMPLETED"
                      /\ status[t] = "OVERDUE" => sla[t] = "OVERDUE"
    BY DEF DeadlineTellsTruth
  <2>1. caseOf[t] \in Case
    BY DEF Untouched, Types, TasksExist
  <2>. QED BY <2>1 DEF Followed, Intact, Truthful
<1>. QED BY <1>1, FollowedAlways, PTL

-----------------------------------------------------------------------------
(* How a case comes to be crossed.                                          *)

\* A step takes up one more job at most.
LEMMA InFlightStep ==
  ASSUME Types, IsFiniteSet(InFlight), [Next]_vars
  PROVE  IsFiniteSet(InFlight)'
<1>1. ASSUME NEW j, \A k \in Job : k # j /\ job[k] = Idle => job'[k] = Idle
      PROVE  IsFiniteSet(InFlight)'
  <2>1. InFlight' \subseteq InFlight \cup {j}
    BY <1>1 DEF InFlight
  <2>. QED BY <2>1, FS_AddElement, FS_Subset
<1>2. ASSUME NEW j \in Job, NEW what, job' = [job EXCEPT ![j] = what]
      PROVE  IsFiniteSet(InFlight)'
  BY <1>1, <1>2 DEF Types, TypeOK
<1>3. CASE job' = job \/ job' = [j \in Job |-> Idle]
  BY <1>1, <1>3
<1>4. ASSUME NEW j \in Job, NEW what, Begin(j, what) PROVE IsFiniteSet(InFlight)'
  BY <1>2, <1>4 DEF Begin
<1>5. ASSUME NEW j \in Job,
             Submit(j) \/ Start(j) \/ Complete(j) \/ Assign(j) \/ Return(j) \/ RequestFails(j)
      PROVE  IsFiniteSet(InFlight)'
  BY <1>2, <1>5 DEF Submit, Start, Complete, Assign, Return, RequestFails, End
<1>6. ASSUME NEW j \in Job, NEW t \in Task, Escalate(j, t) \/ EscalationFails(j, t)
      PROVE  IsFiniteSet(InFlight)'
  BY <1>2, <1>6 DEF Escalate, EscalationFails, Sweeped
<1>7. ASSUME NEW j \in Job, ReadCase(j) PROVE IsFiniteSet(InFlight)'
  BY <1>2, <1>7 DEF ReadCase
<1>8. ASSUME NEW j \in Job, Proceed(j) PROVE IsFiniteSet(InFlight)'
  BY <1>5, <1>6, <1>7, <1>8 DEF Proceed
<1>9. ASSUME NEW j \in Request,
             \/ \E c \in Case : BeginSubmit(j, c)
             \/ \E t \in Task : \/ BeginStart(j, t) \/ BeginComplete(j, t)
                               \/ BeginAssign(j, t) \/ BeginReturn(j, t)
      PROVE  IsFiniteSet(InFlight)'
  BY <1>4, <1>9 DEF Job, BeginSubmit, BeginStart, BeginComplete, BeginAssign, BeginReturn
<1>10. ASSUME NEW j \in Sweep, BeginSweep(j) PROVE IsFiniteSet(InFlight)'
  BY <1>4, <1>10 DEF Job, BeginSweep
<1>11. ASSUME \/ \E c \in Case : CreateCase(c)
              \/ \E t \in Task : MissDeadline(t)
              \/ Crash
              \/ UNCHANGED vars
       PROVE  IsFiniteSet(InFlight)'
  BY <1>3, <1>11 DEF CreateCase, MissDeadline, Crash, vars
<1>12. ASSUME NEW j \in Job, RequestFails(j) \/ \E t \in Task : EscalationFails(j, t)
       PROVE  IsFiniteSet(InFlight)'
  BY <1>5, <1>6, <1>12
<1>. QED BY <1>8, <1>9, <1>10, <1>11, <1>12 DEF Next, Job

LEMMA AtMostOne ==
  ASSUME NEW S, IsFiniteSet(S), Cardinality(S) <= 1, NEW x \in S, NEW y \in S
  PROVE  x = y
<1>1. Cardinality(S) = 0 \/ Cardinality(S) = 1
  BY FS_CardinalityType
<1>. QED BY <1>1, FS_EmptySet, FS_Singleton

\* What a job writes does not upset what it has still to write.
LEMMA OwnStep ==
  ASSUME Types, NEW j \in Job, Writing(j), NEW c \in Case, StillSo(job[j], c)
  PROVE  /\ StillSo(job[j], c)'
         /\ \A k \in Job : k # j => job'[k] = job[k]
<1>1. CASE Submit(j) \/ Complete(j) \/ Start(j) \/ Assign(j) \/ Return(j)
  <2>1. job' = [job EXCEPT ![j] = Idle]
    BY <1>1 DEF Submit, Complete, Start, Assign, Return, End
  <2>2. job'[j] = Idle /\ \A k \in Job : k # j => job'[k] = job[k]
    BY <2>1 DEF Types, TypeOK
  <2>. QED BY <2>2 DEF StillSo, Idle
<1>2. ASSUME NEW t \in Task, Escalate(j, t)
      PROVE  /\ StillSo(job[j], c)'
             /\ \A k \in Job : k # j => job'[k] = job[k]
  <2> DEFINE rest == job[j].left \ {t}
  <2>1. rest \subseteq Task /\ t \notin rest
    BY <1>2, JobFields DEF Escalate, Types
  <2>2. \A u \in rest : caseOf'[u] = c => status'[u] \in Open
    BY <1>2, <2>1 DEF Escalate, taskVars, StillSo, Types, TypeOK
  <2>3. job' = [job EXCEPT ![j] = IF rest = {} THEN Idle ELSE [op |-> "sweep", left |-> rest]]
    BY <1>2 DEF Escalate, Sweeped
  <2>. HIDE DEF rest
  <2>4. /\ job'[j] = Idle \/ job'[j] = [op |-> "sweep", left |-> rest]
        /\ \A k \in Job : k # j => job'[k] = job[k]
    BY <2>3 DEF Types, TypeOK
  <2>5. CASE job'[j] = Idle
    BY <2>4, <2>5 DEF StillSo, Idle
  <2>6. CASE job'[j] = [op |-> "sweep", left |-> rest]
    BY <2>2, <2>4, <2>6 DEF StillSo
  <2>. QED BY <2>4, <2>5, <2>6
<1>. QED BY <1>1, <1>2 DEF Writing

(* A job alone is never overtaken: OneJobCrossesNone of the run siap. What  *)
(* is excused by the history is due to jobs that overlap, for any number of *)
(* cases, stages, sweeps, failures and crashes.                             *)
THEOREM AloneCrossesNone == WatchedSpec => OneJobCrossesNone
<1>1. ASSUME Types, Followed, IsFiniteSet(InFlight), Cardinality(InFlight) <= 1,
             [Next]_vars, Watch
      PROVE  crossed' = crossed
  <2> SUFFICES ASSUME NEW c \in Case, c \notin crossed, NEW k \in Job
               PROVE  StillSo(job[k], c)'
    BY <1>1 DEF Watch, Stale
  <2>1. \A j \in Job : StillSo(job[j], c)
    BY <1>1 DEF Followed, Stale
  <2>2. CASE \A j \in Job : ~Writing(j)
    BY <1>1, <2>1, <2>2, OthersLeaveAll, JobSteps, AloneStaysSo
  <2>3. ASSUME NEW j \in Job, Writing(j) PROVE StillSo(job[k], c)'
    <3>1. CASE k = j
      BY <1>1, <2>1, <2>3, <3>1, OwnStep
    <3>2. CASE k # j
      <4>1. job[j] # Idle
        BY <2>3 DEF Writing, Submit, Complete, Start, Assign, Return, Escalate, Idle
      <4>2. job[k] = Idle
        BY <1>1, <3>2, <4>1, AtMostOne DEF InFlight
      <4>3. job'[k] = Idle
        BY <1>1, <2>1, <2>3, <3>2, <4>2, OwnStep
      <4>. QED BY <4>3 DEF StillSo, Idle
    <3>. QED BY <3>1, <3>2
  <2>. QED BY <2>2, <2>3
<1>2. /\ Types /\ Followed /\ IsFiniteSet(InFlight)
      /\ [Next /\ Watch]_<<vars, crossed>>
      => [Cardinality(InFlight) <= 1 => crossed' = crossed]_<<vars, crossed>>
  BY <1>1
<1>3. Init => IsFiniteSet(InFlight)
  BY FS_EmptySet DEF Init, InFlight
<1>4. Types /\ IsFiniteSet(InFlight) /\ [Next /\ Watch]_<<vars, crossed>>
      => IsFiniteSet(InFlight)'
  BY InFlightStep
<1>. QED
  BY <1>2, <1>3, <1>4, FollowedAlways, PTL DEF WatchedSpec, WatchedInit, OneJobCrossesNone

-----------------------------------------------------------------------------
(* The refinement of StageFlow.                                             *)

Shown == [c \in Case |-> IF c \in crossed THEN Done + 1 ELSE stage[c]]
Waiting == [c \in Case |-> IF c \in crossed THEN {} ELSE {taskOf[t] : t \in OpenTasks(c)}]

\* What waits in a case is the work of its stage.
WorkOf(c) == IF c \in crossed \/ stage[c] \notin Stage THEN {} ELSE {stage[c]}

WaitingOfStage == Waiting = [c \in Case |-> WorkOf(c)]

LEMMA WaitingIs == Types /\ Manned /\ Followed => WaitingOfStage
<1> SUFFICES ASSUME Types, Manned, Followed, NEW c \in Case, c \notin crossed
             PROVE  {taskOf[t] : t \in OpenTasks(c)}
                      = IF stage[c] \in Stage THEN {stage[c]} ELSE {}
  BY DEF Waiting, WaitingOfStage, WorkOf
<1>1. \A t \in OpenTasks(c) : taskOf[t] = stage[c] /\ taskOf[t] \in Stage
  BY DEF Followed, Intact, OpenTasks, Types, TypeOK
<1>2. stage[c] \in Stage => \E t \in OpenTasks(c) : taskOf[t] = stage[c]
  <2>1. Existing \subseteq Task
    BY BoundAssumption DEF Existing, Task, Types, TypeOK
  <2>. QED BY <2>1 DEF Manned, OpenTasks
<1>. QED BY <1>1, <1>2

\* A case that a step leaves alone does not leave the flow with it.
LEMMA OthersStay ==
  ASSUME Types, Followed, [Next]_vars, Watch, NEW c \in Case, LeavesAlone(c), c \notin crossed
  PROVE  c \notin crossed'
<1>1. \A j \in Job : StillSo(job[j], c)
  BY DEF Followed, Stale
<1>2. \A j \in Job : StillSo(job[j], c)'
  BY <1>1, JobSteps, AloneStaysSo
<1>. QED BY <1>2 DEF Watch, Stale

\* The steps of the flow, in terms of what it shows of the workflow.
LEMMA FlowOf ==
  ASSUME Types, Types', Followed, WaitingOfStage, WaitingOfStage', [Next]_vars, Watch,
         NEW c \in Case, Only(c), created' = created,
         c \notin crossed' =>
           \/ stage'[c] = stage[c]
           \/ c \in created /\ stage[c] # Done /\ stage'[c] = stage[c] + 1
  PROVE  [Flow!Next]_(Flow!vars)
<1>1. \A d \in Case : d # c => (d \in crossed' <=> d \in crossed) /\ stage'[d] = stage[d]
  BY OthersStay DEF Only, LeavesAlone, Watch
<1>2. /\ Waiting = [d \in Case |-> WorkOf(d)] /\ Waiting' = [d \in Case |-> WorkOf(d)']
      /\ \A d \in Case : d # c => WorkOf(d)' = WorkOf(d) /\ Shown'[d] = Shown[d]
  BY <1>1 DEF WaitingOfStage, WorkOf, Shown
<1>3. Flow!vars = <<created, Shown, Waiting>> /\ Flow!vars' = <<created', Shown', Waiting'>>
  BY DEF Flow!vars, Shown, Waiting
<1>4. Flow!Left = Done + 1 /\ Flow!Done = Done
  BY BoundAssumption DEF Flow!Left, Flow!Done, Done
<1>5. CASE Shown'[c] = Shown[c] /\ WorkOf(c)' = WorkOf(c)
  <2>1. Shown' = Shown /\ Waiting' = Waiting
    BY <1>2, <1>5 DEF Shown
  <2>. QED BY <1>3, <2>1
<1>6. CASE c \in crossed
  <2>1. c \in crossed'
    BY <1>6 DEF Watch
  <2>. QED BY <1>5, <1>6, <2>1 DEF Shown, WorkOf
<1>7. CASE c \notin crossed /\ c \in crossed'
  <2>1. /\ Shown'[c] = Done + 1 /\ WorkOf(c)' = {} /\ Shown[c] = stage[c]
        /\ stage[c] # Done + 1
    BY <1>7, BoundAssumption DEF Shown, WorkOf, Types, TypeOK, Draft, Done
  <2>2. /\ Shown' = [Shown EXCEPT ![c] = Done + 1]
        /\ Waiting' = [Waiting EXCEPT ![c] = {}]
    BY <1>2, <2>1 DEF Shown
  <2>3. Flow!Leave(c)
    BY <1>4, <2>1, <2>2 DEF Flow!Leave, Shown, Waiting
  <2>. QED BY <2>3 DEF Flow!Next
<1>8. CASE c \notin crossed'
  <2>1. c \notin crossed
    BY <1>8 DEF Watch
  <2>2. Shown[c] = stage[c] /\ Shown'[c] = stage'[c]
    BY <1>8, <2>1 DEF Shown
  <2>3. CASE stage'[c] = stage[c]
    BY <1>5, <1>8, <2>1, <2>2, <2>3 DEF WorkOf
  <2>4. CASE c \in created /\ stage[c] # Done /\ stage'[c] = stage[c] + 1
    <3>1. /\ stage'[c] \in 1 .. Done /\ stage[c] \notin {Done, Done + 1}
          /\ stage'[c] \in Stage <=> stage'[c] # Done
      BY <2>4, BoundAssumption DEF Types, TypeOK, Draft, Done, Stage
    <3>2. Shown' = [Shown EXCEPT ![c] = @ + 1]
      BY <1>2, <2>2, <2>4 DEF Shown
    <3>3. WorkOf(c)' = IF Shown'[c] = Done THEN {} ELSE {Shown'[c]}
      BY <1>8, <2>2, <3>1 DEF WorkOf
    <3>4. Waiting' = [Waiting EXCEPT ![c] = IF Shown'[c] = Done THEN {} ELSE {Shown'[c]}]
      BY <1>2, <3>3
    <3>5. Flow!Move(c)
      BY <1>4, <2>2, <2>4, <3>1, <3>2, <3>4 DEF Flow!Move, Shown, Waiting
    <3>. QED BY <3>5 DEF Flow!Next
  <2>. QED BY <1>8, <2>3, <2>4
<1>. QED BY <1>6, <1>7, <1>8

(* Every step of the workflow is a step of the flow or none.                *)
LEMMA FlowStep ==
  ASSUME Types, Types', Untouched, Followed, WaitingOfStage, WaitingOfStage', [Next]_vars, Watch
  PROVE  [Flow!Next]_(Flow!vars)
<1>1. ASSUME \A j \in Job : ~Writing(j) PROVE [Flow!Next]_(Flow!vars)
  <2>1. /\ \A c \in Case : LeavesAlone(c)
        /\ UNCHANGED <<stage, caseOf, taskOf, status>>
        /\ created' = created \/ \E c \in Case : created' = created \cup {c}
    BY <1>1, OthersLeaveAll
  <2>2. \A c \in Case : c \in crossed' <=> c \in crossed
    BY <2>1, OthersStay DEF Watch
  <2>3. Shown' = Shown /\ Waiting' = Waiting
    BY <2>1, <2>2 DEF Shown, Waiting, OpenTasks
  <2>4. \A c \in Case : created' = created \cup {c} => Flow!Open(c)
    BY <2>3 DEF Flow!Open, Shown, Waiting
  <2>. QED BY <2>1, <2>3, <2>4 DEF Flow!Next, Flow!vars, Shown, Waiting
<1>2. ASSUME NEW c \in Case, c \notin crossed', NEW j \in Job
      PROVE  Intact(c) /\ StillSo(job[j], c)
  BY <1>2 DEF Followed, Stale, Watch
<1>3. ASSUME NEW j \in Job, Submit(j) PROVE [Flow!Next]_(Flow!vars)
  <2>1. PICK c \in Case : c = job[j].case
    BY <1>3, JobFields DEF Submit, Types
  <2>2. Only(c) /\ created' = created
    BY <1>3, <2>1, SubmitKeeps
  <2>3. c \notin crossed' => c \in created /\ stage[c] # Done /\ stage'[c] = stage[c] + 1
    <3>1. c \notin crossed' =>
            c \in created /\ stage[c] = Draft /\ stage' = [stage EXCEPT ![c] = @ + 1]
      BY <1>2, <1>3, <2>1, SubmitKeeps
    <3>. QED BY <3>1, BoundAssumption DEF Draft, Done, Types, TypeOK
  <2>. QED BY <2>2, <2>3, FlowOf
<1>4. ASSUME NEW j \in Job, Complete(j) PROVE [Flow!Next]_(Flow!vars)
  <2>1. job[j].task \in Existing /\ caseOf[job[j].task] \in Case
    BY <1>4, JobFields DEF Complete, Types, JobsExist, TasksExist
  <2>2. PICK t : t = job[j].task
    OBVIOUS
  <2>3. PICK c \in Case : c = caseOf[t]
    BY <2>1, <2>2
  <2>4. Only(c) /\ created' = created
    BY <1>4, <2>2, <2>3, CompleteKeeps
  <2>5. c \notin crossed' => c \in created /\ stage[c] # Done /\ stage'[c] = stage[c] + 1
    <3>1. c \notin crossed' =>
            c \in created /\ stage[c] \in Stage /\ stage' = [stage EXCEPT ![c] = @ + 1]
      BY <1>2, <1>4, <2>2, <2>3, CompleteKeeps
    <3>. QED BY <3>1, BoundAssumption DEF Stage, Done, Types, TypeOK
  <2>. QED BY <2>4, <2>5, FlowOf
<1>5. ASSUME NEW j \in Job, NEW u \in Task, Start(j) \/ Assign(j) \/ Return(j) \/ Escalate(j, u)
      PROVE  [Flow!Next]_(Flow!vars)
  BY <1>5, WriteKeeps, FlowOf
<1>6. ASSUME NEW j \in Job, Start(j) \/ Assign(j) \/ Return(j)
      PROVE  [Flow!Next]_(Flow!vars)
  <2>1. job[j].task \in Task
    BY <1>6, JobFields DEF Start, Assign, Return, Types
  <2>. QED BY <1>5, <1>6, <2>1
<1>7. ASSUME NEW j \in Job, Writing(j) PROVE [Flow!Next]_(Flow!vars)
  BY <1>3, <1>4, <1>5, <1>6, <1>7 DEF Writing
<1>. QED BY <1>1, <1>7

(* However many jobs overlap, the workflow implements StageFlow, which a    *)
(* case leaves when a job of it is overtaken: ImplementsFlow of the run     *)
(* siap.                                                                    *)
THEOREM FlowImplemented == WatchedSpec => ImplementsFlow
<1>1. Init /\ crossed = {} => Flow!Init
  BY BoundAssumption DEF Init, Flow!Init, OpenTasks, Open, Draft, Flow!Draft
<1>2. /\ Types /\ Types' /\ Untouched /\ Followed /\ WaitingOfStage /\ WaitingOfStage'
      /\ [Next /\ Watch]_<<vars, crossed>>
      => [Flow!Next]_(Flow!vars)
  <2> SUFFICES ASSUME Types, Types', Untouched, Followed, WaitingOfStage, WaitingOfStage',
                      [Next /\ Watch]_<<vars, crossed>>
               PROVE  [Flow!Next]_(Flow!vars)
    OBVIOUS
  <2>1. CASE Next /\ Watch
    BY <2>1, FlowStep
  <2>2. CASE UNCHANGED <<vars, crossed>>
    BY <2>2 DEF vars, caseVars, taskVars, Flow!vars, OpenTasks
  <2>. QED BY <2>1, <2>2
<1>3. Types /\ Manned /\ Followed => WaitingOfStage
  BY WaitingIs
<1>. QED BY <1>1, <1>2, <1>3, FollowedAlways, PTL
  DEF WatchedSpec, WatchedInit, ImplementsFlow, Flow!Spec

=============================================================================

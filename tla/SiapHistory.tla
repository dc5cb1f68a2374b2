----------------------------- MODULE SiapHistory -----------------------------
(***************************************************************************)
(* What SiapWorkflow does, watched.  No handler looks again at what it     *)
(* read: when a task is completed, or a case moves on, under another job,  *)
(* that job writes to it all the same, and may complete the task twice,    *)
(* move the case back or reopen what is closed.  This module remembers the *)
(* cases to which that can happen, and states what holds of all the others *)
(* however many jobs overlap.                                              *)
(***************************************************************************)
EXTENDS SiapWorkflow

VARIABLE crossed  \* the cases of which a job was overtaken

(* As far as case c goes, a job has not been overtaken: the case is where    *)
(* the job found it, and the tasks the job is to write to are open.          *)
StillSo(w, c) ==
  /\ w.op = "submit" /\ w.case = c => c \in created /\ stage[c] = Draft
  /\ w.op \in {"start", "complete", "assign", "return"} /\ caseOf[w.task] = c =>
       /\ status[w.task] \in Open
       /\ w.op = "complete" /\ w.at # Unread => w.at = stage[c]
  /\ w.op = "sweep" => \A t \in w.left : caseOf[t] = c => status[t] \in Open

Stale == {c \in Case : \E j \in Job : ~StillSo(job[j], c)}

Watch == crossed' = crossed \cup Stale'

WatchedInit == Init /\ crossed = {}
WatchedSpec == WatchedInit /\ [][Next /\ Watch]_<<vars, crossed>>
WatchedFairSpec == WatchedSpec /\ Fairness

-----------------------------------------------------------------------------
(* The log of a case is a path through its workflow, without a stage        *)
(* skipped, repeated or left out, until a job of the case is overtaken.     *)
TrailIsPath ==
  \A c \in Case \ crossed :
    trail[c] = [i \in 1 .. Len(trail[c]) |-> [from |-> i - 1, to |-> i]]

(* The deadline of a task tells the truth about it, until a job of its case *)
(* is overtaken: closed when the task is completed and only then, and       *)
(* overdue whenever the task is, whoever starts, assigns, returns or        *)
(* escalates it at the same time.                                           *)
DeadlineTellsTruth ==
  \A t \in Task : caseOf[t] \notin crossed /\ sla[t] # "NONE" =>
    /\ (status[t] = "COMPLETED") <=> closed[t]
    /\ closed[t] <=> sla[t] = "COMPLETED"
    /\ status[t] = "OVERDUE" => sla[t] = "OVERDUE"

(* A job alone is never overtaken: the checks ask for all that its commit   *)
(* relies on, and only another job can upset it.                            *)
OneJobCrossesNone ==
  [][Cardinality(InFlight) <= 1 => crossed' = crossed]_<<vars, crossed>>

(* The case, its tasks and its log seen as a flow of work through stages,   *)
(* which a case leaves when a job of it is overtaken.                       *)
Flow == INSTANCE StageFlow WITH
  opened <- created,
  stage <- [c \in Case |-> IF c \in crossed THEN Done + 1 ELSE stage[c]],
  waiting <- [c \in Case |-> IF c \in crossed THEN {} ELSE {taskOf[t] : t \in OpenTasks(c)}]

(* One stage at a time, one piece of work at a time.                        *)
ImplementsFlow == Flow!Spec

=============================================================================

--------------------------- MODULE OpdSubmission ----------------------------
(***************************************************************************)
(* The submissions an OPD sends in (api/src/modules/opd-submission).       *)
(*                                                                         *)
(* A request reads the row of a submission, checks its status and writes   *)
(* later.  The desk's handlers and submitMine write with updateAtomic, an  *)
(* UPDATE that names the statuses it may start from; cancelMine,           *)
(* submitCorrectionMine and updateMine write without looking again.  What  *)
(* a handler computes, it computes from the row it read, which the job     *)
(* keeps as "before".                                                      *)
(*                                                                         *)
(* Time: "clock" counts parts of an hour, Hour of them to the hour, all of *)
(* them working time (the working calendar is not in this module), and a   *)
(* request takes no time on it; midnight, which the numbers depend on, may *)
(* strike during a request.  dueAt moves by what a pause took, but the     *)
(* hours on record are whole hours, each of them rounded up.               *)
(*                                                                         *)
(* Left out: who may act, titles and notes, files, the timeline and the    *)
(* audit log (written after the row, and read by nothing here).            *)
(***************************************************************************)
EXTENDS Integers, Sequences, FiniteSets

CONSTANTS
  Submission,
  Service,      \* service types
  DocType,      \* types of documents
  Needs,        \* Needs[v]: the documents service v requires
  Target,       \* getSlaTargetHours
  Hour,         \* HOUR_MS: the length of an hour on the clock
  Request,      \* requests that can be under way at once
  MaxInFlight,  \* how many of them are
  MaxDocs,      \* bound: documents of a submission
  MaxClock,     \* bound: time
  MaxDay,       \* bound: days
  MaxFaults     \* bound: requests that fail

ASSUME ServiceAssumption ==
  /\ Service # {}
  /\ Needs \in [Service -> SUBSET DocType]

ASSUME BoundAssumption ==
  /\ IsFiniteSet(Submission)
  /\ Target \in Nat
  /\ Hour \in Nat \ {0}
  /\ MaxInFlight \in Nat \ {0}
  /\ MaxDocs \in Nat
  /\ MaxClock \in Nat
  /\ MaxDay \in Nat \ {0}
  /\ MaxFaults \in Nat

VARIABLES
  row,        \* row[s]: the row of the submission
  papers,     \* papers[s]: its documents, in the order of their upload
  siapCases,  \* siapCases[s]: how many SIAP cases were opened for it
  candidate,  \* the submissions with a row in kinerja_rhk_candidates
  clock,
  day,
  held,       \* held[s]: time spent in NEEDS_CORRECTION (history)
  job,        \* what each request holds in memory
  faults      \* requests that failed so far

vars == <<row, papers, siapCases, candidate, clock, day, held, job, faults>>

Final == {"COMPLETED", "REJECTED", "CANCELLED"}
AtDesk == {"SUBMITTED", "RECEIVED", "IN_VERIFICATION", "VERIFIED", "CORRECTION_SUBMITTED"}
Status == {"NONE", "DRAFT", "NEEDS_CORRECTION"} \cup AtDesk \cup Final
Paper == [type : DocType, status : {"UPLOADED", "VERIFIED", "NEEDS_CORRECTION", "REJECTED"}]
Never == -1
Time == {Never} \cup Nat
NoNumber == [day |-> 0, seq |-> 0]

Row == [status : Status, service : Service,
        number : [day : Nat, seq : Nat], submittedOn : Nat,
        startedAt : Time, dueAt : Time, pausedAt : Time, stoppedAt : Time,
        pausedHours : Nat, elapsed : Nat,
        sla : {"NOT_STARTED", "RUNNING", "PAUSED", "COMPLETED", "CANCELLED"}]

\* The handlers of the desk: the statuses each may start from, and its result.
Desk == {"receive", "startVerification", "requestCorrection", "verify", "reject", "complete"}

\* Variant with a bug: verification can be started again after a rejection.
AllowedFromRejected ==
  [receive           |-> {"SUBMITTED", "CORRECTION_SUBMITTED"},
   startVerification |-> {"RECEIVED", "REJECTED"},
   requestCorrection |-> {"RECEIVED", "IN_VERIFICATION", "CORRECTION_SUBMITTED"},
   verify            |-> {"RECEIVED", "IN_VERIFICATION", "CORRECTION_SUBMITTED"},
   reject            |-> AtDesk \cup {"NEEDS_CORRECTION"},
   complete          |-> {"VERIFIED", "IN_VERIFICATION"}]
AllowedFrom ==
  [receive           |-> {"SUBMITTED", "CORRECTION_SUBMITTED"},
   startVerification |-> {"RECEIVED"},
   requestCorrection |-> {"RECEIVED", "IN_VERIFICATION", "CORRECTION_SUBMITTED"},
   verify            |-> {"RECEIVED", "IN_VERIFICATION", "CORRECTION_SUBMITTED"},
   reject            |-> AtDesk \cup {"NEEDS_CORRECTION"},
   complete          |-> {"VERIFIED", "IN_VERIFICATION"}]

\* Variant with a bug: a result that is no status.
ResultVerify ==
  [receive |-> "RECEIVED", startVerification |-> "IN_VERIFICATION",
   requestCorrection |-> "NEEDS_CORRECTION", verify |-> "VERIFY",
   reject |-> "REJECTED", complete |-> "COMPLETED"]
Result ==
  [receive |-> "RECEIVED", startVerification |-> "IN_VERIFICATION",
   requestCorrection |-> "NEEDS_CORRECTION", verify |-> "VERIFIED",
   reject |-> "REJECTED", complete |-> "COMPLETED"]

Idle == [op |-> "idle"]
Jobs ==
  {Idle}
  \cup [op : {"submit"}, sub : Submission, number : [day : Nat, seq : Nat]]
  \cup [op : {"cancel", "upload", "candidate"}, sub : Submission]
  \cup [op : {"assessed"}, sub : Submission, override : BOOLEAN]
  \cup [op : {"correct"}, sub : Submission, before : Row]
  \cup [op : {"update"}, sub : Submission, service : Service]
  \cup [op : Desk \ {"complete"}, sub : Submission, before : Row]
  \cup [op : {"complete"}, sub : Submission, before : Row, override : BOOLEAN]

TypeOK ==
  /\ row \in [Submission -> Row]
  /\ papers \in [Submission -> Seq(Paper)]
  /\ siapCases \in [Submission -> Nat]
  /\ candidate \subseteq Submission
  /\ clock \in 0 .. MaxClock
  /\ day \in 1 .. MaxDay
  /\ held \in [Submission -> Nat]
  /\ job \in [Request -> Jobs]
  /\ faults \in 0 .. MaxFaults

EmptyRow ==
  [status |-> "NONE", service |-> CHOOSE v \in Service : TRUE,
   number |-> NoNumber, submittedOn |-> 0,
   startedAt |-> Never, dueAt |-> Never, pausedAt |-> Never, stoppedAt |-> Never,
   pausedHours |-> 0, elapsed |-> 0, sla |-> "NOT_STARTED"]

Init ==
  /\ row = [s \in Submission |-> EmptyRow]
  /\ papers = [s \in Submission |-> <<>>]
  /\ siapCases = [s \in Submission |-> 0]
  /\ candidate = {}
  /\ clock = 0
  /\ day = 1
  /\ held = [s \in Submission |-> 0]
  /\ job = [r \in Request |-> Idle]
  /\ faults = 0

-----------------------------------------------------------------------------
\* The time allowed, on the clock.
Allowance == Target * Hour

\* diffHours: whole hours, rounded up.
WholeHours(time) == (time + Hour - 1) \div Hour

\* Variant with a bug: the pauses are not taken off.
ElapsedWithPauses(before) ==
  IF before.startedAt = Never THEN 0 ELSE WholeHours(clock - before.startedAt)

\* calculateElapsedHours, up to now, from what the handler read.
Elapsed(before) ==
  IF before.startedAt = Never THEN 0
  ELSE LET hours == WholeHours(clock - before.startedAt) - before.pausedHours
       IN IF hours < 0 THEN 0 ELSE hours

\* calculateSlaStatus of a status that is neither final nor NEEDS_CORRECTION.
SlaAtDesk(before) ==
  IF before.startedAt = Never \/ before.dueAt = Never THEN "NOT_STARTED"
  ELSE IF before.pausedAt # Never THEN "PAUSED" ELSE "RUNNING"

\* Variant with a bug: what was cancelled is not counted.
SubmittedTodayLive ==
  Cardinality({s \in Submission : /\ row[s].number # NoNumber /\ row[s].submittedOn = day
                                  /\ row[s].status # "CANCELLED"})

\* countSubmittedOnDay, for today.
SubmittedToday ==
  Cardinality({s \in Submission : row[s].number # NoNumber /\ row[s].submittedOn = day})

(* assessCompletionReadiness: nothing rejected, something verified if there *)
(* is anything, and whatever the service requires verified.                 *)
Ready(s) ==
  LET P == {papers[s][i] : i \in DOMAIN papers[s]}
      Verified == {p \in P : p.status = "VERIFIED"}
  IN /\ \A p \in P : p.status # "REJECTED"
     /\ P # {} => Verified # {}
     /\ Needs[row[s].service] \subseteq {p.type : p \in Verified}

InFlight == Cardinality({r \in Request : job[r] # Idle})

\* A request that is new takes up job j.
Begin(r, j) ==
  /\ job[r] = Idle
  /\ InFlight < MaxInFlight
  /\ job' = [job EXCEPT ![r] = j]
  /\ UNCHANGED <<row, papers, siapCases, candidate, clock, day, held, faults>>

\* The request ends with the row of s changed.
Write(r, s, new) ==
  /\ row' = [row EXCEPT ![s] = new]
  /\ job' = [job EXCEPT ![r] = Idle]
  /\ UNCHANGED <<papers, candidate, clock, day, held, faults>>

-----------------------------------------------------------------------------
CreateDraft(s) ==
  /\ row[s].status = "NONE"
  /\ \E v \in Service :
       row' = [row EXCEPT ![s].status = "DRAFT", ![s].service = v]
  /\ UNCHANGED <<papers, siapCases, candidate, clock, day, held, job, faults>>

(* submitMine reads the row and then counts today's submissions.  A draft   *)
(* never has a number or a case yet, so that both are always drawn.         *)
BeginSubmit(r, s) ==
  /\ row[s].status = "DRAFT"
  /\ Begin(r, [op |-> "submit", sub |-> s,
               number |-> [day |-> day, seq |-> SubmittedToday + 1]])

\* Variant with a bug: the row is not asked whether it is a draft still.
SubmitTwice(r) ==
  LET s == job[r].sub
      number == job[r].number
  IN /\ job[r].op = "submit"
     /\ \A other \in Submission \ {s} : row[other].number # number
     /\ siapCases' = [siapCases EXCEPT ![s] = @ + 1]
     /\ \E d \in number.day .. day :
          Write(r, s,
            [row[s] EXCEPT
               !.status = "SUBMITTED", !.number = number, !.submittedOn = d,
               !.startedAt = clock, !.dueAt = clock + Allowance,
               !.elapsed = 0, !.pausedHours = 0,
               !.pausedAt = Never, !.stoppedAt = Never, !.sla = "RUNNING"])

(* The transaction: the case is opened, and all is undone unless the row is *)
(* still a draft and the number not taken (submissionNumber is unique).     *)
(* submittedAt was read between the count and now.                          *)
Submit(r) ==
  LET s == job[r].sub
      number == job[r].number
  IN /\ job[r].op = "submit"
     /\ row[s].status = "DRAFT"
     /\ \A other \in Submission \ {s} : row[other].number # number
     /\ siapCases' = [siapCases EXCEPT ![s] = @ + 1]
     /\ \E d \in number.day .. day :
          Write(r, s,
            [row[s] EXCEPT
               !.status = "SUBMITTED", !.number = number, !.submittedOn = d,
               !.startedAt = clock, !.dueAt = clock + Allowance,
               !.elapsed = 0, !.pausedHours = 0,
               !.pausedAt = Never, !.stoppedAt = Never, !.sla = "RUNNING"])

BeginCancel(r, s) ==
  /\ row[s].status \in {"DRAFT", "SUBMITTED"}
  /\ Begin(r, [op |-> "cancel", sub |-> s])

Cancel(r) ==
  LET s == job[r].sub
  IN /\ job[r].op = "cancel"
     /\ Write(r, s, [row[s] EXCEPT !.status = "CANCELLED", !.stoppedAt = clock,
                                   !.sla = "CANCELLED"])
     /\ UNCHANGED siapCases

BeginCorrection(r, s) ==
  /\ row[s].status = "NEEDS_CORRECTION"
  /\ Begin(r, [op |-> "correct", sub |-> s, before |-> row[s]])

(* Variants with a bug: the pause is not ended; dueAt moves by all pauses   *)
(* so far, each time.                                                       *)
SubmitCorrectionPaused(r) ==
  LET s == job[r].sub
      before == job[r].before
      pause == IF before.pausedAt = Never THEN 0 ELSE clock - before.pausedAt
  IN /\ job[r].op = "correct"
     /\ Write(r, s, [row[s] EXCEPT
                       !.status = "CORRECTION_SUBMITTED",
                       !.pausedHours = before.pausedHours + WholeHours(pause),
                       !.dueAt = before.dueAt + pause, !.sla = "RUNNING"])
     /\ UNCHANGED siapCases
SubmitCorrectionAllPauses(r) ==
  LET s == job[r].sub
      before == job[r].before
      pause == clock - before.pausedAt
      pauses == before.pausedHours + WholeHours(pause)
  IN /\ job[r].op = "correct"
     /\ Write(r, s, [row[s] EXCEPT
                       !.status = "CORRECTION_SUBMITTED", !.pausedAt = Never,
                       !.pausedHours = pauses, !.dueAt = before.dueAt + pauses * Hour,
                       !.sla = "RUNNING"])
     /\ UNCHANGED siapCases

\* submitCorrectionMine: the pause ends, and dueAt moves by its length; the
\* hours on record grow by its length rounded up.
SubmitCorrection(r) ==
  LET s == job[r].sub
      before == job[r].before
      pause == IF before.pausedAt = Never THEN 0 ELSE clock - before.pausedAt
      due == IF before.dueAt = Never THEN Never ELSE before.dueAt + pause
  IN /\ job[r].op = "correct"
     /\ Write(r, s, [row[s] EXCEPT
                       !.status = "CORRECTION_SUBMITTED", !.pausedAt = Never,
                       !.pausedHours = before.pausedHours + WholeHours(pause), !.dueAt = due,
                       !.sla = SlaAtDesk([before EXCEPT !.pausedAt = Never,
                                                        !.dueAt = due])])
     /\ UNCHANGED siapCases

BeginUpdate(r, s) ==
  /\ row[s].status \in {"DRAFT", "NEEDS_CORRECTION"}
  /\ \E v \in Service \ {row[s].service} :
       Begin(r, [op |-> "update", sub |-> s, service |-> v])

Update(r) ==
  LET s == job[r].sub
  IN /\ job[r].op = "update"
     /\ Write(r, s, [row[s] EXCEPT !.service = job[r].service])
     /\ UNCHANGED siapCases

-----------------------------------------------------------------------------
\* changeInternalStatus reads the row; complete calls it when Assess is done.
BeginDesk(r, a, s) ==
  /\ row[s].status \in AllowedFrom[a]
  /\ Begin(r, [op |-> a, sub |-> s, before |-> row[s]])

\* complete first looks at the documents; a note overrides what it finds.
Assess(r, s) ==
  /\ row[s].status # "NONE"
  /\ \E override \in BOOLEAN :
       /\ override \/ Ready(s)
       /\ Begin(r, [op |-> "assessed", sub |-> s, override |-> override])

BeginComplete(r) ==
  LET s == job[r].sub
  IN /\ job[r].op = "assessed"
     /\ row[s].status \in AllowedFrom["complete"]
     /\ job' = [job EXCEPT ![r] = [op |-> "complete", sub |-> s, before |-> row[s],
                                   override |-> job[r].override]]
     /\ UNCHANGED <<row, papers, siapCases, candidate, clock, day, held, faults>>

(* The row as handler a writes it: updateAtomic with buildSlaPatch, which   *)
(* computes from the row that was read.                                     *)
Decided(a, now, before) ==
  IF Result[a] = "NEEDS_CORRECTION"
  THEN [now EXCEPT !.status = "NEEDS_CORRECTION", !.pausedAt = clock,
                   !.elapsed = Elapsed(before), !.sla = "PAUSED"]
  ELSE IF Result[a] \in {"COMPLETED", "REJECTED"}
  THEN [now EXCEPT !.status = Result[a], !.stoppedAt = clock,
                   !.elapsed = Elapsed(before), !.sla = "COMPLETED"]
  ELSE [now EXCEPT !.status = Result[a], !.sla = SlaAtDesk(before)]

Decide(r) ==
  LET s == job[r].sub
      a == job[r].op
  IN /\ a \in Desk
     /\ row[s].status \in AllowedFrom[a]
     /\ row' = [row EXCEPT ![s] = Decided(a, @, job[r].before)]
     /\ job' = [job EXCEPT ![r] = IF a = "complete"
                                  THEN [op |-> "candidate", sub |-> s] ELSE Idle]
     /\ UNCHANGED <<papers, siapCases, candidate, clock, day, held, faults>>

\* After complete, not awaited: generateFromSubmission (an upsert).
GenerateCandidate(r) ==
  /\ job[r].op = "candidate"
  /\ candidate' = candidate \cup {job[r].sub}
  /\ job' = [job EXCEPT ![r] = Idle]
  /\ UNCHANGED <<row, papers, siapCases, clock, day, held, faults>>

\* The write finds a row it may not change, or a number that is taken.
Refused(r) ==
  LET s == job[r].sub
  IN /\ \/ /\ job[r].op = "submit"
           /\ \/ row[s].status # "DRAFT"
              \/ \E other \in Submission \ {s} : row[other].number = job[r].number
        \/ job[r].op \in Desk /\ row[s].status \notin AllowedFrom[job[r].op]
        \/ job[r].op = "assessed" /\ row[s].status \notin AllowedFrom["complete"]
     /\ job' = [job EXCEPT ![r] = Idle]
     /\ UNCHANGED <<row, papers, siapCases, candidate, clock, day, held, faults>>

\* An error or a crash before the write; a transaction is rolled back.
RequestFails(r) ==
  /\ job[r] # Idle
  /\ faults < MaxFaults
  /\ faults' = faults + 1
  /\ job' = [job EXCEPT ![r] = Idle]
  /\ UNCHANGED <<row, papers, siapCases, candidate, clock, day, held>>

-----------------------------------------------------------------------------
AddPaper(s) ==
  /\ Len(papers[s]) < MaxDocs
  /\ \E t \in DocType :
       papers' = [papers EXCEPT ![s] = Append(@, [type |-> t, status |-> "UPLOADED"])]

\* addDocumentMine and uploadDocumentFileMine
BeginUpload(r, s) ==
  /\ row[s].status \in {"DRAFT", "SUBMITTED", "NEEDS_CORRECTION", "CORRECTION_SUBMITTED"}
  /\ Begin(r, [op |-> "upload", sub |-> s])

Upload(r) ==
  /\ job[r].op = "upload"
  /\ AddPaper(job[r].sub)
  /\ job' = [job EXCEPT ![r] = Idle]
  /\ UNCHANGED <<row, siapCases, candidate, clock, day, held, faults>>

\* uploadInternalDocumentFile asks for no status.
UploadInternal(s) ==
  /\ InFlight < MaxInFlight
  /\ row[s].status # "NONE"
  /\ AddPaper(s)
  /\ UNCHANGED <<row, siapCases, candidate, clock, day, held, job, faults>>

\* changeDocumentStatus asks for no status, of the document or the submission.
ReviewDocument(s) ==
  /\ InFlight < MaxInFlight
  /\ \E i \in DOMAIN papers[s], verdict \in {"VERIFIED", "NEEDS_CORRECTION", "REJECTED"} :
       papers' = [papers EXCEPT ![s][i].status = verdict]
  /\ UNCHANGED <<row, siapCases, candidate, clock, day, held, job, faults>>

-----------------------------------------------------------------------------
\* Time passes, between requests.
Tick ==
  /\ \A r \in Request : job[r] = Idle
  /\ clock < MaxClock
  /\ clock' = clock + 1
  /\ held' = [s \in Submission |->
                IF row[s].status = "NEEDS_CORRECTION" THEN held[s] + 1 ELSE held[s]]
  /\ UNCHANGED <<row, papers, siapCases, candidate, day, job, faults>>

Midnight ==
  /\ day < MaxDay
  /\ day' = day + 1
  /\ UNCHANGED <<row, papers, siapCases, candidate, clock, held, job, faults>>

Ends(r) ==
  \/ Submit(r) \/ Cancel(r) \/ SubmitCorrection(r) \/ Update(r)
  \/ BeginComplete(r) \/ Decide(r) \/ GenerateCandidate(r)
  \/ Refused(r) \/ RequestFails(r) \/ Upload(r)

Begins(r, s) ==
  \/ BeginSubmit(r, s) \/ BeginCancel(r, s) \/ BeginCorrection(r, s)
  \/ BeginUpdate(r, s) \/ Assess(r, s) \/ BeginUpload(r, s)
  \/ \E a \in Desk \ {"complete"} : BeginDesk(r, a, s)

Next ==
  \/ \E s \in Submission : CreateDraft(s) \/ UploadInternal(s) \/ ReviewDocument(s)
  \/ \E r \in Request : Ends(r) \/ \E s \in Submission : Begins(r, s)
  \/ Tick
  \/ Midnight

Spec == Init /\ [][Next]_vars

-----------------------------------------------------------------------------
(* The time an OPD takes for a correction is given back to the desk: dueAt   *)
(* of a submission at the desk is the time allowed after the start, and what *)
(* the OPD took (submitCorrectionMine moves it, however many corrections     *)
(* there were).                                                              *)
PauseIsFree ==
  \A s \in Submission :
    row[s].status \in AtDesk => row[s].dueAt = row[s].startedAt + Allowance + held[s]

(* The SLA fields and the status are written by one statement each time, but *)
(* computed from a row read earlier: still a submission is PAUSED exactly    *)
(* while it waits for a correction, the desk never works on a submission     *)
(* whose pause is running, and the SLA is COMPLETED with the submission.     *)
SlaFollowsStatus ==
  \A s \in Submission :
    /\ row[s].sla = "PAUSED" <=> row[s].status = "NEEDS_CORRECTION"
    /\ row[s].status \in AtDesk => row[s].pausedAt = Never /\ row[s].sla = "RUNNING"
    /\ row[s].sla = "COMPLETED" <=> row[s].status \in {"COMPLETED", "REJECTED"}

(* The hours recorded for a rejected submission are at most those it spent   *)
(* at the desk, rounded up.  The desk tells the OPD that its SLA is paused   *)
(* until the correction arrives; a submission rejected in that pause is      *)
(* charged for it.                                                           *)
TimeAtDesk(s) == row[s].stoppedAt - row[s].startedAt - held[s]
RejectedHours ==
  \A s \in Submission :
    row[s].status = "REJECTED" => row[s].elapsed * Hour < TimeAtDesk(s) + Hour

(* The number that generateSubmissionNumber would draw now is not taken:     *)
(* whatever was submitted, cancelled or refused before, and whenever the day *)
(* changed, a submission sent in on its own is never refused for its number. *)
NextNumberIsFree ==
  \A s \in Submission : row[s].number # [day |-> day, seq |-> SubmittedToday + 1]

(* A SIAP case is opened for a submission when it gets its number, and only  *)
(* one, however often and however close together it is sent in: the case of  *)
(* a submitMine that loses is rolled back.                                   *)
OneCasePerSubmission ==
  \A s \in Submission : siapCases[s] = IF row[s].number = NoNumber THEN 0 ELSE 1

(* A submission is completed when its documents allow it, or by a note that  *)
(* says it is completed all the same.  The documents are looked at before    *)
(* the row is written, and may be rejected in between.                       *)
CompletedWhenReady ==
  [][\A r \in Request :
       /\ job[r].op = "complete"
       /\ row[job[r].sub].status # "COMPLETED"
       /\ row'[job[r].sub].status = "COMPLETED"
       => job[r].override \/ Ready(job[r].sub)]_vars

=============================================================================

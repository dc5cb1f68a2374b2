----------------------------- MODULE OpdProofs ------------------------------
(***************************************************************************)
(* What holds of submissions for every number of submissions, services,    *)
(* documents and requests under way at once.                               *)
(*                                                                         *)
(* A handler writes what it computed from a row it read earlier.  So the   *)
(* invariants speak of the rows and of the copies ("before") the jobs hold *)
(* of them: a copy in the hands of the desk is a row as it should be, and  *)
(* the copy of a correction still accounts for the whole of the pause.     *)
(***************************************************************************)
EXTENDS OpdHistory, FiniteSetTheorems, TLAPS

\* No pause begins in the future.
PastPauses ==
  /\ \A s \in Submission : row[s].pausedAt <= clock
  /\ \A r \in Request : job[r].op = "correct" => job[r].before.pausedAt <= clock

Types == TypeOK /\ PastPauses

-----------------------------------------------------------------------------
\* The fields of a job, by what it does.
LEMMA JobFields ==
  ASSUME TypeOK, NEW r \in Request
  PROVE  /\ job[r] \in Jobs
         /\ job[r].op # "idle" => job[r].sub \in Submission
         /\ job[r].op = "submit" => job[r].number \in [day : Nat, seq : Nat]
         /\ job[r].op = "correct" => job[r].before \in Row
         /\ job[r].op = "update" => job[r].service \in Service
         /\ job[r].op = "assessed" => job[r].override \in BOOLEAN
         /\ job[r].op \in Desk => job[r].before \in Row
<1>1. job[r] \in Jobs
  BY DEF TypeOK
<1>. QED BY <1>1 DEF Jobs, Idle, Desk

LEMMA RowFields ==
  ASSUME NEW x \in Row
  PROVE  /\ x.status \in Status /\ x.service \in Service
         /\ x.number \in [day : Nat, seq : Nat] /\ x.submittedOn \in Nat
         /\ x.startedAt \in Time /\ x.dueAt \in Time
         /\ x.pausedAt \in Time /\ x.stoppedAt \in Time
         /\ x.pausedHours \in Nat /\ x.elapsed \in Nat
         /\ x.sla \in {"NOT_STARTED", "RUNNING", "PAUSED", "COMPLETED", "CANCELLED"}
BY DEF Row

LEMMA AllowanceType == Allowance \in Nat
BY BoundAssumption DEF Allowance

\* What diffHours returns, of any stretch of time and of one that passed.
LEMMA WholeHoursType ==
  ASSUME NEW time \in Int
  PROVE  WholeHours(time) \in Int
BY BoundAssumption DEF WholeHours

LEMMA WholeHoursIs ==
  ASSUME NEW time \in Nat
  PROVE  /\ WholeHours(time) \in Nat
         /\ time <= WholeHours(time) * Hour /\ WholeHours(time) * Hour < time + Hour
<1> DEFINE a == time + Hour - 1
           q == a \div Hour
<1>1. Hour \in Nat /\ Hour > 0 /\ a \in Nat
  BY BoundAssumption
<1>2. q \in Int /\ a = Hour * q + (a % Hour) /\ 0 <= a % Hour /\ a % Hour < Hour
  BY <1>1
<1>3. q >= 0
  BY <1>1, <1>2
<1>. QED BY <1>1, <1>2, <1>3 DEF WholeHours

LEMMA ElapsedType ==
  ASSUME NEW x \in Row, clock \in Nat
  PROVE  Elapsed(x) \in Nat
<1>1. x.startedAt \in Time /\ x.pausedHours \in Nat
  BY RowFields
<1>2. CASE x.startedAt = Never
  BY <1>2 DEF Elapsed
<1>3. CASE x.startedAt # Never
  <2>1. WholeHours(clock - x.startedAt) \in Int
    BY <1>1, <1>3, WholeHoursType DEF Time, Never
  <2>. QED BY <1>1, <1>3, <2>1 DEF Elapsed
<1>. QED BY <1>2, <1>3

LEMMA SlaAtDeskType ==
  ASSUME NEW x
  PROVE  SlaAtDesk(x) \in {"NOT_STARTED", "RUNNING", "PAUSED"}
BY DEF SlaAtDesk

\* A request that begins.
LEMMA BeginTypes ==
  ASSUME Types, NEW r \in Request, NEW what \in Jobs, Begin(r, what),
         what.op = "correct" => what.before.pausedAt <= clock
  PROVE  Types'
<1>1. TypeOK'
  BY DEF Types, TypeOK, Begin
<1>2. PastPauses'
  BY DEF Types, TypeOK, PastPauses, Begin
<1>. QED BY <1>1, <1>2 DEF Types

\* A request that is done, or goes on to something else.
LEMMA NextJob ==
  ASSUME Types, NEW r \in Request, NEW what \in Jobs, what.op # "correct",
         job' = [job EXCEPT ![r] = what], clock' = clock
  PROVE  /\ job' \in [Request -> Jobs]
         /\ \A q \in Request : job'[q].op = "correct" => job'[q].before.pausedAt <= clock'
BY DEF Types, TypeOK, PastPauses

\* A request that ends with a row written.
LEMMA WriteTypes ==
  ASSUME Types, NEW r \in Request, NEW s \in Submission, NEW new \in Row,
         Write(r, s, new), new.pausedAt <= clock, siapCases' \in [Submission -> Nat]
  PROVE  Types'
<1>1. Idle \in Jobs /\ Idle.op # "correct"
  BY DEF Jobs, Idle
<1>2. /\ job' \in [Request -> Jobs]
      /\ \A q \in Request : job'[q].op = "correct" => job'[q].before.pausedAt <= clock'
  BY <1>1, NextJob DEF Write
<1>3. TypeOK'
  BY <1>2 DEF Types, TypeOK, Write
<1>4. PastPauses'
  BY <1>2 DEF Types, TypeOK, PastPauses, Write
<1>. QED BY <1>3, <1>4 DEF Types

\* A handler of the desk writes a row.
LEMMA DecidedType ==
  ASSUME Types, NEW r \in Request, NEW s \in Submission, job[r].op \in Desk
  PROVE  /\ Decided(job[r].op, row[s], job[r].before) \in Row
         /\ Decided(job[r].op, row[s], job[r].before).pausedAt <= clock
<1> DEFINE a == job[r].op
           before == job[r].before
           hours == Elapsed(before)
           run == SlaAtDesk(before)
<1>1. row[s] \in Row /\ before \in Row /\ row[s].pausedAt <= clock /\ clock \in Nat
  BY JobFields, BoundAssumption DEF Types, TypeOK, PastPauses
<1>2. hours \in Nat
  BY <1>1, ElapsedType
<1>3. run \in {"NOT_STARTED", "RUNNING", "PAUSED"}
  BY SlaAtDeskType
<1>4. clock \in Time
  BY <1>1 DEF Time
<1>5. CASE a = "requestCorrection"
  <2> DEFINE new == [row[s] EXCEPT !.status = "NEEDS_CORRECTION", !.pausedAt = clock,
                                   !.elapsed = hours, !.sla = "PAUSED"]
  <2>1. Decided(a, row[s], before) = new
    BY <1>5 DEF Decided, Result
  <2>2. new \in Row /\ new.pausedAt = clock
    <3>. HIDE DEF hours
    <3>. QED BY <1>1, <1>2, <1>4 DEF Row, Status
  <2>. HIDE DEF new
  <2>. QED BY <1>1, <2>1, <2>2
<1>6. ASSUME NEW f \in {"COMPLETED", "REJECTED"}, a \in {"complete", "reject"}, Result[a] = f
      PROVE  /\ Decided(a, row[s], before) \in Row
             /\ Decided(a, row[s], before).pausedAt <= clock
  <2> DEFINE new == [row[s] EXCEPT !.status = f, !.stoppedAt = clock,
                                   !.elapsed = hours, !.sla = "COMPLETED"]
  <2>1. Decided(a, row[s], before) = new
    <3>1. Result[a] = f /\ f # "NEEDS_CORRECTION"
      BY <1>6
    <3>. HIDE DEF a, before
    <3>. QED BY <3>1 DEF Decided
  <2>2. new \in Row /\ new.pausedAt = row[s].pausedAt
    <3>. HIDE DEF hours
    <3>. QED BY <1>1, <1>2, <1>4 DEF Row, Status, Final
  <2>. HIDE DEF new
  <2>. QED BY <1>1, <2>1, <2>2
<1>7. ASSUME NEW f \in AtDesk, a \in {"receive", "startVerification", "verify"},
             Result[a] = f
      PROVE  /\ Decided(a, row[s], before) \in Row
             /\ Decided(a, row[s], before).pausedAt <= clock
  <2> DEFINE new == [row[s] EXCEPT !.status = f, !.sla = run]
  <2>1. Decided(a, row[s], before) = new
    BY <1>7 DEF Decided, AtDesk
  <2>2. new \in Row /\ new.pausedAt = row[s].pausedAt
    <3>. HIDE DEF run
    <3>. QED BY <1>1, <1>3 DEF Row, Status
  <2>. HIDE DEF new
  <2>. QED BY <1>1, <2>1, <2>2
<1>8. CASE a \in {"complete", "reject"}
  BY <1>6, <1>8 DEF Result
<1>9. CASE a \in {"receive", "startVerification", "verify"}
  BY <1>7, <1>9 DEF Result, AtDesk
<1>. QED BY <1>5, <1>8, <1>9 DEF Desk

(* The rows of the submissions, their documents and the jobs keep their      *)
(* types, and no pause begins in the future.                                 *)
THEOREM TypesStep == Types /\ [Next]_vars => Types'
<1> SUFFICES ASSUME Types, [Next]_vars PROVE Types'
  OBVIOUS
<1>1. /\ row \in [Submission -> Row] /\ clock \in Nat /\ clock \in Time
      /\ siapCases \in [Submission -> Nat] /\ day \in Nat /\ Never <= clock
  BY BoundAssumption DEF Types, TypeOK, Time, Never
<1>2. Idle \in Jobs /\ Idle.op = "idle"
  BY DEF Jobs, Idle
<1>3. ASSUME NEW s \in Submission, CreateDraft(s) PROVE Types'
  <2>1. PICK v \in Service :
          row' = [row EXCEPT ![s] = [@ EXCEPT !.status = "DRAFT", !.service = v]]
    BY <1>1, <1>3 DEF CreateDraft, Row
  <2>2. [row[s] EXCEPT !.status = "DRAFT", !.service = v] \in Row
    BY <1>1 DEF Row, Status
  <2>3. row' \in [Submission -> Row]
    BY <1>1, <2>1, <2>2
  <2>4. \A t \in Submission : row'[t].pausedAt = row[t].pausedAt
    BY <1>1, <2>1 DEF Row
  <2>. QED BY <1>3, <2>3, <2>4 DEF CreateDraft, Types, TypeOK, PastPauses
<1>4. ASSUME NEW s \in Submission, NEW papers1 \in [Submission -> Seq(Paper)],
             papers' = papers1, UNCHANGED <<row, siapCases, candidate, clock, day, held>>,
             faults' = faults, job' \in [Request -> Jobs],
             \A q \in Request : job'[q].op = "correct" => job'[q].before.pausedAt <= clock'
      PROVE  Types'
  BY <1>4 DEF Types, TypeOK, PastPauses
<1>5. ASSUME NEW s \in Submission, AddPaper(s)
      PROVE  papers' \in [Submission -> Seq(Paper)]
  <2>1. PICK t \in DocType :
          papers' = [papers EXCEPT ![s] = Append(@, [type |-> t, status |-> "UPLOADED"])]
    BY <1>5 DEF AddPaper
  <2>2. [type |-> t, status |-> "UPLOADED"] \in Paper
    BY DEF Paper
  <2>3. Append(papers[s], [type |-> t, status |-> "UPLOADED"]) \in Seq(Paper)
    BY <2>2 DEF Types, TypeOK
  <2>. QED BY <2>1, <2>3 DEF Types, TypeOK
<1>6. ASSUME NEW s \in Submission, UploadInternal(s) PROVE Types'
  BY <1>4, <1>5, <1>6 DEF UploadInternal, Types, TypeOK, PastPauses
<1>7. ASSUME NEW s \in Submission, ReviewDocument(s) PROVE Types'
  <2>1. PICK i \in DOMAIN papers[s], verdict \in {"VERIFIED", "NEEDS_CORRECTION", "REJECTED"} :
          papers' = [papers EXCEPT ![s][i].status = verdict]
    BY <1>7 DEF ReviewDocument
  <2>2. papers[s] \in Seq(Paper)
    BY DEF Types, TypeOK
  <2>3. [papers[s][i] EXCEPT !.status = verdict] \in Paper
    <3>1. papers[s][i] \in Paper
      BY <2>2
    <3>. QED BY <3>1 DEF Paper
  <2>4. [papers[s] EXCEPT ![i] = [papers[s][i] EXCEPT !.status = verdict]] \in Seq(Paper)
    BY <2>2, <2>3
  <2>5. papers' \in [Submission -> Seq(Paper)]
    BY <2>1, <2>4 DEF Types, TypeOK
  <2>. QED BY <1>4, <1>7, <2>5 DEF ReviewDocument, Types, TypeOK, PastPauses
<1>8. ASSUME NEW r \in Request, NEW s \in Submission, Begins(r, s) PROVE Types'
  <2>1. ASSUME NEW what \in Jobs, Begin(r, what),
               what.op = "correct" => what.before = row[s]
        PROVE  Types'
    BY <2>1, BeginTypes DEF Types, PastPauses
  <2>2. CASE BeginSubmit(r, s)
    <3>1. SubmittedToday + 1 \in Nat
      <4>1. SubmittedToday \in Nat
        BY BoundAssumption, FS_Subset, FS_CardinalityType DEF SubmittedToday
      <4>. QED BY <4>1
    <3>. DEFINE what == [op |-> "submit", sub |-> s,
                         number |-> [day |-> day, seq |-> SubmittedToday + 1]]
    <3>2. what \in Jobs /\ what.op = "submit"
      BY <1>1, <3>1 DEF Jobs
    <3>. QED BY <2>1, <2>2, <3>2 DEF BeginSubmit
  <2>3. CASE BeginCancel(r, s)
    <3>1. [op |-> "cancel", sub |-> s] \in Jobs
      BY DEF Jobs
    <3>. QED BY <2>1, <2>3, <3>1 DEF BeginCancel
  <2>4. CASE BeginCorrection(r, s)
    <3>1. [op |-> "correct", sub |-> s, before |-> row[s]] \in Jobs
      BY <1>1 DEF Jobs
    <3>. QED BY <2>1, <2>4, <3>1 DEF BeginCorrection
  <2>5. CASE BeginUpdate(r, s)
    <3>1. PICK v \in Service : Begin(r, [op |-> "update", sub |-> s, service |-> v])
      BY <2>5 DEF BeginUpdate
    <3>2. [op |-> "update", sub |-> s, service |-> v] \in Jobs
      BY DEF Jobs
    <3>. QED BY <2>1, <3>1, <3>2
  <2>6. CASE Assess(r, s)
    <3>1. PICK o \in BOOLEAN : Begin(r, [op |-> "assessed", sub |-> s, override |-> o])
      BY <2>6 DEF Assess
    <3>2. [op |-> "assessed", sub |-> s, override |-> o] \in Jobs
      BY DEF Jobs
    <3>. QED BY <2>1, <3>1, <3>2
  <2>7. CASE BeginUpload(r, s)
    <3>1. [op |-> "upload", sub |-> s] \in Jobs
      BY DEF Jobs
    <3>. QED BY <2>1, <2>7, <3>1 DEF BeginUpload
  <2>8. ASSUME NEW a \in Desk \ {"complete"}, BeginDesk(r, a, s) PROVE Types'
    <3>1. [op |-> a, sub |-> s, before |-> row[s]] \in Jobs
      BY <1>1 DEF Jobs
    <3>. QED BY <2>1, <2>8, <3>1 DEF BeginDesk
  <2>. QED BY <1>8, <2>2, <2>3, <2>4, <2>5, <2>6, <2>7, <2>8 DEF Begins
<1>9. ASSUME NEW r \in Request, job[r].op # "idle" PROVE job[r].sub \in Submission
  BY <1>9, JobFields DEF Types
<1>10. ASSUME NEW r \in Request, Submit(r) PROVE Types'
  <2> DEFINE s == job[r].sub
             number == job[r].number
  <2>1. s \in Submission /\ number \in [day : Nat, seq : Nat]
    BY <1>10, JobFields DEF Submit, Types
  <2>2. PICK d \in number.day .. day :
          Write(r, s,
            [row[s] EXCEPT
               !.status = "SUBMITTED", !.number = number, !.submittedOn = d,
               !.startedAt = clock, !.dueAt = clock + Allowance,
               !.elapsed = 0, !.pausedHours = 0,
               !.pausedAt = Never, !.stoppedAt = Never, !.sla = "RUNNING"])
    BY <1>10 DEF Submit
  <2> DEFINE new == [row[s] EXCEPT
                       !.status = "SUBMITTED", !.number = number, !.submittedOn = d,
                       !.startedAt = clock, !.dueAt = clock + Allowance,
                       !.elapsed = 0, !.pausedHours = 0,
                       !.pausedAt = Never, !.stoppedAt = Never, !.sla = "RUNNING"]
  <2>3. d \in Nat /\ clock + Allowance \in Time
    BY <1>1, <2>1, AllowanceType DEF Time
  <2>4. new \in Row /\ new.pausedAt = Never
    <3> DEFINE a == [row[s] EXCEPT !.status = "SUBMITTED", !.number = number,
                                   !.submittedOn = d]
               b == [a EXCEPT !.startedAt = clock, !.dueAt = clock + Allowance, !.elapsed = 0]
               c == [b EXCEPT !.pausedHours = 0, !.pausedAt = Never]
               e == [c EXCEPT !.stoppedAt = Never, !.sla = "RUNNING"]
    <3>1. a \in Row
      <4>. HIDE DEF number, s
      <4>. QED BY <1>1, <2>1, <2>3 DEF Row, Status, AtDesk
    <3>2. b \in Row
      <4>. HIDE DEF a
      <4>. QED BY <1>1, <2>3, <3>1 DEF Row
    <3>3. c \in Row /\ c.pausedAt = Never
      <4>. HIDE DEF b
      <4>. QED BY <3>2 DEF Row, Time
    <3>4. e \in Row /\ e.pausedAt = Never
      <4>. HIDE DEF c
      <4>. QED BY <3>3 DEF Row, Time
    <3>5. new = e
      OBVIOUS
    <3>. QED BY <3>4, <3>5
  <2>5. siapCases' \in [Submission -> Nat]
    BY <1>1, <1>10, <2>1 DEF Submit
  <2>. HIDE DEF new
  <2>. QED BY <1>1, <2>1, <2>2, <2>4, <2>5, WriteTypes DEF new
<1>11. ASSUME NEW r \in Request, Cancel(r) PROVE Types'
  <2> DEFINE s == job[r].sub
             new == [row[s] EXCEPT !.status = "CANCELLED", !.stoppedAt = clock,
                                   !.sla = "CANCELLED"]
  <2>1. s \in Submission
    BY <1>9, <1>11 DEF Cancel
  <2>2. new \in Row /\ new.pausedAt = row[s].pausedAt
    <3>. HIDE DEF s
    <3>. QED BY <1>1, <2>1 DEF Row, Status, Final
  <2>3. new.pausedAt <= clock
    BY <2>1, <2>2 DEF Types, PastPauses
  <2>4. Write(r, s, new) /\ siapCases' \in [Submission -> Nat]
    BY <1>1, <1>11 DEF Cancel
  <2>. HIDE DEF new
  <2>. QED BY <2>1, <2>2, <2>3, <2>4, WriteTypes
<1>12. ASSUME NEW r \in Request, SubmitCorrection(r) PROVE Types'
  <2> DEFINE s == job[r].sub
             before == job[r].before
             pause == IF before.pausedAt = Never THEN 0 ELSE clock - before.pausedAt
             due == IF before.dueAt = Never THEN Never ELSE before.dueAt + pause
             run == SlaAtDesk([before EXCEPT !.pausedAt = Never, !.dueAt = due])
             hours == before.pausedHours + WholeHours(pause)
             new == [row[s] EXCEPT
                       !.status = "CORRECTION_SUBMITTED", !.pausedAt = Never,
                       !.pausedHours = hours, !.dueAt = due, !.sla = run]
  <2>1. s \in Submission /\ before \in Row /\ before.pausedAt <= clock
    BY <1>12, JobFields DEF SubmitCorrection, Types, PastPauses
  <2>2. before.pausedAt \in Time /\ before.dueAt \in Time /\ before.pausedHours \in Nat
    BY <2>1, RowFields
  <2>3. pause \in Nat
    BY <1>1, <2>1, <2>2 DEF Time, Never
  <2>4. due \in Time /\ hours \in Nat
    BY <2>2, <2>3, WholeHoursIs DEF Time, Never
  <2>5. run \in {"NOT_STARTED", "RUNNING", "PAUSED"}
    BY SlaAtDeskType
  <2>6. new \in Row /\ new.pausedAt = Never
    <3>. HIDE DEF s, due, hours, run
    <3>. QED BY <1>1, <2>1, <2>4, <2>5 DEF Row, Status, AtDesk, Time
  <2>7. Write(r, s, new) /\ siapCases' \in [Submission -> Nat]
    BY <1>1, <1>12 DEF SubmitCorrection
  <2>. HIDE DEF new
  <2>. QED BY <1>1, <2>1, <2>6, <2>7, WriteTypes
<1>13. ASSUME NEW r \in Request, Update(r) PROVE Types'
  <2> DEFINE s == job[r].sub
             v == job[r].service
             new == [row[s] EXCEPT !.service = v]
  <2>1. s \in Submission /\ v \in Service
    BY <1>9, <1>13, JobFields DEF Update, Types
  <2>2. new \in Row /\ new.pausedAt = row[s].pausedAt
    <3>. HIDE DEF s, v
    <3>. QED BY <1>1, <2>1 DEF Row
  <2>3. new.pausedAt <= clock
    BY <2>1, <2>2 DEF Types, PastPauses
  <2>4. Write(r, s, new) /\ siapCases' \in [Submission -> Nat]
    BY <1>1, <1>13 DEF Update
  <2>. HIDE DEF new
  <2>. QED BY <2>1, <2>2, <2>3, <2>4, WriteTypes
<1>14. ASSUME NEW r \in Request, BeginComplete(r) PROVE Types'
  <2> DEFINE what == [op |-> "complete", sub |-> job[r].sub, before |-> row[job[r].sub],
                      override |-> job[r].override]
  <2>1. what \in Jobs /\ what.op # "correct"
    BY <1>1, <1>9, <1>14, JobFields DEF BeginComplete, Jobs, Types
  <2>2. job' = [job EXCEPT ![r] = what]
    BY <1>14 DEF BeginComplete
  <2>. HIDE DEF what
  <2>3. /\ job' \in [Request -> Jobs]
        /\ \A q \in Request : job'[q].op = "correct" => job'[q].before.pausedAt <= clock'
    BY <1>14, <2>1, <2>2, NextJob DEF BeginComplete
  <2>. QED BY <1>14, <2>3 DEF BeginComplete, Types, TypeOK, PastPauses
<1>15. ASSUME NEW r \in Request, Decide(r) PROVE Types'
  <2> DEFINE s == job[r].sub
             new == Decided(job[r].op, row[s], job[r].before)
             what == IF job[r].op = "complete" THEN [op |-> "candidate", sub |-> s] ELSE Idle
  <2>1. s \in Submission /\ job[r].op \in Desk
    BY <1>9, <1>15 DEF Decide, Desk
  <2>2. new \in Row /\ new.pausedAt <= clock
    BY <2>1, DecidedType
  <2>3. what \in Jobs /\ what.op # "correct"
    BY <1>2, <2>1 DEF Jobs
  <2>4. row' = [row EXCEPT ![s] = new] /\ job' = [job EXCEPT ![r] = what]
    BY <1>15 DEF Decide
  <2>. HIDE DEF what, new
  <2>5. /\ job' \in [Request -> Jobs]
        /\ \A q \in Request : job'[q].op = "correct" => job'[q].before.pausedAt <= clock'
    BY <1>15, <2>3, <2>4, NextJob DEF Decide
  <2>. QED BY <1>15, <2>1, <2>2, <2>4, <2>5 DEF Decide, Types, TypeOK, PastPauses
<1>16. ASSUME NEW r \in Request, job' = [job EXCEPT ![r] = Idle], clock' = clock
       PROVE  /\ job' \in [Request -> Jobs]
              /\ \A q \in Request : job'[q].op = "correct" => job'[q].before.pausedAt <= clock'
  BY <1>2, <1>16, NextJob
<1>17. ASSUME NEW r \in Request,
              GenerateCandidate(r) \/ Refused(r) \/ RequestFails(r)
       PROVE  Types'
  <2>1. row' = row /\ papers' = papers /\ siapCases' = siapCases /\ clock' = clock
        /\ day' = day /\ held' = held /\ job' = [job EXCEPT ![r] = Idle]
    BY <1>17 DEF GenerateCandidate, Refused, RequestFails
  <2>2. candidate' \subseteq Submission /\ faults' \in 0 .. MaxFaults
    BY <1>9, <1>17, BoundAssumption
    DEF GenerateCandidate, Refused, RequestFails, Types, TypeOK
  <2>. QED BY <1>16, <2>1, <2>2 DEF Types, TypeOK, PastPauses
<1>18. ASSUME NEW r \in Request, Upload(r) PROVE Types'
  <2>1. papers' \in [Submission -> Seq(Paper)]
    BY <1>5, <1>9, <1>18 DEF Upload
  <2>. QED BY <1>4, <1>9, <1>16, <1>18, <2>1 DEF Upload
<1>19. CASE Tick
  <2>1. clock' \in 0 .. MaxClock /\ clock' >= clock /\ clock' \in Nat
    BY <1>19, BoundAssumption DEF Tick, Types, TypeOK
  <2>2. held' \in [Submission -> Nat]
    BY <1>19 DEF Tick, Types, TypeOK
  <2>3. \A s \in Submission : row[s].pausedAt \in Time
    BY <1>1, RowFields
  <2>4. \A r \in Request : job[r].op # "correct"
    BY <1>2, <1>19 DEF Tick
  <2>5. row' = row /\ job' = job
    BY <1>19 DEF Tick
  <2>6. PastPauses'
    BY <1>1, <2>1, <2>3, <2>4, <2>5 DEF Types, PastPauses, Time, Never
  <2>7. TypeOK'
    BY <1>19, <2>1, <2>2 DEF Tick, Types, TypeOK
  <2>. QED BY <2>6, <2>7 DEF Types
<1>20. CASE Midnight
  BY <1>20, BoundAssumption DEF Midnight, Types, TypeOK, PastPauses
<1>21. CASE UNCHANGED vars
  BY <1>21 DEF vars, Types, TypeOK, PastPauses
<1>. QED
  BY <1>3, <1>6, <1>7, <1>8, <1>10, <1>11, <1>12, <1>13, <1>14, <1>15, <1>17, <1>18,
     <1>19, <1>20, <1>21 DEF Next, Ends

LEMMA InitTypes == Init => Types
<1> SUFFICES ASSUME Init PROVE Types
  OBVIOUS
<1>1. EmptyRow \in Row /\ EmptyRow.pausedAt = Never
  BY ServiceAssumption DEF EmptyRow, Row, Status, NoNumber, Time
<1>2. Idle \in Jobs /\ Idle.op # "correct"
  BY DEF Jobs, Idle
<1>3. \A s \in Submission : row[s] = EmptyRow
  BY DEF Init
<1>4. \A r \in Request : job[r] = Idle
  BY DEF Init
<1>5. PastPauses
  BY <1>1, <1>2, <1>3, <1>4 DEF Init, PastPauses, Never
<1>6. TypeOK
  BY <1>1, <1>2, BoundAssumption DEF Init, TypeOK
<1>. QED BY <1>5, <1>6 DEF Types

(* The state of the submissions keeps its types: TypeOK of the run opd, for  *)
(* any number of requests under way.                                         *)
THEOREM SubmissionTypeCorrect == Spec => []TypeOK
<1>1. Types => TypeOK
  BY DEF Types
<1>. QED BY <1>1, InitTypes, TypesStep, PTL DEF Spec

-----------------------------------------------------------------------------
Unsent == {"NONE", "DRAFT"}

\* The status of a row and its SLA fields fit together.
Sound(x) ==
  /\ x.sla = "PAUSED" <=> x.status = "NEEDS_CORRECTION"
  /\ x.status \in AtDesk => x.pausedAt = Never /\ x.sla = "RUNNING"
  /\ x.sla = "COMPLETED" <=> x.status \in {"COMPLETED", "REJECTED"}
  /\ x.status \in AtDesk \cup {"NEEDS_CORRECTION"} =>
       x.startedAt # Never /\ x.dueAt # Never

\* dueAt and the pause that runs account for h hours of correction.
Accounts(x, start, h) ==
  /\ x.dueAt # Never /\ x.pausedAt # Never
  /\ x.dueAt + (clock - x.pausedAt) = start + Allowance + h

GoodRow(x, h) ==
  /\ Sound(x)
  /\ x.status \in AtDesk => x.dueAt = x.startedAt + Allowance + h
  /\ x.status = "NEEDS_CORRECTION" => Accounts(x, x.startedAt, h)
  /\ x.status \in Unsent => h = 0

\* What a job remembers is good enough to write from, however old it is.
GoodJob(j) ==
  /\ j.op \in Desk => Sound(j.before) /\ j.before.status \in AllowedFrom[j.op]
  /\ j.op = "correct" =>
       /\ j.before.startedAt # Never
       /\ row[j.sub].startedAt # Never /\ row[j.sub].status \notin Unsent
       /\ Accounts(j.before, row[j.sub].startedAt, held[j.sub])

Clocked ==
  /\ \A s \in Submission : GoodRow(row[s], held[s])
  /\ \A r \in Request : GoodJob(job[r])

\* Steps that write no row; a job that changes is new, or forgets all.
LEMMA JobClocked ==
  ASSUME TypeOK, Clocked, NEW r \in Request, NEW what, GoodJob(what),
         job' = [job EXCEPT ![r] = what], UNCHANGED <<row, held, clock>>
  PROVE  Clocked'
<1>1. \A s \in Submission : GoodRow(row[s], held[s])'
  BY DEF Clocked, GoodRow, Accounts
<1>2. ASSUME NEW q \in Request PROVE GoodJob(job[q])'
  <2>1. GoodJob(job'[q])
    BY DEF Clocked, TypeOK
  <2>2. row' = row /\ held' = held /\ clock' = clock
    OBVIOUS
  <2>. HIDE DEF Sound
  <2>. QED BY <2>1, <2>2 DEF GoodJob, Accounts
<1>. QED BY <1>1, <1>2 DEF Clocked

LEMMA IdleIsGood ==
  ASSUME NEW what, what.op \notin Desk \cup {"correct"}
  PROVE  GoodJob(what)
BY DEF GoodJob

\* Steps that write one row, and end the job that did it.
LEMMA RowClocked ==
  ASSUME TypeOK, Clocked, NEW s \in Submission, NEW new \in Row,
         row' = [row EXCEPT ![s] = new], held' = held, clock' = clock,
         GoodRow(new, held[s]),
         \/ row[s].status \in Unsent
         \/ new.startedAt = row[s].startedAt /\ new.status \notin Unsent,
         \A q \in Request : job'[q] = job[q] \/ job'[q].op \notin Desk \cup {"correct"}
  PROVE  Clocked'
<1>1. ASSUME NEW t \in Submission PROVE GoodRow(row[t], held[t])'
  <2>1. GoodRow(row'[t], held[t])
    BY DEF Clocked, TypeOK
  <2>. QED BY <2>1 DEF GoodRow, Accounts, Sound
<1>2. ASSUME NEW q \in Request PROVE GoodJob(job[q])'
  <2>1. CASE job'[q].op \notin Desk \cup {"correct"}
    BY <2>1 DEF GoodJob
  <2>2. CASE job'[q] = job[q] /\ job[q].op = "correct"
    <3>1. GoodJob(job[q]) /\ job[q].sub \in Submission
      BY <2>2, JobFields DEF Clocked
    <3> DEFINE t == job[q].sub
    <3>2. /\ row[t].startedAt # Never /\ row[t].status \notin Unsent
          /\ Accounts(job[q].before, row[t].startedAt, held[t])
          /\ job[q].before.startedAt # Never
      BY <2>2, <3>1 DEF GoodJob
    <3>3. row'[t].startedAt = row[t].startedAt /\ row'[t].status \notin Unsent
      BY <3>1, <3>2 DEF TypeOK
    <3>4. job'[q].op \notin Desk
      BY <2>2 DEF Desk
    <3>. QED BY <2>2, <3>2, <3>3, <3>4 DEF GoodJob, Accounts
  <2>3. CASE job'[q] = job[q] /\ job[q].op \in Desk
    <3>1. GoodJob(job[q])
      BY DEF Clocked
    <3>2. Sound(job[q].before) /\ job[q].before.status \in AllowedFrom[job[q].op]
      BY <2>3, <3>1 DEF GoodJob
    <3>3. job[q].op # "correct"
      BY <2>3 DEF Desk
    <3>. QED BY <2>3, <3>2, <3>3 DEF GoodJob, Sound
  <2>. QED BY <2>1, <2>2, <2>3
<1>. QED BY <1>1, <1>2 DEF Clocked

LEMMA DecidedIsGood ==
  ASSUME Types, Clocked, NEW r \in Request, Decide(r)
  PROVE  LET s == job[r].sub
             new == Decided(job[r].op, row[s], job[r].before)
         IN /\ GoodRow(new, held[s])
            /\ new.startedAt = row[s].startedAt /\ new.status \notin Unsent
<1> DEFINE a == job[r].op
           s == job[r].sub
           x == row[s]
           before == job[r].before
           new == Decided(a, x, before)
<1>1. a \in Desk /\ s \in Submission /\ x \in Row /\ before \in Row /\ clock \in Nat
  BY JobFields, BoundAssumption DEF Decide, Types, TypeOK, Desk
<1>2. GoodRow(x, held[s]) /\ Sound(before) /\ before.status \in AllowedFrom[a]
      /\ x.status \in AllowedFrom[a] /\ held[s] \in Nat
  BY <1>1 DEF Clocked, GoodJob, Decide, Types, TypeOK
<1>3. x.dueAt \in Time /\ x.startedAt \in Time /\ x.pausedAt \in Time /\ clock # Never
  BY <1>1, RowFields DEF Never
<1>4. CASE a = "requestCorrection"
  <2>1. x.status \in AtDesk
    BY <1>2, <1>4 DEF AllowedFrom, AtDesk
  <2>2. new = [x EXCEPT !.status = "NEEDS_CORRECTION", !.pausedAt = clock,
                        !.elapsed = Elapsed(before), !.sla = "PAUSED"]
    BY <1>4 DEF Decided, Result
  <2>3. /\ new.status = "NEEDS_CORRECTION" /\ new.pausedAt = clock /\ new.sla = "PAUSED"
        /\ new.startedAt = x.startedAt /\ new.dueAt = x.dueAt
    <3>. HIDE DEF x, new
    <3>. QED BY <1>1, <2>2 DEF Row
  <2>4. x.startedAt # Never /\ x.dueAt = x.startedAt + Allowance + held[s]
    BY <1>2, <2>1 DEF GoodRow, Sound
  <2>5. x.dueAt \in Nat /\ x.dueAt # Never
    BY <1>2, <1>3, <2>4, AllowanceType DEF Time, Never
  <2>. HIDE DEF new, x
  <2>6. Sound(new)
    BY <2>3, <2>4, <2>5 DEF Sound, AtDesk
  <2>7. Accounts(new, new.startedAt, held[s])
    BY <1>1, <1>3, <2>3, <2>4, <2>5 DEF Accounts
  <2>. QED BY <2>3, <2>6, <2>7 DEF GoodRow, AtDesk, Unsent, x, new
<1>5. CASE a \in {"complete", "reject"}
  <2>1. PICK f \in {"COMPLETED", "REJECTED"} : Result[a] = f
    BY <1>5 DEF Result
  <2>2. new = [x EXCEPT !.status = f, !.stoppedAt = clock,
                        !.elapsed = Elapsed(before), !.sla = "COMPLETED"]
    <3>1. f # "NEEDS_CORRECTION"
      BY <2>1
    <3>. HIDE DEF a, before, x
    <3>. QED BY <2>1, <3>1 DEF Decided
  <2>3. /\ new.status = f /\ new.sla = "COMPLETED" /\ new.startedAt = x.startedAt
    <3>. HIDE DEF x, new
    <3>. QED BY <1>1, <2>2 DEF Row
  <2>. HIDE DEF new, x
  <2>. QED BY <2>1, <2>3 DEF GoodRow, Sound, AtDesk, Unsent, x, new
<1>6. CASE a \in {"receive", "startVerification", "verify"}
  <2>1. Result[a] \in AtDesk /\ AllowedFrom[a] \subseteq AtDesk
    BY <1>6 DEF Result, AllowedFrom, AtDesk
  <2>2. new = [x EXCEPT !.status = Result[a], !.sla = SlaAtDesk(before)]
    BY <2>1 DEF Decided, AtDesk
  <2>3. SlaAtDesk(before) = "RUNNING"
    BY <1>2, <2>1 DEF Sound, SlaAtDesk
  <2>4. /\ new.status = Result[a] /\ new.sla = "RUNNING" /\ new.startedAt = x.startedAt
        /\ new.dueAt = x.dueAt /\ new.pausedAt = x.pausedAt
    <3>. HIDE DEF x, new, before
    <3>. QED BY <1>1, <2>2, <2>3 DEF Row
  <2>5. /\ x.pausedAt = Never /\ x.startedAt # Never /\ x.dueAt # Never
        /\ x.dueAt = x.startedAt + Allowance + held[s]
    BY <1>2, <2>1 DEF GoodRow, Sound
  <2>. HIDE DEF new, x
  <2>. QED BY <2>1, <2>4, <2>5 DEF GoodRow, Sound, AtDesk, Unsent, x, new
<1>. QED BY <1>1, <1>4, <1>5, <1>6 DEF Desk

(* The heart of the argument: whatever the other requests did since a row   *)
(* was read, what is written now fits the row it is written to, and         *)
(* accounts for every hour spent waiting for a correction.                  *)
THEOREM ClockedStep == Types /\ Clocked /\ [Next]_vars => Clocked'
<1> SUFFICES ASSUME Types, Clocked, [Next]_vars PROVE Clocked'
  OBVIOUS
<1>1. /\ TypeOK /\ row \in [Submission -> Row] /\ held \in [Submission -> Nat]
      /\ clock \in Nat /\ clock # Never
  BY BoundAssumption DEF Types, TypeOK, Never
<1>2. Idle.op = "idle" /\ Idle.op \notin Desk \cup {"correct"}
  BY DEF Idle, Desk
<1>3. ASSUME NEW r \in Request, job[r].op # "idle" PROVE job[r].sub \in Submission
  BY <1>1, <1>3, JobFields
<1>4. ASSUME NEW r \in Request, NEW what, what.op \notin Desk \cup {"correct"},
             job' = [job EXCEPT ![r] = what]
      PROVE  \A q \in Request : job'[q] = job[q] \/ job'[q].op \notin Desk \cup {"correct"}
  BY <1>1, <1>4 DEF TypeOK
<1>5. ASSUME NEW s \in Submission, CreateDraft(s) PROVE Clocked'
  <2>1. PICK v \in Service :
          row' = [row EXCEPT ![s] = [@ EXCEPT !.status = "DRAFT", !.service = v]]
    BY <1>1, <1>5 DEF CreateDraft, Row
  <2> DEFINE new == [row[s] EXCEPT !.status = "DRAFT", !.service = v]
  <2>2. new \in Row /\ new.status = "DRAFT" /\ new.sla = row[s].sla
    BY <1>1 DEF Row, Status
  <2>3. row[s].status = "NONE" /\ GoodRow(row[s], held[s])
    BY <1>5 DEF CreateDraft, Clocked
  <2>4. row' = [row EXCEPT ![s] = new]
    BY <2>1
  <2>. HIDE DEF new
  <2>5. GoodRow(new, held[s])
    BY <2>2, <2>3 DEF GoodRow, Sound, AtDesk, Unsent
  <2>. QED BY <1>1, <1>5, <2>2, <2>3, <2>4, <2>5, RowClocked DEF CreateDraft, Unsent
<1>6. ASSUME NEW r \in Request, NEW s \in Submission, Begins(r, s) PROVE Clocked'
  <2>1. ASSUME NEW what, GoodJob(what), Begin(r, what) PROVE Clocked'
    BY <1>1, <2>1, JobClocked DEF Begin
  <2>2. ASSUME NEW what, what.op \notin Desk \cup {"correct"}, Begin(r, what) PROVE Clocked'
    BY <2>1, <2>2, IdleIsGood
  <2>3. GoodRow(row[s], held[s])
    BY DEF Clocked
  <2>4. CASE BeginCorrection(r, s)
    <3> DEFINE what == [op |-> "correct", sub |-> s, before |-> row[s]]
    <3>1. what.op \notin Desk /\ what.before = row[s] /\ what.sub = s
      BY DEF Desk
    <3>2. /\ row[s].status = "NEEDS_CORRECTION" /\ row[s].startedAt # Never
          /\ Accounts(row[s], row[s].startedAt, held[s])
      BY <2>3, <2>4 DEF BeginCorrection, GoodRow, Sound
    <3>3. Begin(r, what)
      BY <2>4 DEF BeginCorrection
    <3>. HIDE DEF what
    <3>4. GoodJob(what)
      BY <3>1, <3>2 DEF GoodJob, Unsent
    <3>. QED BY <2>1, <3>3, <3>4
  <2>5. ASSUME NEW a \in Desk \ {"complete"}, BeginDesk(r, a, s) PROVE Clocked'
    <3> DEFINE what == [op |-> a, sub |-> s, before |-> row[s]]
    <3>1. what.op = a /\ what.op # "correct" /\ what.before = row[s]
      BY DEF Desk
    <3>2. Sound(row[s]) /\ row[s].status \in AllowedFrom[a] /\ Begin(r, what)
      BY <2>3, <2>5 DEF BeginDesk, GoodRow
    <3>. HIDE DEF what
    <3>3. GoodJob(what)
      BY <3>1, <3>2 DEF GoodJob
    <3>. QED BY <2>1, <3>2, <3>3
  <2>6. CASE BeginSubmit(r, s)
    BY <2>2, <2>6 DEF BeginSubmit, Desk
  <2>7. CASE BeginCancel(r, s)
    BY <2>2, <2>7 DEF BeginCancel, Desk
  <2>8. CASE BeginUpdate(r, s)
    BY <2>2, <2>8 DEF BeginUpdate, Desk
  <2>9. CASE Assess(r, s)
    BY <2>2, <2>9 DEF Assess, Desk
  <2>10. CASE BeginUpload(r, s)
    BY <2>2, <2>10 DEF BeginUpload, Desk
  <2>. QED BY <1>6, <2>4, <2>5, <2>6, <2>7, <2>8, <2>9, <2>10 DEF Begins
<1>7. ASSUME NEW r \in Request, NEW s \in Submission, NEW new \in Row, Write(r, s, new),
             GoodRow(new, held[s]),
             \/ row[s].status \in Unsent
             \/ new.startedAt = row[s].startedAt /\ new.status \notin Unsent
      PROVE  Clocked'
  BY <1>1, <1>2, <1>4, <1>7, RowClocked DEF Write
<1>8. ASSUME NEW r \in Request, Submit(r) PROVE Clocked'
  <2> DEFINE s == job[r].sub
             number == job[r].number
  <2>1. s \in Submission /\ number \in [day : Nat, seq : Nat] /\ row[s].status = "DRAFT"
    BY <1>1, <1>8, JobFields DEF Submit
  <2>2. PICK d \in number.day .. day :
          Write(r, s,
            [row[s] EXCEPT
               !.status = "SUBMITTED", !.number = number, !.submittedOn = d,
               !.startedAt = clock, !.dueAt = clock + Allowance,
               !.elapsed = 0, !.pausedHours = 0,
               !.pausedAt = Never, !.stoppedAt = Never, !.sla = "RUNNING"])
    BY <1>8 DEF Submit
  <2> DEFINE new == [row[s] EXCEPT
                       !.status = "SUBMITTED", !.number = number, !.submittedOn = d,
                       !.startedAt = clock, !.dueAt = clock + Allowance,
                       !.elapsed = 0, !.pausedHours = 0,
                       !.pausedAt = Never, !.stoppedAt = Never, !.sla = "RUNNING"]
  <2>3. /\ new.status = "SUBMITTED" /\ new.startedAt = clock /\ new.dueAt = clock + Allowance
        /\ new.pausedAt = Never /\ new.sla = "RUNNING"
    BY <1>1, <2>1 DEF Row
  <2>4. held[s] = 0
    BY <2>1 DEF Clocked, GoodRow, Unsent
  <2>5. row' = [row EXCEPT ![s] = new] /\ held' = held /\ clock' = clock
        /\ job' = [job EXCEPT ![r] = Idle]
    BY <2>2 DEF Write
  <2>6. row' \in [Submission -> Row]
    BY TypesStep DEF Types, TypeOK
  <2>7. new \in Row
    <3>. HIDE DEF new
    <3>1. row'[s] = new
      BY <1>1, <2>1, <2>5
    <3>. QED BY <2>1, <2>6, <3>1
  <2>. HIDE DEF new
  <2>8. GoodRow(new, held[s])
    BY <1>1, <2>3, <2>4, AllowanceType DEF GoodRow, Sound, AtDesk, Unsent, Never
  <2>9. Write(r, s, new)
    BY <2>2 DEF new
  <2>. QED BY <1>7, <2>1, <2>7, <2>8, <2>9 DEF Unsent
<1>9. ASSUME NEW r \in Request, Cancel(r) PROVE Clocked'
  <2> DEFINE s == job[r].sub
             new == [row[s] EXCEPT !.status = "CANCELLED", !.stoppedAt = clock,
                                   !.sla = "CANCELLED"]
  <2>1. s \in Submission /\ Write(r, s, new)
    BY <1>3, <1>9 DEF Cancel
  <2>2. /\ new \in Row /\ new.status = "CANCELLED" /\ new.sla = "CANCELLED"
        /\ new.startedAt = row[s].startedAt
    <3>. HIDE DEF s
    <3>. QED BY <1>1, <2>1 DEF Row, Status, Final, Time
  <2>. HIDE DEF new
  <2>3. GoodRow(new, held[s])
    BY <2>2 DEF GoodRow, Sound, AtDesk, Unsent
  <2>. QED BY <1>7, <2>1, <2>2, <2>3 DEF Unsent
<1>10. ASSUME NEW r \in Request, SubmitCorrection(r) PROVE Clocked'
  <2> DEFINE s == job[r].sub
             before == job[r].before
             pause == IF before.pausedAt = Never THEN 0 ELSE clock - before.pausedAt
             due == IF before.dueAt = Never THEN Never ELSE before.dueAt + pause
             run == SlaAtDesk([before EXCEPT !.pausedAt = Never, !.dueAt = due])
             hours == before.pausedHours + WholeHours(pause)
             new == [row[s] EXCEPT
                       !.status = "CORRECTION_SUBMITTED", !.pausedAt = Never,
                       !.pausedHours = hours, !.dueAt = due, !.sla = run]
  <2>1. s \in Submission /\ before \in Row /\ before.pausedAt <= clock
    BY <1>1, <1>10, JobFields DEF SubmitCorrection, Types, PastPauses
  <2>2. before.pausedAt \in Time /\ before.dueAt \in Time /\ before.pausedHours \in Nat
    BY <2>1, RowFields
  <2>3. /\ before.startedAt # Never
        /\ row[s].startedAt # Never /\ row[s].status \notin Unsent
        /\ Accounts(before, row[s].startedAt, held[s])
    BY <1>10 DEF SubmitCorrection, Clocked, GoodJob
  <2>4. row[s].startedAt \in Nat /\ held[s] \in Nat /\ row[s] \in Row
    BY <1>1, <2>1, <2>3, RowFields DEF Time
  <2>5. due = row[s].startedAt + Allowance + held[s]
    BY <2>2, <2>3 DEF Accounts
  <2>6. due \in Time /\ due # Never /\ hours \in Nat
    <3>1. pause \in Nat
      BY <1>1, <2>1, <2>2 DEF Time, Never
    <3>2. hours \in Nat
      BY <2>2, <3>1, WholeHoursIs
    <3>. QED BY <3>2, <1>1, <2>1, <2>2, <2>4, <2>5, AllowanceType DEF Time, Never
  <2>7. run = "RUNNING"
    <3>. HIDE DEF due
    <3>. QED BY <2>1, <2>3, <2>6 DEF SlaAtDesk, Row
  <2>8. /\ new \in Row /\ new.status = "CORRECTION_SUBMITTED" /\ new.pausedAt = Never
        /\ new.dueAt = due /\ new.sla = run /\ new.startedAt = row[s].startedAt
    <3>. HIDE DEF s, due, hours, run
    <3>. QED BY <2>4, <2>6, <2>7 DEF Row, Status, AtDesk, Time
  <2>9. Write(r, s, new)
    BY <1>10 DEF SubmitCorrection
  <2>. HIDE DEF new, run, due
  <2>10. GoodRow(new, held[s])
    BY <2>3, <2>5, <2>6, <2>7, <2>8 DEF GoodRow, Sound, AtDesk, Unsent
  <2>. QED BY <1>7, <2>1, <2>8, <2>9, <2>10 DEF Unsent
<1>11. ASSUME NEW r \in Request, Update(r) PROVE Clocked'
  <2> DEFINE s == job[r].sub
             v == job[r].service
             new == [row[s] EXCEPT !.service = v]
  <2>1. s \in Submission /\ v \in Service /\ Write(r, s, new)
    BY <1>1, <1>11, JobFields DEF Update
  <2>2. /\ new \in Row /\ new.status = row[s].status /\ new.sla = row[s].sla
        /\ new.startedAt = row[s].startedAt /\ new.dueAt = row[s].dueAt
        /\ new.pausedAt = row[s].pausedAt
    <3>. HIDE DEF s, v
    <3>. QED BY <1>1, <2>1 DEF Row
  <2>3. GoodRow(row[s], held[s])
    BY <2>1 DEF Clocked
  <2>. HIDE DEF new
  <2>4. GoodRow(new, held[s])
    BY <2>2, <2>3 DEF GoodRow, Sound, Accounts
  <2>. QED BY <1>7, <2>1, <2>2, <2>4
<1>12. ASSUME NEW r \in Request, BeginComplete(r) PROVE Clocked'
  <2> DEFINE s == job[r].sub
             what == [op |-> "complete", sub |-> s, before |-> row[s],
                      override |-> job[r].override]
  <2>1. /\ s \in Submission /\ row[s].status \in AllowedFrom["complete"]
        /\ job' = [job EXCEPT ![r] = what] /\ UNCHANGED <<row, held, clock>>
    BY <1>3, <1>12 DEF BeginComplete
  <2>2. what.op = "complete" /\ what.before = row[s] /\ Sound(row[s])
    BY <2>1 DEF Clocked, GoodRow
  <2>. HIDE DEF what
  <2>3. GoodJob(what)
    BY <2>1, <2>2 DEF GoodJob
  <2>. QED BY <1>1, <2>1, <2>3, JobClocked
<1>13. ASSUME NEW r \in Request, Decide(r) PROVE Clocked'
  <2> DEFINE s == job[r].sub
             new == Decided(job[r].op, row[s], job[r].before)
             what == IF job[r].op = "complete" THEN [op |-> "candidate", sub |-> s] ELSE Idle
  <2>1. s \in Submission /\ job[r].op \in Desk
    BY <1>3, <1>13 DEF Decide, Desk
  <2>2. new \in Row
    BY <2>1, DecidedType
  <2>3. GoodRow(new, held[s]) /\ new.startedAt = row[s].startedAt /\ new.status \notin Unsent
    BY <1>13, DecidedIsGood
  <2>4. what.op \notin Desk \cup {"correct"}
    BY <1>2 DEF Desk
  <2>5. /\ row' = [row EXCEPT ![s] = new] /\ job' = [job EXCEPT ![r] = what]
        /\ held' = held /\ clock' = clock
    BY <1>13 DEF Decide
  <2>. HIDE DEF new, what
  <2>. QED BY <1>1, <1>4, <2>1, <2>2, <2>3, <2>4, <2>5, RowClocked
<1>14. ASSUME NEW r \in Request,
              GenerateCandidate(r) \/ Refused(r) \/ RequestFails(r) \/ Upload(r)
       PROVE  Clocked'
  <2>1. job' = [job EXCEPT ![r] = Idle] /\ UNCHANGED <<row, held, clock>>
    BY <1>14 DEF GenerateCandidate, Refused, RequestFails, Upload
  <2>. QED BY <1>1, <1>2, <2>1, IdleIsGood, JobClocked
<1>15. CASE Tick
  <2>1. /\ row' = row /\ job' = job /\ clock' = clock + 1
        /\ \A r \in Request : job[r] = Idle
    BY <1>15 DEF Tick
  <2>2. \A r \in Request : GoodJob(job[r])'
    BY <1>2, <2>1 DEF GoodJob
  <2>3. ASSUME NEW s \in Submission PROVE GoodRow(row[s], held[s])'
    <3>1. /\ GoodRow(row[s], held[s]) /\ row[s] \in Row /\ held[s] \in Nat
          /\ held'[s] = IF row[s].status = "NEEDS_CORRECTION" THEN held[s] + 1 ELSE held[s]
      BY <1>1, <1>15 DEF Tick, Clocked
    <3>2. CASE row[s].status = "NEEDS_CORRECTION"
      <4>1. row[s].pausedAt \in Time /\ row[s].dueAt \in Time /\ row[s].startedAt \in Time
        BY <3>1, RowFields
      <4>2. Sound(row[s]) /\ Accounts(row[s], row[s].startedAt, held[s])
        BY <3>1, <3>2 DEF GoodRow
      <4>3. Accounts(row[s], row[s].startedAt, held[s])'
        BY <1>1, <2>1, <3>1, <3>2, <4>1, <4>2, AllowanceType DEF Accounts, Time, Never
      <4>. QED BY <2>1, <3>2, <4>2, <4>3 DEF GoodRow, Sound, AtDesk, Unsent
    <3>3. CASE row[s].status # "NEEDS_CORRECTION"
      BY <2>1, <3>1, <3>3 DEF GoodRow, Sound
    <3>. QED BY <3>2, <3>3
  <2>. QED BY <2>2, <2>3 DEF Clocked
<1>16. ASSUME UNCHANGED <<row, held, clock, job>> PROVE Clocked'
  BY <1>16 DEF Clocked, GoodRow, GoodJob, Accounts, Sound
<1>17. ASSUME NEW s \in Submission, UploadInternal(s) \/ ReviewDocument(s) PROVE Clocked'
  BY <1>16, <1>17 DEF UploadInternal, ReviewDocument
<1>18. CASE Midnight \/ UNCHANGED vars
  BY <1>16, <1>18 DEF Midnight, vars
<1>. QED
  BY <1>5, <1>6, <1>8, <1>9, <1>10, <1>11, <1>12, <1>13, <1>14, <1>15, <1>17, <1>18
  DEF Next, Ends

LEMMA ClockedAlways == Spec => [](Types /\ Clocked)
<1>1. Init => Types /\ Clocked
  <2> SUFFICES ASSUME Init PROVE Types /\ Clocked
    OBVIOUS
  <2>1. /\ EmptyRow.status = "NONE" /\ EmptyRow.sla = "NOT_STARTED"
        /\ EmptyRow.pausedAt = Never
    BY DEF EmptyRow
  <2>2. Idle.op = "idle"
    BY DEF Idle
  <2>3. \A s \in Submission : GoodRow(row[s], held[s])
    BY <2>1 DEF Init, GoodRow, Sound, AtDesk, Unsent
  <2>4. \A r \in Request : GoodJob(job[r])
    BY <2>2 DEF Init, GoodJob, Desk
  <2>5. Types
    BY InitTypes
  <2>. QED BY <2>3, <2>4, <2>5 DEF Clocked
<1>. QED BY <1>1, TypesStep, ClockedStep, PTL DEF Spec

(* Status and SLA fields fit together, though they are written from rows     *)
(* read before other requests wrote: SlaFollowsStatus of the run opd, for    *)
(* any number of submissions and requests.                                   *)
THEOREM SlaFollows == Spec => []SlaFollowsStatus
<1>1. Clocked => SlaFollowsStatus
  BY DEF Clocked, GoodRow, Sound, SlaFollowsStatus
<1>. QED BY <1>1, ClockedAlways, PTL

(* All the time the OPD took for its corrections is given back to the desk,  *)
(* for any number of corrections: PauseIsFree of the run opd.                *)
THEOREM PausesAreFree == Spec => []PauseIsFree
<1>1. Clocked => PauseIsFree
  BY DEF Clocked, GoodRow, PauseIsFree
<1>. QED BY <1>1, ClockedAlways, PTL

-----------------------------------------------------------------------------
Numbered(s) ==
  /\ row[s].status \in Unsent => row[s].number = NoNumber
  /\ siapCases[s] = IF row[s].number = NoNumber THEN 0 ELSE 1
  /\ row[s].number # NoNumber =>
       /\ row[s].number.day <= day
       /\ row[s].number.day = day => row[s].number.seq <= SubmittedToday

\* A number that is drawn and not written yet; it may be taken by now.
Drawn(j) ==
  j.op = "submit" =>
    /\ j.number.day \in 1 .. day
    /\ j.number.day = day => j.number.seq <= SubmittedToday + 1

Numbers ==
  /\ \A s \in Submission : Numbered(s)
  /\ \A r \in Request : Drawn(job[r])

LEMMA SubmittedTodayType == SubmittedToday \in Nat
BY BoundAssumption, FS_Subset, FS_CardinalityType DEF SubmittedToday

\* Steps that write no row; a job that changes is new, or forgets all.
LEMMA JobNumbers ==
  ASSUME TypeOK, Numbers, NEW r \in Request, NEW what, Drawn(what),
         job' = [job EXCEPT ![r] = what], UNCHANGED <<row, siapCases, day>>
  PROVE  Numbers'
<1>1. SubmittedToday' = SubmittedToday
  BY DEF SubmittedToday
<1>2. ASSUME NEW q \in Request PROVE Drawn(job[q])'
  <2>1. Drawn(job'[q])
    BY DEF Numbers, TypeOK
  <2>. QED BY <1>1, <2>1 DEF Drawn
<1>3. \A s \in Submission : Numbered(s)'
  BY <1>1 DEF Numbers, Numbered
<1>. QED BY <1>2, <1>3 DEF Numbers

\* Steps that write one row and leave its number alone.
LEMMA RowNumbers ==
  ASSUME TypeOK, Numbers, NEW s \in Submission, NEW new \in Row,
         row' = [row EXCEPT ![s] = new], UNCHANGED <<siapCases, day>>,
         new.number = row[s].number, new.submittedOn = row[s].submittedOn,
         new.status \in Unsent => row[s].status \in Unsent,
         \A q \in Request : job'[q] = job[q] \/ job'[q].op # "submit"
  PROVE  Numbers'
<1>1. \A t \in Submission : /\ row'[t].number = row[t].number
                            /\ row'[t].submittedOn = row[t].submittedOn
                            /\ row'[t].status \in Unsent => row[t].status \in Unsent
  BY DEF TypeOK
<1>2. SubmittedToday' = SubmittedToday
  BY <1>1 DEF SubmittedToday
<1>3. \A t \in Submission : Numbered(t)'
  BY <1>1, <1>2 DEF Numbers, Numbered
<1>4. \A q \in Request : Drawn(job[q])'
  BY <1>2 DEF Numbers, Drawn
<1>. QED BY <1>3, <1>4 DEF Numbers

(* A submission takes the number it drew: of what was submitted today there *)
(* is one more, and of the same day's numbers none beyond it.               *)
LEMMA SubmitNumbers ==
  ASSUME Types, Numbers, NEW r \in Request, Submit(r)
  PROVE  Numbers'
<1> DEFINE s == job[r].sub
           number == job[r].number
           Today == {t \in Submission : row[t].number # NoNumber /\ row[t].submittedOn = day}
<1>1. /\ s \in Submission /\ number \in [day : Nat, seq : Nat] /\ row[s].status = "DRAFT"
      /\ TypeOK /\ row[s] \in Row /\ day \in Nat /\ siapCases \in [Submission -> Nat]
  BY JobFields DEF Submit, Types, TypeOK
<1>2. PICK d \in number.day .. day :
        Write(r, s,
          [row[s] EXCEPT
             !.status = "SUBMITTED", !.number = number, !.submittedOn = d,
             !.startedAt = clock, !.dueAt = clock + Allowance,
             !.elapsed = 0, !.pausedHours = 0,
             !.pausedAt = Never, !.stoppedAt = Never, !.sla = "RUNNING"])
  BY DEF Submit
<1>3. /\ number.day \in 1 .. day /\ number # NoNumber
      /\ number.day = day => number.seq <= SubmittedToday + 1
      /\ row[s].number = NoNumber /\ siapCases[s] = 0
  BY <1>1 DEF Submit, Numbers, Drawn, Numbered, Unsent, NoNumber
<1>4. /\ row'[s].status = "SUBMITTED" /\ row'[s].number = number /\ row'[s].submittedOn = d
      /\ \A t \in Submission \ {s} : row'[t] = row[t]
  BY <1>1, <1>2 DEF Write, TypeOK, Row
<1>5. /\ siapCases'[s] = 1 /\ \A t \in Submission \ {s} : siapCases'[t] = siapCases[t]
      /\ day' = day
  BY <1>1, <1>2, <1>3 DEF Submit, Write
<1>6. /\ Today \subseteq Submission /\ IsFiniteSet(Today) /\ s \notin Today
      /\ SubmittedToday = Cardinality(Today) /\ SubmittedToday \in Nat
  BY <1>3, BoundAssumption, FS_Subset, SubmittedTodayType DEF SubmittedToday
<1>7. /\ SubmittedToday' \in Nat /\ SubmittedToday' >= SubmittedToday
      /\ d = day => SubmittedToday' = SubmittedToday + 1
  <2>1. CASE d = day
    <3>1. SubmittedToday' = Cardinality(Today \cup {s})
      <4>1. {t \in Submission : row'[t].number # NoNumber /\ row'[t].submittedOn = day'}
              = Today \cup {s}
        BY <1>1, <1>3, <1>4, <1>5, <2>1
      <4>. QED BY <4>1 DEF SubmittedToday
    <3>2. Cardinality(Today \cup {s}) = Cardinality(Today) + 1
      BY <1>6, FS_AddElement
    <3>. QED BY <1>6, <3>1, <3>2
  <2>2. CASE d # day
    <3>1. {t \in Submission : row'[t].number # NoNumber /\ row'[t].submittedOn = day'} = Today
      BY <1>1, <1>3, <1>4, <1>5, <2>2
    <3>2. SubmittedToday' = Cardinality(Today)
      BY <3>1 DEF SubmittedToday
    <3>. HIDE DEF Today
    <3>. QED BY <1>6, <2>2, <3>2
  <2>. QED BY <2>1, <2>2
<1>8. ASSUME NEW t \in Submission PROVE Numbered(t)'
  <2>1. CASE t = s
    <3>1. number.day = day => d = day
      BY <1>1, <1>2
    <3>. QED BY <1>1, <1>3, <1>4, <1>5, <1>6, <1>7, <2>1, <3>1 DEF Numbered, Unsent
  <2>2. CASE t # s
    <3>1. Numbered(t) /\ row[t] \in Row
      BY <1>1 DEF Numbers, TypeOK
    <3>2. row[t].number.seq \in Nat
      BY <3>1 DEF Row
    <3>. QED BY <1>4, <1>5, <1>6, <1>7, <2>2, <3>1, <3>2 DEF Numbered
  <2>. QED BY <2>1, <2>2
<1>9. ASSUME NEW q \in Request PROVE Drawn(job[q])'
  <2>1. job'[q] = job[q] \/ job'[q] = Idle
    BY <1>1, <1>2 DEF Write, TypeOK
  <2>2. CASE job'[q] = Idle
    BY <2>2 DEF Drawn, Idle
  <2>3. CASE job'[q] = job[q] /\ job[q].op = "submit"
    <3>1. Drawn(job[q]) /\ job[q].number \in [day : Nat, seq : Nat]
      BY <1>1, <2>3, JobFields DEF Numbers
    <3>. QED BY <1>5, <1>6, <1>7, <2>3, <3>1 DEF Drawn
  <2>. QED BY <2>1, <2>2, <2>3 DEF Drawn
<1>. QED BY <1>8, <1>9 DEF Numbers

(* Every handler but submitMine leaves numbers and cases alone.              *)
THEOREM NumbersStep == Types /\ Numbers /\ [Next]_vars => Numbers'
<1> SUFFICES ASSUME Types, Numbers, [Next]_vars PROVE Numbers'
  OBVIOUS
<1>1. /\ TypeOK /\ row \in [Submission -> Row] /\ day \in Nat /\ day >= 1
      /\ Types' /\ row' \in [Submission -> Row]
  BY TypesStep DEF Types, TypeOK
<1>2. Drawn(Idle) /\ Idle.op # "submit"
  BY DEF Idle, Drawn
<1>3. ASSUME NEW r \in Request, job[r].op # "idle" PROVE job[r].sub \in Submission
  BY <1>1, <1>3, JobFields
<1>4. ASSUME NEW r \in Request, NEW what, what.op # "submit", job' = [job EXCEPT ![r] = what]
      PROVE  \A q \in Request : job'[q] = job[q] \/ job'[q].op # "submit"
  BY <1>1, <1>4 DEF TypeOK
<1>5. ASSUME NEW s \in Submission, NEW new, row' = [row EXCEPT ![s] = new]
      PROVE  new \in Row
  <2>1. row'[s] = new
    BY <1>1, <1>5
  <2>. QED BY <1>1, <2>1
<1>6. ASSUME NEW s \in Submission, CreateDraft(s) PROVE Numbers'
  <2>1. PICK v \in Service :
          row' = [row EXCEPT ![s] = [@ EXCEPT !.status = "DRAFT", !.service = v]]
    BY <1>1, <1>6 DEF CreateDraft, Row
  <2> DEFINE new == [row[s] EXCEPT !.status = "DRAFT", !.service = v]
  <2>2. new.number = row[s].number /\ new.submittedOn = row[s].submittedOn
    BY <1>1 DEF Row
  <2>3. row' = [row EXCEPT ![s] = new]
    BY <2>1
  <2>. HIDE DEF new
  <2>. QED BY <1>1, <1>5, <1>6, <2>2, <2>3, RowNumbers DEF CreateDraft, Unsent
<1>7. ASSUME NEW r \in Request, NEW s \in Submission, NEW new, Write(r, s, new),
             UNCHANGED siapCases, new.status \in Unsent => row[s].status \in Unsent,
             new.number = row[s].number, new.submittedOn = row[s].submittedOn
      PROVE  Numbers'
  <2>1. row' = [row EXCEPT ![s] = new] /\ job' = [job EXCEPT ![r] = Idle] /\ day' = day
    BY <1>7 DEF Write
  <2>. QED BY <1>1, <1>2, <1>4, <1>5, <1>7, <2>1, RowNumbers
<1>8. ASSUME NEW r \in Request, Cancel(r) PROVE Numbers'
  <2> DEFINE s == job[r].sub
             new == [row[s] EXCEPT !.status = "CANCELLED", !.stoppedAt = clock,
                                   !.sla = "CANCELLED"]
  <2>1. s \in Submission /\ Write(r, s, new) /\ UNCHANGED siapCases
    BY <1>3, <1>8 DEF Cancel
  <2>2. /\ new.status = "CANCELLED" /\ new.number = row[s].number
        /\ new.submittedOn = row[s].submittedOn
    <3>. HIDE DEF s
    <3>. QED BY <1>1, <2>1 DEF Row
  <2>. HIDE DEF new
  <2>. QED BY <1>7, <2>1, <2>2 DEF Unsent
<1>9. ASSUME NEW r \in Request, SubmitCorrection(r) PROVE Numbers'
  <2> DEFINE s == job[r].sub
             before == job[r].before
             pause == IF before.pausedAt = Never THEN 0 ELSE clock - before.pausedAt
             due == IF before.dueAt = Never THEN Never ELSE before.dueAt + pause
             run == SlaAtDesk([before EXCEPT !.pausedAt = Never, !.dueAt = due])
             hours == before.pausedHours + WholeHours(pause)
             new == [row[s] EXCEPT
                       !.status = "CORRECTION_SUBMITTED", !.pausedAt = Never,
                       !.pausedHours = hours, !.dueAt = due, !.sla = run]
  <2>1. s \in Submission /\ Write(r, s, new) /\ UNCHANGED siapCases
    BY <1>3, <1>9 DEF SubmitCorrection
  <2>2. /\ new.status = "CORRECTION_SUBMITTED" /\ new.number = row[s].number
        /\ new.submittedOn = row[s].submittedOn
    <3>. HIDE DEF s, due, hours, run
    <3>. QED BY <1>1, <2>1 DEF Row
  <2>. HIDE DEF new
  <2>. QED BY <1>7, <2>1, <2>2 DEF Unsent
<1>10. ASSUME NEW r \in Request, Update(r) PROVE Numbers'
  <2> DEFINE s == job[r].sub
             new == [row[s] EXCEPT !.service = job[r].service]
  <2>1. s \in Submission /\ Write(r, s, new) /\ UNCHANGED siapCases
    BY <1>3, <1>10 DEF Update
  <2>2. /\ new.status = row[s].status /\ new.number = row[s].number
        /\ new.submittedOn = row[s].submittedOn
    <3>. HIDE DEF s
    <3>. QED BY <1>1, <2>1 DEF Row
  <2>. HIDE DEF new
  <2>. QED BY <1>7, <2>1, <2>2
<1>11. ASSUME NEW r \in Request, Decide(r) PROVE Numbers'
  <2> DEFINE s == job[r].sub
             a == job[r].op
             before == job[r].before
             new == Decided(a, row[s], before)
             what == IF a = "complete" THEN [op |-> "candidate", sub |-> s] ELSE Idle
  <2>1. s \in Submission /\ a \in Desk
    BY <1>3, <1>11 DEF Decide, Desk
  <2>2. Result[a] \notin Unsent
    BY <2>1 DEF Result, Desk, Unsent
  <2>3. /\ new.status \notin Unsent /\ new.number = row[s].number
        /\ new.submittedOn = row[s].submittedOn
    <3>. HIDE DEF s, a, before
    <3>1. row[s] \in Row
      BY <1>1, <2>1
    <3>. QED BY <2>2, <3>1 DEF Decided, Row, Unsent
  <2>4. what.op # "submit"
    BY <1>2
  <2>5. /\ row' = [row EXCEPT ![s] = new] /\ job' = [job EXCEPT ![r] = what]
        /\ UNCHANGED <<siapCases, day>>
    BY <1>11 DEF Decide
  <2>. HIDE DEF new, what
  <2>. QED BY <1>1, <1>4, <1>5, <2>1, <2>3, <2>4, <2>5, RowNumbers
<1>12. ASSUME NEW r \in Request, NEW what, Drawn(what), job' = [job EXCEPT ![r] = what],
              UNCHANGED <<row, siapCases, day>>
       PROVE  Numbers'
  BY <1>1, <1>12, JobNumbers
<1>13. ASSUME NEW r \in Request, BeginComplete(r) PROVE Numbers'
  <2> DEFINE what == [op |-> "complete", sub |-> job[r].sub, before |-> row[job[r].sub],
                      override |-> job[r].override]
  <2>1. Drawn(what)
    BY DEF Drawn
  <2>2. job' = [job EXCEPT ![r] = what] /\ UNCHANGED <<row, siapCases, day>>
    BY <1>13 DEF BeginComplete
  <2>. HIDE DEF what
  <2>. QED BY <1>12, <2>1, <2>2
<1>14. ASSUME NEW r \in Request,
              GenerateCandidate(r) \/ Refused(r) \/ RequestFails(r) \/ Upload(r)
       PROVE  Numbers'
  <2>1. job' = [job EXCEPT ![r] = Idle] /\ UNCHANGED <<row, siapCases, day>>
    BY <1>14 DEF GenerateCandidate, Refused, RequestFails, Upload
  <2>. QED BY <1>2, <1>12, <2>1
<1>15. ASSUME NEW r \in Request, NEW s \in Submission, Begins(r, s) PROVE Numbers'
  <2>1. ASSUME NEW what, Begin(r, what), Drawn(what) PROVE Numbers'
    BY <1>12, <2>1 DEF Begin
  <2>2. ASSUME NEW what, Begin(r, what), what.op # "submit" PROVE Numbers'
    BY <2>1, <2>2 DEF Drawn
  <2>3. CASE BeginSubmit(r, s)
    <3> DEFINE what == [op |-> "submit", sub |-> s,
                        number |-> [day |-> day, seq |-> SubmittedToday + 1]]
    <3>1. Drawn(what)
      BY <1>1, SubmittedTodayType DEF Drawn
    <3>2. Begin(r, what)
      BY <2>3 DEF BeginSubmit
    <3>. HIDE DEF what
    <3>. QED BY <2>1, <3>1, <3>2
  <2>4. CASE BeginCancel(r, s)
    BY <2>2, <2>4 DEF BeginCancel
  <2>5. CASE BeginCorrection(r, s)
    BY <2>2, <2>5 DEF BeginCorrection
  <2>6. CASE BeginUpdate(r, s)
    BY <2>2, <2>6 DEF BeginUpdate
  <2>7. CASE Assess(r, s)
    BY <2>2, <2>7 DEF Assess
  <2>8. CASE BeginUpload(r, s)
    BY <2>2, <2>8 DEF BeginUpload
  <2>9. ASSUME NEW a \in Desk \ {"complete"}, BeginDesk(r, a, s) PROVE Numbers'
    <3>1. a # "submit"
      BY DEF Desk
    <3>. QED BY <2>2, <2>9, <3>1 DEF BeginDesk
  <2>. QED BY <1>15, <2>3, <2>4, <2>5, <2>6, <2>7, <2>8, <2>9 DEF Begins
<1>16. ASSUME UNCHANGED <<row, siapCases, day, job>> PROVE Numbers'
  BY <1>16 DEF Numbers, Numbered, Drawn, SubmittedToday
<1>17. ASSUME NEW s \in Submission, UploadInternal(s) \/ ReviewDocument(s) PROVE Numbers'
  BY <1>16, <1>17 DEF UploadInternal, ReviewDocument
<1>18. CASE Tick \/ UNCHANGED vars
  BY <1>16, <1>18 DEF Tick, vars
<1>19. CASE Midnight
  <2>1. day' = day + 1 /\ UNCHANGED <<row, siapCases, job>>
    BY <1>19 DEF Midnight
  <2>2. ASSUME NEW s \in Submission PROVE Numbered(s)'
    <3>1. Numbered(s) /\ row[s].number.day \in Nat
      BY <1>1 DEF Numbers, Row
    <3>. QED BY <1>1, <2>1, <3>1 DEF Numbered
  <2>3. ASSUME NEW r \in Request PROVE Drawn(job[r])'
    BY <1>1, <2>1 DEF Numbers, Drawn
  <2>. QED BY <2>2, <2>3 DEF Numbers
<1>. QED
  BY <1>6, <1>8, <1>9, <1>10, <1>11, <1>13, <1>14, <1>15, <1>17, <1>18, <1>19,
     SubmitNumbers DEF Next, Ends

LEMMA NumbersAlways == Spec => [](Types /\ Numbers)
<1>1. Init => Types /\ Numbers
  <2> SUFFICES ASSUME Init PROVE Types /\ Numbers
    OBVIOUS
  <2>1. EmptyRow.number = NoNumber
    BY DEF EmptyRow
  <2>. QED BY <2>1, InitTypes DEF Init, Numbers, Numbered, Drawn, Idle
<1>. QED BY <1>1, TypesStep, NumbersStep, PTL DEF Spec

(* However often and however close together a submission is sent in, one     *)
(* SIAP case is opened for it, when it gets its number:                      *)
(* OneCasePerSubmission of the run opd.                              *)
THEOREM OneCase == Spec => []OneCasePerSubmission
<1>1. Numbers => OneCasePerSubmission
  BY DEF Numbers, Numbered, OneCasePerSubmission
<1>. QED BY <1>1, NumbersAlways, PTL

(* The number that would be drawn now is free, for any number of submissions *)
(* and days: NextNumberIsFree of the run opd.                        *)
THEOREM NextNumberFree == Spec => []NextNumberIsFree
<1>1. Types /\ Numbers => NextNumberIsFree
  <2> SUFFICES ASSUME Types, Numbers, NEW s \in Submission,
                      row[s].number = [day |-> day, seq |-> SubmittedToday + 1]
               PROVE  FALSE
    BY DEF NextNumberIsFree
  <2>1. day \in Nat /\ day >= 1 /\ SubmittedToday \in Nat
    BY SubmittedTodayType DEF Types, TypeOK
  <2>2. row[s].number # NoNumber
    BY <2>1 DEF NoNumber
  <2>. QED BY <2>1, <2>2 DEF Numbers, Numbered
<1>. QED BY <1>1, NumbersAlways, PTL

-----------------------------------------------------------------------------
(* Hours.                                                                    *)

\* So many whole hours stand for that much time in so many parts, of which
\* each was rounded up.
RoundedUp(hours, time, parts) ==
  /\ time <= hours * Hour
  /\ hours * Hour <= time + parts * (Hour - 1)

\* The hours on record are the pauses that are over: all k of them, or all but
\* the one that runs, when any time has passed in it.
PausesOver(x, h, k) ==
  /\ clock = x.pausedAt => RoundedUp(x.pausedHours, h, k)
  /\ clock # x.pausedAt => RoundedUp(x.pausedHours, h - (clock - x.pausedAt), k - 1)

\* A row that was in correction for h, in k pauses.
HourRow(x, h, k) ==
  /\ x.startedAt + h <= clock
  /\ x.status \in AtDesk => RoundedUp(x.pausedHours, h, k)
  /\ x.status = "NEEDS_CORRECTION" => PausesOver(x, h, k)
  /\ x.status = "COMPLETED" =>
       LET desk == x.stoppedAt - x.startedAt - h
       IN  /\ x.elapsed * Hour < desk + Hour
           /\ desk <= x.elapsed * Hour + k * (Hour - 1)

\* A copy counts the same pauses, since no time passes while a job is under way.
HourJob(j) ==
  /\ j.op \in Desk =>
       /\ j.before.startedAt = row[j.sub].startedAt
       /\ row[j.sub].status \notin Unsent
       /\ j.before.status \in AtDesk =>
            RoundedUp(j.before.pausedHours, held[j.sub], pauses[j.sub])
  /\ j.op = "correct" => PausesOver(j.before, held[j.sub], pauses[j.sub])

Houred ==
  /\ \A s \in Submission : HourRow(row[s], held[s], pauses[s])
  /\ \A r \in Request : HourJob(job[r])

\* A pause that is over, rounded up, is one part more.
LEMMA OnePauseMore ==
  ASSUME NEW hours \in Nat, NEW h \in Nat, NEW k \in Nat, NEW pause \in Nat,
         pause = 0 => RoundedUp(hours, h, k),
         pause # 0 => RoundedUp(hours, h - pause, k - 1)
  PROVE  RoundedUp(hours + WholeHours(pause), h, k)
<1> DEFINE w == WholeHours(pause)
<1>1. Hour \in Nat /\ Hour > 0
  BY BoundAssumption
<1>2. w \in Nat /\ pause <= w * Hour /\ w * Hour < pause + Hour
  BY WholeHoursIs
<1>. HIDE DEF w
<1>3. (hours + w) * Hour = hours * Hour + w * Hour /\ w * Hour \in Nat /\ hours * Hour \in Nat
  BY <1>1, <1>2
<1>4. (k - 1) * (Hour - 1) = k * (Hour - 1) - (Hour - 1) /\ k * (Hour - 1) \in Nat
  BY <1>1
<1>5. CASE pause = 0
  <2>1. w = 0
    <3>1. w >= 1 => w * Hour >= Hour
      BY <1>1, <1>2
    <3>. QED BY <1>1, <1>2, <1>3, <1>5, <3>1
  <2>. QED BY <1>5, <2>1 DEF w
<1>6. CASE pause # 0
  BY <1>1, <1>2, <1>3, <1>4, <1>6 DEF RoundedUp, w
<1>. QED BY <1>5, <1>6

\* What remains of the time since the start, when the pauses are taken off.
LEMMA RestOfTheHours ==
  ASSUME NEW t \in Nat, NEW hours \in Nat, NEW h \in Nat, NEW k \in Nat, h <= t,
         RoundedUp(hours, h, k), NEW rest \in Nat,
         rest = IF WholeHours(t) - hours < 0 THEN 0 ELSE WholeHours(t) - hours
  PROVE  /\ rest * Hour < t - h + Hour
         /\ t - h <= rest * Hour + k * (Hour - 1)
<1> DEFINE w == WholeHours(t)
<1>1. Hour \in Nat /\ Hour > 0
  BY BoundAssumption
<1>2. w \in Nat /\ t <= w * Hour /\ w * Hour < t + Hour
  BY WholeHoursIs
<1>3. rest = IF w - hours < 0 THEN 0 ELSE w - hours
  OBVIOUS
<1>. HIDE DEF w
<1>4. (w - hours) * Hour = w * Hour - hours * Hour /\ w * Hour \in Nat /\ hours * Hour \in Nat
  BY <1>1, <1>2
<1>5. k * (Hour - 1) \in Nat
  BY <1>1
<1>6. CASE w - hours < 0
  <2>1. rest = 0 /\ rest * Hour = 0
    BY <1>1, <1>3, <1>6
  <2>2. (w - hours) * Hour <= 0
    BY <1>1, <1>2, <1>6
  <2>. QED BY <1>1, <1>2, <1>4, <1>5, <2>1, <2>2 DEF RoundedUp
<1>7. CASE ~(w - hours < 0)
  BY <1>1, <1>2, <1>3, <1>4, <1>5, <1>7 DEF RoundedUp
<1>. QED BY <1>6, <1>7

\* Steps that write no row; a job that changes is new, or forgets all.
LEMMA JobHoured ==
  ASSUME TypeOK, Houred, NEW r \in Request, NEW what, HourJob(what),
         job' = [job EXCEPT ![r] = what], UNCHANGED <<row, held, clock, pauses>>
  PROVE  Houred'
<1>1. \A s \in Submission : HourRow(row[s], held[s], pauses[s])'
  BY DEF Houred, HourRow, PausesOver
<1>2. ASSUME NEW q \in Request PROVE HourJob(job[q])'
  <2>1. HourJob(job'[q])
    BY DEF Houred, TypeOK
  <2>. QED BY <2>1 DEF HourJob, PausesOver
<1>. QED BY <1>1, <1>2 DEF Houred

\* Steps that write one row, and end the job that did it.
LEMMA RowHoured ==
  ASSUME TypeOK, Houred, NEW s \in Submission, NEW new \in Row,
         row' = [row EXCEPT ![s] = new], held' = held, clock' = clock,
         pauses' = pauses, HourRow(new, held[s], pauses[s]),
         \/ row[s].status \in Unsent
         \/ new.startedAt = row[s].startedAt /\ new.status \notin Unsent,
         \A q \in Request : job'[q] = job[q] \/ job'[q].op \notin Desk \cup {"correct"}
  PROVE  Houred'
<1>1. ASSUME NEW t \in Submission PROVE HourRow(row[t], held[t], pauses[t])'
  <2>1. HourRow(row'[t], held[t], pauses[t])
    BY DEF Houred, TypeOK
  <2>. QED BY <2>1 DEF HourRow, PausesOver
<1>2. ASSUME NEW q \in Request PROVE HourJob(job[q])'
  <2>1. CASE job'[q].op \notin Desk \cup {"correct"}
    BY <2>1 DEF HourJob, PausesOver
  <2>2. CASE job'[q] = job[q] /\ job[q].op = "correct"
    <3>1. HourJob(job[q]) /\ job[q].op \notin Desk
      BY <2>2 DEF Houred, Desk
    <3>. QED BY <2>2, <3>1 DEF HourJob, PausesOver
  <2>3. CASE job'[q] = job[q] /\ job[q].op \in Desk
    <3> DEFINE t == job[q].sub
    <3>1. HourJob(job[q]) /\ t \in Submission /\ job[q].op # "correct"
      BY <2>3, JobFields DEF Houred, Desk
    <3>2. row'[t].startedAt = row[t].startedAt /\ row'[t].status \notin Unsent
      BY <2>3, <3>1 DEF HourJob, TypeOK
    <3>. QED BY <2>3, <3>1, <3>2 DEF HourJob, PausesOver
  <2>. QED BY <2>1, <2>2, <2>3
<1>. QED BY <1>1, <1>2 DEF Houred

\* What the desk writes.
LEMMA DecidedHours ==
  ASSUME Types, TypeOKHistory, Clocked, Houred, NEW r \in Request, Decide(r)
  PROVE  LET s == job[r].sub
         IN  HourRow(Decided(job[r].op, row[s], job[r].before), held[s], pauses[s])
<1> DEFINE a == job[r].op
           s == job[r].sub
           x == row[s]
           before == job[r].before
           new == Decided(a, x, before)
<1>1. /\ a \in Desk /\ s \in Submission /\ x \in Row /\ before \in Row /\ clock \in Nat
      /\ held[s] \in Nat /\ pauses[s] \in Nat /\ x.status \in AllowedFrom[a]
  BY JobFields, BoundAssumption DEF Decide, Types, TypeOK, TypeOKHistory, Desk
<1>2. /\ HourRow(x, held[s], pauses[s]) /\ Sound(before) /\ before.status \in AllowedFrom[a]
      /\ before.startedAt = x.startedAt
      /\ before.status \in AtDesk => RoundedUp(before.pausedHours, held[s], pauses[s])
  BY <1>1 DEF Clocked, GoodJob, Houred, HourJob
<1>3. x.pausedAt \in Time /\ x.startedAt \in Time
  BY <1>1, RowFields
<1>4. CASE a = "requestCorrection"
  <2>1. x.status \in AtDesk
    BY <1>1, <1>4 DEF AllowedFrom, AtDesk
  <2>2. new = [x EXCEPT !.status = "NEEDS_CORRECTION", !.pausedAt = clock,
                        !.elapsed = Elapsed(before), !.sla = "PAUSED"]
    BY <1>4 DEF Decided, Result
  <2>3. /\ new.status = "NEEDS_CORRECTION" /\ new.pausedAt = clock
        /\ new.startedAt = x.startedAt /\ new.pausedHours = x.pausedHours
    <3>. HIDE DEF x, new
    <3>. QED BY <1>1, <2>2 DEF Row
  <2>4. RoundedUp(x.pausedHours, held[s], pauses[s]) /\ x.startedAt + held[s] <= clock
    BY <1>2, <2>1 DEF HourRow
  <2>. HIDE DEF new, x
  <2>5. HourRow(new, held[s], pauses[s])
    BY <1>1, <2>3, <2>4 DEF HourRow, PausesOver, AtDesk
  <2>. QED BY <2>5 DEF x, new
<1>5. CASE a \in {"complete", "reject"}
  <2>1. PICK f \in {"COMPLETED", "REJECTED"} : Result[a] = f /\ (f = "COMPLETED" => a = "complete")
    BY <1>5 DEF Result
  <2>2. new = [x EXCEPT !.status = f, !.stoppedAt = clock,
                        !.elapsed = Elapsed(before), !.sla = "COMPLETED"]
    <3>1. f # "NEEDS_CORRECTION"
      BY <2>1
    <3>. HIDE DEF a, before, x
    <3>. QED BY <2>1, <3>1 DEF Decided
  <2>3. /\ new.status = f /\ new.stoppedAt = clock /\ new.startedAt = x.startedAt
        /\ new.elapsed = Elapsed(before)
    <3>. HIDE DEF x, new, before
    <3>. QED BY <1>1, <2>2 DEF Row
  <2>4. x.startedAt + held[s] <= clock
    BY <1>2 DEF HourRow
  <2>5. ASSUME f = "COMPLETED"
        PROVE  /\ Elapsed(before) * Hour < clock - x.startedAt - held[s] + Hour
               /\ clock - x.startedAt - held[s] <= Elapsed(before) * Hour
                                                    + pauses[s] * (Hour - 1)
    <3>1. before.status \in AtDesk
      BY <1>2, <2>1, <2>5 DEF AllowedFrom, AtDesk
    <3>2. before.startedAt # Never /\ RoundedUp(before.pausedHours, held[s], pauses[s])
      BY <1>2, <3>1 DEF Sound
    <3>3. before.pausedHours \in Nat /\ Elapsed(before) \in Nat
      BY <1>1, RowFields, ElapsedType
    <3>. HIDE DEF before, x
    <3>4. clock - x.startedAt \in Nat /\ held[s] <= clock - x.startedAt
      BY <1>1, <1>2, <1>3, <2>4, <3>2 DEF Time, Never
    <3>. QED BY <1>1, <1>2, <3>2, <3>3, <3>4, RestOfTheHours DEF Elapsed
  <2>. HIDE DEF new, x, before
  <2>6. HourRow(new, held[s], pauses[s])
    BY <2>1, <2>3, <2>4, <2>5 DEF HourRow, AtDesk
  <2>. QED BY <2>6 DEF x, new, before
<1>6. CASE a \in {"receive", "startVerification", "verify"}
  <2>1. Result[a] \in AtDesk /\ AllowedFrom[a] \subseteq AtDesk
    BY <1>6 DEF Result, AllowedFrom, AtDesk
  <2>2. new = [x EXCEPT !.status = Result[a], !.sla = SlaAtDesk(before)]
    BY <2>1 DEF Decided, AtDesk
  <2>3. /\ new.status = Result[a] /\ new.startedAt = x.startedAt
        /\ new.pausedHours = x.pausedHours
    <3>. HIDE DEF x, new, before
    <3>. QED BY <1>1, <2>2 DEF Row
  <2>4. RoundedUp(x.pausedHours, held[s], pauses[s]) /\ x.startedAt + held[s] <= clock
    BY <1>1, <1>2, <2>1 DEF HourRow
  <2>. HIDE DEF new, x
  <2>5. HourRow(new, held[s], pauses[s])
    BY <2>1, <2>3, <2>4 DEF HourRow, AtDesk
  <2>. QED BY <2>5 DEF x, new
<1>. QED BY <1>1, <1>4, <1>5, <1>6 DEF Desk

(* No pause is lost or counted twice, whatever the other requests did since *)
(* a row was read.                                                          *)
THEOREM HouredStep ==
  Types /\ Types' /\ TypeOKHistory /\ Clocked /\ Houred
    /\ [Next /\ Watch]_<<vars, history>> => Houred'
<1> SUFFICES ASSUME Types, Types', TypeOKHistory, Clocked, Houred,
                    [Next /\ Watch]_<<vars, history>>
             PROVE  Houred'
  OBVIOUS
<1>0. held' = held => pauses' = pauses
  <2>1. CASE Watch
    BY <2>1 DEF Watch, PauseBegins, TypeOKHistory
  <2>2. CASE UNCHANGED <<vars, history>>
    BY <2>2 DEF history
  <2>. QED BY <2>1, <2>2
<1>1. /\ TypeOK /\ row \in [Submission -> Row] /\ held \in [Submission -> Nat]
      /\ row' \in [Submission -> Row] /\ clock \in Nat
  BY BoundAssumption DEF Types, TypeOK
<1>2. Idle.op = "idle" /\ Idle.op \notin Desk \cup {"correct"}
  BY DEF Idle, Desk
<1>3. ASSUME NEW r \in Request, job[r].op # "idle" PROVE job[r].sub \in Submission
  BY <1>1, <1>3, JobFields
<1>4. ASSUME NEW r \in Request, NEW what, what.op \notin Desk \cup {"correct"},
             job' = [job EXCEPT ![r] = what]
      PROVE  \A q \in Request : job'[q] = job[q] \/ job'[q].op \notin Desk \cup {"correct"}
  BY <1>1, <1>4 DEF TypeOK
<1>5. ASSUME NEW s \in Submission, NEW new, row' = [row EXCEPT ![s] = new]
      PROVE  new \in Row
  <2>1. row'[s] = new
    BY <1>1, <1>5
  <2>. QED BY <1>1, <2>1
<1>6. ASSUME NEW s \in Submission, CreateDraft(s) PROVE Houred'
  <2>1. PICK v \in Service :
          row' = [row EXCEPT ![s] = [@ EXCEPT !.status = "DRAFT", !.service = v]]
    BY <1>1, <1>6 DEF CreateDraft, Row
  <2> DEFINE new == [row[s] EXCEPT !.status = "DRAFT", !.service = v]
  <2>2. new.status = "DRAFT" /\ new.startedAt = row[s].startedAt
    BY <1>1 DEF Row
  <2>3. row[s].status = "NONE" /\ HourRow(row[s], held[s], pauses[s])
    BY <1>6 DEF CreateDraft, Houred
  <2>4. row' = [row EXCEPT ![s] = new]
    BY <2>1
  <2>. HIDE DEF new
  <2>5. HourRow(new, held[s], pauses[s])
    BY <2>2, <2>3 DEF HourRow, AtDesk
  <2>. QED BY <1>0, <1>1, <1>5, <1>6, <2>3, <2>4, <2>5, RowHoured DEF CreateDraft, Unsent
<1>7. ASSUME NEW r \in Request, NEW s \in Submission, Begins(r, s) PROVE Houred'
  <2>1. ASSUME NEW what, HourJob(what), Begin(r, what) PROVE Houred'
    BY <1>0, <1>1, <2>1, JobHoured DEF Begin
  <2>2. ASSUME NEW what, what.op \notin Desk \cup {"correct"}, Begin(r, what) PROVE Houred'
    BY <2>1, <2>2 DEF HourJob
  <2>3. HourRow(row[s], held[s], pauses[s])
    BY DEF Houred
  <2>4. CASE BeginCorrection(r, s)
    <3> DEFINE what == [op |-> "correct", sub |-> s, before |-> row[s]]
    <3>1. what.op \notin Desk /\ what.before = row[s] /\ what.sub = s
      BY DEF Desk
    <3>2. row[s].status = "NEEDS_CORRECTION" /\ Begin(r, what)
      BY <2>4 DEF BeginCorrection
    <3>. HIDE DEF what
    <3>3. HourJob(what)
      BY <2>3, <3>1, <3>2 DEF HourJob, HourRow, PausesOver
    <3>. QED BY <2>1, <3>2, <3>3
  <2>5. ASSUME NEW a \in Desk \ {"complete"}, BeginDesk(r, a, s) PROVE Houred'
    <3> DEFINE what == [op |-> a, sub |-> s, before |-> row[s]]
    <3>1. what.op = a /\ what.op # "correct" /\ what.before = row[s] /\ what.sub = s
      BY DEF Desk
    <3>2. row[s].status \in AllowedFrom[a] /\ Begin(r, what)
      BY <2>5 DEF BeginDesk
    <3>3. row[s].status \notin Unsent
      BY <3>2 DEF AllowedFrom, Desk, AtDesk, Unsent
    <3>. HIDE DEF what
    <3>4. HourJob(what)
      BY <2>3, <3>1, <3>3 DEF HourJob, HourRow
    <3>. QED BY <2>1, <3>2, <3>4
  <2>6. CASE BeginSubmit(r, s)
    BY <2>2, <2>6 DEF BeginSubmit, Desk
  <2>7. CASE BeginCancel(r, s)
    BY <2>2, <2>7 DEF BeginCancel, Desk
  <2>8. CASE BeginUpdate(r, s)
    BY <2>2, <2>8 DEF BeginUpdate, Desk
  <2>9. CASE Assess(r, s)
    BY <2>2, <2>9 DEF Assess, Desk
  <2>10. CASE BeginUpload(r, s)
    BY <2>2, <2>10 DEF BeginUpload, Desk
  <2>. QED BY <1>7, <2>4, <2>5, <2>6, <2>7, <2>8, <2>9, <2>10 DEF Begins
<1>8. ASSUME NEW r \in Request, NEW s \in Submission, NEW new, Write(r, s, new),
             HourRow(new, held[s], pauses[s]),
             \/ row[s].status \in Unsent
             \/ new.startedAt = row[s].startedAt /\ new.status \notin Unsent
      PROVE  Houred'
  BY <1>0, <1>1, <1>2, <1>4, <1>5, <1>8, RowHoured DEF Write
<1>9. ASSUME NEW r \in Request, Submit(r) PROVE Houred'
  <2> DEFINE s == job[r].sub
             number == job[r].number
  <2>1. s \in Submission /\ row[s].status = "DRAFT"
    BY <1>1, <1>9, JobFields DEF Submit
  <2>2. PICK d \in number.day .. day :
          Write(r, s,
            [row[s] EXCEPT
               !.status = "SUBMITTED", !.number = number, !.submittedOn = d,
               !.startedAt = clock, !.dueAt = clock + Allowance,
               !.elapsed = 0, !.pausedHours = 0,
               !.pausedAt = Never, !.stoppedAt = Never, !.sla = "RUNNING"])
    BY <1>9 DEF Submit
  <2> DEFINE new == [row[s] EXCEPT
                       !.status = "SUBMITTED", !.number = number, !.submittedOn = d,
                       !.startedAt = clock, !.dueAt = clock + Allowance,
                       !.elapsed = 0, !.pausedHours = 0,
                       !.pausedAt = Never, !.stoppedAt = Never, !.sla = "RUNNING"]
  <2>3. new.status = "SUBMITTED" /\ new.startedAt = clock /\ new.pausedHours = 0
    BY <1>1, <2>1 DEF Row
  <2>4. held[s] = 0
    BY <2>1 DEF Clocked, GoodRow, Unsent
  <2>. HIDE DEF new
  <2>5. RoundedUp(0, 0, pauses[s])
    <3>1. pauses[s] \in Nat /\ pauses[s] * (Hour - 1) \in Nat
      BY <2>1, BoundAssumption DEF TypeOKHistory
    <3>. QED BY <3>1, BoundAssumption DEF RoundedUp
  <2>7. HourRow(new, held[s], pauses[s])
    BY <1>1, <2>3, <2>4, <2>5 DEF HourRow, AtDesk
  <2>6. Write(r, s, new)
    BY <2>2 DEF new
  <2>. QED BY <1>8, <2>1, <2>7, <2>6 DEF Unsent
<1>10. ASSUME NEW r \in Request, Cancel(r) PROVE Houred'
  <2> DEFINE s == job[r].sub
             new == [row[s] EXCEPT !.status = "CANCELLED", !.stoppedAt = clock,
                                   !.sla = "CANCELLED"]
  <2>1. s \in Submission /\ Write(r, s, new) /\ HourRow(row[s], held[s], pauses[s])
    BY <1>3, <1>10 DEF Cancel, Houred
  <2>2. new.status = "CANCELLED" /\ new.startedAt = row[s].startedAt
    <3>. HIDE DEF s
    <3>. QED BY <1>1, <2>1 DEF Row
  <2>. HIDE DEF new
  <2>3. HourRow(new, held[s], pauses[s])
    BY <2>1, <2>2 DEF HourRow, AtDesk
  <2>. QED BY <1>8, <2>1, <2>2, <2>3 DEF Unsent
<1>11. ASSUME NEW r \in Request, SubmitCorrection(r) PROVE Houred'
  <2> DEFINE s == job[r].sub
             before == job[r].before
             pause == IF before.pausedAt = Never THEN 0 ELSE clock - before.pausedAt
             due == IF before.dueAt = Never THEN Never ELSE before.dueAt + pause
             run == SlaAtDesk([before EXCEPT !.pausedAt = Never, !.dueAt = due])
             hours == before.pausedHours + WholeHours(pause)
             new == [row[s] EXCEPT
                       !.status = "CORRECTION_SUBMITTED", !.pausedAt = Never,
                       !.pausedHours = hours, !.dueAt = due, !.sla = run]
  <2>1. /\ s \in Submission /\ row[s] \in Row /\ Write(r, s, new)
        /\ HourRow(row[s], held[s], pauses[s]) /\ job[r].op = "correct"
    BY <1>1, <1>3, <1>11 DEF SubmitCorrection, Houred
  <2>2. RoundedUp(hours, held[s], pauses[s])
    <3>1. /\ Accounts(before, row[s].startedAt, held[s])
          /\ PausesOver(before, held[s], pauses[s])
      BY <2>1 DEF Clocked, GoodJob, Houred, HourJob
    <3>2. before.pausedAt # Never
      BY <3>1 DEF Accounts
    <3>3. /\ before \in Row /\ before.pausedAt <= clock
          /\ held[s] \in Nat /\ pauses[s] \in Nat
      BY <1>1, <2>1, JobFields DEF Types, PastPauses, TypeOKHistory
    <3>4. before.pausedAt \in Nat /\ before.pausedHours \in Nat
      BY <3>2, <3>3, RowFields DEF Time
    <3>5. pause = clock - before.pausedAt /\ pause \in Nat
      BY <1>1, <3>2, <3>3, <3>4
    <3>6. /\ pause = 0 => RoundedUp(before.pausedHours, held[s], pauses[s])
          /\ pause # 0 => RoundedUp(before.pausedHours, held[s] - pause, pauses[s] - 1)
      <4>. HIDE DEF pause, before, s
      <4>. QED BY <1>1, <3>1, <3>4, <3>5 DEF PausesOver
    <3>. HIDE DEF pause, before, s
    <3>. QED BY <3>3, <3>4, <3>5, <3>6, OnePauseMore
  <2>3. /\ new.status = "CORRECTION_SUBMITTED" /\ new.pausedHours = hours
        /\ new.startedAt = row[s].startedAt
    <3>. HIDE DEF s, due, hours, run
    <3>. QED BY <2>1 DEF Row
  <2>. HIDE DEF new, hours
  <2>4. HourRow(new, held[s], pauses[s])
    BY <2>1, <2>2, <2>3 DEF HourRow, AtDesk
  <2>. QED BY <1>8, <2>1, <2>3, <2>4 DEF Unsent
<1>12. ASSUME NEW r \in Request, Update(r) PROVE Houred'
  <2> DEFINE s == job[r].sub
             new == [row[s] EXCEPT !.service = job[r].service]
  <2>1. s \in Submission /\ Write(r, s, new) /\ HourRow(row[s], held[s], pauses[s])
    BY <1>3, <1>12 DEF Update, Houred
  <2>2. /\ new.status = row[s].status /\ new.startedAt = row[s].startedAt
        /\ new.pausedHours = row[s].pausedHours /\ new.pausedAt = row[s].pausedAt
        /\ new.elapsed = row[s].elapsed /\ new.stoppedAt = row[s].stoppedAt
    <3>. HIDE DEF s
    <3>. QED BY <1>1, <2>1 DEF Row
  <2>. HIDE DEF new
  <2>3. HourRow(new, held[s], pauses[s])
    BY <2>1, <2>2 DEF HourRow, PausesOver
  <2>. QED BY <1>8, <2>1, <2>2, <2>3
<1>13. ASSUME NEW r \in Request, BeginComplete(r) PROVE Houred'
  <2> DEFINE s == job[r].sub
             what == [op |-> "complete", sub |-> s, before |-> row[s],
                      override |-> job[r].override]
  <2>1. /\ s \in Submission /\ row[s].status \in {"VERIFIED", "IN_VERIFICATION"}
        /\ job' = [job EXCEPT ![r] = what] /\ UNCHANGED <<row, held, clock>>
    BY <1>3, <1>13 DEF BeginComplete, AllowedFrom
  <2>2. what.op = "complete" /\ what.before = row[s] /\ what.sub = s /\ HourRow(row[s], held[s], pauses[s])
    BY <2>1 DEF Houred
  <2>. HIDE DEF what
  <2>3. HourJob(what)
    BY <2>1, <2>2 DEF HourJob, HourRow, Unsent
  <2>. QED BY <1>0, <1>1, <2>1, <2>3, JobHoured
<1>14. ASSUME NEW r \in Request, Decide(r) PROVE Houred'
  <2> DEFINE s == job[r].sub
             new == Decided(job[r].op, row[s], job[r].before)
             what == IF job[r].op = "complete" THEN [op |-> "candidate", sub |-> s] ELSE Idle
  <2>1. s \in Submission
    BY <1>3, <1>14 DEF Decide, Desk
  <2>2. /\ HourRow(new, held[s], pauses[s])
        /\ new.startedAt = row[s].startedAt /\ new.status \notin Unsent
    BY <1>14, DecidedIsGood, DecidedHours
  <2>3. what.op \notin Desk \cup {"correct"}
    BY <1>2 DEF Desk
  <2>4. /\ row' = [row EXCEPT ![s] = new] /\ job' = [job EXCEPT ![r] = what]
        /\ held' = held /\ clock' = clock
    BY <1>14 DEF Decide
  <2>. HIDE DEF new, what
  <2>. QED BY <1>0, <1>1, <1>4, <1>5, <2>1, <2>2, <2>3, <2>4, RowHoured
<1>15. ASSUME NEW r \in Request,
              GenerateCandidate(r) \/ Refused(r) \/ RequestFails(r) \/ Upload(r)
       PROVE  Houred'
  <2>1. job' = [job EXCEPT ![r] = Idle] /\ UNCHANGED <<row, held, clock>>
    BY <1>15 DEF GenerateCandidate, Refused, RequestFails, Upload
  <2>2. HourJob(Idle)
    BY <1>2 DEF HourJob
  <2>. QED BY <1>0, <1>1, <2>1, <2>2, JobHoured
<1>16. CASE Tick /\ Watch
  <2>1. /\ row' = row /\ job' = job /\ clock' = clock + 1
        /\ \A r \in Request : job[r] = Idle
    BY <1>16 DEF Tick
  <2>2. \A r \in Request : HourJob(job[r])'
    BY <1>2, <2>1 DEF HourJob
  <2>3. ASSUME NEW s \in Submission PROVE HourRow(row[s], held[s], pauses[s])'
    <3>1. /\ HourRow(row[s], held[s], pauses[s]) /\ row[s] \in Row
          /\ held[s] \in Nat /\ pauses[s] \in Nat /\ row[s].pausedAt <= clock
      BY <1>1 DEF Houred, TypeOKHistory, Types, PastPauses
    <3>2. row[s].startedAt \in Int /\ row[s].pausedAt \in Int /\ row[s].pausedHours \in Nat
      BY <3>1, RowFields DEF Time, Never
    <3>3. CASE row[s].status = "NEEDS_CORRECTION"
      <4>1. held'[s] = held[s] + 1
        BY <1>16, <3>3 DEF Tick
      <4>2. pauses'[s] = IF row[s].pausedAt = clock THEN pauses[s] + 1 ELSE pauses[s]
        BY <1>16, <3>1, <4>1 DEF Watch, PauseBegins
      <4>3. PausesOver(row[s], held[s], pauses[s])
        BY <3>1, <3>3 DEF HourRow
      <4>4. PausesOver(row[s], held[s], pauses[s])'
        <5>1. clock' # row'[s].pausedAt
          BY <1>1, <2>1, <3>1, <3>2
        <5>2. RoundedUp(row[s].pausedHours, held[s] + 1 - (clock + 1 - row[s].pausedAt),
                      pauses'[s] - 1)
          <6>1. CASE row[s].pausedAt = clock
            <7>1. /\ held[s] + 1 - (clock + 1 - row[s].pausedAt) = held[s]
                  /\ pauses'[s] - 1 = pauses[s]
              BY <1>1, <3>1, <4>2, <6>1
            <7>2. RoundedUp(row[s].pausedHours, held[s], pauses[s])
              BY <4>3, <6>1 DEF PausesOver
            <7>. QED BY <7>1, <7>2
          <6>2. CASE row[s].pausedAt # clock
            <7>1. /\ held[s] + 1 - (clock + 1 - row[s].pausedAt)
                        = held[s] - (clock - row[s].pausedAt)
                  /\ pauses'[s] - 1 = pauses[s] - 1
              BY <1>1, <3>1, <3>2, <4>2, <6>2
            <7>2. RoundedUp(row[s].pausedHours, held[s] - (clock - row[s].pausedAt),
                          pauses[s] - 1)
              BY <4>3, <6>2 DEF PausesOver
            <7>. QED BY <7>1, <7>2
          <6>. QED BY <6>1, <6>2
        <5>3. Hour \in Nat /\ pauses'[s] \in Nat
          BY <3>1, <4>2, BoundAssumption
        <5>. QED
          BY <1>1, <2>1, <3>1, <3>2, <4>1, <5>1, <5>2, <5>3 DEF PausesOver, RoundedUp
      <4>5. row'[s].startedAt + held'[s] <= clock'
        BY <1>1, <2>1, <3>1, <3>2, <4>1 DEF HourRow
      <4>. QED BY <2>1, <3>3, <4>4, <4>5 DEF HourRow, AtDesk
    <3>4. CASE row[s].status # "NEEDS_CORRECTION"
      <4>1. held'[s] = held[s]
        BY <1>16, <3>4 DEF Tick
      <4>2. pauses'[s] = pauses[s]
        BY <1>16, <4>1 DEF Watch, PauseBegins
      <4>. QED BY <1>1, <2>1, <3>1, <3>2, <3>4, <4>1, <4>2 DEF HourRow, RoundedUp
    <3>. QED BY <3>3, <3>4
  <2>. QED BY <2>2, <2>3 DEF Houred
<1>17. ASSUME UNCHANGED <<row, held, clock, job>> PROVE Houred'
  BY <1>0, <1>17 DEF Houred, HourRow, HourJob, PausesOver
<1>18. ASSUME NEW s \in Submission, UploadInternal(s) \/ ReviewDocument(s) PROVE Houred'
  BY <1>17, <1>18 DEF UploadInternal, ReviewDocument
<1>19. CASE Midnight \/ UNCHANGED vars
  BY <1>17, <1>19 DEF Midnight, vars
<1>. QED
  BY <1>6, <1>7, <1>9, <1>10, <1>11, <1>12, <1>13, <1>14, <1>15, <1>16, <1>18, <1>19
  DEF Next, Ends

\* What is watched keeps its types.
LEMMA HistoryTypes ==
  ASSUME TypeOKHistory, [Next /\ Watch]_<<vars, history>>
  PROVE  TypeOKHistory'
<1>1. CASE Watch
  BY <1>1 DEF Watch, TypeOKHistory
<1>2. CASE UNCHANGED <<vars, history>>
  BY <1>2 DEF history, TypeOKHistory
<1>. QED BY <1>1, <1>2

LEMMA WatchedIsSpec == WatchedSpec => Spec
<1>1. WatchedInit => Init
  BY DEF WatchedInit
<1>2. [Next /\ Watch]_<<vars, history>> => [Next]_vars
  OBVIOUS
<1>. QED BY <1>1, <1>2, PTL DEF WatchedSpec, Spec

(* The hours recorded for a completed submission are those it spent at the   *)
(* desk, but for rounding, also when requests overlap: CompletedHours of the *)
(* run opd, for any number of requests under way and any length of the hour. *)
THEOREM HoursAreRight == WatchedSpec => []CompletedHours
<1>1. WatchedInit => Houred /\ TypeOKHistory
  <2> SUFFICES ASSUME WatchedInit PROVE Houred /\ TypeOKHistory
    OBVIOUS
  <2>1. EmptyRow.status = "NONE" /\ EmptyRow.startedAt = Never /\ Idle.op = "idle"
    BY DEF EmptyRow, Idle
  <2>. QED
    BY <2>1 DEF WatchedInit, Init, Houred, HourRow, HourJob, AtDesk, Desk, Never, TypeOKHistory
<1>2. Houred => CompletedHours
  BY DEF Houred, HourRow, CompletedHours, TimeAtDesk
<1>3. Types /\ Types' /\ Clocked /\ TypeOKHistory /\ Houred
        /\ [Next /\ Watch]_<<vars, history>> => Houred' /\ TypeOKHistory'
  BY HouredStep, HistoryTypes
<1>4. WatchedSpec => [](Types /\ Clocked)
  BY WatchedIsSpec, ClockedAlways, PTL
<1>. QED BY <1>1, <1>2, <1>3, <1>4, PTL DEF WatchedSpec

-----------------------------------------------------------------------------
(* The refinement of SubmissionFlow.                                         *)

\* What a request that will not look again has found is still so.
Minded(j) ==
  j.op \in DOMAIN Found /\ j.sub \notin crossed => row[j.sub].status \in Found[j.op]

Minding == \A r \in Request : Minded(job[r])

Phases == [s \in Submission |-> IF s \in crossed THEN "left" ELSE PhaseOf(row[s].status)]
Opened == {s \in Submission \ crossed : siapCases[s] > 0}

\* The requests that look again, or start from what they see, or go on.
LEMMA MindingStep ==
  ASSUME Types, Minding, Watch,
         \A r \in Request :
           \/ job'[r] = job[r]
           \/ job'[r].op \notin {"cancel", "correct"}
           \/ row'[job'[r].sub].status \in Found[job'[r].op]
  PROVE  Minding'
<1>1. DOMAIN Found = {"cancel", "correct"}
  BY DEF Found
<1>2. ASSUME NEW r \in Request PROVE Minded(job[r])'
  <2>1. CASE job'[r] = job[r] /\ job[r].op \in DOMAIN Found
    <3>1. job[r].sub \in Submission
      BY <1>1, <2>1, JobFields DEF Types
    <3>2. Crosses(r, job[r].sub) => job[r].sub \in crossed'
      BY <3>1 DEF Watch
    <3>. QED BY <2>1, <3>2 DEF Minded, Crosses
  <2>2. CASE job'[r].op \notin DOMAIN Found
    BY <2>2 DEF Minded
  <2>3. CASE row'[job'[r].sub].status \in Found[job'[r].op]
    BY <2>3 DEF Minded
  <2>. QED BY <1>1, <2>1, <2>2, <2>3
<1>. QED BY <1>2 DEF Minding

\* Whoever does not move does not leave.
LEMMA StayersStay ==
  ASSUME Types, Minding, Watch, NEW s \in Submission, row'[s] = row[s]
  PROVE  s \in crossed' <=> s \in crossed
<1>1. ASSUME s \notin crossed, NEW r \in Request, Crosses(r, s) PROVE FALSE
  <2>1. job[r].op \in DOMAIN Found /\ job[r].sub = s /\ row[s].status \notin Found[job[r].op]
    BY <1>1 DEF Crosses
  <2>. QED BY <1>1, <2>1 DEF Minding, Minded
<1>. QED BY <1>1 DEF Watch

\* The row of one submission is written, and no other's.
OnlyRow(s) ==
  \A t \in Submission \ {s} : row'[t] = row[t] /\ siapCases'[t] = siapCases[t]

\* It is written as the promise allows, if it was and is not to leave.
AsPromised(s) ==
  LET from == PhaseOf(row[s].status)
      to == PhaseOf(row'[s].status)
  IN  \/ /\ siapCases'[s] = siapCases[s]
         /\ \/ from = to
            \/ from \in {"draft", "desk", "opd"} /\ to = "closed"
            \/ from = "desk" /\ to = "opd"
            \/ from = "opd" /\ to = "desk"
      \/ siapCases'[s] > 0 /\ from = "draft" /\ to = "desk"

LEMMA OneMoves ==
  ASSUME Types, Minding, Watch, NEW s \in Submission, OnlyRow(s),
         s \notin crossed' => AsPromised(s)
  PROVE  [Promise!Next]_(Promise!vars)
<1> DEFINE from == PhaseOf(row[s].status)
           to == PhaseOf(row'[s].status)
<1>1. \A t \in Submission \ {s} : t \in crossed' <=> t \in crossed
  BY StayersStay DEF OnlyRow
<1>2. crossed \subseteq crossed'
  BY DEF Watch
<1>3. \A t \in Submission \ {s} : Phases'[t] = Phases[t] /\ (t \in Opened' <=> t \in Opened)
  BY <1>1 DEF OnlyRow, Phases, Opened
<1>4. CASE s \in crossed
  <2>1. s \notin Opened /\ s \notin Opened' /\ Phases'[s] = Phases[s]
    BY <1>2, <1>4 DEF Phases, Opened
  <2>2. Opened' = Opened /\ Phases' = Phases
    BY <1>3, <2>1 DEF Opened, Phases
  <2>. QED BY <2>2 DEF Promise!vars, Phases, Opened
<1>5. CASE s \notin crossed /\ s \in crossed'
  <2>1. Phases[s] # "left" /\ Phases'[s] = "left" /\ s \notin Opened'
    BY <1>5 DEF Phases, Opened, PhaseOf
  <2>2. Phases' = [Phases EXCEPT ![s] = "left"] /\ Opened' = Opened \ {s}
    BY <1>3, <2>1 DEF Opened, Phases
  <2>3. Promise!Leave(s)
    BY <2>1, <2>2 DEF Promise!Leave, Phases, Opened
  <2>. QED BY <2>3 DEF Promise!Next
<1>6. CASE s \notin crossed'
  <2>1. /\ s \notin crossed /\ AsPromised(s)
        /\ Phases[s] = from /\ Phases'[s] = to
    BY <1>2, <1>6 DEF Phases
  <2>2. Phases' = [Phases EXCEPT ![s] = to]
    BY <1>3, <2>1 DEF Phases
  <2>3. s \in Opened <=> siapCases[s] > 0
    BY <2>1 DEF Opened
  <2>4. s \in Opened' <=> siapCases'[s] > 0
    BY <1>6 DEF Opened
  <2>5. siapCases'[s] = siapCases[s] => Opened' = Opened
    BY <1>3, <2>3, <2>4 DEF Opened
  <2>6. siapCases'[s] > 0 => Opened' = Opened \cup {s}
    BY <1>3, <2>4 DEF Opened
  <2>. HIDE DEF from, to
  <2>7. CASE siapCases'[s] = siapCases[s] /\ from = to
    <3>1. Phases' = Phases
      BY <2>1, <2>2, <2>7 DEF Phases
    <3>. QED BY <2>5, <2>7, <3>1 DEF Promise!vars, Phases, Opened
  <2>8. CASE /\ siapCases'[s] = siapCases[s]
             /\ from \in {"draft", "desk", "opd"} /\ to = "closed"
    <3>1. Promise!Pass(s, from, "closed") /\ from \in Promise!Phase \ {"closed", "left"}
      BY <2>1, <2>2, <2>5, <2>8 DEF Promise!Pass, Promise!Phase, Phases, Opened
    <3>. QED BY <3>1 DEF Promise!Next
  <2>9. CASE siapCases'[s] = siapCases[s] /\ from = "desk" /\ to = "opd"
    <3>1. Promise!Pass(s, "desk", "opd")
      BY <2>1, <2>2, <2>5, <2>9 DEF Promise!Pass, Phases, Opened
    <3>. QED BY <3>1 DEF Promise!Next
  <2>10. CASE siapCases'[s] = siapCases[s] /\ from = "opd" /\ to = "desk"
    <3>1. Promise!Pass(s, "opd", "desk")
      BY <2>1, <2>2, <2>5, <2>10 DEF Promise!Pass, Phases, Opened
    <3>. QED BY <3>1 DEF Promise!Next
  <2>11. CASE siapCases'[s] > 0 /\ from = "draft" /\ to = "desk"
    <3>1. Promise!Send(s)
      BY <2>1, <2>2, <2>6, <2>11 DEF Promise!Send, Phases, Opened
    <3>. QED BY <3>1 DEF Promise!Next
  <2>. QED BY <2>1, <2>7, <2>8, <2>9, <2>10, <2>11 DEF AsPromised, from, to
<1>. QED BY <1>4, <1>5, <1>6

(* Every step is a step of the promise or none, and what the requests have   *)
(* found stays so for the submissions that have not left.                    *)
LEMMA PromiseStep ==
  ASSUME Types, Minding, Next, Watch
  PROVE  Minding' /\ [Promise!Next]_(Promise!vars)
<1>1. TypeOK /\ row \in [Submission -> Row] /\ siapCases \in [Submission -> Nat]
  BY DEF Types, TypeOK
<1>2. ASSUME NEW r \in Request, job[r].op # "idle" PROVE job[r].sub \in Submission
  BY <1>1, <1>2, JobFields
<1>3. ASSUME NEW r \in Request, NEW what, job' = [job EXCEPT ![r] = what],
             \/ what.op \notin {"cancel", "correct"}
             \/ row'[what.sub].status \in Found[what.op]
      PROVE  Minding'
  BY <1>1, <1>3, MindingStep DEF TypeOK
<1>4. ASSUME NEW r \in Request, job' = [job EXCEPT ![r] = Idle]
      PROVE  Minding'
  BY <1>3, <1>4 DEF Idle
<1>5. ASSUME UNCHANGED <<row, siapCases>> PROVE [Promise!Next]_(Promise!vars)
  <2>1. \A s \in Submission : s \in crossed' <=> s \in crossed
    BY <1>5, StayersStay
  <2>2. Phases' = Phases /\ Opened' = Opened
    BY <1>5, <2>1 DEF Phases, Opened
  <2>. QED BY <2>2 DEF Promise!vars, Phases, Opened
<1>6. ASSUME NEW r \in Request, NEW s \in Submission, NEW new, Write(r, s, new),
             siapCases' = siapCases,
             s \notin crossed =>
               LET from == PhaseOf(row[s].status)
                   to == PhaseOf(new.status)
               IN  \/ from = to
                   \/ from \in {"draft", "desk", "opd"} /\ to = "closed"
                   \/ from = "desk" /\ to = "opd"
                   \/ from = "opd" /\ to = "desk"
      PROVE  Minding' /\ [Promise!Next]_(Promise!vars)
  <2>1. row'[s] = new /\ OnlyRow(s) /\ crossed \subseteq crossed'
    BY <1>1, <1>6 DEF Write, OnlyRow, Watch
  <2>2. s \notin crossed' => AsPromised(s)
    BY <1>6, <2>1 DEF AsPromised
  <2>. QED BY <1>4, <1>6, <2>1, <2>2, OneMoves DEF Write
<1>7. ASSUME NEW s \in Submission, CreateDraft(s)
      PROVE  Minding' /\ [Promise!Next]_(Promise!vars)
  <2>1. PICK v \in Service :
          row' = [row EXCEPT ![s] = [@ EXCEPT !.status = "DRAFT", !.service = v]]
    BY <1>1, <1>7 DEF CreateDraft, Row
  <2>2. row'[s].status = "DRAFT" /\ row[s].status = "NONE" /\ siapCases' = siapCases
    BY <1>1, <1>7, <2>1 DEF CreateDraft, Row
  <2>3. OnlyRow(s) /\ AsPromised(s)
    BY <1>1, <2>1, <2>2 DEF OnlyRow, AsPromised, PhaseOf
  <2>. QED BY <1>7, <2>3, OneMoves, MindingStep DEF CreateDraft
<1>8. ASSUME NEW r \in Request, Submit(r)
      PROVE  Minding' /\ [Promise!Next]_(Promise!vars)
  <2>1. PICK s \in Submission : s = job[r].sub
    BY <1>2, <1>8 DEF Submit
  <2>2. row[s].status = "DRAFT" /\ siapCases' = [siapCases EXCEPT ![s] = @ + 1]
    BY <1>8, <2>1 DEF Submit
  <2>3. row'[s].status = "SUBMITTED" /\ \A t \in Submission \ {s} : row'[t] = row[t]
    BY <1>1, <1>8, <2>1 DEF Submit, Write, Row
  <2>4. siapCases'[s] > 0
    BY <1>1, <2>2
  <2>5. OnlyRow(s) /\ AsPromised(s)
    BY <1>1, <2>2, <2>3, <2>4 DEF OnlyRow, AsPromised, PhaseOf, AtDesk
  <2>. QED BY <1>4, <1>8, <2>5, OneMoves DEF Submit, Write
<1>9. ASSUME NEW r \in Request, job[r].op \in DOMAIN Found, job[r].sub \notin crossed
      PROVE  row[job[r].sub].status \in Found[job[r].op]
  BY <1>9 DEF Minding, Minded
<1>10. ASSUME NEW r \in Request, Cancel(r)
       PROVE  Minding' /\ [Promise!Next]_(Promise!vars)
  <2> DEFINE s == job[r].sub
             new == [row[s] EXCEPT !.status = "CANCELLED", !.stoppedAt = clock,
                                   !.sla = "CANCELLED"]
  <2>1. s \in Submission /\ Write(r, s, new) /\ siapCases' = siapCases
    BY <1>2, <1>10 DEF Cancel
  <2>2. new.status = "CANCELLED"
    BY <1>1, <2>1 DEF Row
  <2>3. s \notin crossed => row[s].status \in {"DRAFT", "SUBMITTED"}
    BY <1>9, <1>10 DEF Cancel, Found
  <2>. HIDE DEF new
  <2>. QED BY <1>6, <2>1, <2>2, <2>3 DEF PhaseOf, AtDesk
<1>11. ASSUME NEW r \in Request, SubmitCorrection(r)
       PROVE  Minding' /\ [Promise!Next]_(Promise!vars)
  <2> DEFINE s == job[r].sub
             before == job[r].before
             pause == IF before.pausedAt = Never THEN 0 ELSE clock - before.pausedAt
             due == IF before.dueAt = Never THEN Never ELSE before.dueAt + pause
             run == SlaAtDesk([before EXCEPT !.pausedAt = Never, !.dueAt = due])
             hours == before.pausedHours + WholeHours(pause)
             new == [row[s] EXCEPT
                       !.status = "CORRECTION_SUBMITTED", !.pausedAt = Never,
                       !.pausedHours = hours, !.dueAt = due, !.sla = run]
  <2>1. s \in Submission /\ Write(r, s, new) /\ siapCases' = siapCases
    BY <1>2, <1>11 DEF SubmitCorrection
  <2>2. new.status = "CORRECTION_SUBMITTED"
    <3>. HIDE DEF s, due, hours, run
    <3>. QED BY <1>1, <2>1 DEF Row
  <2>3. s \notin crossed => row[s].status = "NEEDS_CORRECTION"
    BY <1>9, <1>11 DEF SubmitCorrection, Found
  <2>. HIDE DEF new
  <2>. QED BY <1>6, <2>1, <2>2, <2>3 DEF PhaseOf, AtDesk
<1>12. ASSUME NEW r \in Request, Update(r)
       PROVE  Minding' /\ [Promise!Next]_(Promise!vars)
  <2> DEFINE s == job[r].sub
             new == [row[s] EXCEPT !.service = job[r].service]
  <2>1. s \in Submission /\ Write(r, s, new) /\ siapCases' = siapCases
    BY <1>2, <1>12 DEF Update
  <2>2. new.status = row[s].status
    <3>. HIDE DEF s
    <3>. QED BY <1>1, <2>1 DEF Row
  <2>. HIDE DEF new
  <2>. QED BY <1>6, <2>1, <2>2
<1>13. ASSUME NEW r \in Request, Decide(r)
       PROVE  Minding' /\ [Promise!Next]_(Promise!vars)
  <2> DEFINE s == job[r].sub
             a == job[r].op
             before == job[r].before
             new == Decided(a, row[s], before)
  <2>1. /\ s \in Submission /\ a \in Desk /\ row[s].status \in AllowedFrom[a]
        /\ row' = [row EXCEPT ![s] = new] /\ siapCases' = siapCases
    BY <1>2, <1>13 DEF Decide, Desk
  <2>2. new.status = Result[a]
    <3>1. row[s] \in Row
      BY <1>1, <2>1
    <3>. HIDE DEF s, a, before
    <3>. QED BY <3>1 DEF Decided, Row
  <2>. HIDE DEF new
  <2>3. /\ \/ PhaseOf(row[s].status) = "desk"
           \/ PhaseOf(row[s].status) = "opd" /\ a = "reject"
        /\ PhaseOf(Result[a]) = IF a = "requestCorrection" THEN "opd"
                                ELSE IF a \in {"reject", "complete"} THEN "closed" ELSE "desk"
    BY <2>1 DEF AllowedFrom, Result, PhaseOf, AtDesk, Desk
  <2>4. row'[s] = new /\ OnlyRow(s)
    BY <1>1, <2>1 DEF OnlyRow
  <2>5. AsPromised(s)
    BY <2>1, <2>2, <2>3, <2>4 DEF AsPromised
  <2>6. Minding'
    <3> DEFINE what == IF a = "complete" THEN [op |-> "candidate", sub |-> s] ELSE Idle
    <3>1. what.op \notin {"cancel", "correct"}
      BY DEF Idle
    <3>2. job' = [job EXCEPT ![r] = what]
      BY <1>13 DEF Decide
    <3>. HIDE DEF what
    <3>. QED BY <1>3, <3>1, <3>2
  <2>. QED BY <2>1, <2>4, <2>5, <2>6, OneMoves
<1>14. ASSUME NEW r \in Request, BeginComplete(r)
       PROVE  Minding' /\ [Promise!Next]_(Promise!vars)
  <2> DEFINE what == [op |-> "complete", sub |-> job[r].sub, before |-> row[job[r].sub],
                      override |-> job[r].override]
  <2>1. what.op = "complete"
    OBVIOUS
  <2>2. job' = [job EXCEPT ![r] = what] /\ UNCHANGED <<row, siapCases>>
    BY <1>14 DEF BeginComplete
  <2>. HIDE DEF what
  <2>. QED BY <1>3, <1>5, <2>1, <2>2
<1>15. ASSUME NEW r \in Request,
              GenerateCandidate(r) \/ Refused(r) \/ RequestFails(r) \/ Upload(r)
       PROVE  Minding' /\ [Promise!Next]_(Promise!vars)
  <2>1. job' = [job EXCEPT ![r] = Idle] /\ UNCHANGED <<row, siapCases>>
    BY <1>15 DEF GenerateCandidate, Refused, RequestFails, Upload
  <2>. QED BY <1>4, <1>5, <2>1
<1>16. ASSUME NEW r \in Request, NEW s \in Submission, Begins(r, s)
       PROVE  Minding' /\ [Promise!Next]_(Promise!vars)
  <2>1. ASSUME NEW what, Begin(r, what),
               \/ what.op \notin {"cancel", "correct"}
               \/ row[what.sub].status \in Found[what.op]
        PROVE  Minding' /\ [Promise!Next]_(Promise!vars)
    BY <1>3, <1>5, <2>1 DEF Begin
  <2>2. CASE BeginSubmit(r, s)
    BY <2>1, <2>2 DEF BeginSubmit
  <2>3. CASE BeginCancel(r, s)
    <3> DEFINE what == [op |-> "cancel", sub |-> s]
    <3>1. Begin(r, what) /\ row[s].status \in Found["cancel"]
      BY <2>3 DEF BeginCancel, Found
    <3>. QED BY <2>1, <3>1
  <2>4. CASE BeginCorrection(r, s)
    <3> DEFINE what == [op |-> "correct", sub |-> s, before |-> row[s]]
    <3>1. Begin(r, what) /\ row[s].status \in Found["correct"]
      BY <2>4 DEF BeginCorrection, Found
    <3>. QED BY <2>1, <3>1
  <2>5. CASE BeginUpdate(r, s)
    BY <2>1, <2>5 DEF BeginUpdate
  <2>6. CASE Assess(r, s)
    BY <2>1, <2>6 DEF Assess
  <2>7. CASE BeginUpload(r, s)
    BY <2>1, <2>7 DEF BeginUpload
  <2>8. ASSUME NEW a \in Desk \ {"complete"}, BeginDesk(r, a, s)
        PROVE  Minding' /\ [Promise!Next]_(Promise!vars)
    <3>1. a \notin {"cancel", "correct"}
      BY DEF Desk
    <3>. QED BY <2>1, <2>8, <3>1 DEF BeginDesk
  <2>. QED BY <1>16, <2>2, <2>3, <2>4, <2>5, <2>6, <2>7, <2>8 DEF Begins
<1>17. ASSUME UNCHANGED <<row, siapCases, job>>
       PROVE  Minding' /\ [Promise!Next]_(Promise!vars)
  BY <1>5, <1>17, MindingStep
<1>18. ASSUME NEW s \in Submission, UploadInternal(s) \/ ReviewDocument(s)
       PROVE  Minding' /\ [Promise!Next]_(Promise!vars)
  BY <1>17, <1>18 DEF UploadInternal, ReviewDocument
<1>19. CASE Tick \/ Midnight
  BY <1>17, <1>19 DEF Tick, Midnight
<1>. QED
  BY <1>7, <1>8, <1>10, <1>11, <1>12, <1>13, <1>14, <1>15, <1>16, <1>18, <1>19
  DEF Next, Ends

(* Submissions keep the promise of SubmissionFlow, however many requests     *)
(* overlap, each until it moves on under a request that will not look again: *)
(* KeepsPromise of the run opd.                                              *)
THEOREM PromiseKept == WatchedSpec => KeepsPromise
<1>1. WatchedInit => Promise!Init /\ Minding
  BY DEF WatchedInit, Init, Promise!Init, PhaseOf, EmptyRow, Minding, Minded, Idle, Found
<1>2. Types /\ Minding /\ [Next /\ Watch]_<<vars, history>>
        => Minding' /\ [Promise!Next]_(Promise!vars)
  <2> SUFFICES ASSUME Types, Minding, [Next /\ Watch]_<<vars, history>>
               PROVE  Minding' /\ [Promise!Next]_(Promise!vars)
    OBVIOUS
  <2>1. CASE Next /\ Watch
    BY <2>1, PromiseStep
  <2>2. CASE UNCHANGED <<vars, history>>
    BY <2>2 DEF vars, history, Minding, Minded, Promise!vars
  <2>. QED BY <2>1, <2>2
<1>3. WatchedSpec => []Types
  BY WatchedIsSpec, ClockedAlways, PTL
<1>. QED BY <1>1, <1>2, <1>3, PTL DEF WatchedSpec, KeepsPromise, Promise!Spec

=============================================================================

--------------------------- MODULE Reconciliation ---------------------------
(***************************************************************************)
(* The reconciliation of the staff register with the payroll of BPKAD      *)
(* (api/src/modules/reconciliation-bpkad), for one period.  A payroll file *)
(* is uploaded as a batch with its rows, a matching run compares a batch   *)
(* with the register and records findings, and a report (berita acara)     *)
(* states their number and is finalised.                                   *)
(*                                                                         *)
(* A call of runMatching checks that no run of the period is RUNNING,      *)
(* creates one and then races doMatching against five minutes.  After the  *)
(* timeout the call marks the run FAILED, but doMatching goes on.  Reports *)
(* are drawn up from the latest run, whatever its status.  A crash loses   *)
(* the calls; nothing looks after their runs at the next start.            *)
(*                                                                         *)
(* Left out: audit rows but for their failure, the following up of         *)
(* findings (patchFinding), the counts per code, the other fields of a     *)
(* finding, other periods, and missing columns, an issue of a batch like   *)
(* an invalid row.  Two names or units are the same here when nameSimil-   *)
(* arity or unitMatches takes them for the same; so are two kinds when     *)
(* jabatanCodeMatches does.                                                *)
(***************************************************************************)
EXTENDS Naturals, FiniteSets, Sequences

CONSTANTS
  Nip,         \* employees' numbers
  Register,    \* the active employees (table asn), a record by number
  File,        \* payroll files, each a sequence of rows
  None,        \* no number, or a field that is empty or not understood
  MaxBatches,  \* bound: batches, numbered in the order of createdAt
  MaxRuns,     \* bound: matching runs, numbered likewise
  ChunkSize,   \* chunkSize of rows and of findings, 500 in the code
  Uploader,    \* uploads at once
  MaxStarting, \* bound: calls of runMatching at once that have no run yet
  Drafter,     \* calls of createBeritaAcara at once
  MaxFaults    \* bound: failing statements and crashes

Batch == 1 .. MaxBatches
Run == 1 .. MaxRuns

\* What register and payroll both say of somebody.
Field == {"grade", "kind", "unit", "name"}
Row == [nip : Nip \cup {None}, stopped : BOOLEAN, adds : BOOLEAN,
        grade : STRING \cup {None}, kind : STRING \cup {None},
        unit : STRING \cup {None}, name : STRING \cup {None}]

ASSUME ReconciliationAssumption ==
  /\ {MaxBatches, MaxRuns, MaxStarting, MaxFaults} \subseteq Nat
  /\ ChunkSize \in Nat \ {0}
  /\ None \notin Nip /\ IsFiniteSet(Nip)
  /\ File \subseteq Seq(Row) \ {<<>>}
  /\ DOMAIN Register \subseteq Nip
  /\ \A n \in DOMAIN Register : Register[n].inactive \in BOOLEAN

VARIABLES
  batch,     \* ReconciliationImportBatch, with the rows it has so far
  run,       \* ReconciliationMatchingRun; read is what it has compared
  findings,  \* ReconciliationFinding, per run
  reports,   \* ReconciliationBeritaAcara, in the order of createdAt
  upload,    \* what each upload holds in memory
  starting,  \* calls of runMatching that found no run RUNNING and have none yet
  match,     \* what the call of runMatching that made a run holds in memory
  draft,     \* what each call of createBeritaAcara holds in memory
  closing,   \* the report whose finalisation has passed its check, or 0
  faults     \* faults so far

vars == <<batch, run, findings, reports, upload, starting, match, draft,
          closing, faults>>

Code == {"R01", "R02", "R03", "R04", "R05", "R06", "R08", "R09", "R10"}
\* row is the number of the row for codes about rows, else 0.
Finding == [code : Code, nip : Nip, row : Nat]
Report == [status : {"DRAFT", "FINALIZED"}, of : Run \cup {0}, total : Nat, sure : BOOLEAN]

NoBatch == [status |-> "NONE", file |-> <<>>, rows |-> 0]
NoRun == [status |-> "NONE", batch |-> 0, read |-> {}, total |-> 0]
NoUpload == [at |-> "idle", file |-> <<>>, of |-> 0]
NoMatch == [at |-> "idle", call |-> "idle", left |-> {}, count |-> 0]
NoDraft == [at |-> "idle", of |-> 0, total |-> 0, sure |-> FALSE, onto |-> 0]

AtWork == {"read", "insert", "audit"}

ImportBatch == [status : {"NONE", "VALIDATED", "HAS_ISSUES", "CANCELLED"},
                file : File \cup {<<>>}, rows : Nat]
MatchingRun == [status : {"NONE", "RUNNING", "DONE", "FAILED"}, batch : Batch \cup {0},
                read : SUBSET Nat, total : Nat]
Upload == [at : {"idle", "create", "rows"}, file : File \cup {<<>>}, of : Batch \cup {0}]
Matching == [at : AtWork \cup {"idle"}, call : {"idle", "waiting", "mark"},
             left : SUBSET Finding, count : Nat]
Draft == [at : {"idle", "check", "write"}, of : Run \cup {0}, total : Nat, sure : BOOLEAN,
          onto : Nat]

TypeOK ==
  /\ batch \in [Batch -> ImportBatch]
  /\ run \in [Run -> MatchingRun]
  /\ findings \in [Run -> SUBSET Finding]
  /\ reports \in Seq(Report)
  /\ upload \in [Uploader -> Upload]
  /\ starting \in 0 .. MaxStarting
  /\ match \in [Run -> Matching]
  /\ draft \in [Drafter -> Draft]
  /\ closing \in Nat
  /\ faults \in 0 .. MaxFaults

Init ==
  /\ batch = [b \in Batch |-> NoBatch]
  /\ run = [r \in Run |-> NoRun]
  /\ findings = [r \in Run |-> {}]
  /\ reports = <<>>
  /\ upload = [u \in Uploader |-> NoUpload]
  /\ starting = 0
  /\ match = [r \in Run |-> NoMatch]
  /\ draft = [d \in Drafter |-> NoDraft]
  /\ closing = 0
  /\ faults = 0

payroll == <<batch, upload>>
matching == <<run, findings, starting, match>>
reporting == <<reports, draft, closing>>

-----------------------------------------------------------------------------
(* Uploading a payroll file.                                                 *)

\* Rows without number or name are INVALID; one of them is an issue.
Sound(row) == row.nip # None /\ row.name # None
\* Variant with a bug: a batch with an issue gets the status of its rows.
StatusOfRows(f) == IF \A i \in DOMAIN f : Sound(f[i]) THEN "VALIDATED" ELSE "INVALID"
StatusOf(f) == IF \A i \in DOMAIN f : Sound(f[i]) THEN "VALIDATED" ELSE "HAS_ISSUES"

\* findImportBatchByChecksum: the latest batch of this file.
Uploaded(f) ==
  \E b \in Batch : /\ batch[b].file = f /\ batch[b].status # "CANCELLED"
                   /\ \A c \in Batch : c > b => batch[c].file # f

BeginUpload(u, f) ==
  /\ upload[u] = NoUpload
  /\ ~Uploaded(f)
  /\ upload' = [upload EXCEPT ![u] = [at |-> "create", file |-> f, of |-> 0]]
  /\ UNCHANGED <<batch, matching, reporting, faults>>

CreateBatch(u) ==
  /\ upload[u].at = "create"
  /\ \E b \in Batch :
       /\ batch[b] = NoBatch
       /\ \A c \in Batch : c < b => batch[c] # NoBatch
       /\ batch' = [batch EXCEPT ![b] = [status |-> StatusOf(upload[u].file),
                                        file |-> upload[u].file, rows |-> 0]]
       /\ upload' = [upload EXCEPT ![u].at = "rows", ![u].of = b]
  /\ UNCHANGED <<matching, reporting, faults>>

\* createPayrollRowsInChunks, one chunk; the last one ends the upload.
AddRows(u) ==
  LET b == upload[u].of
      upto == batch[b].rows + ChunkSize
      whole == Len(upload[u].file)
  IN /\ upload[u].at = "rows"
     /\ batch' = [batch EXCEPT ![b].rows = IF upto < whole THEN upto ELSE whole]
     /\ upload' = IF upto < whole THEN upload ELSE [upload EXCEPT ![u] = NoUpload]
     /\ UNCHANGED <<matching, reporting, faults>>

\* A statement fails: the batch keeps its status and the rows it has.
UploadFails(u) ==
  /\ upload[u] # NoUpload
  /\ faults < MaxFaults
  /\ faults' = faults + 1
  /\ upload' = [upload EXCEPT ![u] = NoUpload]
  /\ UNCHANGED <<batch, matching, reporting>>

\* cancelImportBatch; no batch is ever COMMITTED.
CancelBatch(b) ==
  /\ batch[b].status \notin {"NONE", "CANCELLED"}
  /\ batch' = [batch EXCEPT ![b].status = "CANCELLED"]
  /\ UNCHANGED <<upload, matching, reporting, faults>>

-----------------------------------------------------------------------------
(* What a comparison finds.                                                  *)

\* The rows findAllPayrollRowsByBatchId returns.
Comparable(b) == {i \in 1 .. batch[b].rows : Sound(batch[b].file[i])}

Differ(x, y) == x # None /\ y # None /\ x # y
FieldCode == [grade |-> "R04", kind |-> "R05", unit |-> "R06", name |-> "R08"]

RowsOf(f, I, n) == {i \in I : f[i].nip = n}

\* Variant with a bug: only the third entry of a number is a duplicate.
DuplicatesLate(f, I) == {n \in Nip : Cardinality(RowsOf(f, I, n)) > 2}
Duplicates(f, I) == {n \in Nip : Cardinality(RowsOf(f, I, n)) > 1}

\* computeFindings on rows I of file f; first[n] is the row the query returned
\* first for number n.
FindingsOf(f, I, first) ==
  LET Paid == {f[i].nip : i \in I}
      Matched == Paid \cap DOMAIN Register
      About(c, N) == {[code |-> c, nip |-> n, row |-> 0] : n \in N}
      OfRows(c, J) == {[code |-> c, nip |-> f[i].nip, row |-> i] : i \in J}
      Differing(e) == {n \in Matched : Differ(Register[n][e], f[first[n]][e])}
  IN About("R09", Duplicates(f, I))
     \cup About("R01", {n \in DOMAIN Register \ Paid : ~Register[n].inactive})
     \cup OfRows("R02", {i \in I : f[i].nip \notin DOMAIN Register})
     \cup About("R03", {n \in Matched : Register[n].inactive /\ ~f[first[n]].stopped})
     \cup (UNION {About(FieldCode[e], Differing(e)) : e \in Field})
     \cup OfRows("R10", {i \in I : ~f[i].adds})

-----------------------------------------------------------------------------
(* A matching run.                                                           *)

Started == Cardinality({r \in Run : run[r].status # "NONE"})

\* runMatching finds no run RUNNING.
BeginMatching ==
  /\ starting < MaxStarting
  /\ \A r \in Run : run[r].status # "RUNNING"
  /\ starting' = starting + 1
  /\ UNCHANGED <<payroll, run, findings, match, reporting, faults>>

(* createMatchingRun inserts a run of a batch.  The caller may name any      *)
(* batch, whatever its status; else it is the latest that is VALIDATED.      *)
InsertRun(r) ==
  /\ starting > 0 /\ r <= MaxRuns
  /\ \E b \in Batch :
       /\ batch[b].status # "NONE"
       /\ run' = [run EXCEPT ![r].status = "RUNNING", ![r].batch = b]
  /\ starting' = starting - 1

CreateRun ==
  LET r == Started + 1
  IN /\ InsertRun(r)
     /\ match' = [match EXCEPT ![r].at = "read", ![r].call = "waiting"]
     /\ UNCHANGED <<payroll, findings, reporting, faults>>

(* The run is inserted but the answer is lost: the insert stands outside the *)
(* try of runMatching, so that the call ends and nobody marks the run.       *)
CreateRunUnanswered ==
  /\ InsertRun(Started + 1)
  /\ faults < MaxFaults
  /\ faults' = faults + 1
  /\ UNCHANGED <<payroll, findings, match, reporting>>

\* The call ends before it inserts a run: it has no batch, or a statement fails.
RefuseMatching ==
  /\ starting > 0
  /\ starting' = starting - 1
  /\ UNCHANGED <<payroll, run, findings, match, reporting, faults>>

\* doMatching reads the rows and the register, compares them, and deletes the
\* findings the run might have.
ReadAndCompare(r) ==
  LET f == batch[run[r].batch].file
      I == Comparable(run[r].batch)
  IN /\ match[r].at = "read"
     /\ \E first \in [{f[i].nip : i \in I} -> I] :
          /\ \A n \in DOMAIN first : f[first[n]].nip = n
          /\ match' = [match EXCEPT ![r].at = "insert", ![r].left = FindingsOf(f, I, first),
                          ![r].count = Cardinality(FindingsOf(f, I, first))]
     /\ run' = [run EXCEPT ![r].read = I]
     /\ findings' = [findings EXCEPT ![r] = {}]
     /\ UNCHANGED <<payroll, starting, reporting, faults>>

\* createFindings, a chunk of what is left.
InsertFindings(r) ==
  LET left == match[r].left
      full == IF Cardinality(left) < ChunkSize THEN Cardinality(left) ELSE ChunkSize
  IN /\ match[r].at = "insert" /\ left # {}
     /\ \E C \in SUBSET left :
          /\ Cardinality(C) = full
          /\ findings' = [findings EXCEPT ![r] = @ \cup C]
          /\ match' = [match EXCEPT ![r].left = left \ C]
     /\ UNCHANGED <<payroll, run, starting, reporting, faults>>

\* Variant with a bug: the last chunk is left out.
AllInsertedNearly(r) == Cardinality(match[r].left) <= ChunkSize
AllInserted(r) == match[r].left = {}

\* The run is DONE, whatever its status.
FinishRun(r) ==
  /\ match[r].at = "insert" /\ AllInserted(r)
  /\ run' = [run EXCEPT ![r].status = "DONE", ![r].total = match[r].count]
  /\ match' = [match EXCEPT ![r].at = "audit", ![r].left = {}, ![r].count = 0]
  /\ UNCHANGED <<payroll, starting, findings, reporting, faults>>

\* doMatching has nothing more to do; the call may still have its mark to make.
Returned(r) == IF match[r].call = "mark" THEN [NoMatch EXCEPT !.call = "mark"] ELSE NoMatch

Audit(r) ==
  /\ match[r].at = "audit"
  /\ match' = [match EXCEPT ![r] = Returned(r)]
  /\ UNCHANGED <<payroll, run, starting, findings, reporting, faults>>

\* An error of doMatching: the call, if it still waits, has the run to mark.
AfterError(r) ==
  IF match[r].call = "waiting" THEN [NoMatch EXCEPT !.call = "mark"] ELSE Returned(r)

MatchError(r) ==
  /\ match[r].at \in AtWork
  /\ faults < MaxFaults
  /\ faults' = faults + 1
  /\ match' = [match EXCEPT ![r] = AfterError(r)]
  /\ UNCHANGED <<payroll, run, starting, findings, reporting>>

\* The five minutes are over; doMatching does not notice.
TimesOut(r) ==
  /\ match[r].call = "waiting" /\ match[r].at \in AtWork
  /\ match' = [match EXCEPT ![r].call = "mark"]
  /\ UNCHANGED <<payroll, run, starting, findings, reporting, faults>>

\* The catch of runMatching, whatever the run has become.
MarkFailed(r) ==
  /\ match[r].call = "mark"
  /\ run' = [run EXCEPT ![r].status = "FAILED"]
  /\ match' = [match EXCEPT ![r].call = "idle"]
  /\ UNCHANGED <<payroll, starting, findings, reporting, faults>>

MarkError(r) ==
  /\ match[r].call = "mark"
  /\ faults < MaxFaults
  /\ faults' = faults + 1
  /\ match' = [match EXCEPT ![r].call = "idle"]
  /\ UNCHANGED <<payroll, run, starting, findings, reporting>>

-----------------------------------------------------------------------------
(* The report.                                                               *)

LatestRun == Started

\* Variant with a bug: the findings of all runs of the period are counted.
FoundOfPeriod(r) ==
  Cardinality({z \in Run \X UNION {findings[q] : q \in Run} : z[2] \in findings[z[1]]})
\* countFindingsByStatus of a run, in all.
FoundOf(r) == IF r = 0 THEN 0 ELSE Cardinality(findings[r])

(* createBeritaAcara reads the latest run and its count.  sure tells, for    *)
(* the properties, that the run was DONE.                                    *)
BeginDraft(d) ==
  LET r == LatestRun
  IN /\ draft[d] = NoDraft
     /\ draft' = [draft EXCEPT ![d] =
                    [at |-> "check", of |-> r, total |-> FoundOf(r),
                     sure |-> r # 0 /\ run[r].status = "DONE", onto |-> 0]]
     /\ UNCHANGED <<payroll, matching, reports, closing, faults>>

LastIsFinal == reports # <<>> /\ reports[Len(reports)].status = "FINALIZED"

\* Variant with a bug: a finalised report is drafted over like any other.
CheckReportAny(d) ==
  /\ draft[d].at = "check"
  /\ draft' = [draft EXCEPT ![d].at = "write", ![d].onto = Len(reports)]
  /\ UNCHANGED <<payroll, matching, reports, closing, faults>>
\* A period whose latest report is FINALIZED gets no other.
CheckReport(d) ==
  /\ draft[d].at = "check"
  /\ draft' = [draft EXCEPT ![d] =
                 IF LastIsFinal THEN NoDraft
                 ELSE [draft[d] EXCEPT !.at = "write", !.onto = Len(reports)]]
  /\ UNCHANGED <<payroll, matching, reports, closing, faults>>

Restated(old, d) ==
  [status |-> old.status, of |-> IF draft[d].of = 0 THEN old.of ELSE draft[d].of,
   total |-> draft[d].total, sure |-> draft[d].sure]

\* A new report, or new numbers in the one that was the latest.
WriteReport(d) ==
  LET k == draft[d].onto
  IN /\ draft[d].at = "write"
     /\ reports' = IF k = 0 THEN Append(reports, Restated([status |-> "DRAFT", of |-> 0], d))
                   ELSE [reports EXCEPT ![k] = Restated(reports[k], d)]
     /\ draft' = [draft EXCEPT ![d] = NoDraft]
     /\ UNCHANGED <<payroll, matching, closing, faults>>

DraftFails(d) ==
  /\ draft[d] # NoDraft
  /\ draft' = [draft EXCEPT ![d] = NoDraft]
  /\ UNCHANGED <<payroll, matching, reports, closing, faults>>

\* finalizeBeritaAcara, the check and the update; one call at a time.
BeginClose ==
  /\ closing = 0 /\ reports # <<>> /\ ~LastIsFinal
  /\ closing' = Len(reports)
  /\ UNCHANGED <<payroll, matching, reports, draft, faults>>

Close ==
  /\ closing # 0
  /\ reports' = [reports EXCEPT ![closing].status = "FINALIZED"]
  /\ closing' = 0
  /\ UNCHANGED <<payroll, matching, draft, faults>>

CloseFails ==
  /\ closing # 0
  /\ closing' = 0
  /\ UNCHANGED <<payroll, matching, reports, draft, faults>>

-----------------------------------------------------------------------------
\* The process ends; the next one starts with nothing in memory.
Crash ==
  /\ faults < MaxFaults
  /\ faults' = faults + 1
  /\ upload' = [u \in Uploader |-> NoUpload]
  /\ starting' = 0
  /\ match' = [r \in Run |-> NoMatch]
  /\ draft' = [d \in Drafter |-> NoDraft]
  /\ closing' = 0
  /\ UNCHANGED <<batch, run, findings, reports>>

Works(r) == ReadAndCompare(r) \/ InsertFindings(r) \/ FinishRun(r) \/ Audit(r)

Next ==
  \/ \E u \in Uploader : \/ \E f \in File : BeginUpload(u, f)
                         \/ CreateBatch(u) \/ AddRows(u) \/ UploadFails(u)
  \/ \E b \in Batch : CancelBatch(b)
  \/ BeginMatching \/ CreateRun \/ CreateRunUnanswered \/ RefuseMatching
  \/ \E r \in Run : \/ Works(r) \/ MatchError(r) \/ TimesOut(r) \/ MarkFailed(r) \/ MarkError(r)
  \/ \E d \in Drafter : BeginDraft(d) \/ CheckReport(d) \/ WriteReport(d) \/ DraftFails(d)
  \/ BeginClose \/ Close \/ CloseFails
  \/ Crash

Spec == Init /\ [][Next]_vars

-----------------------------------------------------------------------------
(* A run that is DONE has all its findings, as many as it says, although the *)
(* findings come in chunks, the call may have given up on the run and marked *)
(* it FAILED in between, and another run of the period may be at work.       *)
DoneIsComplete ==
  \A r \in Run : run[r].status = "DONE" => run[r].total = Cardinality(findings[r])

(* What a DONE run is silent about agrees: an employee without a finding is  *)
(* on the payroll it compared exactly once, and not against the register, or *)
(* is inactive and not on it.                                                *)
SilenceIsAgreement ==
  \A r \in Run : run[r].status = "DONE" =>
    LET f == batch[run[r].batch].file
    IN \A n \in Nip : (\A x \in findings[r] : x.nip # n) =>
         LET mine == RowsOf(f, run[r].read, n)
         IN \/ mine = {} /\ (n \in DOMAIN Register => Register[n].inactive)
            \/ \E i \in mine : /\ mine = {i} /\ f[i].adds
                               /\ n \in DOMAIN Register
                               /\ Register[n].inactive => f[i].stopped
                               /\ \A e \in Field : ~Differ(Register[n][e], f[i][e])

(* A report drawn up from a DONE run states the number of findings the run   *)
(* has, now and whatever was matched or marked since.                        *)
ReportCounts ==
  \A i \in DOMAIN reports : reports[i].sure =>
    reports[i].total = Cardinality(findings[reports[i].of])

(* A FINALIZED report nobody who found it a draft is still to write stays as *)
(* it is, and the period gets no other ("BA FINALIZED tidak dapat diubah").  *)
Closed == LastIsFinal /\ closing = 0 /\ \A d \in Drafter : draft[d].at # "write"
FinalizedStands == [][Closed => reports' = reports /\ Closed']_vars

(* A RUNNING run keeps others of its period from starting, and who tries is  *)
(* told to wait until it is finished.  It need not finish: nothing looks     *)
(* after the run of a call that lost the answer of its insert, or of one     *)
(* that ended with the process, or could not be marked.                      *)
RunsEnd == \A r \in Run : run[r].status = "RUNNING" ~> run[r].status # "RUNNING"

=============================================================================

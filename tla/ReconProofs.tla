---------------------------- MODULE ReconProofs -----------------------------
(* Proofs about Reconciliation: what a comparison finds and is silent about, *)
(* and that runs and reports keep telling the truth about it.                *)
EXTENDS Reconciliation, FiniteSetTheorems, TLAPS

-----------------------------------------------------------------------------
(* What a comparison finds.                                                  *)

\* first names, for every number on rows I, one of its rows.
FirstOf(f, I, first) ==
  /\ first \in [{f[i].nip : i \in I} -> I]
  /\ \A n \in DOMAIN first : f[first[n]].nip = n

\* Rows I of f are what findAllPayrollRowsByBatchId may return.
Read(f, I) == f \in Seq(Row) /\ I \subseteq 1 .. Len(f) /\ \A i \in I : f[i].nip \in Nip

(* The findings of a comparison are findings, about rows that were read.     *)
LEMMA FoundType ==
  ASSUME NEW f, NEW I, NEW first, Read(f, I), FirstOf(f, I, first)
  PROVE  /\ FindingsOf(f, I, first) \subseteq Finding
         /\ \A x \in FindingsOf(f, I, first) : x.row \in 0 .. Len(f)
<1> DEFINE F == FindingsOf(f, I, first)
<1> USE ReconciliationAssumption
<1>1. Len(f) \in Nat
  BY DEF Read
<1> SUFFICES ASSUME NEW x \in F
             PROVE  x \in Finding /\ x.row \in 0 .. Len(f)
  OBVIOUS
<1>2. ASSUME NEW c \in Code, NEW n \in Nip, x = [code |-> c, nip |-> n, row |-> 0]
      PROVE  x \in Finding /\ x.row \in 0 .. Len(f)
  BY <1>1, <1>2 DEF Finding
<1>3. ASSUME NEW c \in Code, NEW i \in I, x = [code |-> c, nip |-> f[i].nip, row |-> i]
      PROVE  x \in Finding /\ x.row \in 0 .. Len(f)
  BY <1>1, <1>3 DEF Finding, Read
<1>4. \/ \E c \in Code, n \in Nip : x = [code |-> c, nip |-> n, row |-> 0]
      \/ \E c \in Code, i \in I : x = [code |-> c, nip |-> f[i].nip, row |-> i]
  <2>1. \A e \in Field : FieldCode[e] \in Code
    BY DEF Field, FieldCode, Code
  <2>2. {f[i].nip : i \in I} \subseteq Nip
    BY DEF Read
  <2> QED
    BY <2>1, <2>2 DEF FindingsOf, Duplicates, Code
<1> QED
  BY <1>2, <1>3, <1>4

(* A set of three is finite.                                                 *)
LEMMA ThreeAreFinite == \A a, b, c : IsFiniteSet({a, b, c})
<1> SUFFICES ASSUME NEW a, NEW b, NEW c PROVE IsFiniteSet({a, b, c})
  OBVIOUS
<1>1. IsFiniteSet({a} \cup {b})
  BY FS_Singleton, FS_AddElement
<1>2. IsFiniteSet(({a} \cup {b}) \cup {c})
  BY <1>1, FS_AddElement
<1>3. {a, b, c} = ({a} \cup {b}) \cup {c}
  OBVIOUS
<1> QED
  BY <1>2, <1>3

(* A comparison finds finitely many things.                                  *)
LEMMA FoundFinite ==
  ASSUME NEW f, NEW I, NEW first, Read(f, I), FirstOf(f, I, first)
  PROVE  IsFiniteSet(FindingsOf(f, I, first))
<1> DEFINE F == FindingsOf(f, I, first)
           T == (Code \X Nip) \X (0 .. Len(f))
           g == [x \in F |-> <<<<x.code, x.nip>>, x.row>>]
<1>1. IsFiniteSet(Code)
  <2>1. /\ IsFiniteSet({"R01", "R02", "R03"}) /\ IsFiniteSet({"R04", "R05", "R06"})
        /\ IsFiniteSet({"R08", "R09", "R10"})
    BY ThreeAreFinite
  <2>2. IsFiniteSet(({"R01", "R02", "R03"} \cup {"R04", "R05", "R06"})
                      \cup {"R08", "R09", "R10"})
    BY <2>1, FS_Union
  <2>3. Code = ({"R01", "R02", "R03"} \cup {"R04", "R05", "R06"}) \cup {"R08", "R09", "R10"}
    BY DEF Code
  <2> QED
    BY <2>2, <2>3
<1>2. IsFiniteSet(T)
  <2>1. IsFiniteSet(Code \X Nip)
    BY <1>1, FS_Product, ReconciliationAssumption
  <2>2. IsFiniteSet(0 .. Len(f))
    BY FS_Interval DEF Read
  <2> QED
    BY <2>1, <2>2, FS_Product
<1>3. F \subseteq Finding /\ \A x \in F : x.row \in 0 .. Len(f)
  BY FoundType
<1>4. g \in Injection(F, T)
  <2> HIDE DEF F
  <2>1. g \in [F -> T]
    BY <1>3 DEF Finding
  <2>2. ASSUME NEW x \in F, NEW y \in F, g[x] = g[y] PROVE x = y
    <3>1. x \in Finding /\ y \in Finding
      BY <1>3
    <3>2. x.code = y.code /\ x.nip = y.nip /\ x.row = y.row
      BY <2>2
    <3> QED
      BY <3>1, <3>2 DEF Finding
  <2> QED
    BY <2>1, <2>2 DEF Injection, IsInjective
<1> QED
  BY <1>2, <1>4, FS_Injection


\* f, as far as rows I go, agrees with the register about n.
Agrees(f, I, n) ==
  LET mine == RowsOf(f, I, n)
  IN \/ mine = {} /\ (n \in DOMAIN Register => Register[n].inactive)
     \/ \E i \in mine : /\ mine = {i} /\ f[i].adds
                        /\ n \in DOMAIN Register
                        /\ Register[n].inactive => f[i].stopped
                        /\ \A e \in Field : ~Differ(Register[n][e], f[i][e])

(* A number no finding is about agrees: the rule for every code would have   *)
(* spoken.  A number on several rows is R09's, so that the row compared, the *)
(* first one the query returns, is its only one.                             *)
LEMMA SilenceAgrees ==
  ASSUME NEW f, NEW I, NEW first, Read(f, I), FirstOf(f, I, first),
         NEW n \in Nip, \A x \in FindingsOf(f, I, first) : x.nip # n
  PROVE  Agrees(f, I, n)
<1> DEFINE mine == RowsOf(f, I, n)
           F == FindingsOf(f, I, first)
           Paid == {f[i].nip : i \in I}
<1>1. IsFiniteSet(mine)
  <2>1. Len(f) \in Nat
    BY DEF Read
  <2>2. IsFiniteSet(1 .. Len(f))
    BY <2>1, FS_Interval
  <2>3. mine \in SUBSET (1 .. Len(f))
    BY DEF Read, RowsOf
  <2> QED
    BY <2>2, <2>3, FS_Subset
<1>2. ~(Cardinality(mine) > 1)
  <2>1. ASSUME Cardinality(mine) > 1 PROVE [code |-> "R09", nip |-> n, row |-> 0] \in F
    BY <2>1 DEF FindingsOf, Duplicates
  <2> QED
    BY <2>1
<1>3. n \in Paid <=> mine # {}
  BY DEF RowsOf
<1>4. CASE mine = {}
  <2>1. ASSUME n \in DOMAIN Register, ~Register[n].inactive
        PROVE  [code |-> "R01", nip |-> n, row |-> 0] \in F
    BY <2>1, <1>3, <1>4 DEF FindingsOf
  <2> QED
    BY <2>1, <1>4 DEF Agrees
<1>5. CASE mine # {}
  <2>1. PICK i : mine = {i}
    <3>1. Cardinality(mine) \in Nat /\ Cardinality(mine) # 0
      BY <1>1, <1>5, FS_CardinalityType, FS_EmptySet
    <3>2. Cardinality(mine) = 1
      BY <3>1, <1>2
    <3> QED
      BY <3>2, <1>1, FS_Singleton
  <2>2. i \in I /\ f[i].nip = n
    BY <2>1 DEF RowsOf
  <2>3. n \in DOMAIN first /\ first[n] = i
    <3>1. n \in DOMAIN first /\ first[n] \in I /\ f[first[n]].nip = n
      BY <2>2 DEF FirstOf
    <3>2. first[n] \in mine
      BY <3>1 DEF RowsOf
    <3> QED
      BY <3>1, <3>2, <2>1
  <2>4. f[i].adds
    <3>1. ASSUME ~f[i].adds PROVE [code |-> "R10", nip |-> f[i].nip, row |-> i] \in F
      BY <3>1, <2>2 DEF FindingsOf
    <3> QED
      BY <3>1, <2>2
  <2>5. n \in DOMAIN Register
    <3>1. ASSUME n \notin DOMAIN Register
          PROVE  [code |-> "R02", nip |-> f[i].nip, row |-> i] \in F
      BY <3>1, <2>2 DEF FindingsOf
    <3> QED
      BY <3>1, <2>2
  <2>6. Register[n].inactive => f[i].stopped
    <3>1. ASSUME Register[n].inactive, ~f[i].stopped
          PROVE  [code |-> "R03", nip |-> n, row |-> 0] \in F
      BY <3>1, <2>2, <2>3, <2>5 DEF FindingsOf
    <3> QED
      BY <3>1
  <2>7. ASSUME NEW e \in Field PROVE ~Differ(Register[n][e], f[i][e])
    <3>1. ASSUME Differ(Register[n][e], f[i][e])
          PROVE  [code |-> FieldCode[e], nip |-> n, row |-> 0] \in F
      BY <3>1, <2>2, <2>3, <2>5 DEF FindingsOf
    <3> QED
      BY <3>1
  <2> QED
    BY <2>1, <2>4, <2>5, <2>6, <2>7 DEF Agrees
<1> QED
  BY <1>4, <1>5

-----------------------------------------------------------------------------
(* The invariant.                                                            *)

\* Batches have the rows of their files, and uploads know their batches.
PayrollOK ==
  /\ \A b \in Batch : batch[b].status # "NONE" =>
       batch[b].file \in File /\ batch[b].rows <= Len(batch[b].file)
  /\ \A u \in Uploader : upload[u].at # "idle" => upload[u].file \in File
  /\ \A u \in Uploader : upload[u].at = "rows" =>
       /\ upload[u].of \in Batch /\ batch[upload[u].of].status # "NONE"
       /\ batch[upload[u].of].file = upload[u].file

\* Runs are numbered in order, have batches, and are there before their calls.
Numbered == \E k \in 0 .. MaxRuns : \A r \in Run : run[r].status # "NONE" <=> r <= k
RunsOK ==
  /\ Numbered
  /\ \A r \in Run : run[r].status # "NONE" =>
       run[r].batch \in Batch /\ batch[run[r].batch].status # "NONE"
  /\ \A r \in Run : match[r].at # "idle" \/ match[r].call # "idle" => run[r].status # "NONE"

FiniteOK == \A r \in Run : IsFiniteSet(findings[r]) /\ IsFiniteSet(match[r].left)

\* S is what comparing rows I of f, or the rows of run r, has found.
Compared(f, I, S) ==
  Read(f, I) /\ \E first : FirstOf(f, I, first) /\ S = FindingsOf(f, I, first)
Theirs(r) == batch[run[r].batch].file
Explained(r, S) == Compared(Theirs(r), run[r].read, S)

ComparedOK ==
  \A r \in Run :
    /\ match[r].at = "insert" =>
         /\ Explained(r, findings[r] \cup match[r].left)
         /\ match[r].count = Cardinality(findings[r] \cup match[r].left)
    /\ run[r].status = "DONE" =>
         /\ match[r].at \notin {"read", "insert"}
         /\ Explained(r, findings[r])
         /\ run[r].total = Cardinality(findings[r])

\* The findings of a run whose number a report states change no more.
Settled(r, n) ==
  /\ r \in Run /\ run[r].status # "NONE" /\ match[r].at \notin {"read", "insert"}
  /\ n = Cardinality(findings[r])
SureOK ==
  /\ \A i \in DOMAIN reports : reports[i].sure => Settled(reports[i].of, reports[i].total)
  /\ \A d \in Drafter : draft[d].sure => Settled(draft[d].of, draft[d].total)
RangeOK == closing <= Len(reports) /\ \A d \in Drafter : draft[d].onto <= Len(reports)

IInv == /\ TypeOK /\ PayrollOK /\ RunsOK /\ FiniteOK /\ ComparedOK
        /\ SureOK /\ RangeOK

(* The number of runs that have started is that of the last of them.         *)
LEMMA StartedIs ==
  ASSUME NEW k \in 0 .. MaxRuns, \A r \in Run : run[r].status # "NONE" <=> r <= k
  PROVE  Started = k
<1>1. MaxRuns \in Nat
  BY ReconciliationAssumption
<1>2. {r \in Run : run[r].status # "NONE"} = 1 .. k
  BY <1>1 DEF Run
<1>3. Cardinality(1 .. k) = k
  BY <1>1, FS_Interval
<1> QED
  BY <1>2, <1>3 DEF Started

(* What a batch was made of stays.                                           *)
LEMMA FilesStay ==
  ASSUME TypeOK, PayrollOK, [Next]_vars, NEW b \in Batch, batch[b].status # "NONE"
  PROVE  batch'[b].file = batch[b].file /\ batch'[b].status # "NONE"
<1> USE DEF TypeOK, payroll, matching, reporting
<1>1. ASSUME NEW u \in Uploader, CreateBatch(u)
      PROVE  batch'[b].file = batch[b].file /\ batch'[b].status # "NONE"
  BY <1>1 DEF CreateBatch, NoBatch
<1>2. ASSUME NEW u \in Uploader, AddRows(u)
      PROVE  batch'[b].file = batch[b].file /\ batch'[b].status # "NONE"
  BY <1>2 DEF AddRows, PayrollOK
<1>3. ASSUME NEW c \in Batch, CancelBatch(c)
      PROVE  batch'[b].file = batch[b].file /\ batch'[b].status # "NONE"
  BY <1>3 DEF CancelBatch
<1>4. CASE UNCHANGED batch
  BY <1>4
<1> QED
  BY <1>1, <1>2, <1>3, <1>4
     DEF Next, BeginUpload, UploadFails, BeginMatching, InsertRun, CreateRun,
         CreateRunUnanswered, RefuseMatching, Works,
         ReadAndCompare, InsertFindings, FinishRun, Audit, MatchError, TimesOut, MarkFailed,
         MarkError, BeginDraft, CheckReport, WriteReport, DraftFails, BeginClose, Close,
         CloseFails, Crash, vars

(* A run at work on the comparison compares rows of the file of its batch.   *)
LEMMA ComparesRows ==
  ASSUME TypeOK, PayrollOK, RunsOK, NEW r \in Run, run[r].status # "NONE"
  PROVE  Read(Theirs(r), Comparable(run[r].batch))
<1> DEFINE b == run[r].batch
<1>1. b \in Batch /\ batch[b].file \in File /\ batch[b].rows \in Nat
      /\ batch[b].rows <= Len(batch[b].file)
  <2>1. b \in Batch /\ batch[b] \in ImportBatch /\ batch[b].status # "NONE"
    BY DEF TypeOK, RunsOK
  <2>2. batch[b].rows \in Nat
    BY <2>1 DEF ImportBatch
  <2> QED
    BY <2>1, <2>2 DEF PayrollOK
<1>2. batch[b].file \in Seq(Row)
  BY <1>1, ReconciliationAssumption
<1>3. \A i \in 1 .. Len(batch[b].file) : batch[b].file[i].nip \in Nip \cup {None}
  <2>1. \A i \in 1 .. Len(batch[b].file) : batch[b].file[i] \in Row
    BY <1>2
  <2>2. \A x \in Row : x.nip \in Nip \cup {None}
    BY DEF Row
  <2> QED
    BY <2>1, <2>2
<1>4. Len(batch[b].file) \in Nat
  BY <1>2
<1>5. ASSUME NEW i \in Comparable(b)
      PROVE  i \in 1 .. Len(batch[b].file) /\ batch[b].file[i].nip # None
  BY <1>1, <1>4 DEF Comparable, Sound
<1> QED
  BY <1>2, <1>3, <1>5 DEF Read, Theirs

(* A new run is the next one, RUNNING, of a batch that exists; a call waits  *)
(* for it, or nobody does.                                                   *)
NewRun == CreateRun \/ CreateRunUnanswered
Called(m) == [m EXCEPT !.at = "read", !.call = "waiting"]
Begun(u, b) == [u EXCEPT !.status = "RUNNING", !.batch = b]

LEMMA BegunIs ==
  ASSUME NEW u \in MatchingRun, NEW b \in Batch
  PROVE  Begun(u, b) \in MatchingRun /\ Begun(u, b).status = "RUNNING" /\ Begun(u, b).batch = b
BY DEF Begun, MatchingRun

LEMMA CalledIs ==
  ASSUME NEW m \in Matching
  PROVE  Called(m) \in Matching /\ Called(m).at = "read" /\ Called(m).left = m.left
BY DEF Called, Matching, AtWork

LEMMA NewRunIs ==
  ASSUME TypeOK, RunsOK, NewRun, NEW r, r = Started + 1
  PROVE  /\ r \in Run /\ run[r].status = "NONE" /\ \A q \in Run : q < r => run[q].status # "NONE"
         /\ \E b \in Batch :
              /\ batch[b].status # "NONE"
              /\ run' = [run EXCEPT ![r] = Begun(run[r], b)]
         /\ match' = match \/ match' = [match EXCEPT ![r] = Called(match[r])]
         /\ starting' = starting - 1 /\ starting > 0
         /\ faults' \in 0 .. MaxFaults
         /\ UNCHANGED <<batch, upload, findings, reports, draft, closing>>
<1>1. PICK k \in 0 .. MaxRuns : \A q \in Run : run[q].status # "NONE" <=> q <= k
  BY DEF RunsOK, Numbered
<1>2. Started = k /\ MaxRuns \in Nat /\ MaxFaults \in Nat
  BY <1>1, StartedIs, ReconciliationAssumption
<1>3. InsertRun(r)
  BY DEF NewRun, CreateRun, CreateRunUnanswered
<1>4. r \in Run /\ run[r].status = "NONE" /\ \A q \in Run : q < r => run[q].status # "NONE"
  BY <1>1, <1>2, <1>3 DEF InsertRun, Run
<1>5. /\ match' = match \/ match' = [match EXCEPT ![r] = Called(match[r])]
      /\ UNCHANGED <<batch, upload, findings, reports, draft, closing>>
  BY DEF NewRun, CreateRun, CreateRunUnanswered, Called, payroll, reporting
<1>6. faults' \in 0 .. MaxFaults
  BY <1>2 DEF NewRun, CreateRun, CreateRunUnanswered, TypeOK
<1>7. \E b \in Batch :
        /\ batch[b].status # "NONE"
        /\ run' = [run EXCEPT ![r] = Begun(run[r], b)]
  BY <1>3, <1>4 DEF InsertRun, Begun, TypeOK
<1>8. starting' = starting - 1 /\ starting > 0
  BY <1>3 DEF InsertRun
<1> QED
  BY <1>4, <1>5, <1>6, <1>7, <1>8

-----------------------------------------------------------------------------
(* Every step keeps the types.                                               *)
LEMMA TypeStep == IInv /\ [Next]_vars => TypeOK'
<1> SUFFICES ASSUME IInv, [Next]_vars PROVE TypeOK'
  OBVIOUS
<1> USE DEF TypeOK, payroll, matching, reporting
<1>0. TypeOK /\ PayrollOK /\ RunsOK /\ FiniteOK /\ ComparedOK /\ SureOK /\ RangeOK
  BY DEF IInv
<1>a. {MaxBatches, MaxRuns, MaxStarting, MaxFaults} \subseteq Nat /\ ChunkSize \in Nat
      /\ \A f \in File : Len(f) \in Nat
  BY ReconciliationAssumption
<1>b. NoUpload \in Upload /\ NoMatch \in Matching /\ NoDraft \in Draft
  BY DEF NoUpload, Upload, NoMatch, Matching, NoDraft, Draft
<1>c. Started \in 0 .. MaxRuns
  BY <1>0, StartedIs DEF RunsOK, Numbered
<1>1. ASSUME NEW u \in Uploader, NEW f \in File, BeginUpload(u, f) PROVE TypeOK'
  <2>1. [at |-> "create", file |-> f, of |-> 0] \in Upload
    BY DEF Upload
  <2> QED
    BY <1>0, <1>1, <2>1 DEF BeginUpload
<1>2. ASSUME NEW u \in Uploader, CreateBatch(u) PROVE TypeOK'
  <2>1. PICK b \in Batch :
          /\ batch' = [batch EXCEPT ![b] = [status |-> StatusOf(upload[u].file),
                                           file |-> upload[u].file, rows |-> 0]]
          /\ upload' = [upload EXCEPT ![u] = [upload[u] EXCEPT !.at = "rows", !.of = b]]
    BY <1>2 DEF CreateBatch
  <2>2. [status |-> StatusOf(upload[u].file), file |-> upload[u].file, rows |-> 0] \in ImportBatch
    BY <1>0 DEF ImportBatch, StatusOf, Upload
  <2>3. [upload[u] EXCEPT !.at = "rows", !.of = b] \in Upload
    BY <1>0 DEF Upload
  <2> QED
    BY <1>0, <1>2, <2>1, <2>2, <2>3 DEF CreateBatch
<1>3. ASSUME NEW u \in Uploader, AddRows(u) PROVE TypeOK'
  <2> DEFINE b == upload[u].of
             upto == batch[b].rows + ChunkSize
             whole == Len(upload[u].file)
             rows == IF upto < whole THEN upto ELSE whole
  <2>1. b \in Batch /\ whole \in Nat /\ batch[b] \in ImportBatch
    BY <1>0, <1>3, <1>a DEF AddRows, PayrollOK
  <2>2. [batch[b] EXCEPT !.rows = rows] \in ImportBatch
    BY <1>a, <2>1 DEF ImportBatch
  <2>3. batch' = [batch EXCEPT ![b] = [batch[b] EXCEPT !.rows = rows]]
    BY <1>3 DEF AddRows
  <2>4. batch' \in [Batch -> ImportBatch]
    BY <1>0, <2>1, <2>2, <2>3
  <2>5. upload' \in [Uploader -> Upload]
    BY <1>0, <1>3, <1>b DEF AddRows
  <2> QED
    BY <1>0, <1>3, <2>4, <2>5 DEF AddRows
<1>4. ASSUME NEW u \in Uploader, UploadFails(u) PROVE TypeOK'
  BY <1>0, <1>4, <1>a, <1>b DEF UploadFails
<1>5. ASSUME NEW b \in Batch, CancelBatch(b) PROVE TypeOK'
  <2>1. [batch[b] EXCEPT !.status = "CANCELLED"] \in ImportBatch
    BY <1>0 DEF ImportBatch
  <2> QED
    BY <1>0, <1>5, <2>1 DEF CancelBatch
<1>6. CASE BeginMatching
  BY <1>0, <1>6, <1>a DEF BeginMatching
<1>7. CASE NewRun
  <2> DEFINE r == Started + 1
  <2> HIDE DEF r
  <2>0. r = Started + 1
    BY DEF r
  <2>1. r \in Run /\ run[r] \in MatchingRun /\ match[r] \in Matching
    BY <1>0, <1>7, <2>0, NewRunIs
  <2>2. PICK b \in Batch : run' = [run EXCEPT ![r] = Begun(run[r], b)]
    BY <1>0, <1>7, <2>0, NewRunIs
  <2>3. run' \in [Run -> MatchingRun]
    BY <1>0, <2>1, <2>2, BegunIs
  <2>4. match' = match \/ match' = [match EXCEPT ![r] = Called(match[r])]
    BY <1>0, <1>7, <2>0, NewRunIs
  <2>5. match' \in [Run -> Matching]
    BY <1>0, <2>1, <2>4, CalledIs
  <2>6. /\ starting' = starting - 1 /\ starting > 0 /\ faults' \in 0 .. MaxFaults
        /\ UNCHANGED <<batch, upload, findings, reports, draft, closing>>
    BY <1>0, <1>7, <2>0, NewRunIs
  <2> QED
    BY <1>0, <1>a, <2>3, <2>5, <2>6
<1>8. CASE RefuseMatching
  BY <1>0, <1>8, <1>a DEF RefuseMatching
<1>9. ASSUME NEW r \in Run, ReadAndCompare(r) PROVE TypeOK'
  <2> DEFINE I == Comparable(run[r].batch)
  <2>1. PICK first : /\ FirstOf(Theirs(r), I, first)
                     /\ match' = [match EXCEPT ![r].at = "insert",
                                     ![r].left = FindingsOf(Theirs(r), I, first),
                                     ![r].count = Cardinality(FindingsOf(Theirs(r), I, first))]
    BY <1>9 DEF ReadAndCompare, FirstOf, Theirs
  <2>2. Read(Theirs(r), I)
    BY <1>0, <1>9, ComparesRows DEF ReadAndCompare, RunsOK
  <2>3. /\ FindingsOf(Theirs(r), I, first) \in SUBSET Finding
        /\ Cardinality(FindingsOf(Theirs(r), I, first)) \in Nat
    BY <2>1, <2>2, FoundType, FoundFinite, FS_CardinalityType
  <2>4. I \in SUBSET Nat
    <3>1. Len(Theirs(r)) \in Nat
      BY <2>2 DEF Read
    <3> QED
      BY <2>2, <3>1 DEF Read
  <2>5. [match[r] EXCEPT !.at = "insert", !.left = FindingsOf(Theirs(r), I, first),
                         !.count = Cardinality(FindingsOf(Theirs(r), I, first))] \in Matching
    BY <1>0, <2>3 DEF Matching, AtWork
  <2>6. [run[r] EXCEPT !.read = I] \in MatchingRun
    BY <1>0, <2>4 DEF MatchingRun
  <2> QED
    BY <1>0, <1>9, <2>1, <2>5, <2>6 DEF ReadAndCompare
<1>10. ASSUME NEW r \in Run, InsertFindings(r) PROVE TypeOK'
  <2>1. PICK C \in SUBSET match[r].left :
          /\ findings' = [findings EXCEPT ![r] = findings[r] \cup C]
          /\ match' = [match EXCEPT ![r] = [match[r] EXCEPT !.left = match[r].left \ C]]
    BY <1>10 DEF InsertFindings
  <2>2. [match[r] EXCEPT !.left = match[r].left \ C] \in Matching /\ C \subseteq Finding
    BY <1>0 DEF Matching
  <2> QED
    BY <1>0, <1>10, <2>1, <2>2 DEF InsertFindings
<1>11. ASSUME NEW r \in Run, FinishRun(r) PROVE TypeOK'
  <2>1. [run[r] EXCEPT !.status = "DONE", !.total = match[r].count] \in MatchingRun
    BY <1>0 DEF MatchingRun, Matching
  <2>2. [match[r] EXCEPT !.at = "audit", !.left = {}, !.count = 0] \in Matching
    BY <1>0 DEF Matching, AtWork
  <2> QED
    BY <1>0, <1>11, <2>1, <2>2 DEF FinishRun
<1>d. ASSUME NEW r \in Run PROVE Returned(r) \in Matching /\ AfterError(r) \in Matching
  BY DEF Returned, AfterError, NoMatch, Matching
<1>e. ASSUME NEW r \in Run, NEW c \in {"idle", "mark"}
      PROVE  [match[r] EXCEPT !.call = c] \in Matching
  BY <1>0 DEF Matching
<1>12. ASSUME NEW r \in Run, Audit(r) PROVE TypeOK'
  BY <1>0, <1>12, <1>d DEF Audit
<1>13. ASSUME NEW r \in Run, MatchError(r) PROVE TypeOK'
  BY <1>0, <1>13, <1>a, <1>d DEF MatchError
<1>14. ASSUME NEW r \in Run, TimesOut(r) PROVE TypeOK'
  BY <1>0, <1>14, <1>e DEF TimesOut
<1>15. ASSUME NEW r \in Run, MarkFailed(r) PROVE TypeOK'
  <2>1. [run[r] EXCEPT !.status = "FAILED"] \in MatchingRun
    BY <1>0 DEF MatchingRun
  <2> QED
    BY <1>0, <1>15, <1>e, <2>1 DEF MarkFailed
<1>16. ASSUME NEW r \in Run, MarkError(r) PROVE TypeOK'
  <2>1. [match[r] EXCEPT !.call = "idle"] \in Matching
    BY <1>e
  <2> QED
    BY <1>0, <1>16, <1>a, <2>1 DEF MarkError
<1>17. ASSUME NEW d \in Drafter, BeginDraft(d) PROVE TypeOK'
  <2>1. Started \in Run \cup {0}
    BY <1>a, <1>c DEF Run
  <2>2. FoundOf(Started) \in Nat
    BY <1>0, <2>1, FS_CardinalityType DEF FoundOf, FiniteOK
  <2> DEFINE sure == Started # 0 /\ run[Started].status = "DONE"
             held == [at |-> "check", of |-> Started, total |-> FoundOf(Started),
                      sure |-> sure, onto |-> 0]
  <2>3. held \in Draft
    <3>1. sure \in BOOLEAN
      OBVIOUS
    <3> QED
      BY <2>1, <2>2, <3>1 DEF Draft
  <2>4. draft' = [draft EXCEPT ![d] = held]
    BY <1>17 DEF BeginDraft, LatestRun
  <2> QED
    BY <1>0, <1>17, <2>3, <2>4 DEF BeginDraft
<1>18. ASSUME NEW d \in Drafter, CheckReport(d) PROVE TypeOK'
  <2>1. draft[d] \in Draft /\ Len(reports) \in Nat
    BY <1>0
  <2>2. [draft[d] EXCEPT !.at = "write", !.onto = Len(reports)] \in Draft
    BY <2>1 DEF Draft
  <2> QED
    BY <1>0, <1>18, <1>b, <2>2 DEF CheckReport
<1>19. ASSUME NEW d \in Drafter, WriteReport(d) PROVE TypeOK'
  <2> DEFINE k == draft[d].onto
  <2>1. k \in Nat /\ k <= Len(reports) /\ draft[d].of \in Run \cup {0}
        /\ draft[d].total \in Nat /\ draft[d].sure \in BOOLEAN
    BY <1>0 DEF RangeOK, Draft
  <2>2. draft' \in [Drafter -> Draft]
    BY <1>0, <1>19, <1>b DEF WriteReport
  <2>3. CASE k = 0
    <3>1. Restated([status |-> "DRAFT", of |-> 0], d) \in Report
      BY <2>1 DEF Restated, Report
    <3> QED
      BY <1>0, <1>19, <2>2, <2>3, <3>1 DEF WriteReport
  <2>4. CASE k # 0
    <3>1. k \in 1 .. Len(reports) /\ reports[k] \in Report
      BY <1>0, <2>1, <2>4
    <3>2. Restated(reports[k], d) \in Report
      BY <2>1, <3>1 DEF Restated, Report
    <3>3. reports' \in Seq(Report)
      BY <1>0, <1>19, <2>4, <3>1, <3>2 DEF WriteReport
    <3> QED
      BY <1>0, <1>19, <2>2, <3>3 DEF WriteReport
  <2> QED
    BY <2>3, <2>4
<1>20. ASSUME NEW d \in Drafter, DraftFails(d) PROVE TypeOK'
  BY <1>0, <1>20, <1>b DEF DraftFails
<1>21. CASE BeginClose
  BY <1>0, <1>21 DEF BeginClose
<1>22. CASE Close
  <2>1. closing \in 1 .. Len(reports)
    BY <1>0, <1>22 DEF Close, RangeOK
  <2>2. reports[closing] \in Report
    BY <1>0, <2>1
  <2>3. [reports[closing] EXCEPT !.status = "FINALIZED"] \in Report
    BY <2>2 DEF Report
  <2>4. reports' \in Seq(Report)
    BY <1>0, <1>22, <2>1, <2>3 DEF Close
  <2> QED
    BY <1>0, <1>22, <2>4 DEF Close
<1>23. CASE CloseFails
  BY <1>0, <1>23 DEF CloseFails
<1>24. CASE Crash
  BY <1>0, <1>24, <1>a, <1>b DEF Crash
<1>25. CASE UNCHANGED vars
  BY <1>0, <1>25 DEF vars
<1> QED
  BY <1>1, <1>2, <1>3, <1>4, <1>5, <1>6, <1>7, <1>8, <1>9, <1>10, <1>11, <1>12, <1>13, <1>14,
     <1>15, <1>16, <1>17, <1>18, <1>19, <1>20, <1>21, <1>22, <1>23, <1>24, <1>25
     DEF Next, Works, NewRun

-----------------------------------------------------------------------------
(* Steps that keep some of the state.  Uploads and cancellations keep runs   *)
(* and reports; reports keep runs and batches; matching keeps the rest.      *)
PayrollStep ==
  \/ \E u \in Uploader : \/ \E f \in File : BeginUpload(u, f)
                         \/ CreateBatch(u) \/ AddRows(u) \/ UploadFails(u)
  \/ \E b \in Batch : CancelBatch(b)
ReportStep ==
  \/ \E d \in Drafter : BeginDraft(d) \/ CheckReport(d) \/ WriteReport(d) \/ DraftFails(d)
  \/ BeginClose \/ Close \/ CloseFails
MatchStep(r) == Works(r) \/ MatchError(r) \/ TimesOut(r) \/ MarkFailed(r) \/ MarkError(r)

LEMMA StepKinds ==
  ASSUME [Next]_vars
  PROVE  \/ PayrollStep \/ ReportStep \/ BeginMatching \/ NewRun \/ RefuseMatching
         \/ \E r \in Run : MatchStep(r)
         \/ Crash \/ UNCHANGED vars
BY DEF Next, PayrollStep, ReportStep, MatchStep, NewRun

LEMMA PayrollKeeps ==
  ASSUME PayrollStep
  PROVE  UNCHANGED <<run, findings, starting, match, reports, draft, closing>>
BY DEF PayrollStep, BeginUpload, CreateBatch, AddRows, UploadFails, CancelBatch, matching,
       reporting

LEMMA ReportKeeps ==
  ASSUME ReportStep
  PROVE  UNCHANGED <<batch, upload, run, findings, starting, match>>
BY DEF ReportStep, BeginDraft, CheckReport, WriteReport, DraftFails, BeginClose, Close,
       CloseFails, payroll, matching

LEMMA MatchKeeps ==
  ASSUME TypeOK, NEW r \in Run, MatchStep(r)
  PROVE  /\ UNCHANGED <<batch, upload, starting, reports, draft, closing>>
         /\ \A q \in Run \ {r} : run'[q] = run[q] /\ findings'[q] = findings[q]
                               /\ match'[q] = match[q]
BY DEF TypeOK, MatchStep, Works, ReadAndCompare, InsertFindings, FinishRun, Audit, MatchError,
       TimesOut, MarkFailed, MarkError, payroll, reporting

(* Batches and uploads.                                                      *)
LEMMA PayrollStays == IInv /\ [Next]_vars => PayrollOK'
<1> SUFFICES ASSUME IInv, [Next]_vars PROVE PayrollOK'
  OBVIOUS
<1>0. TypeOK /\ PayrollOK
  BY DEF IInv
<1>a. \A b \in Batch : batch[b].status # "NONE" =>
        batch'[b].file = batch[b].file /\ batch'[b].status # "NONE"
  BY <1>0, FilesStay
<1>b. \A f \in File : Len(f) \in Nat
  BY ReconciliationAssumption
<1> USE DEF TypeOK
<1>1. ASSUME NEW u \in Uploader, NEW f \in File, BeginUpload(u, f) PROVE PayrollOK'
  BY <1>0, <1>1 DEF BeginUpload, PayrollOK
<1>2. ASSUME NEW u \in Uploader, CreateBatch(u) PROVE PayrollOK'
  <2>1. PICK b \in Batch :
          /\ batch[b] = NoBatch
          /\ batch' = [batch EXCEPT ![b] = [status |-> StatusOf(upload[u].file),
                                           file |-> upload[u].file, rows |-> 0]]
          /\ upload' = [upload EXCEPT ![u] = [upload[u] EXCEPT !.at = "rows", !.of = b]]
    BY <1>2 DEF CreateBatch
  <2>2. upload[u].file \in File /\ upload[u] \in Upload
    BY <1>0, <1>2 DEF CreateBatch, PayrollOK
  <2>3. \A c \in Batch : batch'[c].status # "NONE" =>
          batch'[c].file \in File /\ batch'[c].rows <= Len(batch'[c].file)
    <3>1. 0 <= Len(upload[u].file)
      BY <1>b, <2>2
    <3>2. batch'[b] = [status |-> StatusOf(upload[u].file), file |-> upload[u].file, rows |-> 0]
          /\ \A c \in Batch \ {b} : batch'[c] = batch[c]
      BY <1>0, <2>1
    <3> QED
      BY <1>0, <2>2, <3>1, <3>2 DEF PayrollOK
  <2>4. upload'[u].at = "rows" /\ upload'[u].of = b /\ upload'[u].file = upload[u].file
    BY <1>0, <2>1, <2>2 DEF Upload
  <2>5. batch'[b].status # "NONE" /\ batch'[b].file = upload[u].file
    BY <1>0, <2>1 DEF StatusOf
  <2>6. \A v \in Uploader \ {u} : upload'[v] = upload[v]
    BY <1>0, <2>1
  <2>7. \A v \in Uploader : upload'[v].at = "rows" =>
          /\ upload'[v].of \in Batch /\ batch'[upload'[v].of].status # "NONE"
          /\ batch'[upload'[v].of].file = upload'[v].file
    BY <1>0, <1>a, <2>4, <2>5, <2>6 DEF PayrollOK
  <2>8. \A v \in Uploader : upload'[v].at # "idle" => upload'[v].file \in File
    BY <1>0, <2>2, <2>4, <2>6 DEF PayrollOK
  <2> QED
    BY <2>3, <2>7, <2>8 DEF PayrollOK
<1>3. ASSUME NEW u \in Uploader, AddRows(u) PROVE PayrollOK'
  <2> DEFINE b == upload[u].of
  <2>1. b \in Batch /\ batch[b].status # "NONE" /\ batch[b].file = upload[u].file
        /\ upload[u].file \in File
    BY <1>0, <1>3 DEF AddRows, PayrollOK
  <2>2. batch'[b].status = batch[b].status /\ batch'[b].rows <= Len(upload[u].file)
    <3>1. batch[b] \in ImportBatch /\ Len(upload[u].file) \in Nat
      BY <1>0, <1>b, <2>1
    <3>2. PICK x : /\ x <= Len(upload[u].file)
                   /\ batch' = [batch EXCEPT ![b] = [batch[b] EXCEPT !.rows = x]]
      <4> DEFINE upto == batch[b].rows + ChunkSize
                 whole == Len(upload[u].file)
                 x == IF upto < whole THEN upto ELSE whole
      <4>1. upto \in Nat
        BY <3>1, ReconciliationAssumption DEF ImportBatch
      <4>2. x <= whole
        BY <3>1, <4>1
      <4>3. batch' = [batch EXCEPT ![b] = [batch[b] EXCEPT !.rows = x]]
        BY <1>3 DEF AddRows
      <4> QED
        BY <4>2, <4>3
    <3> QED
      BY <1>0, <2>1, <3>1, <3>2 DEF ImportBatch
  <2>3. \A c \in Batch \ {b} : batch'[c] = batch[c]
    BY <1>0, <1>3 DEF AddRows
  <2>4. \A v \in Uploader : upload'[v] = upload[v] \/ upload'[v].at = "idle"
    BY <1>0, <1>3 DEF AddRows, NoUpload
  <2>5. \A c \in Batch : batch'[c].status # "NONE" =>
          batch'[c].file \in File /\ batch'[c].rows <= Len(batch'[c].file)
    BY <1>0, <1>a, <2>1, <2>2, <2>3 DEF PayrollOK
  <2> QED
    BY <1>0, <1>a, <2>4, <2>5 DEF PayrollOK
<1>4. ASSUME NEW u \in Uploader, UploadFails(u) PROVE PayrollOK'
  BY <1>0, <1>4 DEF UploadFails, PayrollOK, NoUpload
<1>5. ASSUME NEW b \in Batch, CancelBatch(b) PROVE PayrollOK'
  <2>1. \A c \in Batch : batch'[c].rows = batch[c].rows
                        /\ (batch'[c].status # "NONE" => batch[c].status # "NONE")
    BY <1>0, <1>5 DEF CancelBatch, ImportBatch
  <2>2. upload' = upload
    BY <1>5 DEF CancelBatch
  <2> QED
    BY <1>0, <1>a, <2>1, <2>2 DEF PayrollOK
<1>6. CASE ReportStep \/ \E r \in Run : MatchStep(r)
  BY <1>0, <1>6, ReportKeeps, MatchKeeps DEF PayrollOK
<1>7. CASE BeginMatching \/ NewRun \/ RefuseMatching
  BY <1>0, <1>7 DEF BeginMatching, NewRun, CreateRun, CreateRunUnanswered, RefuseMatching,
                    payroll, PayrollOK
<1>8. CASE Crash
  BY <1>0, <1>8 DEF Crash, NoUpload, PayrollOK
<1>9. CASE UNCHANGED vars
  BY <1>0, <1>9 DEF vars, PayrollOK
<1> QED
  BY <1>1, <1>2, <1>3, <1>4, <1>5, <1>6, <1>7, <1>8, <1>9, StepKinds DEF PayrollStep

(* Runs.  A step of doMatching or of its call is about a run that is there,  *)
(* and keeps its batch.                                                      *)
LEMMA MatchIsThere ==
  ASSUME TypeOK, RunsOK, NEW r \in Run, MatchStep(r)
  PROVE  /\ run[r].status # "NONE" /\ run'[r].status # "NONE"
         /\ run'[r].batch = run[r].batch
<1> USE DEF TypeOK, payroll, reporting
<1>1. match[r].at # "idle" \/ match[r].call # "idle"
  BY DEF MatchStep, Works, ReadAndCompare, InsertFindings, FinishRun, Audit, MatchError,
         TimesOut, MarkFailed, MarkError, AtWork
<1>2. run[r].status # "NONE"
  BY <1>1 DEF RunsOK
<1>3. \/ run'[r] = run[r]
      \/ \E I : run'[r] = [run[r] EXCEPT !.read = I]
      \/ \E n : run'[r] = [run[r] EXCEPT !.status = "DONE", !.total = n]
      \/ run'[r] = [run[r] EXCEPT !.status = "FAILED"]
  <2>1. CASE InsertFindings(r) \/ Audit(r) \/ MatchError(r) \/ TimesOut(r) \/ MarkError(r)
    BY <2>1 DEF InsertFindings, Audit, MatchError, TimesOut, MarkError
  <2>2. CASE ReadAndCompare(r)
    BY <2>2 DEF ReadAndCompare
  <2>3. CASE FinishRun(r)
    BY <2>3 DEF FinishRun
  <2>4. CASE MarkFailed(r)
    BY <2>4 DEF MarkFailed
  <2> QED
    BY <2>1, <2>2, <2>3, <2>4 DEF MatchStep, Works
<1>4. run[r] \in MatchingRun
  OBVIOUS
<1> QED
  BY <1>2, <1>3, <1>4 DEF MatchingRun

LEMMA RunsStay == IInv /\ [Next]_vars => RunsOK'
<1> SUFFICES ASSUME IInv, [Next]_vars PROVE RunsOK'
  OBVIOUS
<1>0. TypeOK /\ PayrollOK /\ RunsOK
  BY DEF IInv
<1>a. \A b \in Batch : batch[b].status # "NONE" => batch'[b].status # "NONE"
  BY <1>0, FilesStay
<1> USE DEF TypeOK
<1>1. CASE PayrollStep \/ ReportStep \/ BeginMatching \/ RefuseMatching \/ UNCHANGED vars
  <2>1. run' = run /\ match' = match
    BY <1>1, PayrollKeeps, ReportKeeps DEF BeginMatching, RefuseMatching, vars
  <2> QED
    BY <1>0, <1>a, <2>1 DEF RunsOK, Numbered
<1>2. CASE NewRun
  <2> DEFINE r == Started + 1
  <2> HIDE DEF r
  <2>0. r = Started + 1
    BY DEF r
  <2>1. r \in Run /\ run[r].status = "NONE" /\ \A q \in Run : q < r => run[q].status # "NONE"
    BY <1>0, <1>2, <2>0, NewRunIs
  <2>a. batch' = batch /\ (match' = match \/ match' = [match EXCEPT ![r] = Called(match[r])])
    BY <1>0, <1>2, <2>0, NewRunIs
  <2>2. PICK b \in Batch : batch[b].status # "NONE" /\ run' = [run EXCEPT ![r] = Begun(run[r], b)]
    BY <1>0, <1>2, <2>0, NewRunIs
  <2>3. run'[r].status = "RUNNING" /\ run'[r].batch = b
    BY <1>0, <2>1, <2>2, BegunIs
  <2>4. \A q \in Run \ {r} : run'[q] = run[q] /\ match'[q] = match[q]
    BY <1>0, <2>a, <2>2
  <2>5. PICK k \in 0 .. MaxRuns : \A q \in Run : run[q].status # "NONE" <=> q <= k
    BY <1>0 DEF RunsOK, Numbered
  <2>6. r = k + 1 /\ k + 1 \in 0 .. MaxRuns
    <3>1. Started = k /\ MaxRuns \in Nat
      BY <2>5, StartedIs, ReconciliationAssumption
    <3> QED
      BY <2>0, <2>1, <3>1 DEF Run
  <2>7. \A q \in Run : run'[q].status # "NONE" <=> q <= k + 1
    BY <2>3, <2>4, <2>5, <2>6 DEF Run
  <2>8. Numbered'
    BY <2>6, <2>7 DEF Numbered
  <2> QED
    BY <1>0, <2>1, <2>a, <2>2, <2>3, <2>4, <2>8 DEF RunsOK
<1>3. ASSUME NEW r \in Run, MatchStep(r) PROVE RunsOK'
  <2>1. /\ run[r].status # "NONE" /\ run'[r].status # "NONE"
        /\ run'[r].batch = run[r].batch
    BY <1>0, <1>3, MatchIsThere
  <2>2. batch' = batch /\ \A q \in Run \ {r} : run'[q] = run[q] /\ match'[q] = match[q]
    BY <1>0, <1>3, MatchKeeps
  <2>3. \A q \in Run : run'[q].status # "NONE" <=> run[q].status # "NONE"
    BY <2>1, <2>2
  <2>4. Numbered'
    BY <1>0, <2>3 DEF RunsOK, Numbered
  <2> QED
    BY <1>0, <2>1, <2>2, <2>4 DEF RunsOK
<1>4. CASE Crash
  BY <1>0, <1>4 DEF Crash, NoMatch, RunsOK, Numbered
<1> QED
  BY <1>1, <1>2, <1>3, <1>4, StepKinds

(* Findings stay finite.                                                     *)
LEMMA FiniteStays == IInv /\ [Next]_vars => FiniteOK'
<1> SUFFICES ASSUME IInv, [Next]_vars PROVE FiniteOK'
  OBVIOUS
<1>0. TypeOK /\ PayrollOK /\ RunsOK /\ FiniteOK
  BY DEF IInv
<1> USE DEF TypeOK
<1>1. CASE PayrollStep \/ ReportStep \/ BeginMatching \/ RefuseMatching \/ UNCHANGED vars
  <2>1. findings' = findings /\ match' = match
    BY <1>1, PayrollKeeps, ReportKeeps DEF BeginMatching, RefuseMatching, vars
  <2> QED
    BY <1>0, <2>1 DEF FiniteOK
<1>2. CASE NewRun
  <2> DEFINE r == Started + 1
  <2> HIDE DEF r
  <2>0. r = Started + 1
    BY DEF r
  <2>1. /\ r \in Run /\ findings' = findings
        /\ match' = match \/ match' = [match EXCEPT ![r] = Called(match[r])]
    BY <1>0, <1>2, <2>0, NewRunIs
  <2>2. \A q \in Run : match'[q].left = match[q].left
    BY <1>0, <2>1, CalledIs
  <2> QED
    BY <1>0, <2>1, <2>2 DEF FiniteOK
<1>3. ASSUME NEW r \in Run, MatchStep(r) PROVE FiniteOK'
  <2>1. IsFiniteSet(findings'[r]) /\ IsFiniteSet(match'[r].left)
    <3>0. IsFiniteSet(findings[r]) /\ IsFiniteSet(match[r].left) /\ match[r] \in Matching
      BY <1>0 DEF FiniteOK
    <3>1. CASE ReadAndCompare(r)
      <4> DEFINE I == Comparable(run[r].batch)
      <4>1. PICK first : /\ FirstOf(Theirs(r), I, first)
                         /\ match' = [match EXCEPT ![r].at = "insert",
                                 ![r].left = FindingsOf(Theirs(r), I, first),
                                 ![r].count = Cardinality(FindingsOf(Theirs(r), I, first))]
        BY <3>1 DEF ReadAndCompare, FirstOf, Theirs
      <4>a. match'[r].left = FindingsOf(Theirs(r), I, first)
        BY <1>0, <3>0, <4>1 DEF Matching
      <4>2. Read(Theirs(r), I)
        BY <1>0, <1>3, MatchIsThere, ComparesRows
      <4>3. findings'[r] = {}
        BY <1>0, <3>1 DEF ReadAndCompare
      <4> QED
        BY <4>1, <4>a, <4>2, <4>3, FoundFinite, FS_EmptySet
    <3>2. CASE InsertFindings(r)
      <4>1. PICK C \in SUBSET match[r].left :
              /\ findings' = [findings EXCEPT ![r] = findings[r] \cup C]
              /\ match' = [match EXCEPT ![r] = [match[r] EXCEPT !.left = match[r].left \ C]]
        BY <3>2 DEF InsertFindings
      <4>2. findings'[r] = findings[r] \cup C /\ match'[r].left = match[r].left \ C
        BY <1>0, <3>0, <4>1 DEF Matching
      <4>3. IsFiniteSet(C) /\ IsFiniteSet(match[r].left \ C)
        BY <3>0, FS_Subset
      <4> QED
        BY <3>0, <4>2, <4>3, FS_Union
    <3>3. CASE ~ReadAndCompare(r) /\ ~InsertFindings(r)
      <4>1. findings' = findings
        BY <1>3, <3>3 DEF MatchStep, Works, FinishRun, Audit, MatchError, TimesOut, MarkFailed,
           MarkError
      <4>2. match'[r].left = match[r].left \/ match'[r].left = {}
        <5>1. \/ match'[r] = [match[r] EXCEPT !.at = "audit", !.left = {}, !.count = 0]
              \/ match'[r] = Returned(r) \/ match'[r] = AfterError(r)
              \/ \E c : match'[r] = [match[r] EXCEPT !.call = c]
          BY <1>0, <1>3, <3>3 DEF MatchStep, Works, FinishRun, Audit, MatchError, TimesOut,
             MarkFailed, MarkError
        <5>2. Returned(r).left = {} /\ AfterError(r).left = {}
          BY DEF Returned, AfterError, NoMatch
        <5> QED
          BY <3>0, <5>1, <5>2 DEF Matching
      <4> QED
        BY <3>0, <4>1, <4>2, FS_EmptySet
    <3> QED
      BY <3>1, <3>2, <3>3
  <2> QED
    BY <1>0, <1>3, <2>1, MatchKeeps DEF FiniteOK
<1>4. CASE Crash
  BY <1>0, <1>4, FS_EmptySet DEF Crash, NoMatch, FiniteOK
<1> QED
  BY <1>1, <1>2, <1>3, <1>4, StepKinds

(* What is compared about one run.                                           *)
ComparedRun(r) ==
  /\ match[r].at = "insert" =>
       /\ Explained(r, findings[r] \cup match[r].left)
       /\ match[r].count = Cardinality(findings[r] \cup match[r].left)
  /\ run[r].status = "DONE" =>
       /\ match[r].at \notin {"read", "insert"}
       /\ Explained(r, findings[r])
       /\ run[r].total = Cardinality(findings[r])

LEMMA ComparedParts == ComparedOK <=> \A r \in Run : ComparedRun(r)
BY DEF ComparedOK, ComparedRun

(* What a run was compared with stays.                                       *)
LEMMA TheirsStay ==
  ASSUME TypeOK, PayrollOK, RunsOK, [Next]_vars, NEW r \in Run,
         run[r].status # "NONE", run'[r].batch = run[r].batch
  PROVE  Theirs(r)' = Theirs(r)
BY FilesStay DEF RunsOK, Theirs

(* A run whose row and findings stay is compared as before, unless its       *)
(* doMatching starts to insert.                                              *)
LEMMA ComparedRunStays ==
  ASSUME TypeOK, PayrollOK, RunsOK, [Next]_vars, NEW r \in Run, ComparedRun(r),
         run'[r] = run[r], findings'[r] = findings[r],
         \/ match'[r].at \in {"idle", "audit"}
         \/ match'[r].at = match[r].at /\ match'[r].left = match[r].left
            /\ match'[r].count = match[r].count
  PROVE  ComparedRun(r)'
<1>1. match[r].at = "insert" => run[r].status # "NONE"
  BY DEF RunsOK
<1>2. run[r].status # "NONE" => Theirs(r)' = Theirs(r)
  BY TheirsStay
<1>3. ASSUME match'[r].at = "insert"
      PROVE  /\ Compared(Theirs(r)', run'[r].read, findings'[r] \cup match'[r].left)
             /\ match'[r].count = Cardinality(findings'[r] \cup match'[r].left)
  BY <1>1, <1>2, <1>3 DEF ComparedRun, Explained
<1>4. ASSUME run'[r].status = "DONE"
      PROVE  /\ match'[r].at \notin {"read", "insert"}
             /\ Compared(Theirs(r)', run'[r].read, findings'[r])
             /\ run'[r].total = Cardinality(findings'[r])
  BY <1>2, <1>4 DEF ComparedRun, Explained
<1> QED
  BY <1>3, <1>4 DEF ComparedRun, Explained

LEMMA ComparedStays == IInv /\ [Next]_vars => ComparedOK'
<1> SUFFICES ASSUME IInv, [Next]_vars PROVE ComparedOK'
  OBVIOUS
<1>0. /\ TypeOK /\ PayrollOK /\ RunsOK /\ \A r \in Run : ComparedRun(r)
  BY ComparedParts DEF IInv
<1> SUFFICES ASSUME NEW q \in Run PROVE ComparedRun(q)'
  BY DEF ComparedOK, ComparedRun
<1>1. CASE run'[q] = run[q] /\ findings'[q] = findings[q] /\ match'[q] = match[q]
  BY <1>0, <1>1, ComparedRunStays
<1>2. CASE PayrollStep \/ ReportStep \/ BeginMatching \/ RefuseMatching \/ UNCHANGED vars
  BY <1>1, <1>2, PayrollKeeps, ReportKeeps DEF BeginMatching, RefuseMatching, vars
<1>3. CASE NewRun
  <2> DEFINE r == Started + 1
  <2> HIDE DEF r
  <2>0. r = Started + 1
    BY DEF r
  <2>1. /\ r \in Run /\ run[r].status = "NONE" /\ findings' = findings
        /\ match' = match \/ match' = [match EXCEPT ![r] = Called(match[r])]
    BY <1>0, <1>3, <2>0, NewRunIs
  <2>2. PICK b \in Batch : run' = [run EXCEPT ![r] = Begun(run[r], b)]
    BY <1>0, <1>3, <2>0, NewRunIs
  <2>3. CASE q # r
    BY <1>0, <1>1, <2>1, <2>2, <2>3 DEF TypeOK
  <2>4. CASE q = r
    <3>1. match'[q] = match[q] \/ match'[q].at = "read"
      BY <1>0, <2>1, <2>4, CalledIs DEF TypeOK
    <3>2. run'[q].status = "RUNNING" /\ match[q].at = "idle"
      BY <1>0, <2>1, <2>2, <2>4, BegunIs DEF RunsOK, TypeOK
    <3> QED
      BY <3>1, <3>2 DEF ComparedRun
  <2> QED
    BY <2>3, <2>4
<1>4. ASSUME NEW r \in Run, MatchStep(r) PROVE ComparedRun(q)'
  <2>1. CASE q # r
    BY <1>0, <1>1, <1>4, <2>1, MatchKeeps
  <2>2. CASE q = r
    <3>0. /\ run[q].status # "NONE" /\ run[q] \in MatchingRun /\ match[q] \in Matching
          /\ Theirs(q)' = Theirs(q)
      BY <1>0, <1>4, <2>2, MatchIsThere, TheirsStay DEF TypeOK
    <3>1. CASE ReadAndCompare(q)
      <4> DEFINE I == Comparable(run[q].batch)
      <4>1. PICK first :
              /\ FirstOf(Theirs(q), I, first)
              /\ match' = [match EXCEPT ![q].at = "insert",
                              ![q].left = FindingsOf(Theirs(q), I, first),
                              ![q].count = Cardinality(FindingsOf(Theirs(q), I, first))]
        BY <3>1 DEF ReadAndCompare, FirstOf, Theirs
      <4>2. /\ match'[q].at = "insert" /\ match'[q].left = FindingsOf(Theirs(q), I, first)
            /\ match'[q].count = Cardinality(FindingsOf(Theirs(q), I, first))
        BY <1>0, <3>0, <4>1 DEF TypeOK, Matching
      <4>3. findings'[q] = {} /\ run'[q].read = I /\ run'[q].status = run[q].status
        BY <1>0, <3>0, <3>1 DEF TypeOK, ReadAndCompare, MatchingRun
      <4>4. run[q].status # "DONE"
        BY <1>0, <3>1 DEF ReadAndCompare, ComparedRun
      <4>5. Read(Theirs(q), I)
        BY <1>0, <3>0, ComparesRows
      <4>6. Compared(Theirs(q), I, FindingsOf(Theirs(q), I, first))
        BY <4>1, <4>5 DEF Compared
      <4>7. findings'[q] \cup match'[q].left = FindingsOf(Theirs(q), I, first)
        BY <4>2, <4>3
      <4> QED
        BY <3>0, <4>2, <4>3, <4>4, <4>6, <4>7 DEF ComparedRun, Explained
    <3>2. CASE InsertFindings(q)
      <4>1. PICK C \in SUBSET match[q].left :
              /\ findings' = [findings EXCEPT ![q] = findings[q] \cup C]
              /\ match' = [match EXCEPT ![q] = [match[q] EXCEPT !.left = match[q].left \ C]]
        BY <3>2 DEF InsertFindings
      <4>2. /\ findings'[q] = findings[q] \cup C /\ match'[q].left = match[q].left \ C
            /\ match'[q].count = match[q].count /\ match'[q].at = match[q].at
        BY <1>0, <3>0, <4>1 DEF TypeOK, Matching
      <4>3. findings'[q] \cup match'[q].left = findings[q] \cup match[q].left
        BY <4>2
      <4>4. match[q].at = "insert" /\ run' = run
        BY <3>2 DEF InsertFindings
      <4>5. /\ run[q].status # "DONE" /\ Explained(q, findings[q] \cup match[q].left)
            /\ match[q].count = Cardinality(findings[q] \cup match[q].left)
        BY <1>0, <4>4 DEF ComparedRun
      <4> QED
        BY <3>0, <4>2, <4>3, <4>4, <4>5 DEF ComparedRun, Explained
    <3>3. CASE FinishRun(q)
      <4>1. /\ match[q].at = "insert" /\ match[q].left = {} /\ findings' = findings
            /\ run' = [run EXCEPT ![q] = [run[q] EXCEPT !.status = "DONE",
                                                       !.total = match[q].count]]
            /\ match' = [match EXCEPT ![q] = [match[q] EXCEPT !.at = "audit", !.left = {},
                                                             !.count = 0]]
        BY <3>3 DEF FinishRun, AllInserted
      <4>2. /\ match'[q].at = "audit" /\ run'[q].total = match[q].count
            /\ run'[q].read = run[q].read
        BY <1>0, <3>0, <4>1 DEF TypeOK, Matching, MatchingRun
      <4>3. findings[q] \cup match[q].left = findings[q]
        BY <4>1
      <4>4. /\ Explained(q, findings[q]) /\ match[q].count = Cardinality(findings[q])
        BY <1>0, <4>1, <4>3 DEF ComparedRun
      <4> QED
        BY <3>0, <4>1, <4>2, <4>4 DEF ComparedRun, Explained
    <3>4. CASE Audit(q) \/ MatchError(q)
      <4>1. run' = run /\ findings' = findings
            /\ (match'[q] = Returned(q) \/ match'[q] = AfterError(q))
        BY <1>0, <3>4 DEF TypeOK, Audit, MatchError
      <4>2. match'[q].at = "idle"
        BY <4>1 DEF Returned, AfterError, NoMatch
      <4> QED
        BY <1>0, <4>1, <4>2, ComparedRunStays
    <3>5. CASE TimesOut(q) \/ MarkError(q)
      <4>1. run' = run /\ findings' = findings
            /\ \E c : match' = [match EXCEPT ![q] = [match[q] EXCEPT !.call = c]]
        BY <3>5 DEF TimesOut, MarkError
      <4>2. match'[q].at = match[q].at /\ match'[q].left = match[q].left
            /\ match'[q].count = match[q].count
        BY <1>0, <3>0, <4>1 DEF TypeOK, Matching
      <4> QED
        BY <1>0, <4>1, <4>2, ComparedRunStays
    <3>6. CASE MarkFailed(q)
      <4>1. findings' = findings
            /\ run' = [run EXCEPT ![q] = [run[q] EXCEPT !.status = "FAILED"]]
            /\ match' = [match EXCEPT ![q] = [match[q] EXCEPT !.call = "idle"]]
        BY <3>6 DEF MarkFailed
      <4>2. /\ match'[q].at = match[q].at /\ match'[q].left = match[q].left
            /\ match'[q].count = match[q].count
            /\ run'[q].read = run[q].read /\ run'[q].status = "FAILED"
        BY <1>0, <3>0, <4>1 DEF TypeOK, Matching, MatchingRun
      <4> QED
        BY <1>0, <3>0, <4>1, <4>2 DEF ComparedRun, Explained
    <3> QED
      BY <1>4, <2>2, <3>1, <3>2, <3>3, <3>4, <3>5, <3>6 DEF MatchStep, Works
  <2> QED
    BY <2>1, <2>2
<1>5. CASE Crash
  <2>1. run' = run /\ findings' = findings /\ match'[q].at = "idle"
    BY <1>5 DEF Crash, NoMatch
  <2> QED
    BY <1>0, <2>1, ComparedRunStays
<1> QED
  BY <1>2, <1>3, <1>4, <1>5, StepKinds

(* The findings of a settled run change no more: only a doMatching that has  *)
(* not inserted everything changes them, and a new run is another one.       *)
LEMMA SettledStays ==
  ASSUME IInv, [Next]_vars, NEW r, NEW n, Settled(r, n)
  PROVE  Settled(r, n)'
<1>0. TypeOK /\ RunsOK
  BY DEF IInv
<1>1. /\ r \in Run /\ run[r].status # "NONE" /\ match[r].at \notin {"read", "insert"}
      /\ n = Cardinality(findings[r])
  BY DEF Settled
<1>2. CASE PayrollStep \/ ReportStep \/ BeginMatching \/ RefuseMatching \/ UNCHANGED vars
  <2>1. run' = run /\ match' = match /\ findings' = findings
    BY <1>2, PayrollKeeps, ReportKeeps DEF BeginMatching, RefuseMatching, vars
  <2> QED
    BY <1>1, <2>1 DEF Settled
<1>3. CASE NewRun
  <2>1. r # Started + 1
    BY <1>0, <1>1, <1>3, NewRunIs
  <2>2. run'[r] = run[r] /\ match'[r] = match[r] /\ findings' = findings
    BY <1>0, <1>1, <1>3, <2>1, NewRunIs DEF TypeOK
  <2> QED
    BY <1>1, <2>2 DEF Settled
<1>4. ASSUME NEW q \in Run, MatchStep(q) PROVE Settled(r, n)'
  <2>1. CASE q # r
    BY <1>0, <1>1, <1>4, <2>1, MatchKeeps DEF Settled
  <2>2. CASE q = r
    <3>0. match[r] \in Matching /\ run'[r].status # "NONE"
      BY <1>0, <1>1, <1>4, <2>2, MatchIsThere DEF TypeOK
    <3>1. ~ReadAndCompare(r) /\ ~InsertFindings(r) /\ ~FinishRun(r)
      BY <1>1 DEF ReadAndCompare, InsertFindings, FinishRun
    <3>2. findings' = findings
      BY <1>4, <2>2, <3>1 DEF MatchStep, Works, Audit, MatchError, TimesOut, MarkFailed, MarkError
    <3>3. \/ match'[r] = Returned(r) \/ match'[r] = AfterError(r)
          \/ \E c : match'[r] = [match[r] EXCEPT !.call = c]
      BY <1>0, <1>1, <1>4, <2>2, <3>1 DEF TypeOK, MatchStep, Works, Audit, MatchError, TimesOut,
         MarkFailed, MarkError
    <3>4. match'[r].at \notin {"read", "insert"}
      <4>1. Returned(r).at = "idle" /\ AfterError(r).at = "idle"
        BY DEF Returned, AfterError, NoMatch
      <4>2. \A c : [match[r] EXCEPT !.call = c].at = match[r].at
        BY <3>0 DEF Matching
      <4> QED
        BY <1>1, <3>3, <4>1, <4>2
    <3> QED
      BY <1>1, <3>0, <3>2, <3>4 DEF Settled
  <2> QED
    BY <2>1, <2>2
<1>5. CASE Crash
  BY <1>1, <1>5 DEF Crash, NoMatch, Settled
<1> QED
  BY <1>2, <1>3, <1>4, <1>5, StepKinds

(* Reports and drafts keep stating the truth.                                *)
LEMMA SureStays == IInv /\ [Next]_vars => SureOK'
<1> SUFFICES ASSUME IInv, [Next]_vars PROVE SureOK'
  OBVIOUS
<1> DEFINE Later(r, n) ==
      /\ r \in Run /\ run'[r].status # "NONE" /\ match'[r].at \notin {"read", "insert"}
      /\ n = Cardinality(findings'[r])
           Stated(x) == x.sure => Later(x.of, x.total)
<1>0. TypeOK /\ SureOK /\ RangeOK /\ ComparedOK
  BY DEF IInv
<1>1. SUFFICES /\ \A i \in DOMAIN reports' : Stated(reports'[i])
               /\ \A d \in Drafter : Stated(draft'[d])
  BY DEF SureOK, Settled
<1>2. \A r, n : Settled(r, n) => Later(r, n)
  BY SettledStays DEF Settled
<1>3. /\ \A i \in DOMAIN reports : Stated(reports[i])
      /\ \A d \in Drafter : Stated(draft[d])
  BY <1>0, <1>2 DEF SureOK
<1>4. Stated(NoDraft)
  BY DEF NoDraft
<1> HIDE DEF Later, Stated
<1>5. CASE \/ PayrollStep \/ BeginMatching \/ NewRun \/ RefuseMatching
           \/ \E r \in Run : MatchStep(r)
           \/ CloseFails \/ BeginClose \/ UNCHANGED vars
  <2>1. reports' = reports /\ draft' = draft
    BY <1>0, <1>5, PayrollKeeps, MatchKeeps
       DEF BeginMatching, NewRun, CreateRun, CreateRunUnanswered, RefuseMatching, CloseFails,
           BeginClose, reporting, vars
  <2> QED
    BY <1>3, <2>1
<1>6. ASSUME NEW d \in Drafter, BeginDraft(d)
      PROVE  /\ \A i \in DOMAIN reports' : Stated(reports'[i])
             /\ \A e \in Drafter : Stated(draft'[e])
  <2> DEFINE sure == Started # 0 /\ run[Started].status = "DONE"
             held == [at |-> "check", of |-> Started, total |-> FoundOf(Started),
                      sure |-> sure, onto |-> 0]
  <2>1. draft' = [draft EXCEPT ![d] = held] /\ reports' = reports
    BY <1>6 DEF BeginDraft, LatestRun
  <2>2. Stated(held)
    <3>1. ASSUME sure PROVE Settled(Started, FoundOf(Started))
      <4>1. Started \in Run
        <5>1. PICK k \in 0 .. MaxRuns : \A r \in Run : run[r].status # "NONE" <=> r <= k
          BY DEF IInv, RunsOK, Numbered
        <5> QED
          BY <3>1, <5>1, StartedIs, ReconciliationAssumption DEF Run
      <4>2. match[Started].at \notin {"read", "insert"}
        BY <1>0, <3>1, <4>1 DEF ComparedOK
      <4>3. FoundOf(Started) = Cardinality(findings[Started])
        BY <3>1 DEF FoundOf
      <4> QED
        BY <3>1, <4>1, <4>2, <4>3 DEF Settled
    <3>2. held.sure = sure /\ held.of = Started /\ held.total = FoundOf(Started)
      OBVIOUS
    <3> QED
      BY <1>2, <3>1, <3>2 DEF Stated
  <2> QED
    BY <1>0, <1>3, <2>1, <2>2 DEF TypeOK
<1>7. ASSUME NEW d \in Drafter, CheckReport(d)
      PROVE  /\ \A i \in DOMAIN reports' : Stated(reports'[i])
             /\ \A e \in Drafter : Stated(draft'[e])
  <2> DEFINE held == [draft[d] EXCEPT !.at = "write", !.onto = Len(reports)]
  <2>1. Stated(held)
    <3>1. held.sure = draft[d].sure /\ held.of = draft[d].of /\ held.total = draft[d].total
      BY <1>0 DEF TypeOK, Draft
    <3> QED
      BY <1>3, <3>1 DEF Stated
  <2>2. reports' = reports /\ (draft' = [draft EXCEPT ![d] = NoDraft]
                              \/ draft' = [draft EXCEPT ![d] = held])
    BY <1>7 DEF CheckReport
  <2> QED
    BY <1>0, <1>3, <1>4, <2>1, <2>2 DEF TypeOK
<1>8. ASSUME NEW d \in Drafter, WriteReport(d)
      PROVE  /\ \A i \in DOMAIN reports' : Stated(reports'[i])
             /\ \A e \in Drafter : Stated(draft'[e])
  <2>1. \A old : Stated(Restated(old, d))
    <3>1. draft[d].sure => draft[d].of # 0
      BY <1>0, ReconciliationAssumption DEF SureOK, Settled, Run
    <3> QED
      BY <1>3, <3>1 DEF Stated, Restated
  <2>2. \A e \in Drafter : Stated(draft'[e])
    BY <1>0, <1>3, <1>4, <1>8 DEF WriteReport, TypeOK
  <2>3. \/ \E old : reports' = Append(reports, Restated(old, d))
        \/ \E k, old : reports' = [reports EXCEPT ![k] = Restated(old, d)]
    BY <1>8 DEF WriteReport
  <2>4. CASE \E old : reports' = Append(reports, Restated(old, d))
    <3>1. PICK old : reports' = Append(reports, Restated(old, d))
      BY <2>4
    <3>2. \A i \in DOMAIN reports' :
            (i \in DOMAIN reports /\ reports'[i] = reports[i]) \/ reports'[i] = Restated(old, d)
      BY <1>0, <3>1 DEF TypeOK
    <3> QED
      BY <1>3, <2>1, <2>2, <3>2
  <2>5. CASE \E k, old : reports' = [reports EXCEPT ![k] = Restated(old, d)]
    <3>1. PICK k, old : reports' = [reports EXCEPT ![k] = Restated(old, d)]
      BY <2>5
    <3>2. DOMAIN reports' = DOMAIN reports /\ \A i \in DOMAIN reports :
            reports'[i] = reports[i] \/ reports'[i] = Restated(old, d)
      BY <1>0, <3>1 DEF TypeOK
    <3> QED
      BY <1>3, <2>1, <2>2, <3>2
  <2> QED
    BY <2>3, <2>4, <2>5
<1>9. ASSUME NEW d \in Drafter, DraftFails(d)
      PROVE  /\ \A i \in DOMAIN reports' : Stated(reports'[i])
             /\ \A e \in Drafter : Stated(draft'[e])
  BY <1>0, <1>3, <1>4, <1>9 DEF DraftFails, TypeOK
<1>10. CASE Close
  <2>1. draft' = draft /\ closing \in DOMAIN reports
    BY <1>0, <1>10 DEF Close, RangeOK, TypeOK
  <2> DEFINE closed == [reports[closing] EXCEPT !.status = "FINALIZED"]
  <2>2. reports' = [reports EXCEPT ![closing] = closed]
    BY <1>10 DEF Close
  <2>3. Stated(closed)
    <3>1. reports[closing] \in Report
      BY <1>0, <2>1 DEF TypeOK
    <3>2. closed.sure = reports[closing].sure /\ closed.of = reports[closing].of
          /\ closed.total = reports[closing].total
      BY <3>1 DEF Report
    <3> QED
      BY <1>3, <2>1, <3>2 DEF Stated
  <2>4. DOMAIN reports' = DOMAIN reports /\ \A i \in DOMAIN reports :
          reports'[i] = reports[i] \/ reports'[i] = closed
    BY <1>0, <2>1, <2>2 DEF TypeOK
  <2> QED
    BY <1>3, <2>1, <2>3, <2>4
<1>11. CASE Crash
  BY <1>3, <1>4, <1>11 DEF Crash
<1> QED
  BY <1>5, <1>6, <1>7, <1>8, <1>9, <1>10, <1>11, StepKinds DEF ReportStep

(* Reports are only added.                                                   *)
LEMMA RangeStays == IInv /\ [Next]_vars => RangeOK'
<1> SUFFICES ASSUME IInv, [Next]_vars PROVE RangeOK'
  OBVIOUS
<1>0. TypeOK /\ RangeOK /\ Len(reports) \in Nat
  BY DEF IInv, TypeOK
<1>1. CASE \/ PayrollStep \/ BeginMatching \/ NewRun \/ RefuseMatching
           \/ \E r \in Run : MatchStep(r)
           \/ UNCHANGED vars
  <2>1. reports' = reports /\ draft' = draft /\ closing' = closing
    BY <1>0, <1>1, PayrollKeeps, MatchKeeps
       DEF BeginMatching, NewRun, CreateRun, CreateRunUnanswered, RefuseMatching, reporting, vars
  <2> QED
    BY <1>0, <2>1 DEF RangeOK
<1>2. ASSUME NEW d \in Drafter, BeginDraft(d) PROVE RangeOK'
  <2>1. \A e \in Drafter : draft'[e] = draft[e] \/ draft'[e].onto = 0
    BY <1>0, <1>2 DEF BeginDraft, TypeOK
  <2> QED
    BY <1>0, <1>2, <2>1 DEF BeginDraft, RangeOK
<1>3. ASSUME NEW d \in Drafter, CheckReport(d) PROVE RangeOK'
  <2>1. draft[d] \in Draft
    BY <1>0 DEF TypeOK
  <2>2. \A e \in Drafter : draft'[e] = draft[e] \/ draft'[e].onto \in {0, Len(reports)}
    BY <1>0, <1>3, <2>1 DEF CheckReport, TypeOK, NoDraft, Draft
  <2> QED
    BY <1>0, <1>3, <2>2 DEF CheckReport, RangeOK
<1>4. ASSUME NEW d \in Drafter, WriteReport(d) PROVE RangeOK'
  <2>1. Len(reports') \in Nat /\ Len(reports') >= Len(reports)
    BY <1>0, <1>4 DEF WriteReport, TypeOK
  <2>2. \A e \in Drafter : draft'[e] = draft[e] \/ draft'[e].onto = 0
    BY <1>0, <1>4 DEF WriteReport, NoDraft, TypeOK
  <2>3. \A e \in Drafter : draft[e].onto \in Nat
    BY <1>0 DEF TypeOK, Draft
  <2> QED
    BY <1>0, <1>4, <2>1, <2>2, <2>3 DEF WriteReport, RangeOK, TypeOK
<1>5. ASSUME NEW d \in Drafter, DraftFails(d) PROVE RangeOK'
  BY <1>0, <1>5 DEF DraftFails, NoDraft, RangeOK, TypeOK
<1>6. CASE BeginClose \/ Close \/ CloseFails
  <2>1. Len(reports') = Len(reports) /\ draft' = draft /\ closing' \in {0, Len(reports)}
    BY <1>0, <1>6 DEF BeginClose, Close, CloseFails, TypeOK
  <2> QED
    BY <1>0, <2>1 DEF RangeOK
<1>7. CASE Crash
  BY <1>0, <1>7 DEF Crash, NoDraft, RangeOK
<1> QED
  BY <1>1, <1>2, <1>3, <1>4, <1>5, <1>6, <1>7, StepKinds DEF ReportStep

-----------------------------------------------------------------------------
(* The theorems.                                                             *)

LEMMA InitHolds == Init => IInv
<1> SUFFICES ASSUME Init PROVE IInv
  OBVIOUS
<1> USE DEF Init
<1>1. {MaxBatches, MaxRuns, MaxStarting, MaxFaults} \subseteq Nat
  BY ReconciliationAssumption
<1>2. TypeOK
  <2>1. NoBatch \in ImportBatch /\ NoRun \in MatchingRun
    BY DEF NoBatch, ImportBatch, NoRun, MatchingRun
  <2>2. NoUpload \in Upload /\ NoMatch \in Matching /\ NoDraft \in Draft
    BY DEF NoUpload, Upload, NoMatch, Matching, NoDraft, Draft
  <2>3. reports \in Seq(Report)
    OBVIOUS
  <2>4. batch \in [Batch -> ImportBatch] /\ run \in [Run -> MatchingRun]
        /\ findings \in [Run -> SUBSET Finding]
    BY <2>1
  <2>5. 0 \in 0 .. MaxStarting /\ 0 \in 0 .. MaxFaults
    BY <1>1
  <2> QED
    BY <2>2, <2>3, <2>4, <2>5 DEF TypeOK
<1>3. PayrollOK
  BY DEF PayrollOK, NoBatch, NoUpload
<1>4. RunsOK
  <2>1. 0 \in 0 .. MaxRuns /\ \A r \in Run : run[r].status # "NONE" <=> r <= 0
    BY <1>1 DEF NoRun, Run
  <2> QED
    BY <2>1 DEF RunsOK, Numbered, NoRun, NoMatch
<1>5. FiniteOK
  BY FS_EmptySet DEF FiniteOK, NoMatch
<1>6. ComparedOK
  BY DEF ComparedOK, NoMatch, NoRun
<1>7. SureOK /\ RangeOK
  BY DEF SureOK, RangeOK, NoDraft
<1> QED
  BY <1>2, <1>3, <1>4, <1>5, <1>6, <1>7 DEF IInv

LEMMA Always == Spec => []IInv
<1>1. IInv /\ [Next]_vars => IInv'
  BY TypeStep, PayrollStays, RunsStay, FiniteStays, ComparedStays, SureStays,
     RangeStays DEF IInv
<1> QED
  BY InitHolds, <1>1, PTL DEF Spec

(* Batches, runs, findings, reports and the calls at work have their types.  *)
THEOREM ReconTypeCorrect == Spec => []TypeOK
<1>1. IInv => TypeOK
  BY DEF IInv
<1> QED
  BY Always, <1>1, PTL

(* A DONE run has all the findings it counts, for files and registers of any *)
(* size, however chunks, timeouts, failures and other runs interleave.       *)
THEOREM DoneComplete == Spec => []DoneIsComplete
<1>1. IInv => DoneIsComplete
  BY DEF IInv, ComparedOK, DoneIsComplete
<1> QED
  BY Always, <1>1, PTL

(* Silence of a DONE run is agreement, for every register and payroll: it    *)
(* follows from what the run compared, which nobody changes afterwards.      *)
THEOREM SilenceAgreesForever == Spec => []SilenceIsAgreement
<1>1. IInv => SilenceIsAgreement
  <2> SUFFICES ASSUME IInv, NEW r \in Run, run[r].status = "DONE",
                      NEW n \in Nip, \A x \in findings[r] : x.nip # n
               PROVE  Agrees(Theirs(r), run[r].read, n)
    BY DEF SilenceIsAgreement, Agrees, Theirs
  <2>1. Compared(Theirs(r), run[r].read, findings[r])
    BY DEF IInv, ComparedOK, Explained
  <2> QED
    BY <2>1, SilenceAgrees DEF Compared
<1> QED
  BY Always, <1>1, PTL

(* What a report says of a run that was DONE stays true of it.               *)
THEOREM ReportsCount == Spec => []ReportCounts
<1>1. IInv => ReportCounts
  BY DEF IInv, SureOK, Settled, ReportCounts
<1> QED
  BY Always, <1>1, PTL

(* A final report nobody who found it a draft is still to write stays, and   *)
(* stays the last, for any number of drafts at once.                         *)
THEOREM FinalizedStandsForever == Spec => FinalizedStands
<1>1. ASSUME IInv, [Next]_vars, Closed PROVE reports' = reports /\ Closed'
  <2>0. TypeOK
    BY <1>1 DEF IInv
  <2>1. LastIsFinal /\ closing = 0 /\ \A d \in Drafter : draft[d].at # "write"
    BY <1>1 DEF Closed
  <2>2. SUFFICES /\ reports' = reports /\ closing' = 0
                 /\ \A d \in Drafter : draft'[d].at # "write"
    BY <2>1 DEF Closed, LastIsFinal
  <2>3. CASE \/ PayrollStep \/ BeginMatching \/ NewRun \/ RefuseMatching
             \/ \E r \in Run : MatchStep(r)
             \/ UNCHANGED vars
    BY <2>0, <2>1, <2>3, PayrollKeeps, MatchKeeps
       DEF BeginMatching, NewRun, CreateRun, CreateRunUnanswered, RefuseMatching, reporting, vars
  <2>4. ASSUME NEW d \in Drafter,
               BeginDraft(d) \/ CheckReport(d) \/ WriteReport(d) \/ DraftFails(d)
        PROVE  /\ reports' = reports /\ closing' = 0
               /\ \A e \in Drafter : draft'[e].at # "write"
    <3>1. ~WriteReport(d)
      BY <2>1 DEF WriteReport
    <3>2. reports' = reports /\ closing' = closing
      BY <2>4, <3>1 DEF BeginDraft, CheckReport, DraftFails
    <3>3. \A e \in Drafter : draft'[e] = draft[e] \/ draft'[e].at # "write"
      BY <2>0, <2>1, <2>4, <3>1 DEF BeginDraft, CheckReport, DraftFails, NoDraft, TypeOK
    <3> QED
      BY <2>1, <3>2, <3>3
  <2>5. CASE BeginClose \/ Close \/ CloseFails
    BY <2>1, <2>5 DEF BeginClose, Close, CloseFails
  <2>6. CASE Crash
    BY <2>6 DEF Crash, NoDraft
  <2> QED
    BY <1>1, <2>3, <2>4, <2>5, <2>6, StepKinds DEF ReportStep
<1> QED
  BY Always, <1>1, PTL DEF Spec, FinalizedStands

=============================================================================

---------------------------- MODULE ImportProofs ----------------------------
(***************************************************************************)
(* Theorems about ImportBatch, for any number of employees, batches, jobs, *)
(* uploads and faults.                                                     *)
(***************************************************************************)
EXTENDS ImportBatch, SequenceTheorems, TLAPS

USE DEF Batch, requests, table, vars

(* A job that is not idle has a batch, and while it works the batch is in   *)
(* no status that could be claimed.                                         *)
ClaimHeld ==
  \A j \in Job :
    /\ job[j].at # "idle" => job[j].of \in Batch
    /\ job[j].at \in AtWork => status[job[j].of] \in {"PROCESSING", "CANCELLED", "FAILED"}

Exclusive == ClaimHeld /\ OneJobPerBatch

-----------------------------------------------------------------------------
(* What the operators return.                                               *)

LEMMA FunctionIsSeq ==
  ASSUME NEW S, NEW n \in Nat, NEW f \in [1 .. n -> S]
  PROVE  f \in Seq(S)
  OBVIOUS

LEMMA StagedRowsType == ASSUME NEW f \in File \cup {<<>>} PROVE StagedRows(f) \in Seq(Row)
<1>1. f \in Seq([nip : Nip, sound : BOOLEAN, known : BOOLEAN])
  <2>1. <<>> \in Seq([nip : Nip, sound : BOOLEAN, known : BOOLEAN])
    OBVIOUS
  <2> QED
    BY <2>1, FileAssumption
<1>2. DOMAIN f = 1 .. Len(f) /\ Len(f) \in Nat
  BY <1>1
<1>3. \A i \in DOMAIN f :
        [mapping |-> IF IsDuplicate(f, i) THEN "NEEDS_REVIEW" ELSE "UNMAPPED",
         unit |-> "none"] \in Row
  BY DEF Row, Mapping
<1>4. StagedRows(f) \in [1 .. Len(f) -> Row]
  BY <1>2, <1>3 DEF StagedRows
<1> QED
  BY <1>2, <1>4, FunctionIsSeq

LEMMA MappedRowType == ASSUME NEW line PROVE MappedRow(line) \in Row
  BY DEF MappedRow, Unit, Row, Mapping

LEMMA MapReadType ==
  ASSUME TypeOK, NEW b \in Batch
  PROVE  [i \in DOMAIN rows[b] |-> MappedRow(file[b][i])] \in Seq(Row)
<1>1. rows[b] \in Seq(Row)
  BY DEF TypeOK
<1>2. DOMAIN rows[b] = 1 .. Len(rows[b]) /\ Len(rows[b]) \in Nat
  BY <1>1
<1>3. [i \in DOMAIN rows[b] |-> MappedRow(file[b][i])] \in [1 .. Len(rows[b]) -> Row]
  BY <1>2, MappedRowType
<1> QED
  BY <1>2, <1>3, FunctionIsSeq

LEMMA MappedChunkType ==
  ASSUME TypeOK, NEW j \in Job
  PROVE  MappedChunk(j) \in [Batch -> Seq(Row)]
<1> DEFINE b == job[j].of
           new == [i \in DOMAIN rows[b] |-> IF i \in Chunk(j) THEN job[j].plan[i] ELSE rows[b][i]]
<1>1. CASE b \in Batch
  <2>1. rows[b] \in Seq(Row) /\ job[j].plan \in Seq(Row)
    BY <1>1 DEF TypeOK
  <2>2. DOMAIN rows[b] = 1 .. Len(rows[b]) /\ Len(rows[b]) \in Nat
    BY <2>1
  <2>3. \A i \in DOMAIN rows[b] : new[i] \in Row
    BY <2>1 DEF Chunk
  <2>4. new \in [1 .. Len(rows[b]) -> Row]
    BY <2>2, <2>3
  <2>5. new \in Seq(Row)
    BY <2>2, <2>4, FunctionIsSeq
  <2>6. MappedChunk(j) = [rows EXCEPT ![b] = new]
    BY DEF MappedChunk
  <2> QED
    BY <2>5, <2>6 DEF TypeOK
<1>2. CASE b \notin Batch
  BY <1>2 DEF MappedChunk, TypeOK
<1> QED
  BY <1>1, <1>2

LEMMA OnwardType ==
  ASSUME TypeOK, NEW j \in Job
  PROVE  Onward(j) \in [at : {"write", "finish"}, kind : {job[j].kind}, of : {job[j].of},
                        plan : {job[j].plan}, next : Nat]
<1>1. job[j].next + ChunkSize \in Nat
  BY BatchAssumption DEF TypeOK
<1> QED
  BY <1>1 DEF Onward

LEMMA ChunkTables ==
  ASSUME TypeOK, NEW j \in Job, job[j].of \in Batch, CommitChunkRows(j)
  PROVE  /\ asn' \in [Nip -> Asn]
         /\ applied' \subseteq Nip \X Batch
         /\ noted' \subseteq Nip \X Batch
<1>1. \A n \in Nip : asn[n] \in Asn
  BY DEF TypeOK
<1>2. \A n \in Nip : [asn[n] EXCEPT !.sync = "CONFLICT"] \in Asn
  BY <1>1 DEF Asn, Sync
<1>3. [value |-> "siasn", sync |-> "SYNCED", checksum |-> TRUE] \in Asn
  BY DEF Asn, Sync
<1>4. asn' \in [Nip -> Asn]
  BY <1>1, <1>2, <1>3 DEF CommitChunkRows
<1>5. Taken(j) \subseteq Nip /\ Overruled(j) \subseteq Nip
  BY DEF Taken, Overruled
<1> QED
  BY <1>4, <1>5 DEF CommitChunkRows, TypeOK

-----------------------------------------------------------------------------
(* Types are kept by every action.                                          *)

JobType ==
  [at : AtWork \cup Failing \cup {"idle"}, kind : Kind, of : Batch \cup {0},
   plan : Seq(Row), next : Nat]

LEMMA TypeInit == Init => TypeOK
<1> SUFFICES ASSUME Init PROVE TypeOK
  OBVIOUS
<1>1. asn \in [Nip -> Asn]
  <2>1. NoAsn \in Asn /\ [NoAsn EXCEPT !.value = "seed"] \in Asn
    BY DEF NoAsn, Asn, Sync
  <2> QED
    BY <2>1 DEF Init
<1>2. upload \in [Uploader -> [at : {"idle", "create", "stage"}, file : File \cup {<<>>},
                              of : Batch \cup {0}]]
  BY DEF Init, NoUpload
<1>3. job \in [Job -> JobType]
  BY DEF Init, NoJob, JobType, Kind
<1>4. resolve \in [Resolver -> [of : Batch \cup {0}, line : Nat]]
  BY DEF Init, NoResolution
<1>5. status \in [Batch -> Status] /\ rows \in [Batch -> Seq(Row)]
  BY DEF Init, Status
<1>6. changes \in 0 .. MaxChanges /\ faults \in 0 .. MaxFaults
  BY BatchAssumption DEF Init
<1> QED
  BY <1>1, <1>2, <1>3, <1>4, <1>5, <1>6 DEF Init, TypeOK, JobType

(* The steps of a job keep the type of what it holds.                       *)
LEMMA StandType ==
  ASSUME TypeOK, NEW j \in Job, NEW at \in AtWork \cup Failing, Stand(j, at)
  PROVE  job' \in [Job -> JobType]
<1>1. job \in [Job -> JobType]
  BY DEF TypeOK, JobType
<1>2. [job[j] EXCEPT !.at = at] \in JobType
  BY <1>1 DEF JobType
<1> QED
  BY <1>1, <1>2 DEF Stand

LEMMA HoldType ==
  ASSUME TypeOK, NEW j \in Job, NEW at \in AtWork, NEW plan \in Seq(Row), Hold(j, at, plan)
  PROVE  job' \in [Job -> JobType]
<1>1. job \in [Job -> JobType]
  BY DEF TypeOK, JobType
<1>2. [at |-> at, kind |-> job[j].kind, of |-> job[j].of, plan |-> plan, next |-> 1] \in JobType
  BY <1>1 DEF JobType
<1> QED
  BY <1>1, <1>2 DEF Hold

LEMMA AdvanceType ==
  ASSUME TypeOK, NEW j \in Job, NEW r \in {Onward(j), AfterMark(j), NoJob},
         job' = [job EXCEPT ![j] = r]
  PROVE  job' \in [Job -> JobType]
<1>1. job \in [Job -> JobType]
  BY DEF TypeOK, JobType
<1>2. NoJob \in JobType
  BY DEF NoJob, JobType, Kind
<1>3. Onward(j) \in JobType
  BY <1>1, OnwardType DEF JobType, AtWork
<1>4. [job[j] EXCEPT !.at = "failAgain"] \in JobType
  BY <1>1 DEF JobType, Failing
<1> QED
  BY <1>1, <1>2, <1>3, <1>4 DEF AfterMark

LEMMA TypeStep == TypeOK /\ ClaimHeld /\ [Next]_vars => TypeOK'
<1> SUFFICES ASSUME TypeOK, ClaimHeld, [Next]_vars PROVE TypeOK'
  OBVIOUS
<1>f. UNCHANGED faults \/ Fault => faults' \in 0 .. MaxFaults
  <2>1. faults \in 0 .. MaxFaults
    BY DEF TypeOK
  <2> QED
    BY <2>1, BatchAssumption DEF Fault
<1>j. ASSUME job' \in [Job -> JobType],
             UNCHANGED <<up, refs, status, file, rows, table, requests, changes>>,
             UNCHANGED faults \/ Fault
      PROVE  TypeOK'
  BY <1>j, <1>f DEF TypeOK, JobType
<1> USE DEF TypeOK
<1>1. CASE UNCHANGED vars
  BY <1>1
<1>2. ASSUME NEW u \in Uploader, NEW f \in File, BeginUpload(u, f) PROVE TypeOK'
  BY <1>2 DEF BeginUpload
<1>3. ASSUME NEW u \in Uploader, NEW b \in Batch, CreateBatch(u, b) PROVE TypeOK'
  BY <1>3 DEF CreateBatch, Status
<1>4. ASSUME NEW u \in Uploader, StageRows(u) PROVE TypeOK'
  BY <1>4, StagedRowsType DEF StageRows, NoUpload
<1>5. ASSUME NEW u \in Uploader, StageError(u) PROVE TypeOK'
  BY <1>5, BatchAssumption DEF StageError, NoUpload, Fault
<1>6. ASSUME NEW j \in Job, NEW b \in Batch, NEW k \in Kind, Enqueue(j, b, k) PROVE TypeOK'
  BY <1>6 DEF Enqueue, Status, AtWork
<1> HIDE DEF TypeOK
<1>7. ASSUME NEW j \in Job, Start(j) PROVE TypeOK'
  <2>1. Stand(j, "failAgain") \/ Stand(j, "read")
    BY <1>7 DEF Start
  <2>2. job' \in [Job -> JobType]
    BY <2>1, StandType DEF AtWork, Failing
  <2> QED
    BY <1>7, <1>j, <2>2 DEF Start
<1>8. ASSUME NEW j \in Job, MapRead(j) PROVE TypeOK'
  <2> DEFINE b == job[j].of
             plan == [i \in DOMAIN rows[b] |-> MappedRow(file[b][i])]
  <2>1. plan \in Seq(Row)
    <3>1. b \in Batch
      BY <1>8 DEF MapRead, ClaimHeld
    <3> QED
      BY <3>1, MapReadType
  <2>2. Hold(j, "finish", plan) \/ Hold(j, "write", plan)
    BY <1>8 DEF MapRead
  <2> HIDE DEF plan
  <2>3. job' \in [Job -> JobType]
    BY <2>1, <2>2, HoldType DEF AtWork
  <2> QED
    BY <1>8, <1>j, <2>3 DEF MapRead
<1>9. ASSUME NEW j \in Job, MapChunk(j) PROVE TypeOK'
  <2>1. job' \in [Job -> JobType]
    BY <1>9, AdvanceType DEF MapChunk
  <2>2. rows' \in [Batch -> Seq(Row)]
    BY <1>9, MappedChunkType DEF MapChunk
  <2> QED
    BY <1>9, <2>1, <2>2 DEF MapChunk, TypeOK, JobType
<1>10. ASSUME NEW j \in Job, CommitRead(j) PROVE TypeOK'
  <2> DEFINE plan == rows[job[j].of]
  <2>1. plan \in Seq(Row)
    BY <1>10 DEF CommitRead, ClaimHeld, TypeOK
  <2>2. Hold(j, "refuse", plan) \/ Hold(j, "finish", plan) \/ Hold(j, "write", plan)
    BY <1>10 DEF CommitRead
  <2> HIDE DEF plan
  <2>3. job' \in [Job -> JobType]
    BY <2>1, <2>2, HoldType DEF AtWork
  <2> QED
    BY <1>10, <1>j, <2>3 DEF CommitRead
<1>s. ASSUME NEW b, NEW st \in Status, status' = [status EXCEPT ![b] = st],
             job' \in [Job -> JobType],
             UNCHANGED <<up, refs, file, rows, table, requests, changes>>,
             UNCHANGED faults \/ Fault
      PROVE  TypeOK'
  <2>1. status' \in [Batch -> Status]
    BY <1>s DEF TypeOK
  <2> QED
    BY <1>s, <1>f, <2>1 DEF TypeOK, JobType
<1>11. ASSUME NEW j \in Job, CommitRefused(j) PROVE TypeOK'
  BY <1>11, <1>s, AdvanceType DEF CommitRefused, Status
<1>12. ASSUME NEW j \in Job, CommitChunk(j) PROVE TypeOK'
  <2>1. job' \in [Job -> JobType]
    BY <1>12, AdvanceType DEF CommitChunk
  <2>2. job[j].of \in Batch
    BY <1>12 DEF CommitChunk, ClaimHeld
  <2> QED
    BY <1>12, <2>1, <2>2, ChunkTables DEF CommitChunk, TypeOK, JobType
<1>13. ASSUME NEW j \in Job, Finish(j) PROVE TypeOK'
  <2>1. Outcome(job[j].kind) \in Status
    BY DEF Outcome, Status
  <2> QED
    BY <1>13, <1>s, <2>1, AdvanceType DEF Finish
<1>14. ASSUME NEW j \in Job, MarkFailed(j) PROVE TypeOK'
  BY <1>14, <1>s, AdvanceType DEF MarkFailed, Status
<1>15. ASSUME NEW b \in Batch, BeginCancel(b) \/ Cancel(b) PROVE TypeOK'
  BY <1>15 DEF BeginCancel, Cancel, Status, TypeOK
<1>16. ASSUME NEW r \in Resolver, NEW b \in Batch, NEW i \in DOMAIN rows[b],
              BeginResolve(r, b, i)
       PROVE  TypeOK'
  <2>1. rows[b] \in Seq(Row)
    BY DEF TypeOK
  <2>2. i \in Nat
    BY <2>1
  <2> QED
    BY <1>16, <2>2 DEF BeginResolve, TypeOK
<1>17. ASSUME NEW r \in Resolver, ResolveUnit(r) PROVE TypeOK'
  <2> DEFINE b == resolve[r].of
             i == resolve[r].line
             new == [mapping |-> IF file[b][i].sound THEN "MAPPED" ELSE "UNMAPPED",
                     unit |-> "chosen"]
  <2>1. new \in Row
    BY DEF Row, Mapping
  <2> HIDE DEF new
  <2>2. ASSUME b \in Batch PROVE [rows[b] EXCEPT ![i] = new] \in Seq(Row)
    <3>1. rows[b] \in Seq(Row)
      BY <2>2 DEF TypeOK
    <3>2. rows[b] \in [1 .. Len(rows[b]) -> Row] /\ Len(rows[b]) \in Nat
      BY <3>1
    <3>3. [rows[b] EXCEPT ![i] = new] \in [1 .. Len(rows[b]) -> Row]
      BY <2>1, <3>2
    <3> QED
      BY <3>2, <3>3, FunctionIsSeq
  <2>3. rows' = [rows EXCEPT ![b] = [rows[b] EXCEPT ![i] = new]]
    BY <1>17 DEF ResolveUnit, new
  <2>4. rows' \in [Batch -> Seq(Row)]
    BY <2>2, <2>3 DEF TypeOK
  <2> HIDE DEF b, i
  <2> QED
    BY <1>17, <2>4 DEF ResolveUnit, NoResolution, TypeOK
<1>18. ASSUME NEW n \in Nip, Correct(n) PROVE TypeOK'
  BY <1>18, BatchAssumption DEF Correct, Asn, Sync, TypeOK
<1>19. ASSUME CompleteReferences PROVE TypeOK'
  BY <1>19 DEF CompleteReferences, TypeOK
<1>20. ASSUME NEW j \in Job, JobError(j) PROVE TypeOK'
  <2>1. job' \in [Job -> JobType]
    <3>1. AfterError(j) \in AtWork \cup Failing
      BY DEF AfterError, Failing
    <3> QED
      BY <1>20, <3>1, StandType DEF JobError
  <2>2. job[j].of \in Batch /\ (UNCHANGED faults \/ Fault)
    BY <1>20 DEF JobError, ClaimHeld, AtWork
  <2>3. UNCHANGED <<up, refs, file, requests, changes>>
    BY <1>20 DEF JobError
  <2>4. CASE UNCHANGED <<status, rows, table>>
    BY <2>1, <2>2, <2>3, <2>4, <1>j
  <2>5. CASE rows' = MappedChunk(j) /\ UNCHANGED <<status, table>>
    <3>1. rows' \in [Batch -> Seq(Row)]
      BY <2>5, MappedChunkType
    <3> QED
      BY <2>1, <2>2, <2>3, <2>5, <3>1, <1>f DEF TypeOK, JobType
  <2>6. CASE CommitChunkRows(j) /\ UNCHANGED <<status, rows>>
    BY <2>1, <2>2, <2>3, <2>6, <1>f, ChunkTables DEF TypeOK, JobType
  <2>7. ASSUME NEW st \in Status, status' = [status EXCEPT ![job[j].of] = st],
               UNCHANGED <<rows, table>>
        PROVE  TypeOK'
    BY <2>1, <2>2, <2>3, <2>7, <1>s
  <2> QED
    BY <1>20, <2>4, <2>5, <2>6, <2>7 DEF JobError, Status, Outcome
<1>21. ASSUME NEW j \in Job, MarkError(j) PROVE TypeOK'
  BY <1>21, <1>j, AdvanceType DEF MarkError
<1>22. ASSUME Crash PROVE TypeOK'
  <2>1. job' \in [Job -> JobType]
    BY <1>22 DEF Crash, NoJob, JobType, Kind
  <2>2. UNCHANGED faults \/ Fault
    BY <1>22 DEF Crash
  <2> QED
    BY <1>22, <1>f, <2>1, <2>2 DEF Crash, NoUpload, NoResolution, TypeOK, JobType
<1>23. ASSUME Restart PROVE TypeOK'
  BY <1>23 DEF Restart, Status, TypeOK
<1> QED
  BY <1>1, <1>2, <1>3, <1>4, <1>5, <1>6, <1>7, <1>8, <1>9, <1>10, <1>11, <1>12, <1>13,
     <1>14, <1>15, <1>16, <1>17, <1>18, <1>19, <1>20, <1>21, <1>22, <1>23
     DEF Next, Work

-----------------------------------------------------------------------------
(* A claim is exclusive.                                                    *)

LEMMA ClaimInit == Init => Exclusive
  BY DEF Init, Exclusive, ClaimHeld, OneJobPerBatch, NoJob, AtWork

(* A step that leaves the batches of working jobs alone, and lets no job    *)
(* begin to work or change its batch.                                       *)
LEMMA ClaimKept ==
  ASSUME TypeOK, Exclusive,
         \A j \in Job :
           /\ job'[j].at # "idle" => job[j].at # "idle" /\ job'[j].of = job[j].of
           /\ job'[j].at \in AtWork =>
                 /\ job[j].at \in AtWork
                 /\ \/ status'[job[j].of] = status[job[j].of]
                    \/ status'[job[j].of] \in {"PROCESSING", "CANCELLED", "FAILED"}
  PROVE  Exclusive'
  BY DEF Exclusive, ClaimHeld, OneJobPerBatch, AtWork

(* A step of one job of a batch, which works on or gives the batch up.      *)
LEMMA ClaimMoved ==
  ASSUME TypeOK, Exclusive, NEW j \in Job, job[j].at # "idle", NEW r,
         job' = [job EXCEPT ![j] = r],
         r.at # "idle" => r.of = job[j].of,
         r.at \in AtWork => job[j].at \in AtWork,
         \/ UNCHANGED status
         \/ status' = [status EXCEPT ![job[j].of] = "FAILED"]
         \/ /\ job[j].at \in AtWork /\ r.at \notin AtWork
            /\ \E st : status' = [status EXCEPT ![job[j].of] = st]
  PROVE  Exclusive'
<1>1. job \in [Job -> JobType] /\ status \in [Batch -> Status]
  BY DEF TypeOK, JobType
<1>2. \A k \in Job : job'[k] = IF k = j THEN r ELSE job[k]
  BY <1>1
<1>3. job[j].of \in Batch
  BY DEF Exclusive, ClaimHeld
<1>4. \A b \in Batch :
        \/ status'[b] = status[b]
        \/ b = job[j].of /\ status'[b] = "FAILED"
        \/ b = job[j].of /\ job[j].at \in AtWork /\ r.at \notin AtWork
  BY <1>1
<1>5. \A k \in Job : job'[k].at \in AtWork =>
        /\ job[k].at \in AtWork /\ job'[k].of = job[k].of
        /\ job[k].of \in Batch
  BY <1>2, <1>3 DEF Exclusive, ClaimHeld, AtWork
<1>6. \A k \in Job : job'[k].at # "idle" => job[k].at # "idle" /\ job'[k].of = job[k].of
  BY <1>2
<1>7. ASSUME NEW k \in Job, job'[k].at \in AtWork
      PROVE  \/ status'[job[k].of] = status[job[k].of]
             \/ status'[job[k].of] \in {"PROCESSING", "CANCELLED", "FAILED"}
  <2>1. CASE k = j
    BY <1>2, <1>4, <1>5, <1>7, <2>1
  <2>2. CASE k # j
    <3>1. job[j].at \in AtWork => job[k].of # job[j].of
      BY <1>5, <1>7, <2>2 DEF Exclusive, OneJobPerBatch
    <3> QED
      BY <1>4, <1>5, <1>7, <3>1
  <2> QED
    BY <2>1, <2>2
<1> QED
  BY <1>5, <1>6, <1>7, ClaimKept

LEMMA ClaimStep == TypeOK /\ Exclusive /\ [Next]_vars => Exclusive'
<1> SUFFICES ASSUME TypeOK, Exclusive, [Next]_vars PROVE Exclusive'
  OBVIOUS
<1>t. job \in [Job -> JobType] /\ status \in [Batch -> Status]
  BY DEF TypeOK, JobType
<1>u. ASSUME UNCHANGED <<status, job>> PROVE Exclusive'
  BY <1>u DEF Exclusive, ClaimHeld, OneJobPerBatch
<1>1. CASE UNCHANGED vars
  BY <1>1, <1>u
<1>2. ASSUME NEW u \in Uploader, NEW f \in File, BeginUpload(u, f) PROVE Exclusive'
  BY <1>2, <1>u DEF BeginUpload
<1>3. ASSUME NEW u \in Uploader, NEW b \in Batch, CreateBatch(u, b) PROVE Exclusive'
  <2>1. \A c \in Batch : status'[c] = status[c] \/ status[c] = "NONE"
    BY <1>3, <1>t DEF CreateBatch
  <2>2. UNCHANGED job
    BY <1>3 DEF CreateBatch
  <2>3. \A j \in Job : job[j].at \in AtWork => status[job[j].of] # "NONE" /\ job[j].of \in Batch
    BY DEF Exclusive, ClaimHeld, AtWork
  <2> QED
    BY <2>1, <2>2, <2>3, ClaimKept
<1>4. ASSUME NEW u \in Uploader, StageRows(u) \/ StageError(u) PROVE Exclusive'
  BY <1>4, <1>u DEF StageRows, StageError
<1>5. ASSUME NEW j \in Job, NEW b \in Batch, NEW k \in Kind, Enqueue(j, b, k) PROVE Exclusive'
  <2>1. \A i \in Job : job[i].at \in AtWork => job[i].of # b
    BY <1>5 DEF Enqueue, Claimable, Exclusive, ClaimHeld
  <2>2. \A i \in Job : IF i = j THEN job'[i].of = b /\ job'[i].at = "queued"
                                ELSE job'[i] = job[i]
    BY <1>5, <1>t DEF Enqueue
  <2>3. \A c \in Batch : status'[c] = IF c = b THEN "PROCESSING" ELSE status[c]
    BY <1>5, <1>t DEF Enqueue
  <2>4. OneJobPerBatch'
    BY <2>1, <2>2 DEF Exclusive, OneJobPerBatch
  <2>5. ASSUME NEW i \in Job
        PROVE  /\ job'[i].at # "idle" => job'[i].of \in Batch
               /\ job'[i].at \in AtWork =>
                    status'[job'[i].of] \in {"PROCESSING", "CANCELLED", "FAILED"}
    <3>1. CASE i = j
      BY <2>2, <2>3, <3>1
    <3>2. CASE i # j
      BY <2>2, <2>3, <3>2 DEF Exclusive, ClaimHeld, AtWork
    <3> QED
      BY <3>1, <3>2
  <2> QED
    BY <2>4, <2>5 DEF Exclusive, ClaimHeld
<1>s. ASSUME NEW j \in Job, NEW at, Stand(j, at), job[j].at \in AtWork, at # "idle",
             \/ UNCHANGED status
             \/ at \notin AtWork /\ \E st : status' = [status EXCEPT ![job[j].of] = st]
      PROVE  Exclusive'
  <2> DEFINE r == [job[j] EXCEPT !.at = at]
  <2>1. r.at = at /\ r.of = job[j].of
    BY <1>t DEF JobType
  <2>2. job' = [job EXCEPT ![j] = r]
    BY <1>s DEF Stand
  <2> HIDE DEF r
  <2> QED
    BY <1>s, <2>1, <2>2, ClaimMoved DEF AtWork
<1>h. ASSUME NEW j \in Job, NEW at, NEW plan, Hold(j, at, plan), job[j].at \in AtWork,
             UNCHANGED status
      PROVE  Exclusive'
  BY <1>h, ClaimMoved DEF Hold, AtWork
<1>6. ASSUME NEW j \in Job, Start(j) PROVE Exclusive'
  BY <1>6, <1>s DEF Start, AtWork
<1>7. ASSUME NEW j \in Job, MapRead(j) PROVE Exclusive'
  BY <1>7, <1>h DEF MapRead, AtWork
<1>8. ASSUME NEW j \in Job, CommitRead(j) PROVE Exclusive'
  BY <1>8, <1>h DEF CommitRead, AtWork
<1>9. ASSUME NEW j \in Job, MapChunk(j) \/ CommitChunk(j) PROVE Exclusive'
  BY <1>9, OnwardType, ClaimMoved DEF MapChunk, CommitChunk, AtWork
<1>10. ASSUME NEW j \in Job, CommitRefused(j) \/ Finish(j) PROVE Exclusive'
  BY <1>10, ClaimMoved DEF CommitRefused, Finish, AtWork, NoJob
<1>11. ASSUME NEW j \in Job, MarkFailed(j) \/ MarkError(j) PROVE Exclusive'
  <2>1. /\ AfterMark(j).at # "idle" => AfterMark(j).of = job[j].of
        /\ AfterMark(j).at \notin AtWork
    BY <1>t DEF AfterMark, NoJob, AtWork, JobType
  <2> QED
    BY <1>11, <2>1, ClaimMoved DEF MarkFailed, MarkError, Failing
<1>12. ASSUME NEW b \in Batch, BeginCancel(b) \/ Cancel(b) PROVE Exclusive'
  <2>1. CASE BeginCancel(b)
    BY <2>1, <1>u DEF BeginCancel
  <2>2. CASE Cancel(b)
    <3>1. UNCHANGED job
      BY <2>2 DEF Cancel
    <3>2. \A c \in Batch : status'[c] = status[c] \/ status'[c] = "CANCELLED"
      BY <2>2, <1>t DEF Cancel
    <3>3. \A j \in Job : job[j].at \in AtWork => job[j].of \in Batch
      BY DEF Exclusive, ClaimHeld, AtWork
    <3> QED
      BY <3>1, <3>2, <3>3, ClaimKept
  <2> QED
    BY <1>12, <2>1, <2>2
<1>13. ASSUME NEW r \in Resolver, NEW b \in Batch, NEW i, BeginResolve(r, b, i)
       PROVE  Exclusive'
  BY <1>13, <1>u DEF BeginResolve
<1>14. ASSUME NEW r \in Resolver, ResolveUnit(r) PROVE Exclusive'
  BY <1>14, <1>u DEF ResolveUnit
<1>15. ASSUME NEW n \in Nip, Correct(n) PROVE Exclusive'
  BY <1>15, <1>u DEF Correct
<1>16. ASSUME CompleteReferences PROVE Exclusive'
  BY <1>16, <1>u DEF CompleteReferences
<1>17. ASSUME NEW j \in Job, JobError(j) PROVE Exclusive'
  <2>1. AfterError(j) \notin AtWork /\ AfterError(j) # "idle"
    BY DEF AfterError, AtWork
  <2>2. UNCHANGED status \/ \E st : status' = [status EXCEPT ![job[j].of] = st]
    BY <1>17 DEF JobError
  <2>3. Stand(j, AfterError(j)) /\ job[j].at \in AtWork
    BY <1>17 DEF JobError
  <2> HIDE DEF AfterError
  <2> QED
    BY <2>1, <2>2, <2>3, <1>s
<1>18. ASSUME Crash PROVE Exclusive'
  BY <1>18 DEF Crash, NoJob, Exclusive, ClaimHeld, OneJobPerBatch, AtWork
<1>19. ASSUME Restart PROVE Exclusive'
  <2>1. UNCHANGED job
    BY <1>19 DEF Restart
  <2>2. \A c \in Batch : status'[c] = status[c] \/ status'[c] = "FAILED"
    BY <1>19 DEF Restart
  <2>3. \A j \in Job : job[j].at \in AtWork => job[j].of \in Batch
    BY DEF Exclusive, ClaimHeld, AtWork
  <2> QED
    BY <2>1, <2>2, <2>3, ClaimKept
<1> QED
  BY <1>1, <1>2, <1>3, <1>4, <1>5, <1>6, <1>7, <1>8, <1>9, <1>10, <1>11, <1>12, <1>13,
     <1>14, <1>15, <1>16, <1>17, <1>18, <1>19
     DEF Next, Work

-----------------------------------------------------------------------------
(* Every variable keeps its type: the jobs' copies of the rows stay         *)
(* sequences of rows whatever is resolved, mapped or cancelled meanwhile.   *)
THEOREM TypeCorrect == Spec => []TypeOK
<1>1. Init => TypeOK /\ Exclusive
  BY TypeInit, ClaimInit
<1>2. TypeOK /\ Exclusive /\ [Next]_vars => (TypeOK /\ Exclusive)'
  BY TypeStep, ClaimStep DEF Exclusive
<1> QED
  BY <1>1, <1>2, PTL DEF Spec

(* The claim of claimAsnBatch is exclusive: no two jobs ever work on one    *)
(* batch, with any number of jobs, whatever cancellations, failures marked  *)
(* late and restarts do to its status.                                      *)
THEOREM ExclusiveJobs == Spec => []OneJobPerBatch
<1>1. Init => TypeOK /\ Exclusive
  BY TypeInit, ClaimInit
<1>2. TypeOK /\ Exclusive /\ [Next]_vars => (TypeOK /\ Exclusive)'
  BY TypeStep, ClaimStep DEF Exclusive
<1>3. Exclusive => OneJobPerBatch
  BY DEF Exclusive
<1> QED
  BY <1>1, <1>2, <1>3, PTL DEF Spec

=============================================================================

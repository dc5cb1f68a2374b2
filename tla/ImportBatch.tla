----------------------------- MODULE ImportBatch -----------------------------
(***************************************************************************)
(* The import of ASN data from SIASN (api/src/modules/sidata).  A file is  *)
(* uploaded as a batch with one staging row per line; a background job     *)
(* maps the rows to the reference tables, a person resolves what it could  *)
(* not map, and another job commits the rows to the table asn, a chunk of  *)
(* rows per transaction.                                                   *)
(*                                                                         *)
(* A job is started by an atomic claim of its batch (VALIDATED to          *)
(* PROCESSING) and runs in the memory of the process: it reads the rows    *)
(* once, works from that copy and in the end writes the status of the      *)
(* batch whatever it has become.  Uploads, cancellations and resolutions   *)
(* read the status first and write later.  A crash loses every job; at the *)
(* next start the batches left in PROCESSING are marked FAILED.            *)
(*                                                                         *)
(* Left out: the columns of a row but its NIP, whether it is valid and     *)
(* whether its unit is in the reference table from the start; the history  *)
(* tables; audit and notifications.                                        *)
(***************************************************************************)
EXTENDS Naturals, Sequences, FiniteSets

CONSTANTS
  Nip,         \* employees, known by their number
  File,        \* files that may be uploaded, each a sequence of rows
  Seeded,      \* employees the table has before any import
  MaxBatches,  \* bound: batches, numbered in the order of createdAt
  ChunkSize,   \* ASN_JOB_CHUNK_SIZE, 300 in the code
  Uploader,    \* uploads under way at once
  Job,         \* background jobs and jobs that are failing, at once
  Resolver,    \* resolutions by hand under way at once
  EarlyBird,   \* is a job asked for before the upload has answered?
  MaxChanges,  \* bound: corrections by hand in a behaviour
  MaxFaults    \* bound: failing statements and crashes in a behaviour

Batch == 1 .. MaxBatches

ASSUME BatchAssumption ==
  /\ MaxBatches \in Nat
  /\ ChunkSize \in Nat \ {0}
  /\ EarlyBird \in BOOLEAN
  /\ MaxChanges \in Nat
  /\ MaxFaults \in Nat

ASSUME FileAssumption ==
  File \subseteq Seq([nip : Nip, sound : BOOLEAN, known : BOOLEAN]) \ {<<>>}

VARIABLES
  up,       \* is the API process running?
  refs,     \* the reference table has the units every row names
  status,   \* SidataAsnImportBatch.status, "NONE" before the batch exists
  file,     \* the file of the batch, which its checksum stands for
  rows,     \* the staging rows of the batch, <<>> until they are inserted
  asn,      \* the table asn, a record per employee
  applied,  \* <<n, b>>: asn_siasn_snapshot of employee n from batch b
  noted,    \* <<n, b>>: a change log of a CONFLICT of n with batch b
  upload,   \* what each upload holds in memory
  job,      \* what each job holds in memory
  cancels,  \* the batches whose cancellation has passed its check
  resolve,  \* what each resolution holds in memory
  changes,  \* corrections so far
  faults    \* faults so far

requests == <<upload, cancels, resolve>>
table == <<asn, applied, noted>>
vars == <<up, refs, status, file, rows, asn, applied, noted, upload, job,
          cancels, resolve, changes, faults>>

Status == {"NONE", "VALIDATED", "PROCESSING", "COMMITTED", "FAILED", "CANCELLED"}
Kind == {"map", "remap", "commit"}
Mapping == {"UNMAPPED", "MAPPED", "NEEDS_REVIEW"}
Row == [mapping : Mapping, unit : {"none", "table", "chosen"}]
Sync == {"SYNCED", "LOCAL_CORRECTION", "CONFLICT"}
Asn == [value : {"absent", "seed", "siasn", "desk"}, sync : Sync, checksum : BOOLEAN]

\* A job at work holds its batch; a job that failed has only its marks to make.
AtWork == {"queued", "read", "write", "refuse", "finish"}
Failing == {"fail", "failAgain"}

NoJob == [at |-> "idle", kind |-> "map", of |-> 0, plan |-> <<>>, next |-> 1]
NoUpload == [at |-> "idle", file |-> <<>>, of |-> 0]
NoResolution == [of |-> 0, line |-> 0]

TypeOK ==
  /\ up \in BOOLEAN
  /\ refs \in BOOLEAN
  /\ status \in [Batch -> Status]
  /\ file \in [Batch -> File \cup {<<>>}]
  /\ rows \in [Batch -> Seq(Row)]
  /\ asn \in [Nip -> Asn]
  /\ applied \subseteq Nip \X Batch
  /\ noted \subseteq Nip \X Batch
  /\ upload \in [Uploader -> [at : {"idle", "create", "stage"}, file : File \cup {<<>>},
                             of : Batch \cup {0}]]
  /\ job \in [Job -> [at : AtWork \cup Failing \cup {"idle"}, kind : Kind,
                      of : Batch \cup {0}, plan : Seq(Row), next : Nat]]
  /\ cancels \subseteq Batch
  /\ resolve \in [Resolver -> [of : Batch \cup {0}, line : Nat]]
  /\ changes \in 0 .. MaxChanges
  /\ faults \in 0 .. MaxFaults

NoAsn == [value |-> "absent", sync |-> "SYNCED", checksum |-> FALSE]

Init ==
  /\ up = TRUE
  /\ refs = FALSE
  /\ status = [b \in Batch |-> "NONE"]
  /\ file = [b \in Batch |-> <<>>]
  /\ rows = [b \in Batch |-> <<>>]
  /\ asn = [n \in Nip |-> IF n \in Seeded THEN [NoAsn EXCEPT !.value = "seed"] ELSE NoAsn]
  /\ applied = {}
  /\ noted = {}
  /\ upload = [u \in Uploader |-> NoUpload]
  /\ job = [j \in Job |-> NoJob]
  /\ cancels = {}
  /\ resolve = [r \in Resolver |-> NoResolution]
  /\ changes = 0
  /\ faults = 0

-----------------------------------------------------------------------------
(* Uploading a file.                                                        *)

\* findAsnImportBatchByChecksum
AlreadyUploaded(f) ==
  \E b \in Batch : file[b] = f /\ status[b] \notin {"NONE", "FAILED", "CANCELLED"}

BeginUpload(u, f) ==
  /\ up
  /\ upload[u].at = "idle"
  /\ ~AlreadyUploaded(f)
  /\ upload' = [upload EXCEPT ![u] = [at |-> "create", file |-> f, of |-> 0]]
  /\ UNCHANGED <<up, refs, status, file, rows, table, job, cancels, resolve, changes, faults>>

CreateBatch(u, b) ==
  /\ upload[u].at = "create"
  /\ status[b] = "NONE"
  /\ \A c \in 1 .. (b - 1) : status[c] # "NONE"
  /\ status' = [status EXCEPT ![b] = "VALIDATED"]
  /\ file' = [file EXCEPT ![b] = upload[u].file]
  /\ upload' = [upload EXCEPT ![u] = [at |-> "stage", file |-> @.file, of |-> b]]
  /\ UNCHANGED <<up, refs, rows, table, job, cancels, resolve, changes, faults>>

IsDuplicate(f, i) == \E k \in 1 .. (i - 1) : f[k].nip = f[i].nip

StagedRows(f) ==
  [i \in DOMAIN f |->
     [mapping |-> IF IsDuplicate(f, i) THEN "NEEDS_REVIEW" ELSE "UNMAPPED", unit |-> "none"]]

StageRows(u) ==
  /\ upload[u].at = "stage"
  /\ rows' = [rows EXCEPT ![upload[u].of] = StagedRows(upload[u].file)]
  /\ upload' = [upload EXCEPT ![u] = NoUpload]
  /\ UNCHANGED <<up, refs, status, file, table, job, cancels, resolve, changes, faults>>

-----------------------------------------------------------------------------
(* Starting a job.                                                          *)

\* Variant with a bug: a batch at work may be claimed again.
ClaimableAtWork(b) == status[b] \in {"VALIDATED", "PROCESSING"}

\* claimAsnBatch: not COMMITTED, PROCESSING, CANCELLED or FAILED.
Claimable(b) == status[b] = "VALIDATED"

Uploading(b) == \E u \in Uploader : upload[u].at = "stage" /\ upload[u].of = b

(* The check of the status and the claim refuse the same batches, so the    *)
(* request is one step.  The job is queued with setImmediate.               *)
Enqueue(j, b, k) ==
  /\ up
  /\ job[j].at = "idle"
  /\ Claimable(b)
  /\ EarlyBird \/ ~Uploading(b)
  /\ status' = [status EXCEPT ![b] = "PROCESSING"]
  /\ job' = [job EXCEPT ![j] = [at |-> "queued", kind |-> k, of |-> b, plan |-> <<>>, next |-> 1]]
  /\ UNCHANGED <<up, refs, file, rows, table, requests, changes, faults>>

Stand(j, at) == job' = [job EXCEPT ![j].at = at]

\* The job has read the rows and keeps what it will write.
Hold(j, at, plan) ==
  job' = [job EXCEPT ![j] =
            [at |-> at, kind |-> job[j].kind, of |-> job[j].of, plan |-> plan, next |-> 1]]

\* The statuses the three services refuse before they begin.
Refused(k) == {"FAILED", "CANCELLED"} \cup (IF k = "map" THEN {"COMMITTED"} ELSE {})

(* The service reads the batch again, outside its try block.                *)
Start(j) ==
  /\ job[j].at = "queued"
  /\ Stand(j, IF status[job[j].of] \in Refused(job[j].kind) THEN "failAgain" ELSE "read")
  /\ UNCHANGED <<up, refs, status, file, rows, table, requests, changes, faults>>

-----------------------------------------------------------------------------
(* Mapping: a new row for every staging row, from the file and the tables.  *)

Unit(line) == IF line.known \/ refs THEN "table" ELSE "none"

MappedRow(line) ==
  [mapping |-> IF ~line.sound THEN "UNMAPPED"
               ELSE IF Unit(line) = "none" THEN "NEEDS_REVIEW"
               ELSE "MAPPED",
   unit |-> Unit(line)]

MapRead(j) ==
  LET b == job[j].of IN
  /\ job[j].at = "read"
  /\ job[j].kind # "commit"
  /\ Hold(j, IF rows[b] = <<>> THEN "finish" ELSE "write",
          [i \in DOMAIN rows[b] |-> MappedRow(file[b][i])])
  /\ UNCHANGED <<up, refs, status, file, rows, table, requests, changes, faults>>

Chunk(j) == {i \in DOMAIN job[j].plan : i \in job[j].next .. (job[j].next + ChunkSize - 1)}

\* Variant with a bug: the last chunk is taken for done too early.
OnwardShort(j) ==
  [job[j] EXCEPT !.at = IF job[j].next + ChunkSize >= Len(job[j].plan) THEN "finish" ELSE "write",
                 !.next = @ + ChunkSize]

\* The job with its next chunk done.
Onward(j) ==
  [at |-> IF job[j].next + ChunkSize > Len(job[j].plan) THEN "finish" ELSE "write",
   kind |-> job[j].kind, of |-> job[j].of, plan |-> job[j].plan,
   next |-> job[j].next + ChunkSize]

MappedChunk(j) ==
  [rows EXCEPT ![job[j].of] =
     [i \in DOMAIN rows[job[j].of] |-> IF i \in Chunk(j) THEN job[j].plan[i] ELSE rows[job[j].of][i]]]

MapChunk(j) ==
  /\ job[j].at = "write"
  /\ job[j].kind # "commit"
  /\ rows' = MappedChunk(j)
  /\ job' = [job EXCEPT ![j] = Onward(j)]
  /\ UNCHANGED <<up, refs, status, file, table, requests, changes, faults>>

-----------------------------------------------------------------------------
(* Committing the rows to the table asn.                                    *)

\* Variant with a bug: rows that need review pass.
SafeWithReview(f, plan) ==
  \A i \in DOMAIN plan : f[i].sound /\ plan[i].mapping \in {"MAPPED", "NEEDS_REVIEW"}

Safe(f, plan) == \A i \in DOMAIN plan : f[i].sound /\ plan[i].mapping = "MAPPED"

CommitRead(j) ==
  LET b == job[j].of IN
  /\ job[j].at = "read"
  /\ job[j].kind = "commit"
  /\ Hold(j, IF ~Safe(file[b], rows[b]) THEN "refuse"
             ELSE IF rows[b] = <<>> THEN "finish"
             ELSE "write", rows[b])
  /\ UNCHANGED <<up, refs, status, file, rows, table, requests, changes, faults>>

(* The batch goes back to VALIDATED, and the exception that follows is the  *)
(* one that marks nothing as failed.                                        *)
CommitRefused(j) ==
  /\ job[j].at = "refuse"
  /\ status' = [status EXCEPT ![job[j].of] = "VALIDATED"]
  /\ job' = [job EXCEPT ![j] = NoJob]
  /\ UNCHANGED <<up, refs, file, rows, table, requests, changes, faults>>

\* hasProtectedLocalCorrectionConflict: the checksum of what comes in is made
\* over the time and the batch too, so it differs from any stored one.
Protected(a) == a.sync = "LOCAL_CORRECTION" /\ a.checksum

\* The rows of the chunk that name employee n.
Hits(j, n) == {i \in Chunk(j) : file[job[j].of][i].nip = n}

Overruled(j) == {n \in Nip : Hits(j, n) # {} /\ Protected(asn[n])}

\* A correction withstands one row; a second row of the same employee finds
\* CONFLICT, which protects nothing.
Taken(j) ==
  {n \in Nip : Hits(j, n) # {} /\ (Protected(asn[n]) => Cardinality(Hits(j, n)) > 1)}

(* The transaction also sets its staging rows MAPPED, which Safe says they  *)
(* are already.                                                             *)
CommitChunkRows(j) ==
  /\ asn' = [n \in Nip |->
              IF n \in Taken(j) THEN [value |-> "siasn", sync |-> "SYNCED", checksum |-> TRUE]
              ELSE IF n \in Overruled(j) THEN [asn[n] EXCEPT !.sync = "CONFLICT"]
              ELSE asn[n]]
  /\ applied' = applied \cup {<<n, job[j].of>> : n \in Taken(j)}
  /\ noted' = noted \cup {<<n, job[j].of>> : n \in Overruled(j)}

CommitChunk(j) ==
  /\ job[j].at = "write"
  /\ job[j].kind = "commit"
  /\ CommitChunkRows(j)
  /\ job' = [job EXCEPT ![j] = Onward(j)]
  /\ UNCHANGED <<up, refs, status, file, rows, requests, changes, faults>>

-----------------------------------------------------------------------------
(* The end of a job.                                                        *)

\* Variant with a bug: the status of the rows, given to the batch.
OutcomeOfRows(k) == IF k = "commit" THEN "COMMITTED" ELSE "MAPPED"

Outcome(k) == IF k = "commit" THEN "COMMITTED" ELSE "VALIDATED"

Finish(j) ==
  /\ job[j].at = "finish"
  /\ status' = [status EXCEPT ![job[j].of] = Outcome(job[j].kind)]
  /\ job' = [job EXCEPT ![j] = NoJob]
  /\ UNCHANGED <<up, refs, file, rows, table, requests, changes, faults>>

\* After the mark of the service comes that of the runner, then nothing.
AfterMark(j) == IF job[j].at = "fail" THEN [job[j] EXCEPT !.at = "failAgain"] ELSE NoJob

(* markAsnBatchFailed, whatever the batch has become.                       *)
MarkFailed(j) ==
  /\ job[j].at \in Failing
  /\ status' = [status EXCEPT ![job[j].of] = "FAILED"]
  /\ job' = [job EXCEPT ![j] = AfterMark(j)]
  /\ UNCHANGED <<up, refs, file, rows, table, requests, changes, faults>>

-----------------------------------------------------------------------------
(* Cancelling, resolving and correcting by hand.                            *)

BeginCancel(b) ==
  /\ up
  /\ status[b] \notin {"NONE", "COMMITTED", "PROCESSING"}
  /\ b \notin cancels
  /\ cancels' = cancels \cup {b}
  /\ UNCHANGED <<up, refs, status, file, rows, table, upload, job, resolve, changes, faults>>

(* The update leaves COMMITTED and CANCELLED alone, and takes a batch that  *)
(* has gone to PROCESSING since the check.                                  *)
Cancel(b) ==
  /\ b \in cancels
  /\ cancels' = cancels \ {b}
  /\ status' = [status EXCEPT ![b] = IF @ = "COMMITTED" THEN @ ELSE "CANCELLED"]
  /\ UNCHANGED <<up, refs, file, rows, table, upload, job, resolve, changes, faults>>

BeginResolve(r, b, i) ==
  /\ up
  /\ resolve[r] = NoResolution
  /\ status[b] \notin {"NONE", "COMMITTED"}
  /\ i \in DOMAIN rows[b]
  /\ resolve' = [resolve EXCEPT ![r] = [of |-> b, line |-> i]]
  /\ UNCHANGED <<up, refs, status, file, rows, table, upload, job, cancels, changes, faults>>

(* The transaction.  The unit is the only reference a row of this model can *)
(* lack, so what is chosen for it makes the row MAPPED, unless the row is   *)
(* invalid.                                                                 *)
ResolveUnit(r) ==
  LET q == resolve[r] IN
  /\ q # NoResolution
  /\ rows' = [rows EXCEPT ![q.of][q.line] =
                [mapping |-> IF file[q.of][q.line].sound THEN "MAPPED" ELSE "UNMAPPED",
                 unit |-> "chosen"]]
  /\ resolve' = [resolve EXCEPT ![r] = NoResolution]
  /\ UNCHANGED <<up, refs, status, file, table, upload, job, cancels, changes, faults>>

(* updateAsn with a change and its reason.                                  *)
Correct(n) ==
  /\ up
  /\ changes < MaxChanges
  /\ changes' = changes + 1
  /\ asn[n].value # "absent"
  /\ asn' = [asn EXCEPT ![n] = [value |-> "desk", sync |-> "LOCAL_CORRECTION",
                                checksum |-> @.checksum]]
  /\ UNCHANGED <<up, refs, status, file, rows, applied, noted, requests, job, faults>>

(* The reference table gets the missing units.                              *)
CompleteReferences ==
  /\ up
  /\ ~refs
  /\ refs' = TRUE
  /\ UNCHANGED <<up, status, file, rows, table, requests, job, changes, faults>>

-----------------------------------------------------------------------------
(* Faults.                                                                  *)

Fault == faults < MaxFaults /\ faults' = faults + 1

\* Where a failed statement leads: the check before the try block and a remap
\* are marked by the runner alone, the others by the service as well.
AfterError(j) ==
  IF job[j].at = "queued" \/ job[j].kind = "remap" THEN "failAgain" ELSE "fail"

(* A statement of a job fails, or its answer is lost after it took effect.  *)
JobError(j) ==
  /\ Fault
  /\ job[j].at \in AtWork
  /\ Stand(j, AfterError(j))
  /\ \/ UNCHANGED <<status, rows, table>>
     \/ /\ job[j].at = "write" /\ job[j].kind # "commit"
        /\ rows' = MappedChunk(j)
        /\ UNCHANGED <<status, table>>
     \/ /\ job[j].at = "write" /\ job[j].kind = "commit"
        /\ CommitChunkRows(j)
        /\ UNCHANGED <<status, rows>>
     \/ /\ job[j].at \in {"finish", "refuse"}
        /\ status' = [status EXCEPT ![job[j].of] =
                         IF job[j].at = "refuse" THEN "VALIDATED" ELSE Outcome(job[j].kind)]
        /\ UNCHANGED <<rows, table>>
  /\ UNCHANGED <<up, refs, file, requests, changes>>

(* The mark itself fails, and the error is swallowed.                       *)
MarkError(j) ==
  /\ Fault
  /\ job[j].at \in Failing
  /\ job' = [job EXCEPT ![j] = AfterMark(j)]
  /\ UNCHANGED <<up, refs, status, file, rows, table, requests, changes>>

(* The staging rows cannot be inserted: the upload ends, the batch stays.   *)
StageError(u) ==
  /\ Fault
  /\ upload[u].at = "stage"
  /\ upload' = [upload EXCEPT ![u] = NoUpload]
  /\ UNCHANGED <<up, refs, status, file, rows, table, job, cancels, resolve, changes>>

Crash ==
  /\ Fault
  /\ up
  /\ up' = FALSE
  /\ job' = [j \in Job |-> NoJob]
  /\ upload' = [u \in Uploader |-> NoUpload]
  /\ cancels' = {}
  /\ resolve' = [r \in Resolver |-> NoResolution]
  /\ UNCHANGED <<refs, status, file, rows, table, changes>>


(* onModuleInit, before the first request is served.                        *)
Restart ==
  /\ ~up
  /\ up' = TRUE
  /\ status' = [b \in Batch |-> IF status[b] = "PROCESSING" THEN "FAILED" ELSE status[b]]
  /\ UNCHANGED <<refs, file, rows, table, requests, job, changes, faults>>

-----------------------------------------------------------------------------
Work(j) ==
  \/ Start(j) \/ MapRead(j) \/ MapChunk(j) \/ CommitRead(j) \/ CommitRefused(j)
  \/ CommitChunk(j) \/ Finish(j) \/ MarkFailed(j)

Next ==
  \/ \E u \in Uploader, f \in File : BeginUpload(u, f)
  \/ \E u \in Uploader, b \in Batch : CreateBatch(u, b)
  \/ \E u \in Uploader : StageRows(u) \/ StageError(u)
  \/ \E j \in Job, b \in Batch, k \in Kind : Enqueue(j, b, k)
  \/ \E j \in Job : Work(j)
  \/ \E b \in Batch : BeginCancel(b) \/ Cancel(b)
  \/ \E r \in Resolver, b \in Batch : \E i \in DOMAIN rows[b] : BeginResolve(r, b, i)
  \/ \E r \in Resolver : ResolveUnit(r)
  \/ \E n \in Nip : Correct(n)
  \/ CompleteReferences
  \/ \E j \in Job : JobError(j) \/ MarkError(j)
  \/ Crash
  \/ Restart

Spec == Init /\ [][Next]_vars

(* A job that is not waiting for anybody goes on, and a process that died   *)
(* is started again.  People and faults owe nothing.                        *)
Fairness ==
  /\ \A j \in Job : WF_vars(Work(j))
  /\ WF_vars(Restart)

FairSpec == Spec /\ Fairness

-----------------------------------------------------------------------------
(* No batch is worked on by two jobs, although a cancellation or the mark   *)
(* of an older job may take it out of PROCESSING under the job's feet: only *)
(* VALIDATED can be claimed, and nobody else brings that back.              *)
OneJobPerBatch ==
  \A j, k \in Job :
    job[j].at \in AtWork /\ job[k].at \in AtWork /\ job[j].of = job[k].of => j = k

(* When a batch is COMMITTED, each of its rows has reached the table asn or *)
(* has left the note of a conflict there, and is MAPPED, which is what the  *)
(* monthly archive takes from a COMMITTED batch; whatever was resolved,     *)
(* cancelled or mapped again while the job worked from its copy.            *)
CommittedIsComplete ==
  \A b \in Batch : status[b] = "COMMITTED" =>
    \A i \in DOMAIN rows[b] :
      /\ <<file[b][i].nip, b>> \in applied \cup noted
      /\ rows[b][i].mapping = "MAPPED"

(* A batch with an invalid row, or with a row whose unit nobody knows,      *)
(* never touches the table asn, not even with its good rows.                *)
AllOrNothing ==
  \A b \in Batch, n \in Nip : <<n, b>> \in applied \cup noted =>
    \A i \in DOMAIN rows[b] :
      /\ file[b][i].sound
      /\ file[b][i].known \/ refs \/ rows[b][i].unit = "chosen"


(* The note on a conflict: "Review manual sebelum memperbarui master ASN."  *)
(* A correction made by hand is replaced by an import only after somebody   *)
(* has gone through the row again, which updateAsn alone records.           *)
CorrectionNeedsReview ==
  [][\A n \in Nip : asn[n].value = "desk" /\ asn[n].checksum => asn'[n].value = "desk"]_vars

=============================================================================

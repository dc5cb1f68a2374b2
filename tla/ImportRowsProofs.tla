------------------------- MODULE ImportRowsProofs -------------------------
(***************************************************************************)
(* What the jobs of ImportBatch do with rows: a batch touches the table    *)
(* asn with all of its rows safe or not at all, and is complete when it is *)
(* COMMITTED, provided jobs are asked for after the upload has answered.   *)
(***************************************************************************)
EXTENDS ImportProofs

USE DEF Batch, requests, table, vars

-----------------------------------------------------------------------------
(* The inductive invariant.                                                 *)

Pair(n, b) == <<n, b>> \in applied \cup noted
Touched(b) == \E n \in Nip : Pair(n, b)

\* Row i of batch b may be committed, and every row may.
Fit(b, i) ==
  /\ file[b][i].sound
  /\ file[b][i].known \/ refs \/ rows[b][i].unit = "chosen"
Clean(b) ==
  /\ rows[b] # <<>>
  /\ \A i \in DOMAIN rows[b] : Fit(b, i) /\ rows[b][i].mapping = "MAPPED"

Committing(j) == job[j].kind = "commit" /\ job[j].at = "write"

(* What a request or job holds exists.  An upload that is to stage its rows *)
(* is the only one of its batch, which has none so far.                     *)
HeldOK ==
  /\ \A u \in Uploader : upload[u].at = "stage" =>
       /\ upload[u].of \in Batch /\ status[upload[u].of] # "NONE"
       /\ rows[upload[u].of] = <<>> /\ upload[u].file = file[upload[u].of]
       /\ \A v \in Uploader : upload[v].at = "stage" /\ upload[v].of = upload[u].of => v = u
  /\ \A j \in Job : job[j].at # "idle" => status[job[j].of] # "NONE"
  /\ \A b \in cancels : status[b] # "NONE"
  /\ \A r \in Resolver : resolve[r] # NoResolution =>
       resolve[r].of \in Batch /\ resolve[r].line \in DOMAIN rows[resolve[r].of]
  /\ \A b \in Batch : status[b] = "NONE" => rows[b] = <<>>

(* Staging rows belong to lines of the file, and are MAPPED rightly.        *)
RowsOK ==
  \A b \in Batch :
    /\ rows[b] = <<>> \/ DOMAIN rows[b] = DOMAIN file[b]
    /\ \A i \in DOMAIN rows[b] : rows[b][i].mapping = "MAPPED" => Fit(b, i)

(* So will they be when a job has written what it holds.                    *)
PlansOK ==
  \A j \in Job : job[j].at = "write" =>
    /\ rows[job[j].of] # <<>> /\ DOMAIN job[j].plan = DOMAIN rows[job[j].of]
    /\ job[j].kind # "commit" =>
         \A i \in DOMAIN job[j].plan : job[j].plan[i].mapping = "MAPPED" =>
           file[job[j].of][i].sound /\ (file[job[j].of][i].known \/ refs)

(* A batch that is being committed, or was in part, has safe rows only; and *)
(* no other job will work on one that was.                                  *)
CleanOK ==
  /\ \A b \in Batch : Touched(b) => Clean(b)
  /\ \A j \in Job : Committing(j) => Clean(job[j].of)
LateOK ==
  \A b \in Batch : Touched(b) =>
    /\ status[b] \notin {"NONE", "VALIDATED"}
    /\ \A j \in Job : job[j].at \in AtWork /\ job[j].of = b =>
         job[j].kind = "commit" /\ job[j].at \in {"write", "finish"}

RowInv == TypeOK /\ Exclusive /\ HeldOK /\ RowsOK /\ PlansOK /\ CleanOK /\ LateOK

-----------------------------------------------------------------------------
(* What a step may do to each variable, whatever its action.                *)

StatusMoves(b) ==
  /\ status'[b] = "NONE" => status[b] = "NONE"
  /\ status[b] # "NONE" => file'[b] = file[b]
  /\ status'[b] = "VALIDATED" =>
       \/ status[b] \in {"NONE", "VALIDATED"}
       \/ \E j \in Job : /\ job[j].of = b
                         /\ job[j].at = "refuse" \/ (job[j].at = "finish" /\ job[j].kind # "commit")
  /\ status'[b] = "COMMITTED" =>
       \/ status[b] = "COMMITTED"
       \/ \E j \in Job : job[j].of = b /\ job[j].at = "finish" /\ job[j].kind = "commit"

\* The row of a line for which a unit was chosen by hand.
Chosen(line) ==
  [mapping |-> IF line.sound THEN "MAPPED" ELSE "UNMAPPED", unit |-> "chosen"]

RowsMove(b) ==
  \/ rows'[b] = rows[b]
  \/ \E u \in Uploader :
       /\ upload[u].at = "stage" /\ upload[u].of = b /\ upload'[u].at = "idle"
       /\ rows'[b] = StagedRows(upload[u].file)
  \/ \E j \in Job :
       /\ job[j].at = "write" /\ job[j].kind # "commit" /\ job[j].of = b
       /\ rows'[b] = [i \in DOMAIN rows[b] |->
                        IF i \in Chunk(j) THEN job[j].plan[i] ELSE rows[b][i]]
  \/ \E r \in Resolver :
       /\ resolve[r] # NoResolution /\ resolve[r].of = b
       /\ rows'[b] = [rows[b] EXCEPT ![resolve[r].line] = Chosen(file[b][resolve[r].line])]

PairsMove(b) ==
  \A n \in Nip :
    /\ Pair(n, b) => Pair(n, b)'
    /\ Pair(n, b)' => Pair(n, b) \/ \E j \in Job : Committing(j) /\ job[j].of = b

Onwards(j) ==
  \/ job[j].at = "queued" /\ job'[j].at = "read"
  \/ /\ job[j].at = "read" /\ job[j].kind # "commit" /\ job'[j].at \in {"write", "finish"}
     /\ job'[j].at = "write" =>
          /\ rows[job[j].of] # <<>>
          /\ job'[j].plan = [i \in DOMAIN rows[job[j].of] |-> MappedRow(file[job[j].of][i])]
  \/ /\ job[j].at = "read" /\ job[j].kind = "commit" /\ job'[j].at \in {"write", "finish", "refuse"}
     /\ job'[j].at = "finish" => rows[job[j].of] = <<>>
     /\ job'[j].at = "write" =>
          /\ rows[job[j].of] # <<>> /\ Safe(file[job[j].of], rows[job[j].of])
          /\ job'[j].plan = rows[job[j].of] /\ job'[j].next = 1
  \/ /\ job[j].at = "write" /\ job'[j] = Onward(j)
     /\ job[j].kind = "commit" =>
          \A i \in Chunk(j) : file[job[j].of][i].nip \in Nip =>
            <<file[job[j].of][i].nip, job[j].of>> \in applied' \cup noted'

JobMoves(j) ==
  \/ job'[j] = job[j]
  \/ job'[j].at = "idle"
  \/ job[j].at # "idle" /\ job'[j].at \in Failing /\ job'[j].of = job[j].of
  \/ /\ job[j].at = "idle" /\ job'[j].at = "queued" /\ job'[j].of \in Batch
     /\ status[job'[j].of] = "VALIDATED" /\ (EarlyBird \/ ~Uploading(job'[j].of))
  \/ /\ job[j].at \in AtWork /\ job'[j].at \in AtWork
     /\ job'[j].of = job[j].of /\ job'[j].kind = job[j].kind
     /\ Onwards(j)

UploadMoves(u) ==
  upload'[u].at = "stage" =>
    \/ upload'[u] = upload[u]
    \/ /\ upload'[u].of \in Batch /\ status[upload'[u].of] = "NONE"
       /\ status'[upload'[u].of] # "NONE" /\ file'[upload'[u].of] = upload'[u].file
       /\ \A v \in Uploader \ {u} : upload'[v] = upload[v]

OthersMove ==
  /\ refs => refs'
  /\ \A b \in cancels' : b \in cancels \/ status[b] # "NONE"
  /\ \A r \in Resolver : resolve'[r] # NoResolution =>
       \/ resolve'[r] = resolve[r]
       \/ resolve'[r].of \in Batch /\ resolve'[r].line \in DOMAIN rows[resolve'[r].of]

UploadType == [at : {"idle", "create", "stage"}, file : File \cup {<<>>}, of : Batch \cup {0}]

(* A chunk reaches every employee it names: the row is taken or overruled.  *)
LEMMA ChunkReaches ==
  ASSUME NEW j \in Job, CommitChunkRows(j), NEW i \in Chunk(j), file[job[j].of][i].nip \in Nip
  PROVE  <<file[job[j].of][i].nip, job[j].of>> \in applied' \cup noted'
<1> DEFINE n == file[job[j].of][i].nip
<1>1. i \in Hits(j, n)
  BY DEF Hits
<1>2. n \in Taken(j) \/ n \in Overruled(j)
  BY <1>1 DEF Taken, Overruled
<1> QED
  BY <1>2 DEF CommitChunkRows

(* Statuses and files.                                                      *)
LEMMA StatusStep ==
  ASSUME RowInv, [Next]_vars, NEW b \in Batch
  PROVE  StatusMoves(b)
<1>t. /\ job \in [Job -> JobType] /\ status \in [Batch -> Status]
      /\ upload \in [Uploader -> UploadType] /\ rows \in [Batch -> Seq(Row)]
      /\ file \in [Batch -> File \cup {<<>>}]
  BY DEF RowInv, TypeOK, JobType, UploadType
<1>u. ASSUME UNCHANGED <<status, file>> PROVE StatusMoves(b)
  BY <1>u DEF StatusMoves
<1>1. CASE UNCHANGED vars
  BY <1>1, <1>u
<1>2. ASSUME NEW u \in Uploader, NEW f \in File, BeginUpload(u, f)
      PROVE  StatusMoves(b)
  BY <1>2, <1>u DEF BeginUpload
<1>3. ASSUME NEW u \in Uploader, StageRows(u) \/ StageError(u)
      PROVE  StatusMoves(b)
  BY <1>3, <1>u DEF StageError, StageRows
<1>4. ASSUME NEW j \in Job,
             Start(j) \/ MapRead(j) \/ MapChunk(j) \/ CommitRead(j) \/ CommitChunk(j)
             \/ MarkError(j)
      PROVE  StatusMoves(b)
  BY <1>4, <1>u DEF CommitChunk, CommitRead, Hold, MapChunk, MapRead, MarkError, Stand, Start
<1>5. ASSUME NEW c \in Batch, BeginCancel(c)
      PROVE  StatusMoves(b)
  BY <1>5, <1>u DEF BeginCancel
<1>6. ASSUME NEW r \in Resolver, NEW c \in Batch, NEW i \in DOMAIN rows[c], BeginResolve(r, c, i)
      PROVE  StatusMoves(b)
  BY <1>6, <1>u DEF BeginResolve
<1>7. ASSUME NEW r \in Resolver, ResolveUnit(r)
      PROVE  StatusMoves(b)
  BY <1>7, <1>u DEF ResolveUnit
<1>8. ASSUME NEW n \in Nip, Correct(n)
      PROVE  StatusMoves(b)
  BY <1>8, <1>u DEF Correct
<1>9. ASSUME CompleteReferences \/ Crash
      PROVE  StatusMoves(b)
  BY <1>9, <1>u DEF CompleteReferences, Crash
<1>10. ASSUME NEW u \in Uploader, NEW c \in Batch, CreateBatch(u, c)
      PROVE  StatusMoves(b)
  BY <1>10, <1>t DEF CreateBatch, StatusMoves
<1>11. ASSUME NEW j \in Job, NEW c \in Batch, NEW k \in Kind, Enqueue(j, c, k)
      PROVE  StatusMoves(b)
  BY <1>11, <1>t DEF Enqueue, Claimable, StatusMoves
<1>12. ASSUME NEW j \in Job, CommitRefused(j)
      PROVE  StatusMoves(b)
  BY <1>12, <1>t DEF CommitRefused, StatusMoves
<1>13. ASSUME NEW j \in Job, Finish(j)
      PROVE  StatusMoves(b)
  BY <1>13, <1>t DEF Finish, Outcome, StatusMoves
<1>14. ASSUME NEW j \in Job, MarkFailed(j)
      PROVE  StatusMoves(b)
  BY <1>14, <1>t DEF MarkFailed, StatusMoves
<1>15. ASSUME NEW j \in Job, JobError(j)
      PROVE  StatusMoves(b)
  BY <1>15, <1>t DEF JobError, Outcome, StatusMoves
<1>16. ASSUME NEW c \in Batch, Cancel(c)
      PROVE  StatusMoves(b)
  BY <1>16, <1>t DEF Cancel, StatusMoves
<1>17. ASSUME Restart
      PROVE  StatusMoves(b)
  BY <1>17, <1>t DEF Restart, StatusMoves
<1> QED
  BY <1>1, <1>2, <1>3, <1>4, <1>5, <1>6, <1>7, <1>8, <1>9, <1>10, <1>11, <1>12, <1>13, <1>14,
     <1>15, <1>16, <1>17
     DEF Next, Work

(* Staging rows.                                                            *)
LEMMA RowsStep ==
  ASSUME RowInv, [Next]_vars, NEW b \in Batch
  PROVE  RowsMove(b)
<1>t. /\ job \in [Job -> JobType] /\ status \in [Batch -> Status]
      /\ upload \in [Uploader -> UploadType] /\ rows \in [Batch -> Seq(Row)]
      /\ file \in [Batch -> File \cup {<<>>}]
  BY DEF RowInv, TypeOK, JobType, UploadType
<1>u. ASSUME UNCHANGED rows PROVE RowsMove(b)
  BY <1>u DEF RowsMove
<1>1. CASE UNCHANGED vars
  BY <1>1, <1>u
<1>2. ASSUME NEW u \in Uploader, NEW f \in File, BeginUpload(u, f)
      PROVE  RowsMove(b)
  BY <1>2, <1>u DEF BeginUpload
<1>3. ASSUME NEW u \in Uploader, NEW c \in Batch, CreateBatch(u, c)
      PROVE  RowsMove(b)
  BY <1>3, <1>u DEF CreateBatch
<1>4. ASSUME NEW u \in Uploader, StageError(u)
      PROVE  RowsMove(b)
  BY <1>4, <1>u DEF StageError
<1>5. ASSUME NEW j \in Job, NEW c \in Batch, NEW k \in Kind, Enqueue(j, c, k)
      PROVE  RowsMove(b)
  BY <1>5, <1>u DEF Enqueue
<1>6. ASSUME NEW j \in Job,
             Start(j) \/ MapRead(j) \/ CommitRead(j) \/ CommitRefused(j)
             \/ CommitChunk(j) \/ Finish(j) \/ MarkFailed(j) \/ MarkError(j)
      PROVE  RowsMove(b)
  BY <1>6, <1>u
     DEF CommitChunk, CommitRead, CommitRefused, Finish, Hold, MapRead, MarkError, MarkFailed,
         Stand, Start
<1>7. ASSUME NEW c \in Batch, BeginCancel(c) \/ Cancel(c)
      PROVE  RowsMove(b)
  BY <1>7, <1>u DEF BeginCancel, Cancel
<1>8. ASSUME NEW r \in Resolver, NEW c \in Batch, NEW i \in DOMAIN rows[c], BeginResolve(r, c, i)
      PROVE  RowsMove(b)
  BY <1>8, <1>u DEF BeginResolve
<1>9. ASSUME NEW n \in Nip, Correct(n)
      PROVE  RowsMove(b)
  BY <1>9, <1>u DEF Correct
<1>10. ASSUME CompleteReferences \/ Crash \/ Restart
      PROVE  RowsMove(b)
  BY <1>10, <1>u DEF CompleteReferences, Crash, Restart
<1>11. ASSUME NEW u \in Uploader, StageRows(u)
      PROVE  RowsMove(b)
  BY <1>11, <1>t DEF StageRows, RowsMove, NoUpload
<1>12. ASSUME NEW j \in Job, MapChunk(j)
      PROVE  RowsMove(b)
  BY <1>12, <1>t DEF MapChunk, MappedChunk, RowsMove
<1>13. ASSUME NEW j \in Job, JobError(j)
      PROVE  RowsMove(b)
  <2>1. CASE UNCHANGED rows
    BY <2>1, <1>u
  <2>2. CASE job[j].at = "write" /\ job[j].kind # "commit" /\ rows' = MappedChunk(j)
    BY <2>2, <1>t DEF MappedChunk, RowsMove
  <2> QED
    BY <1>13, <2>1, <2>2 DEF JobError
<1>14. ASSUME NEW r \in Resolver, ResolveUnit(r)
      PROVE  RowsMove(b)
  <2>1. resolve[r].of \in Batch
    BY <1>14 DEF ResolveUnit, RowInv, HeldOK
  <2> QED
    BY <1>14, <1>t, <2>1 DEF ResolveUnit, RowsMove, Chosen
<1> QED
  BY <1>1, <1>2, <1>3, <1>4, <1>5, <1>6, <1>7, <1>8, <1>9, <1>10, <1>11, <1>12, <1>13, <1>14
     DEF Next, Work

(* What the batches have done to the table asn.                             *)
LEMMA PairsStep ==
  ASSUME RowInv, [Next]_vars, NEW b \in Batch
  PROVE  PairsMove(b)
<1>t. /\ job \in [Job -> JobType] /\ status \in [Batch -> Status]
      /\ upload \in [Uploader -> UploadType] /\ rows \in [Batch -> Seq(Row)]
      /\ file \in [Batch -> File \cup {<<>>}]
  BY DEF RowInv, TypeOK, JobType, UploadType
<1>u. ASSUME UNCHANGED <<applied, noted>> PROVE PairsMove(b)
  BY <1>u DEF PairsMove, Pair
<1>1. CASE UNCHANGED vars
  BY <1>1, <1>u
<1>2. ASSUME NEW u \in Uploader, NEW f \in File, BeginUpload(u, f)
      PROVE  PairsMove(b)
  BY <1>2, <1>u DEF BeginUpload
<1>3. ASSUME NEW u \in Uploader, NEW c \in Batch, CreateBatch(u, c)
      PROVE  PairsMove(b)
  BY <1>3, <1>u DEF CreateBatch
<1>4. ASSUME NEW u \in Uploader, StageRows(u) \/ StageError(u)
      PROVE  PairsMove(b)
  BY <1>4, <1>u DEF StageError, StageRows
<1>5. ASSUME NEW j \in Job, NEW c \in Batch, NEW k \in Kind, Enqueue(j, c, k)
      PROVE  PairsMove(b)
  BY <1>5, <1>u DEF Enqueue
<1>6. ASSUME NEW j \in Job,
             Start(j) \/ MapRead(j) \/ MapChunk(j) \/ CommitRead(j) \/ CommitRefused(j)
             \/ Finish(j) \/ MarkFailed(j) \/ MarkError(j)
      PROVE  PairsMove(b)
  BY <1>6, <1>u
     DEF CommitRead, CommitRefused, Finish, Hold, MapChunk, MapRead, MarkError, MarkFailed,
         Stand, Start
<1>7. ASSUME NEW c \in Batch, BeginCancel(c) \/ Cancel(c)
      PROVE  PairsMove(b)
  BY <1>7, <1>u DEF BeginCancel, Cancel
<1>8. ASSUME NEW r \in Resolver, NEW c \in Batch, NEW i \in DOMAIN rows[c], BeginResolve(r, c, i)
      PROVE  PairsMove(b)
  BY <1>8, <1>u DEF BeginResolve
<1>9. ASSUME NEW r \in Resolver, ResolveUnit(r)
      PROVE  PairsMove(b)
  BY <1>9, <1>u DEF ResolveUnit
<1>10. ASSUME NEW n \in Nip, Correct(n)
      PROVE  PairsMove(b)
  BY <1>10, <1>u DEF Correct
<1>11. ASSUME CompleteReferences \/ Crash \/ Restart
      PROVE  PairsMove(b)
  BY <1>11, <1>u DEF CompleteReferences, Crash, Restart
<1>12. ASSUME NEW j \in Job, CommitChunk(j)
      PROVE  PairsMove(b)
  <2>1. job[j].of = b \/ \A n \in Nip : Pair(n, b)' <=> Pair(n, b)
    BY <1>12 DEF CommitChunk, CommitChunkRows, Taken, Overruled, Pair
  <2>2. \A n \in Nip : Pair(n, b) => Pair(n, b)'
    BY <1>12 DEF CommitChunk, CommitChunkRows, Pair
  <2>3. Committing(j) \/ UNCHANGED <<applied, noted>>
    BY <1>12 DEF CommitChunk, Committing
  <2> QED
    BY <1>u, <2>1, <2>2, <2>3 DEF PairsMove
<1>13. ASSUME NEW j \in Job, JobError(j)
      PROVE  PairsMove(b)
  <2>1. job[j].of = b \/ \A n \in Nip : Pair(n, b)' <=> Pair(n, b)
    BY <1>13 DEF JobError, CommitChunkRows, Taken, Overruled, Pair
  <2>2. \A n \in Nip : Pair(n, b) => Pair(n, b)'
    BY <1>13 DEF JobError, CommitChunkRows, Pair
  <2>3. Committing(j) \/ UNCHANGED <<applied, noted>>
    BY <1>13 DEF JobError, Committing
  <2> QED
    BY <1>u, <2>1, <2>2, <2>3 DEF PairsMove
<1> QED
  BY <1>1, <1>2, <1>3, <1>4, <1>5, <1>6, <1>7, <1>8, <1>9, <1>10, <1>11, <1>12, <1>13
     DEF Next, Work

(* The reference table, cancellations and resolutions.                      *)
LEMMA OthersStep ==
  ASSUME RowInv, [Next]_vars
  PROVE  OthersMove
<1>t. /\ job \in [Job -> JobType] /\ status \in [Batch -> Status]
      /\ upload \in [Uploader -> UploadType] /\ rows \in [Batch -> Seq(Row)]
      /\ file \in [Batch -> File \cup {<<>>}]
  BY DEF RowInv, TypeOK, JobType, UploadType
<1>u. ASSUME UNCHANGED <<refs, cancels, resolve>> PROVE OthersMove
  BY <1>u DEF OthersMove
<1>1. CASE UNCHANGED vars
  BY <1>1, <1>u
<1>2. ASSUME NEW u \in Uploader, NEW f \in File, BeginUpload(u, f)
      PROVE  OthersMove
  BY <1>2, <1>u DEF BeginUpload
<1>3. ASSUME NEW u \in Uploader, NEW c \in Batch, CreateBatch(u, c)
      PROVE  OthersMove
  BY <1>3, <1>u DEF CreateBatch
<1>4. ASSUME NEW u \in Uploader, StageRows(u) \/ StageError(u)
      PROVE  OthersMove
  BY <1>4, <1>u DEF StageError, StageRows
<1>5. ASSUME NEW j \in Job, NEW c \in Batch, NEW k \in Kind, Enqueue(j, c, k)
      PROVE  OthersMove
  BY <1>5, <1>u DEF Enqueue
<1>6. ASSUME NEW j \in Job,
             Start(j) \/ MapRead(j) \/ MapChunk(j) \/ CommitRead(j) \/ CommitRefused(j)
             \/ CommitChunk(j) \/ Finish(j) \/ MarkFailed(j) \/ MarkError(j) \/ JobError(j)
      PROVE  OthersMove
  BY <1>6, <1>u
     DEF CommitChunk, CommitRead, CommitRefused, Finish, Hold, JobError, MapChunk, MapRead,
         MarkError, MarkFailed, Stand, Start
<1>7. ASSUME NEW n \in Nip, Correct(n)
      PROVE  OthersMove
  BY <1>7, <1>u DEF Correct
<1>8. ASSUME Restart
      PROVE  OthersMove
  BY <1>8, <1>u DEF Restart
<1>9. ASSUME NEW c \in Batch, BeginCancel(c)
      PROVE  OthersMove
  BY <1>9 DEF BeginCancel, OthersMove
<1>10. ASSUME NEW c \in Batch, Cancel(c)
      PROVE  OthersMove
  BY <1>10 DEF Cancel, OthersMove
<1>11. ASSUME NEW r \in Resolver, NEW c \in Batch, NEW i \in DOMAIN rows[c], BeginResolve(r, c, i)
      PROVE  OthersMove
  BY <1>11 DEF BeginResolve, OthersMove, RowInv, TypeOK, NoResolution
<1>12. ASSUME NEW r \in Resolver, ResolveUnit(r)
      PROVE  OthersMove
  BY <1>12 DEF ResolveUnit, OthersMove, RowInv, TypeOK, NoResolution
<1>13. ASSUME CompleteReferences
      PROVE  OthersMove
  BY <1>13 DEF CompleteReferences, OthersMove
<1>14. ASSUME Crash
      PROVE  OthersMove
  BY <1>14 DEF Crash, OthersMove
<1> QED
  BY <1>1, <1>2, <1>3, <1>4, <1>5, <1>6, <1>7, <1>8, <1>9, <1>10, <1>11, <1>12, <1>13, <1>14
     DEF Next, Work

(* Uploads.                                                                 *)
LEMMA UploadStep ==
  ASSUME RowInv, [Next]_vars, NEW v \in Uploader
  PROVE  UploadMoves(v)
<1>t. /\ job \in [Job -> JobType] /\ status \in [Batch -> Status]
      /\ upload \in [Uploader -> UploadType] /\ rows \in [Batch -> Seq(Row)]
      /\ file \in [Batch -> File \cup {<<>>}]
  BY DEF RowInv, TypeOK, JobType, UploadType
<1>u. ASSUME UNCHANGED upload PROVE UploadMoves(v)
  BY <1>u DEF UploadMoves
<1>1. CASE UNCHANGED vars
  BY <1>1, <1>u
<1>2. ASSUME NEW j \in Job, NEW c \in Batch, NEW k \in Kind, Enqueue(j, c, k)
      PROVE  UploadMoves(v)
  BY <1>2, <1>u DEF Enqueue
<1>3. ASSUME NEW j \in Job,
             Start(j) \/ MapRead(j) \/ MapChunk(j) \/ CommitRead(j) \/ CommitRefused(j)
             \/ CommitChunk(j) \/ Finish(j) \/ MarkFailed(j) \/ MarkError(j) \/ JobError(j)
      PROVE  UploadMoves(v)
  BY <1>3, <1>u
     DEF CommitChunk, CommitRead, CommitRefused, Finish, Hold, JobError, MapChunk, MapRead,
         MarkError, MarkFailed, Stand, Start
<1>4. ASSUME NEW c \in Batch, BeginCancel(c) \/ Cancel(c)
      PROVE  UploadMoves(v)
  BY <1>4, <1>u DEF BeginCancel, Cancel
<1>5. ASSUME NEW r \in Resolver, NEW c \in Batch, NEW i \in DOMAIN rows[c], BeginResolve(r, c, i)
      PROVE  UploadMoves(v)
  BY <1>5, <1>u DEF BeginResolve
<1>6. ASSUME NEW r \in Resolver, ResolveUnit(r)
      PROVE  UploadMoves(v)
  BY <1>6, <1>u DEF ResolveUnit
<1>7. ASSUME NEW n \in Nip, Correct(n)
      PROVE  UploadMoves(v)
  BY <1>7, <1>u DEF Correct
<1>8. ASSUME CompleteReferences \/ Restart
      PROVE  UploadMoves(v)
  BY <1>8, <1>u DEF CompleteReferences, Restart
<1>9. ASSUME NEW u \in Uploader, NEW f \in File, BeginUpload(u, f)
      PROVE  UploadMoves(v)
  BY <1>9, <1>t DEF BeginUpload, UploadMoves, UploadType
<1>10. ASSUME NEW u \in Uploader, NEW c \in Batch, CreateBatch(u, c)
      PROVE  UploadMoves(v)
  BY <1>10, <1>t DEF CreateBatch, UploadMoves, UploadType
<1>11. ASSUME NEW u \in Uploader, StageRows(u)
      PROVE  UploadMoves(v)
  BY <1>11, <1>t DEF StageRows, UploadMoves, UploadType, NoUpload
<1>12. ASSUME NEW u \in Uploader, StageError(u)
      PROVE  UploadMoves(v)
  BY <1>12, <1>t DEF StageError, UploadMoves, UploadType, NoUpload
<1>13. ASSUME Crash
      PROVE  UploadMoves(v)
  BY <1>13, <1>t DEF Crash, UploadMoves, NoUpload
<1> QED
  BY <1>1, <1>2, <1>3, <1>4, <1>5, <1>6, <1>7, <1>8, <1>9, <1>10, <1>11, <1>12, <1>13
     DEF Next, Work

(* Jobs.                                                                    *)
LEMMA JobsStep ==
  ASSUME RowInv, [Next]_vars, NEW g \in Job
  PROVE  JobMoves(g)
<1>t. /\ job \in [Job -> JobType] /\ status \in [Batch -> Status]
      /\ upload \in [Uploader -> UploadType] /\ rows \in [Batch -> Seq(Row)]
      /\ file \in [Batch -> File \cup {<<>>}]
  BY DEF RowInv, TypeOK, JobType, UploadType
<1>u. ASSUME UNCHANGED job PROVE JobMoves(g)
  BY <1>u DEF JobMoves
<1>1. CASE UNCHANGED vars
  BY <1>1, <1>u
<1>2. ASSUME NEW u \in Uploader, NEW f \in File, BeginUpload(u, f)
      PROVE  JobMoves(g)
  BY <1>2, <1>u DEF BeginUpload
<1>3. ASSUME NEW u \in Uploader, NEW c \in Batch, CreateBatch(u, c)
      PROVE  JobMoves(g)
  BY <1>3, <1>u DEF CreateBatch
<1>4. ASSUME NEW u \in Uploader, StageRows(u) \/ StageError(u)
      PROVE  JobMoves(g)
  BY <1>4, <1>u DEF StageError, StageRows
<1>5. ASSUME NEW c \in Batch, BeginCancel(c) \/ Cancel(c)
      PROVE  JobMoves(g)
  BY <1>5, <1>u DEF BeginCancel, Cancel
<1>6. ASSUME NEW r \in Resolver, NEW c \in Batch, NEW i \in DOMAIN rows[c], BeginResolve(r, c, i)
      PROVE  JobMoves(g)
  BY <1>6, <1>u DEF BeginResolve
<1>7. ASSUME NEW r \in Resolver, ResolveUnit(r)
      PROVE  JobMoves(g)
  BY <1>7, <1>u DEF ResolveUnit
<1>8. ASSUME NEW n \in Nip, Correct(n)
      PROVE  JobMoves(g)
  BY <1>8, <1>u DEF Correct
<1>9. ASSUME CompleteReferences \/ Restart
      PROVE  JobMoves(g)
  BY <1>9, <1>u DEF CompleteReferences, Restart
<1>10. ASSUME NEW j \in Job, NEW c \in Batch, NEW k \in Kind, Enqueue(j, c, k)
      PROVE  JobMoves(g)
  BY <1>10, <1>t DEF Enqueue, Claimable, JobMoves, JobType
<1>11. ASSUME NEW j \in Job, Start(j)
      PROVE  JobMoves(g)
  <2>1. job'[g] = IF g = j THEN [job[j] EXCEPT !.at = job'[j].at] ELSE job[g]
    BY <1>11, <1>t DEF Start, Stand, JobType
  <2>2. job'[j].at \in {"read", "failAgain"}
    BY <1>11, <1>t DEF Start, Stand, JobType
  <2> QED
    BY <1>11, <1>t, <2>1, <2>2 DEF Start, JobMoves, Onwards, AtWork, Failing, JobType
<1>12. ASSUME NEW j \in Job, MapRead(j)
      PROVE  JobMoves(g)
  BY <1>12, <1>t DEF MapRead, Hold, JobMoves, Onwards, AtWork, JobType
<1>13. ASSUME NEW j \in Job, MapChunk(j)
      PROVE  JobMoves(g)
  <2>1. job'[g] = IF g = j THEN Onward(j) ELSE job[g]
    BY <1>13, <1>t DEF MapChunk
  <2> QED
    BY <1>13, <1>t, <2>1 DEF MapChunk, Onward, JobMoves, Onwards, AtWork, JobType
<1>14. ASSUME NEW j \in Job, CommitRead(j)
      PROVE  JobMoves(g)
  BY <1>14, <1>t DEF CommitRead, Hold, JobMoves, Onwards, AtWork, JobType
<1>15. ASSUME NEW j \in Job, CommitRefused(j)
      PROVE  JobMoves(g)
  BY <1>15, <1>t DEF CommitRefused, NoJob, JobMoves
<1>16. ASSUME NEW j \in Job, CommitChunk(j)
      PROVE  JobMoves(g)
  <2>1. job'[g] = IF g = j THEN Onward(j) ELSE job[g]
    BY <1>16, <1>t DEF CommitChunk
  <2>2. ASSUME NEW i \in Chunk(j), file[job[j].of][i].nip \in Nip
        PROVE  <<file[job[j].of][i].nip, job[j].of>> \in applied' \cup noted'
    BY <1>16, <2>2, ChunkReaches DEF CommitChunk
  <2>3. Onward(j).at \in {"write", "finish"} /\ Onward(j).kind = job[j].kind
        /\ Onward(j).of = job[j].of
    BY DEF Onward
  <2> QED
    BY <1>16, <2>1, <2>2, <2>3 DEF CommitChunk, JobMoves, Onwards, AtWork
<1>17. ASSUME NEW j \in Job, Finish(j)
      PROVE  JobMoves(g)
  BY <1>17, <1>t DEF Finish, NoJob, JobMoves
<1>18. ASSUME NEW j \in Job, MarkFailed(j)
      PROVE  JobMoves(g)
  BY <1>18, <1>t DEF MarkFailed, AfterMark, NoJob, Failing, JobMoves, JobType
<1>19. ASSUME NEW j \in Job, MarkError(j)
      PROVE  JobMoves(g)
  BY <1>19, <1>t DEF MarkError, AfterMark, NoJob, Failing, JobMoves, JobType
<1>20. ASSUME NEW j \in Job, JobError(j)
      PROVE  JobMoves(g)
  BY <1>20, <1>t DEF JobError, Stand, AfterError, Failing, AtWork, JobMoves, JobType
<1>21. ASSUME Crash
      PROVE  JobMoves(g)
  BY <1>21 DEF Crash, NoJob, JobMoves
<1> QED
  BY <1>1, <1>2, <1>3, <1>4, <1>5, <1>6, <1>7, <1>8, <1>9, <1>10, <1>11, <1>12, <1>13, <1>14,
     <1>15, <1>16, <1>17, <1>18, <1>19, <1>20, <1>21
     DEF Next, Work

(* All of these at once.                                                    *)
Moves ==
  /\ \A b \in Batch : StatusMoves(b) /\ RowsMove(b) /\ PairsMove(b)
  /\ \A j \in Job : JobMoves(j)
  /\ \A u \in Uploader : UploadMoves(u)
  /\ OthersMove

LEMMA EveryMove == RowInv /\ [Next]_vars => Moves /\ TypeOK' /\ Exclusive'
<1> SUFFICES ASSUME RowInv, [Next]_vars PROVE Moves /\ TypeOK' /\ Exclusive'
  OBVIOUS
<1>1. Moves
  BY StatusStep, RowsStep, PairsStep, JobsStep, UploadStep, OthersStep DEF Moves
<1>2. TypeOK' /\ Exclusive'
  BY TypeStep, ClaimStep DEF RowInv, Exclusive
<1> QED
  BY <1>1, <1>2

-----------------------------------------------------------------------------
(* The invariant is kept.                                                   *)

LEMMA NoLines == ASSUME NEW S, NEW s \in Seq(S) PROVE s = <<>> <=> DOMAIN s = {}
<1>1. DOMAIN s = 1 .. Len(s) /\ Len(s) \in Nat
  OBVIOUS
<1>2. s = <<>> <=> Len(s) = 0
  BY EmptySeq
<1>3. Len(s) = 0 <=> 1 .. Len(s) = {}
  <2>1. Len(s) # 0 => 1 \in 1 .. Len(s)
    BY <1>1
  <2> QED
    BY <1>1, <2>1
<1> QED
  BY <1>1, <1>2, <1>3

(* The rows of a batch, once there, are replaced one by one.                *)
LEMMA LinesKept ==
  ASSUME RowInv, Moves, TypeOK', NEW b \in Batch
  PROVE  /\ DOMAIN rows[b] \subseteq DOMAIN rows'[b]
         /\ rows[b] # <<>> => rows'[b] # <<>> /\ DOMAIN rows'[b] = DOMAIN rows[b]
<1>1. rows[b] \in Seq(Row) /\ rows'[b] \in Seq(Row)
  BY DEF RowInv, TypeOK
<1>2. rows[b] = <<>> \/ DOMAIN rows'[b] = DOMAIN rows[b]
  <2>1. \A u \in Uploader : upload[u].at = "stage" /\ upload[u].of = b => rows[b] = <<>>
    BY DEF RowInv, HeldOK
  <2>2. RowsMove(b)
    BY DEF Moves
  <2> QED
    BY <1>1, <2>1, <2>2 DEF RowsMove
<1> QED
  BY <1>1, <1>2, NoLines

(* A batch without rows gets them from its upload only.                     *)
LEMMA NoRowsKept ==
  ASSUME RowInv, Moves, NEW b \in Batch, rows[b] = <<>>,
         \A u \in Uploader : upload[u].at = "stage" /\ upload[u].of = b => upload'[u].at = "stage"
  PROVE  rows'[b] = <<>>
<1>1. \A j \in Job : job[j].at = "write" => job[j].of # b
  BY DEF RowInv, PlansOK
<1>2. \A r \in Resolver : resolve[r] # NoResolution => resolve[r].of # b
  BY DEF RowInv, HeldOK
<1> QED
  BY <1>1, <1>2 DEF Moves, RowsMove

(* The file of a batch does not change, nor does the batch disappear.       *)
LEMMA FileKept ==
  ASSUME RowInv, Moves, NEW b \in Batch, status[b] # "NONE"
  PROVE  status'[b] # "NONE" /\ file'[b] = file[b]
  BY DEF Moves, StatusMoves

LEMMA HeldStays == ASSUME RowInv, Moves, TypeOK' PROVE HeldOK'
<1>1. ASSUME NEW u \in Uploader, upload'[u].at = "stage"
      PROVE  /\ upload'[u].of \in Batch /\ status'[upload'[u].of] # "NONE"
             /\ rows'[upload'[u].of] = <<>> /\ upload'[u].file = file'[upload'[u].of]
             /\ \A v \in Uploader : upload'[v].at = "stage" /\ upload'[v].of = upload'[u].of => v = u
  <2> DEFINE b == upload'[u].of
  <2>1. \A v \in Uploader : UploadMoves(v)
    BY DEF Moves
  <2>2. CASE upload'[u] = upload[u]
    <3>1. /\ b \in Batch /\ status[b] # "NONE" /\ rows[b] = <<>> /\ upload[u].file = file[b]
          /\ \A v \in Uploader : upload[v].at = "stage" /\ upload[v].of = b => v = u
      BY <1>1, <2>2 DEF RowInv, HeldOK
    <3>2. status'[b] # "NONE" /\ file'[b] = file[b]
      BY <3>1, FileKept
    <3>3. rows'[b] = <<>>
      BY <1>1, <3>1, NoRowsKept
    <3>4. \A v \in Uploader : upload'[v].at = "stage" /\ upload'[v].of = b => v = u
      BY <2>1, <3>1 DEF UploadMoves
    <3> QED
      BY <2>2, <3>1, <3>2, <3>3, <3>4
  <2>3. CASE /\ b \in Batch /\ status[b] = "NONE" /\ status'[b] # "NONE"
             /\ file'[b] = upload'[u].file
             /\ \A v \in Uploader \ {u} : upload'[v] = upload[v]
    <3>1. \A v \in Uploader : upload[v].at = "stage" => upload[v].of # b
      BY <2>3 DEF RowInv, HeldOK
    <3>2. rows'[b] = <<>>
      BY <2>3, <3>1, NoRowsKept DEF RowInv, HeldOK
    <3> QED
      BY <2>3, <3>1, <3>2
  <2> QED
    BY <1>1, <2>1, <2>2, <2>3 DEF UploadMoves
<1>2. ASSUME NEW j \in Job, job'[j].at # "idle" PROVE status'[job'[j].of] # "NONE"
  <2>1. job'[j].of \in Batch /\ status[job'[j].of] # "NONE"
    BY <1>2 DEF Moves, JobMoves, RowInv, HeldOK, Exclusive, ClaimHeld, AtWork
  <2> QED
    BY <2>1, FileKept
<1>3. ASSUME NEW b \in cancels' PROVE status'[b] # "NONE"
  <2>1. b \in Batch /\ status[b] # "NONE"
    BY <1>3 DEF Moves, OthersMove, RowInv, HeldOK, TypeOK
  <2> QED
    BY <2>1, FileKept
<1>4. ASSUME NEW r \in Resolver, resolve'[r] # NoResolution
      PROVE  resolve'[r].of \in Batch /\ resolve'[r].line \in DOMAIN rows'[resolve'[r].of]
  <2>1. resolve'[r].of \in Batch /\ resolve'[r].line \in DOMAIN rows[resolve'[r].of]
    BY <1>4 DEF Moves, OthersMove, RowInv, HeldOK
  <2> QED
    BY <2>1, LinesKept
<1>5. ASSUME NEW b \in Batch, status'[b] = "NONE" PROVE rows'[b] = <<>>
  <2>1. status[b] = "NONE"
    BY <1>5 DEF Moves, StatusMoves
  <2>2. rows[b] = <<>> /\ \A u \in Uploader : upload[u].at = "stage" => upload[u].of # b
    BY <2>1 DEF RowInv, HeldOK
  <2> QED
    BY <2>2, NoRowsKept
<1> QED
  BY <1>1, <1>2, <1>3, <1>4, <1>5 DEF HeldOK

LEMMA RowsStay == ASSUME RowInv, Moves, TypeOK' PROVE RowsOK'
<1> SUFFICES ASSUME NEW b \in Batch
             PROVE  /\ rows'[b] = <<>> \/ DOMAIN rows'[b] = DOMAIN file'[b]
                    /\ \A i \in DOMAIN rows'[b] : rows'[b][i].mapping = "MAPPED" => Fit(b, i)'
  BY DEF RowsOK
<1>1. CASE status'[b] = "NONE" \/ status[b] = "NONE"
  <2>1. status[b] = "NONE"
    BY <1>1 DEF Moves, StatusMoves
  <2>2. rows[b] = <<>> /\ \A u \in Uploader : upload[u].at = "stage" => upload[u].of # b
    BY <2>1 DEF RowInv, HeldOK
  <2> QED
    BY <2>2, NoRowsKept
<1>2. CASE status[b] # "NONE"
  <2>1. file'[b] = file[b] /\ (refs => refs')
    BY <1>2, FileKept DEF Moves, OthersMove
  <2>2. \/ rows[b] = <<>>
        \/ DOMAIN rows[b] = DOMAIN file[b]
    BY DEF RowInv, RowsOK
  <2>3. \A i \in DOMAIN rows[b] : rows[b][i].mapping = "MAPPED" => Fit(b, i)
    BY DEF RowInv, RowsOK
  <2>4. CASE rows'[b] = rows[b]
    BY <2>1, <2>2, <2>3, <2>4 DEF Fit
  <2>5. ASSUME NEW u \in Uploader, upload[u].at = "stage", upload[u].of = b,
               rows'[b] = StagedRows(upload[u].file)
        PROVE  /\ DOMAIN rows'[b] = DOMAIN file'[b]
               /\ \A i \in DOMAIN rows'[b] : rows'[b][i].mapping # "MAPPED"
    BY <2>1, <2>5 DEF StagedRows, RowInv, HeldOK
  <2>6. ASSUME NEW j \in Job, job[j].at = "write", job[j].kind # "commit", job[j].of = b,
               rows'[b] = [i \in DOMAIN rows[b] |->
                             IF i \in Chunk(j) THEN job[j].plan[i] ELSE rows[b][i]]
        PROVE  /\ rows'[b] = <<>> \/ DOMAIN rows'[b] = DOMAIN file'[b]
               /\ \A i \in DOMAIN rows'[b] : rows'[b][i].mapping = "MAPPED" => Fit(b, i)'
    <3>1. /\ rows[b] # <<>> /\ DOMAIN job[j].plan = DOMAIN rows[b]
          /\ \A i \in DOMAIN job[j].plan : job[j].plan[i].mapping = "MAPPED" =>
               file[b][i].sound /\ (file[b][i].known \/ refs)
      BY <2>6 DEF RowInv, PlansOK
    <3> QED
      BY <2>1, <2>2, <2>3, <2>6, <3>1 DEF Fit
  <2>7. ASSUME NEW r \in Resolver, resolve[r] # NoResolution, resolve[r].of = b,
               rows'[b] = [rows[b] EXCEPT ![resolve[r].line] = Chosen(file[b][resolve[r].line])]
        PROVE  /\ rows'[b] = <<>> \/ DOMAIN rows'[b] = DOMAIN file'[b]
               /\ \A i \in DOMAIN rows'[b] : rows'[b][i].mapping = "MAPPED" => Fit(b, i)'
    <3>1. resolve[r].line \in DOMAIN rows[b]
      BY <2>7 DEF RowInv, HeldOK
    <3>2. rows[b] # <<>>
      BY <3>1
    <3>3. DOMAIN rows'[b] = DOMAIN rows[b]
      BY <2>7
    <3>4. ASSUME NEW i \in DOMAIN rows[b], rows'[b][i].mapping = "MAPPED" PROVE Fit(b, i)'
      <4>1. CASE i = resolve[r].line
        BY <2>1, <2>7, <3>4, <4>1 DEF Fit, Chosen
      <4>2. CASE i # resolve[r].line
        BY <2>1, <2>3, <2>7, <3>4, <4>2 DEF Fit
      <4> QED
        BY <4>1, <4>2
    <3> QED
      BY <2>1, <2>2, <3>2, <3>3, <3>4
  <2>8. RowsMove(b)
    BY DEF Moves
  <2> QED
    BY <2>4, <2>5, <2>6, <2>7, <2>8 DEF RowsMove
<1> QED
  BY <1>1, <1>2

LEMMA PlansStay == ASSUME RowInv, Moves, TypeOK', Exclusive' PROVE PlansOK'
<1> SUFFICES ASSUME NEW j \in Job, job'[j].at = "write"
             PROVE  /\ rows'[job'[j].of] # <<>> /\ DOMAIN job'[j].plan = DOMAIN rows'[job'[j].of]
                    /\ job'[j].kind # "commit" =>
                         \A i \in DOMAIN job'[j].plan : job'[j].plan[i].mapping = "MAPPED" =>
                           /\ file'[job'[j].of][i].sound
                           /\ file'[job'[j].of][i].known \/ refs'
  BY DEF PlansOK
<1> DEFINE b == job[j].of
<1>1. job[j].at \in {"read", "write"} /\ job'[j].of = b /\ job'[j].kind = job[j].kind
  BY DEF Moves, JobMoves, Onwards, Failing
<1>2. b \in Batch /\ status[b] # "NONE"
  BY <1>1 DEF RowInv, Exclusive, ClaimHeld, HeldOK
<1>3. file'[b] = file[b] /\ (refs => refs')
  BY <1>2, FileKept DEF Moves, OthersMove
<1>4. \/ job[j].at = "write" /\ job'[j].plan = job[j].plan
      \/ /\ job[j].at = "read" /\ job[j].kind # "commit" /\ rows[b] # <<>>
         /\ job'[j].plan = [i \in DOMAIN rows[b] |-> MappedRow(file[b][i])]
      \/ /\ job[j].at = "read" /\ job[j].kind = "commit" /\ rows[b] # <<>>
         /\ job'[j].plan = rows[b]
  <2>1. CASE job[j].at = "write"
    <3>1. job'[j] = job[j] \/ job'[j] = Onward(j)
      BY <1>1, <2>1 DEF Moves, JobMoves, Onwards, Failing
    <3>2. Onward(j).plan = job[j].plan
      BY DEF Onward
    <3> QED
      BY <2>1, <3>1, <3>2
  <2>2. CASE job[j].at = "read"
    BY <1>1, <2>2 DEF Moves, JobMoves, Onwards, Failing
  <2> QED
    BY <1>1, <2>1, <2>2
<1>5. /\ rows[b] # <<>> /\ DOMAIN job'[j].plan = DOMAIN rows[b]
      /\ job'[j].kind # "commit" =>
           \A i \in DOMAIN job'[j].plan : job'[j].plan[i].mapping = "MAPPED" =>
             file[b][i].sound /\ (file[b][i].known \/ refs)
  <2>1. CASE job[j].at = "write" /\ job'[j].plan = job[j].plan
    BY <1>1, <2>1 DEF RowInv, PlansOK
  <2>2. CASE /\ job[j].kind # "commit" /\ rows[b] # <<>>
             /\ job'[j].plan = [i \in DOMAIN rows[b] |-> MappedRow(file[b][i])]
    <3>1. \A line : MappedRow(line).mapping = "MAPPED" => line.sound /\ (line.known \/ refs)
      BY DEF MappedRow, Unit
    <3>2. DOMAIN job'[j].plan = DOMAIN rows[b]
      BY <2>2
    <3>3. \A i \in DOMAIN rows[b] : job'[j].plan[i] = MappedRow(file[b][i])
      BY <2>2
    <3> QED
      BY <2>2, <3>1, <3>2, <3>3
  <2> QED
    BY <1>1, <1>4, <2>1, <2>2
<1> QED
  BY <1>1, <1>2, <1>3, <1>5, LinesKept

(* A batch whose rows are safe stays so as long as nobody maps it again: a  *)
(* person who resolves one of its rows cannot make it unsafe.               *)
LEMMA CleanKept ==
  ASSUME RowInv, Moves, TypeOK', NEW b \in Batch, Clean(b),
         \A j \in Job : job[j].at = "write" /\ job[j].of = b => job[j].kind = "commit"
  PROVE  Clean(b)'
<1>1. rows[b] # <<>> /\ rows'[b] # <<>> /\ DOMAIN rows'[b] = DOMAIN rows[b]
  BY LinesKept DEF Clean
<1>2. status[b] # "NONE" /\ \A u \in Uploader : upload[u].at = "stage" => upload[u].of # b
  BY <1>1 DEF RowInv, HeldOK
<1>3. file'[b] = file[b] /\ (refs => refs')
  BY <1>2, FileKept DEF Moves, OthersMove
<1>4. CASE rows'[b] = rows[b]
  BY <1>1, <1>3, <1>4 DEF Clean, Fit
<1>5. ASSUME NEW r \in Resolver, resolve[r] # NoResolution, resolve[r].of = b,
             rows'[b] = [rows[b] EXCEPT ![resolve[r].line] = Chosen(file[b][resolve[r].line])]
      PROVE  Clean(b)'
  <2>1. resolve[r].line \in DOMAIN rows[b]
    BY <1>5 DEF RowInv, HeldOK
  <2>2. ASSUME NEW i \in DOMAIN rows[b] PROVE Fit(b, i)' /\ rows'[b][i].mapping = "MAPPED"
    <3>1. Fit(b, i) /\ rows[b][i].mapping = "MAPPED"
      BY DEF Clean
    <3>2. CASE i = resolve[r].line
      BY <1>3, <1>5, <3>1, <3>2 DEF Fit, Chosen
    <3>3. CASE i # resolve[r].line
      BY <1>3, <1>5, <3>1, <3>3 DEF Fit
    <3> QED
      BY <3>2, <3>3
  <2> QED
    BY <1>1, <2>2 DEF Clean
<1> QED
  BY <1>2, <1>4, <1>5 DEF Moves, RowsMove

(* A batch that is touched, or will be by this step, is safe, has been      *)
(* claimed and has no job but the one that commits it.                      *)
Guarded(b) ==
  /\ Clean(b)
  /\ status[b] \notin {"NONE", "VALIDATED"}
  /\ \A j \in Job : job[j].at \in AtWork /\ job[j].of = b =>
       job[j].kind = "commit" /\ job[j].at \in {"write", "finish"}

LEMMA TouchedFrom == ASSUME RowInv, Moves, NEW b \in Batch, Touched(b)' PROVE Guarded(b)
<1>1. CASE Touched(b)
  BY <1>1 DEF RowInv, CleanOK, LateOK, Guarded
<1>2. ASSUME NEW j \in Job, Committing(j), job[j].of = b PROVE Guarded(b)
  <2>1. job[j].at \in AtWork
    BY <1>2 DEF Committing, AtWork
  <2>2. \A k \in Job : job[k].at \in AtWork /\ job[k].of = b => k = j
    BY <1>2, <2>1 DEF RowInv, Exclusive, OneJobPerBatch
  <2>3. status[b] \in {"PROCESSING", "CANCELLED", "FAILED"}
    BY <1>2, <2>1 DEF RowInv, Exclusive, ClaimHeld
  <2>4. Clean(b)
    BY <1>2 DEF RowInv, CleanOK
  <2> QED
    BY <1>2, <2>2, <2>3, <2>4 DEF Guarded, Committing
<1> QED
  BY <1>1, <1>2 DEF Touched, Moves, PairsMove

LEMMA CleanStays == ASSUME RowInv, Moves, TypeOK', Exclusive' PROVE CleanOK'
<1>1. ASSUME NEW b \in Batch, Touched(b)' PROVE Clean(b)'
  BY <1>1, TouchedFrom, CleanKept DEF Guarded, AtWork
<1>2. ASSUME NEW j \in Job, Committing(j)' PROVE Clean(job[j].of)'
  <2> DEFINE b == job[j].of
  <2>1. /\ job[j].at \in {"read", "write"} /\ job[j].kind = "commit" /\ job'[j].of = b
        /\ job[j].at = "read" => rows[b] # <<>> /\ Safe(file[b], rows[b])
    BY <1>2 DEF Moves, JobMoves, Onwards, Failing, Committing
  <2>2. b \in Batch /\ \A k \in Job : job[k].at \in AtWork /\ job[k].of = b => k = j
    BY <2>1 DEF RowInv, Exclusive, ClaimHeld, OneJobPerBatch, AtWork
  <2>3. ASSUME job[j].at = "write" PROVE Clean(b)
    BY <2>1, <2>3 DEF RowInv, CleanOK, Committing
  <2>4. ASSUME job[j].at = "read" PROVE Clean(b)
    BY <2>1, <2>2, <2>4 DEF RowInv, RowsOK, Clean, Safe
  <2>5. Clean(b)
    BY <2>1, <2>3, <2>4
  <2> QED
    BY <2>1, <2>2, <2>5, CleanKept DEF AtWork
<1> QED
  BY <1>1, <1>2 DEF CleanOK

LEMMA LateStays == ASSUME RowInv, Moves, TypeOK', Exclusive' PROVE LateOK'
<1> SUFFICES ASSUME NEW b \in Batch, Touched(b)'
             PROVE  /\ status'[b] \notin {"NONE", "VALIDATED"}
                    /\ \A j \in Job : job'[j].at \in AtWork /\ job'[j].of = b =>
                         job'[j].kind = "commit" /\ job'[j].at \in {"write", "finish"}
  BY DEF LateOK
<1>1. Guarded(b)
  BY TouchedFrom
<1>2. status'[b] \notin {"NONE", "VALIDATED"}
  BY <1>1 DEF Moves, StatusMoves, Guarded, AtWork
<1>3. ASSUME NEW j \in Job, job'[j].at \in AtWork, job'[j].of = b
      PROVE  job'[j].kind = "commit" /\ job'[j].at \in {"write", "finish"}
  <2>1. \/ job'[j] = job[j]
        \/ job[j].at \in AtWork /\ job[j].of = b /\ job'[j].kind = job[j].kind /\ Onwards(j)
    BY <1>1, <1>3 DEF Moves, JobMoves, Guarded, AtWork, Failing
  <2>2. CASE job'[j] = job[j]
    BY <1>1, <1>3, <2>2 DEF Guarded
  <2>3. CASE job[j].at \in AtWork /\ job[j].of = b /\ job'[j].kind = job[j].kind /\ Onwards(j)
    <3>1. job[j].kind = "commit" /\ job[j].at \in {"write", "finish"}
      BY <1>1, <2>3 DEF Guarded
    <3>2. job'[j] = Onward(j)
      BY <2>3, <3>1 DEF Onwards
    <3>3. Onward(j).at \in {"write", "finish"}
      BY DEF Onward
    <3> QED
      BY <2>3, <3>1, <3>2, <3>3
  <2> QED
    BY <2>1, <2>2, <2>3
<1> QED
  BY <1>2, <1>3

LEMMA RowInvInit == Init => RowInv
<1> SUFFICES ASSUME Init PROVE RowInv
  OBVIOUS
<1>1. TypeOK /\ Exclusive
  BY TypeInit, ClaimInit
<1>2. HeldOK
  BY DEF Init, HeldOK, NoUpload, NoJob, NoResolution
<1>3. RowsOK /\ PlansOK
  BY DEF Init, RowsOK, PlansOK, NoJob
<1>4. CleanOK /\ LateOK
  BY DEF Init, CleanOK, LateOK, Touched, Pair, Committing, NoJob
<1> QED
  BY <1>1, <1>2, <1>3, <1>4 DEF RowInv

LEMMA RowInvStep == RowInv /\ [Next]_vars => RowInv'
<1> SUFFICES ASSUME RowInv, [Next]_vars PROVE RowInv'
  OBVIOUS
<1>1. Moves /\ TypeOK' /\ Exclusive'
  BY EveryMove
<1> QED
  BY <1>1, HeldStays, RowsStay, PlansStay, CleanStays, LateStays DEF RowInv

(* A batch with a row that is invalid or whose unit nobody knows never      *)
(* touches the table asn, in any number of chunks, mappings, resolutions,   *)
(* cancellations, failures and restarts: the check that all rows are safe   *)
(* still speaks the truth when the last chunk is committed.                 *)
THEOREM SafeOrNothing == Spec => []AllOrNothing
<1>1. RowInv => AllOrNothing
  BY DEF RowInv, CleanOK, Touched, Pair, Clean, Fit, AllOrNothing
<1> QED
  BY <1>1, RowInvInit, RowInvStep, PTL DEF Spec

-----------------------------------------------------------------------------
(* When nobody asks for a job before the upload has answered, a COMMITTED   *)
(* batch is complete.                                                       *)

Complete(b) ==
  \A i \in DOMAIN rows[b] : Pair(file[b][i].nip, b) /\ rows[b][i].mapping = "MAPPED"

(* A job has all rows of its batch; it has dealt with those it has passed,  *)
(* and with all of them at the end.                                         *)
DoneOK ==
  /\ \A j \in Job : job[j].at \in AtWork => ~Uploading(job[j].of)
  /\ \A j \in Job : Committing(j) =>
       \A i \in DOMAIN rows[job[j].of] : i < job[j].next => Pair(file[job[j].of][i].nip, job[j].of)
  /\ \A j \in Job : job[j].kind = "commit" /\ job[j].at = "finish" => Complete(job[j].of)
  /\ \A b \in Batch : status[b] = "COMMITTED" => Complete(b) /\ ~Uploading(b)


LEMMA PairKept ==
  ASSUME RowInv, Moves, NEW b \in Batch, NEW n, Pair(n, b)
  PROVE  Pair(n, b)'
<1>1. n \in Nip
  BY DEF Pair, RowInv, TypeOK
<1> QED
  BY <1>1 DEF Moves, PairsMove

LEMMA UploadingKept ==
  ASSUME RowInv, Moves, NEW b \in Batch, status[b] # "NONE", ~Uploading(b)
  PROVE  ~Uploading(b)'
  BY DEF Moves, UploadMoves, Uploading

LEMMA CompleteKept ==
  ASSUME RowInv, Moves, TypeOK', NEW b \in Batch, Complete(b), status[b] # "NONE", ~Uploading(b),
         \A j \in Job : job[j].at = "write" /\ job[j].of = b => job[j].kind = "commit"
  PROVE  Complete(b)'
<1>1. file'[b] = file[b]
  BY FileKept
<1>2. \A n : Pair(n, b) => Pair(n, b)'
  BY PairKept
<1>3. CASE rows'[b] = rows[b]
  BY <1>1, <1>2, <1>3 DEF Complete
<1>4. ASSUME NEW r \in Resolver, resolve[r] # NoResolution, resolve[r].of = b,
             rows'[b] = [rows[b] EXCEPT ![resolve[r].line] = Chosen(file[b][resolve[r].line])]
      PROVE  Complete(b)'
  <2>1. DOMAIN rows'[b] = DOMAIN rows[b]
    BY <1>4
  <2>2. ASSUME NEW i \in DOMAIN rows[b] PROVE rows'[b][i].mapping = "MAPPED"
    <3>1. rows[b][i].mapping = "MAPPED" /\ file[b][i].sound
      BY DEF Complete, RowInv, RowsOK, Fit
    <3>2. CASE i = resolve[r].line
      BY <1>4, <3>1, <3>2 DEF Chosen
    <3>3. CASE i # resolve[r].line
      BY <1>4, <3>1, <3>3
    <3> QED
      BY <3>2, <3>3
  <2> QED
    BY <1>1, <1>2, <2>1, <2>2 DEF Complete
<1> QED
  BY <1>3, <1>4 DEF Moves, RowsMove, Uploading

(* The only job of a batch that works on it.                                *)
LEMMA Alone ==
  ASSUME RowInv, NEW j \in Job, job[j].at \in AtWork
  PROVE  /\ job[j].of \in Batch /\ status[job[j].of] # "NONE"
         /\ \A k \in Job : job[k].at \in AtWork /\ job[k].of = job[j].of => k = j
  BY DEF RowInv, HeldOK, Exclusive, ClaimHeld, OneJobPerBatch, AtWork

(* A line of a file names an employee.                                      *)
LEMMA LinesName ==
  ASSUME NEW f \in File \cup {<<>>}, NEW i \in DOMAIN f
  PROVE  f[i].nip \in Nip
<1> DEFINE Line == [nip : Nip, sound : BOOLEAN, known : BOOLEAN]
<1>1. f # <<>>
  OBVIOUS
<1>2. f \in Seq(Line)
  BY <1>1, FileAssumption
<1>3. \A line \in Line : line.nip \in Nip
  OBVIOUS
<1> HIDE DEF Line
<1>4. f[i] \in Line
  BY <1>2
<1> QED
  BY <1>3, <1>4

(* The last chunk and those before it are all the rows.                     *)
LEMMA PassedOn ==
  ASSUME RowInv, DoneOK, Moves, NEW j \in Job, Committing(j), job'[j] = Onward(j), Onwards(j),
         NEW b \in Batch, job[j].of = b, NEW i \in DOMAIN rows[b],
         i < job'[j].next \/ job'[j].at = "finish",
         NEW n, n = file[b][i].nip
  PROVE  Pair(n, b)'
<1>1. job[j].at = "write" /\ job[j].kind = "commit"
  BY DEF Committing
<1>2. DOMAIN job[j].plan = DOMAIN rows[b] /\ DOMAIN rows[b] = DOMAIN file[b]
  BY <1>1 DEF RowInv, PlansOK, RowsOK
<1>3. job[j].plan \in Seq(Row) /\ job[j].next \in Nat /\ ChunkSize \in Nat
  BY BatchAssumption DEF RowInv, TypeOK
<1>4. i \in 1 .. Len(job[j].plan) /\ Len(job[j].plan) \in Nat
  BY <1>2, <1>3
<1>5. i < job[j].next + ChunkSize
  <2>1. Onward(j).next = job[j].next + ChunkSize
    BY DEF Onward
  <2>2. Onward(j).at = "finish" => job[j].next + ChunkSize > Len(job[j].plan)
    BY DEF Onward
  <2> QED
    BY <1>3, <1>4, <2>1, <2>2
<1>6. CASE i < job[j].next
  BY <1>6, PairKept DEF DoneOK
<1>7. CASE ~(i < job[j].next)
  <2>1. i \in Chunk(j)
    BY <1>2, <1>3, <1>4, <1>5, <1>7 DEF Chunk
  <2>2. n \in Nip
    <3>1. file[b] \in File \cup {<<>>} /\ i \in DOMAIN file[b]
      BY <1>2 DEF RowInv, TypeOK
    <3> QED
      BY <3>1, LinesName
  <2>3. <<n, b>> \in applied' \cup noted'
    BY <1>1, <2>1, <2>2 DEF Onwards
  <2> QED
    BY <2>3 DEF Pair
<1> QED
  BY <1>6, <1>7

LEMMA DoneInit == Init => DoneOK
  BY DEF Init, DoneOK, NoJob, AtWork, Committing

LEMMA DoneStep ==
  ASSUME ~EarlyBird, RowInv, DoneOK, Moves, RowInv'
  PROVE  DoneOK'
<1>t. TypeOK'
  BY DEF RowInv
<1>1. ASSUME NEW j \in Job, job'[j].at \in AtWork PROVE ~Uploading(job[j].of)'
  <2>1. PICK b : b = job'[j].of
    OBVIOUS
  <2>2. b \in Batch /\ status[b] # "NONE" /\ ~Uploading(b)
    <3>1. CASE job[j].at \in AtWork /\ job[j].of = b
      BY <3>1, Alone DEF DoneOK, Uploading
    <3>2. CASE b \in Batch /\ status[b] = "VALIDATED" /\ (EarlyBird \/ ~Uploading(b))
      <4>1. ~Uploading(b)
        BY <3>2, Zenon
      <4> QED
        BY <3>2, <4>1
    <3> QED
      BY <1>1, <2>1, <3>1, <3>2 DEF Moves, JobMoves, AtWork, Failing
  <2> QED
    BY <2>1, <2>2, UploadingKept DEF Uploading
<1>2. ASSUME NEW j \in Job, Committing(j)',
             NEW i \in DOMAIN rows'[job'[j].of], i < job'[j].next
      PROVE  Pair(file[job[j].of][i].nip, job[j].of)'
  <2>1. /\ job[j].at \in {"read", "write"} /\ job[j].kind = "commit" /\ job'[j].of = job[j].of
        /\ job[j].at = "read" => rows[job[j].of] # <<>> /\ job'[j].next = 1
        /\ job'[j] = job[j] \/ Onwards(j)
    BY <1>2 DEF Moves, JobMoves, Onwards, Failing, Committing
  <2>2. PICK b \in Batch : b = job[j].of /\ status[b] # "NONE" /\ rows[b] # <<>>
    BY <2>1, Alone DEF RowInv, PlansOK, AtWork
  <2>3. file'[b] = file[b] /\ i \in DOMAIN rows[b]
    BY <1>2, <1>t, <2>1, <2>2, FileKept, LinesKept
  <2>4. PICK n : n = file[b][i].nip
    OBVIOUS
  <2>5. Pair(n, b)'
    <3>1. CASE job[j].at = "read"
      <4>1. rows[b] \in Seq(Row)
        BY <2>2 DEF RowInv, TypeOK
      <4>2. i \in 1 .. Len(rows[b]) /\ Len(rows[b]) \in Nat
        BY <2>3, <4>1
      <4> QED
        BY <1>2, <2>1, <3>1, <4>2
    <3>2. CASE job[j].at = "write" /\ job'[j] = job[j]
      <4>1. Pair(n, b)
        BY <1>2, <2>1, <2>2, <2>3, <2>4, <3>2 DEF DoneOK, Committing
      <4> QED
        BY <4>1, PairKept
    <3>3. CASE job[j].at = "write" /\ Onwards(j)
      <4>1. job'[j] = Onward(j)
        BY <3>3 DEF Onwards
      <4> QED
        BY <1>2, <2>1, <2>2, <2>3, <2>4, <3>3, <4>1, PassedOn DEF Committing
    <3> QED
      BY <2>1, <3>1, <3>2, <3>3
  <2> QED
    BY <2>1, <2>2, <2>3, <2>4, <2>5 DEF Pair
<1>3. ASSUME NEW j \in Job, job'[j].kind = "commit", job'[j].at = "finish"
      PROVE  Complete(job[j].of)'
  <2>1. /\ job[j].at \in {"read", "write", "finish"} /\ job[j].kind = "commit"
        /\ job'[j].of = job[j].of
        /\ job[j].at = "read" => rows[job[j].of] = <<>>
        /\ job[j].at = "write" => Onwards(j)
    <3>1. CASE job'[j] = job[j]
      BY <1>3, <3>1
    <3>2. CASE /\ job[j].at \in AtWork /\ Onwards(j)
               /\ job'[j].of = job[j].of /\ job'[j].kind = job[j].kind
      BY <1>3, <3>2 DEF Onwards
    <3> QED
      BY <1>3, <3>1, <3>2 DEF Moves, JobMoves, Failing
  <2>2. PICK b \in Batch :
          /\ b = job[j].of /\ status[b] # "NONE" /\ ~Uploading(b)
          /\ \A k \in Job : job[k].at \in AtWork /\ job[k].of = b => k = j
    BY <2>1, Alone DEF DoneOK, AtWork
  <2>3. Complete(b)'
    <3>1. CASE job[j].at \in {"read", "finish"}
      <4>1. Complete(b)
        BY <2>1, <2>2, <3>1 DEF DoneOK, Complete
      <4> QED
        BY <1>t, <2>1, <2>2, <4>1, CompleteKept DEF AtWork
    <3>2. CASE job[j].at = "write"
      <4>1. Clean(b) /\ Committing(j)
        BY <2>1, <2>2, <3>2 DEF RowInv, CleanOK, Committing
      <4>2. Clean(b)'
        BY <1>t, <2>1, <2>2, <4>1, CleanKept DEF AtWork
      <4>3. file'[b] = file[b] /\ DOMAIN rows'[b] = DOMAIN rows[b]
        BY <1>t, <2>2, <4>1, FileKept, LinesKept DEF Clean
      <4>4. ASSUME NEW i \in DOMAIN rows[b], NEW n, n = file[b][i].nip PROVE Pair(n, b)'
        BY <1>3, <2>1, <2>2, <3>2, <4>1, <4>4, PassedOn DEF Onwards
      <4> QED
        BY <4>2, <4>3, <4>4 DEF Complete, Clean
    <3> QED
      BY <2>1, <3>1, <3>2
  <2> QED
    BY <2>1, <2>2, <2>3 DEF Complete
<1>4. ASSUME NEW b \in Batch, status'[b] = "COMMITTED" PROVE Complete(b)' /\ ~Uploading(b)'
  <2>1. CASE status[b] = "COMMITTED"
    <3>1. \A j \in Job : job[j].at \in AtWork => job[j].of # b
      BY <2>1 DEF RowInv, Exclusive, ClaimHeld
    <3> QED
      BY <1>t, <2>1, <3>1, CompleteKept, UploadingKept DEF DoneOK, AtWork
  <2>2. ASSUME NEW j \in Job, job[j].of = b, job[j].at = "finish", job[j].kind = "commit"
        PROVE  Complete(b)' /\ ~Uploading(b)'
    <3>1. Complete(b) /\ ~Uploading(b)
      BY <2>2 DEF DoneOK, AtWork
    <3>2. status[b] # "NONE" /\ \A k \in Job : job[k].at \in AtWork /\ job[k].of = b => k = j
      BY <2>2, Alone DEF AtWork
    <3> QED
      BY <1>t, <2>2, <3>1, <3>2, CompleteKept, UploadingKept DEF AtWork
  <2> QED
    BY <1>4, <2>1, <2>2 DEF Moves, StatusMoves
<1> QED
  BY <1>1, <1>2, <1>3, <1>4 DEF DoneOK

(* When a batch is COMMITTED, each of its rows has reached the table asn or *)
(* left the note of a conflict there, and is MAPPED: no chunk is skipped,   *)
(* and no resolution or cancellation that overlaps the job takes any of it  *)
(* back.  A job asked for before the upload has answered could miss rows.   *)
THEOREM CommittedComplete == ASSUME ~EarlyBird PROVE Spec => []CommittedIsComplete
<1>1. Init => RowInv /\ DoneOK
  BY RowInvInit, DoneInit
<1>2. RowInv /\ DoneOK /\ [Next]_vars => (RowInv /\ DoneOK)'
  BY RowInvStep, EveryMove, DoneStep
<1>3. DoneOK => CommittedIsComplete
  BY DEF DoneOK, Complete, Pair, CommittedIsComplete
<1> QED
  BY <1>1, <1>2, <1>3, PTL DEF Spec

=============================================================================

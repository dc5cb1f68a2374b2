SPECIFICATION FairSpec
CONSTANTS
  n1 = n1
  n2 = n2
  Nip = {n1, n2}
  File <- BadFiles
  Seeded = {}
  MaxBatches = 1
  ChunkSize = 1
  Uploader = {u1}
  Job = {j1, j2}
  Resolver = {r1}
  EarlyBird = FALSE
  MaxChanges = 1
  MaxFaults = 1
INVARIANTS TypeOK OneJobPerBatch CommittedIsComplete AllOrNothing
 
\* Once its batches are settled nobody has to do anything.
CHECK_DEADLOCK FALSE

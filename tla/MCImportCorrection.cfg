SPECIFICATION Spec
CONSTANTS
  n1 = n1
  n2 = n2
  Nip = {n1}
  File <- GoodFiles
  Seeded = {}
  MaxBatches = 2
  ChunkSize = 1
  Uploader = {u1}
  Job = {j1}
  Resolver = {}
  EarlyBird = FALSE
  MaxChanges = 1
  MaxFaults = 0
PROPERTIES CorrectionNeedsReview
\* Once its batches are settled nobody has to do anything.
CHECK_DEADLOCK FALSE

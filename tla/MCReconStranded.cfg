SPECIFICATION MCFairSpec
CONSTANTS
  n1 = n1
  n2 = n2
  None = None
  Nip = {n1, n2}
  Register <- Staff
  File <- Payrolls
  MaxBatches = 1
  MaxRuns = 2
  MaxStarting = 1
  ChunkSize = 1
  Uploader = {u1}
  Drafter = {}
  MaxFaults = 1
PROPERTY RunsEnd
CHECK_DEADLOCK FALSE

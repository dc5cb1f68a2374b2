SPECIFICATION MCSpec
CONSTANTS
  n1 = n1
  n2 = n2
  None = None
  Nip = {n1, n2}
  Register <- Staff
  File <- Payrolls
  MaxBatches = 1
  MaxRuns = 2
  MaxStarting = 2
  ChunkSize = 1
  Uploader = {u1}
  Drafter = {d1}
  MaxFaults = 1
INVARIANTS TypeOK DoneIsComplete SilenceIsAgreement ReportCounts
PROPERTY FinalizedStands
\* A finalised period whose runs are settled has nothing left to do.
CHECK_DEADLOCK FALSE

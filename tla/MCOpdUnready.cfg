SPECIFICATION Spec
CONSTANTS
  Submission = {s1}
  Service = {"CUTI"}
  DocType = {"KTP"}
  Needs <- NeedsAll
  Target = 2
  Hour = 1
  Request = {r1}
  MaxInFlight = 2
  MaxDocs = 1
  MaxClock = 0
  MaxDay = 1
  MaxFaults = 0
PROPERTY CompletedWhenReady
\* A closed submission, at the end of the clock, asks for nothing.
CHECK_DEADLOCK FALSE

SPECIFICATION Spec
CONSTANTS
  Submission = {s1}
  Service = {"CUTI"}
  DocType = {"KTP"}
  Needs <- NeedsNone
  Target = 2
  Hour = 1
  Request = {r1}
  MaxInFlight = 1
  MaxDocs = 0
  MaxClock = 1
  MaxDay = 1
  MaxFaults = 0
INVARIANT RejectedHours
\* A closed submission, at the end of the clock, asks for nothing.
CHECK_DEADLOCK FALSE

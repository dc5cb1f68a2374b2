SPECIFICATION WatchedSpec
CONSTANTS
  Submission = {s1, s2}
  Service = {"PEREMAJAAN_NIK", "CUTI"}
  DocType = {"KTP"}
  Needs <- OneNeedsKtp
  Target = 1
  Hour = 2
  Request = {r1, r2}
  MaxInFlight = 2
  MaxDocs = 1
  MaxClock = 3
  MaxDay = 2
  MaxFaults = 1
  WorkDays = {0, 1, 3, 4, 5, 6}
  Holidays = {3}
  LastHoliday = 3
  DayLength = 8
  WorkStart = 1
  BreakStart = 3
  BreakEnd = 4
  WorkEnd = 7
  Minutes = 2
  SentIn <- FirstDays
  Watched <- Week
SYMMETRY Interchangeable
CONSTRAINT Scope
INVARIANTS TypeOK CompletedHours SlaFollowsStatus PauseIsFree NextNumberIsFree
  OneCasePerSubmission DeadlineIsWorkingTime PauseKeepsTheRest
PROPERTY KeepsPromise
\* A closed submission, at the end of the clock, asks for nothing.
CHECK_DEADLOCK FALSE

SPECIFICATION WatchedFairSpec
CONSTANTS
  NoCase = NoCase
  Case = {c1}
  LastStage = 2
  Timed = {1, 2}
  MaxTasks = 2
  MaxMoves = 3
  Request = {r1, r2}
  Sweep = {w1}
  SweepLimit = 2
  MaxInFlight = 3
  MaxFaults = 1
INVARIANTS TypeOK TrailIsPath DeadlineTellsTruth NeverAdrift TrailAgrees
PROPERTIES OneJobCrossesNone ImplementsFlow DeadlinesAreNoticed ReturnedInTimeComesBack
\* When every case is completed nobody asks for anything any more.
CHECK_DEADLOCK FALSE

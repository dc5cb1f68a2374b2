SPECIFICATION DiligentSpec
CONSTANTS
  NoCase = NoCase
  Case = {c1}
  LastStage = 2
  Timed = {1, 2}
  MaxTasks = 2
  MaxMoves = 3
  Request = {r1}
  Sweep = {w1}
  SweepLimit = 2
  MaxInFlight = 2
  MaxFaults = 0
PROPERTIES ReturnedComesBack
\* When every case is completed nobody asks for anything any more.
CHECK_DEADLOCK FALSE

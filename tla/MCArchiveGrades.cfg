SPECIFICATION Spec
CONSTANTS
  n1 = n1
  n2 = n2
  None = None
  Nip = {n1}
  Record <- Grades
  Sheet <- GradeSheets
  MaxMonth = 2
  Maker = {r1}
  MaxEdits = 2
INVARIANTS PromotionIsTold
\* When every month is FINAL there is nothing left to make.
CHECK_DEADLOCK FALSE

SPECIFICATION Spec
CONSTANTS
  n1 = n1
  n2 = n2
  None = None
  Nip = {n1, n2}
  Record <- Few
  Sheet <- Sheets
  MaxMonth = 2
  Maker = {r1, r2}
  MaxEdits = 2
SYMMETRY Interchangeable
INVARIANTS TypeOK ArchivesAddUp RetirementIsTold
PROPERTIES FinalStays
\* When every month is FINAL there is nothing left to make.
CHECK_DEADLOCK FALSE

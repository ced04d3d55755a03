\* Two callers, both restart methods, three writes, four starts.
SPECIFICATION Spec
CONSTANTS
  r1 = r1  r2 = r2  r3 = r3
  Unknown = Unknown
  Callers = {r1, r2}
  External = TRUE
  MaxWrites = 3
  MaxStarts = 4
SYMMETRY Symmetry
INVARIANTS FreshAfterRestart StaleIsOwed

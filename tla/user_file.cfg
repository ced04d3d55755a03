\* Two callers, two users, four files an operator may leave.
SPECIFICATION FairSpec
CONSTANTS
  n1 = n1  n2 = n2  v1 = v1  v2 = v2  c1 = c1  c2 = c2
  None = None
  Bad = Bad
  Names = {n1, n2}
  Values = {v1, v2}
  Callers = {c1, c2}
  InitialLines <- TwoUsers
  Edits <- HandEdits
INVARIANT TypeOK
PROPERTIES KeepsUsersFile WriteIsFound EveryCallReturns

\* Two changes of one user, a target, and a hook that may match.
SPECIFICATION FairSpec
CONSTANTS
  c1 = c1  c2 = c2  t1 = t1  t2 = t2  h1 = h1
  None = None
  Changes = {c1, c2}
  Targets = {t1}
  Hooks = {h1}
  Roles <- TheRoles
  User <- TheUser
  Filters <- TheFilters
  Timeouts <- TheTimeouts
INVARIANTS TypeOK AcknowledgedIsLast UnreportedIsApplied
PROPERTY EveryCallEnds
CHECK_DEADLOCK FALSE

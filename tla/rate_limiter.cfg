\* One address with two tokens, two requests, a bucket that is forgotten after four
\* ticks and made again, twice.
SPECIFICATION Spec
CONSTANTS
  q1 = q1  q2 = q2  q3 = q3  ip1 = ip1  ip2 = ip2
  None = None
  Requests = {q1, q2}
  IPs = {ip1}
  Burst = 2
  Interval = 1
  MaxHold = 1
  Stale = 3
  SweepEvery = 2
  MaxTime = 7
  MaxBuckets = 3
SYMMETRY Symmetry
CHECK_DEADLOCK FALSE
INVARIANTS RateBound
PROPERTIES RefusedForCause

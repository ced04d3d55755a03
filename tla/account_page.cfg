\* A page with two requests under way, a cookie that may be missing, one fault.
SPECIFICATION PageSpec
CONSTANTS
  s1 = s1  s2 = s2  s3 = s3  k1 = k1  k2 = k2  k3 = k3
  Nil = Nil
  Slots = {s1, s2}
  Tokens = {k1, k2, k3}
  MaxFaults = 1
INVARIANTS PageTypeOK FormRefusedForCause
PROPERTIES RefusalsEnd RestartingEnds

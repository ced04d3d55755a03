\* Two requests for a code to the same phone at once.
SPECIFICATION Spec
CONSTANTS
  a1 = a1  a2 = a2  a3 = a3  c1 = c1  c2 = c2  u1 = u1  u2 = u2  p1 = p1
  None = None
  Users = {u1}
  Phones = {p1}
  Asks = {a1, a2}
  Clients = {c1}
  CodeTTL = 2
  Cooldown = 1
  MaxAttempts = 2
  Movable = {}
  MaxTime = 4
SYMMETRY Symmetry
INVARIANT OneSmsPerPhone

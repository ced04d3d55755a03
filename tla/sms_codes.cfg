\* Three requests and one client; two of each; two of each and two users between whom the number moves.
SPECIFICATION ShapedSpec
CONSTANTS
  a1 = a1  a2 = a2  a3 = a3  c1 = c1  c2 = c2  u1 = u1  u2 = u2  p1 = p1
  None = None
  Users = {u1, u2}
  Phones = {p1}
  Asks = {a1, a2, a3}
  Clients = {c1, c2}
  CodeTTL = 2
  Cooldown = 1
  MaxAttempts = 2
  Movable = {u1, u2}
  MaxTime = 4
SYMMETRY Symmetry
INVARIANTS TypeOK CodesApart GuessBudget RedeemedOnce

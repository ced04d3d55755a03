\* Password changes, SMS resets and TOTP operations of a user whose line the operator edits.
SPECIFICATION Spec
CONSTANTS
  u1 = u1  r1 = r1  r2 = r2  r3 = r3
  weak = weak  good = good  s1 = s1  a1 = a1
  None = None
  Users = {u1}
  Requests = {r1, r2}
  Passwords = {weak, good}
  Strong = {good}
  Hashable = {weak, good}
  Secrets = {s1}
  Addresses = {}
  InitialFile <- Alone
  Editable = {u1}
  Ops = {"change", "enable", "disable", "sms"}
  UsernameIsEmail = TRUE
  ResetTTL = 1
  MaxTime = 0
SYMMETRY Symmetry
INVARIANTS TypeOK LoadedOrOwed
PROPERTIES KeepsCredentials OldPasswordIsCurrent

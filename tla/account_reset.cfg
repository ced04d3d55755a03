\* Reset mails and confirmations, expiring tokens, an address that changes; tinyauth may never start again.
SPECIFICATION ServedSpec
CONSTANTS
  u1 = u1  r1 = r1  r2 = r2  r3 = r3
  weak = weak  good = good  s1 = s1  a1 = a1
  None = None
  Users = {u1}
  Requests = {r1, r2, r3}
  Passwords = {weak, good}
  Strong = {good}
  Hashable = {weak, good}
  Secrets = {s1}
  Addresses = {a1}
  InitialFile <- Alone
  Editable = {}
  Ops = {"forgot", "reset", "email"}
  UsernameIsEmail = FALSE
  ResetTTL = 0
  MaxTime = 1
INVARIANT LoadedOrOwed
PROPERTIES SpentTokenIsDead EveryRequestAnswered EventuallyLoaded

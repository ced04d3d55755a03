\* Two administrators reload a file that is edited meanwhile, while mail is sent.
SPECIFICATION Spec
CONSTANTS
  a = a  b = b  r1 = r1  r2 = r2  m1 = m1
  None = None
  Bad = Bad
  Order <- TheOrder
  Strings <- TheStrings
  Values = {a, b}
  Default <- TheDefault
  Envs <- TheEnvs
  FileConfigs <- TheFiles
  Reloads = {r1, r2}
  Mails = {m1}
INVARIANTS TypeOK RunningIsRestarted MailHasAServer

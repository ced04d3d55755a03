\* Two requests for one user's phone number and address, failing saves, crashes, edits by hand.
SPECIFICATION FairSpec
CONSTANTS
  n1 = n1  n2 = n2  r1 = r1  r2 = r2  v1 = v1  v2 = v2
  None = None
  Bad = Bad
  Names = {n1}
  Requests = {r1, r2}
  Values = {v1}
  InitialFiles <- TheFiles
  Edits <- TheEdits
INVARIANTS TypeOK ToldIsKept
PROPERTIES KeepsMetadata EveryRequestAnswered

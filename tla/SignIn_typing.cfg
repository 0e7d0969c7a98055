CONSTANTS
  MaxDepth = 1
  r1 = r1
  r2 = r2
  r3 = r3
  None = None
  Name = {"anna"}
  EmptyText = ""
  Text <- TypingText
  Count <- TypingCount
  Account <- TypingAccount
  Request = {r1, r2}
SPECIFICATION Spec
INVARIANTS
  TypeOK
  LatestTracksScreen

CONSTANTS
  MaxDepth = 1
  r1 = r1
  r2 = r2
  r3 = r3
  None = None
  Name = {"anna"}
  EmptyText = ""
  Text <- AnswersText
  Count <- AnswersCount
  Account <- AnswersAccount
  Request = {r1}
SPECIFICATION Spec
INVARIANTS
  AlertInvitesLiveRetry

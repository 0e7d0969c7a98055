CONSTANTS
  MaxDepth = 5
  r1 = r1
  r2 = r2
  r3 = r3
  None = None
  Name = {"anna"}
  EmptyText = ""
  Text <- AnswersText
  Count <- AnswersCount
  Account <- AnswersAccount
  Request = {r1, r2, r3}
SPECIFICATION Spec
SYMMETRY RequestSymmetry
INVARIANTS
  IInv
  AlertMeansQuiet
  OfficeRequiresUser
  IgnoredOnlyAfterFailure
PROPERTIES
  SilentOnceExhausted

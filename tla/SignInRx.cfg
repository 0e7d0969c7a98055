CONSTANTS
  MaxDepth = 2
  r1 = r1
  r2 = r2
  None = None
  Name = {"anna"}
  EmptyText = ""
  Text = {"", "three", "four"}
  Count <- MCCount
  Account <- MCAccount
  Request = {r1, r2}
SPECIFICATION Spec
SYMMETRY RequestSymmetry
INVARIANTS
  TypeOK
  IInv
  OneSubscription
  PairIsCurrent
PROPERTIES
  ImplementsSignIn

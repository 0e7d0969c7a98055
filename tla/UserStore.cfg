CONSTANTS
  Fetch = {f1, f2}
  Row = {w1, w2, w3, w4, w5}
  Container = {c1, c2}
  UserCount = 2
  None = None
SPECIFICATION Spec
SYMMETRY StoreSymmetry
INVARIANTS
  TypeOK
  IInv
  ReadsFailOnlyBesideABuilder
  WholeListsOnDisk
  
PROPERTIES
  HalfBuiltIsSavedByAnother
  PoisonIsForever
  LostRaceLosesRows

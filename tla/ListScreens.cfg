CONSTANTS
  View = {v1, v2, v3, v4}
SPECIFICATION FairSpec
INVARIANTS
  TypeOK
  IInv
  PathIsLoaded
PROPERTIES
  LeftOfficeIsReleased
  EveryTableConcludes

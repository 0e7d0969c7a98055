CONSTANTS
  ListEntity = {e1, e2}
  Item = {a}
  Blank = Blank
  None = None
  MaxLength = 2
  MaxRows = 2
SPECIFICATION Spec
SYMMETRY EntitySymmetry
INVARIANTS
  TypeOK
  ReportedIsStored
  NothingIsStoredTwice
PROPERTIES
  BlankUserEndsReading

CONSTANTS
  Cell = {c1, c2}
  MaxRows = 4
  None = None
SPECIFICATION Spec
SYMMETRY CellSymmetry
INVARIANTS
  TypeOK
  CellsShowTheirRows
  OpensOnlyAvailable

CONSTANTS
  Day = {d1, d2}
  Time = {t1, t2}
  Typed = Typed
  None = None
SPECIFICATION Spec
SYMMETRY MomentSymmetry
INVARIANTS
  TypeOK
  VisiblePickerFitsLastTouch
PROPERTIES
  OnlyTheEditedFieldChanges
  DoneStoresWhatWasSeen

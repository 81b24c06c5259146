SPECIFICATION Spec
CONSTANTS
  Contents <- MCContents
  ItemContents <- MCItems
  Options <- MCOptions
  MaxWrites = 2
INVARIANTS FieldsFit UpToDate LabelIsOne
PROPERTY LabelArrives
CHECK_DEADLOCK FALSE

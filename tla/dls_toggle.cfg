SPECIFICATION Spec
CONSTANTS
  Contents <- MCContents
  ItemContents <- MCItems
  Options <- MCOptions
  MaxWrites = 2
INVARIANT ChangedTextIndicated
CHECK_DEADLOCK FALSE

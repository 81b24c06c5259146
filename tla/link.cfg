SPECIFICATION LinkSpec
CONSTANTS
  PadLens <- MCPadLens
  Apps <- MCApps
  Payloads <- MCPayloads
  DGSizes <- MCDGSizes
  MaxQueue = 0
  Junk = {0}
  Labels <- MCLabels
  Slides <- MCSlides
  MaxLabels = 2
  MaxSlides = 2
  MaxLost = 1
  XPadIntervals = {1, 2}
INVARIANTS InSync LengthKnown
PROPERTIES ImplementsAppChannel EverythingArrives

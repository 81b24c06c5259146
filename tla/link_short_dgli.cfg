SPECIFICATION LinkSpec
CONSTANTS
  PadLens <- MCShort
  Apps <- MCApps
  Payloads <- MCPayloads
  DGSizes <- MCDGSizes
  MaxQueue = 0
  Junk = {0}
  Labels <- MCLabels
  Slides <- MCSlides
  MaxLabels = 2
  MaxSlides = 2
  MaxLost = 0
  XPadIntervals = {1, 2}
INVARIANT DGLIContinuationNeverUsed

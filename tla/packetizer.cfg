SPECIFICATION Spec
CONSTANTS
  PadLens <- MCPadLens
  Apps <- MCApps
  Payloads = {p}
  DGSizes = {5, 120}
  MaxQueue = 2
  Junk = {255}
INVARIANTS TypeOK PADFits BuffersFit NoSizeUnderflow IInv

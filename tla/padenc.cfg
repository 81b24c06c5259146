SPECIFICATION EncoderSpec
CONSTANTS
    Options <- MCOptions
    PadLens = {6, 7, 58}
    Capacity <- MCCapacity
    LabelUnits = {0, 2}
    SlideUnits = {2}
    TIMEOUT = 2
    MaxLag = 5
    MaxUnusual = 2
INVARIANTS PadEncoderTypeOK CompletedIsSent RequestsAnswered LabelHasFile
PROPERTIES CompletedIsMoved FileKeepsInterval RereadIsAired EveryFileAired SlideSent
CHECK_DEADLOCK FALSE

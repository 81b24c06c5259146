SPECIFICATION Spec
CONSTANTS
  MAXSEGLEN = 4
  Files <- MCFiles
  max_slide_size = 10
  MaxEncoded = 2
  MaxLost = 2
  TextBytes <- MCTextBytes
  MaxLine = 4
INVARIANTS SlideAcceptable ObjectComplete HeaderParses LengthsIndicated LossesCounted CompleteWithoutLoss LongestTextConverted CharactersInPlace CRCIsRemainder
PROPERTY CutLineIsPrefix
CHECK_DEADLOCK FALSE

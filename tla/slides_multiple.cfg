SPECIFICATION Spec
CONSTANTS
  MAXSEGLEN = 1013
  Files <- MCTwoSegments
  max_slide_size = 51200
  MaxEncoded = 1
  MaxLost = 0
  TextBytes = {}
  MaxLine = 0
INVARIANT BodyComplete
CHECK_DEADLOCK FALSE

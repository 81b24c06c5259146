SPECIFICATION CarouselSpec
CONSTANTS
  Fingerprints <- MCFingerprints
  MAXHISTORYLEN = 2
  MAXSLIDEID = 2
  Names <- MCTwoNames
  MaxWrites = 3
  MaxRemoves = 0
  MaxRereads = 1
  MayFail = TRUE
  Erase = {TRUE, FALSE}
INVARIANT ErasedSentOnce
PROPERTIES EncodeSlideReturns SentForever
CHECK_DEADLOCK FALSE

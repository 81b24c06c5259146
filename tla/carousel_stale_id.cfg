SPECIFICATION CarouselSpec
CONSTANTS
  Fingerprints <- MCFingerprints
  MAXHISTORYLEN = 10
  MAXSLIDEID = 20
  Names <- MCTwoNames
  MaxWrites = 3
  MaxRemoves = 0
  MaxRereads = 0
  MayFail = FALSE
  Erase = {FALSE}
INVARIANT RetransmittedWithSameId

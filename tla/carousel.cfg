SPECIFICATION CarouselSpec
CONSTANTS
  Fingerprints <- MCFingerprints
  MAXHISTORYLEN = 2
  MAXSLIDEID = 3
  Names <- MCNames
  MaxWrites = 3
  MaxRemoves = 1
  MaxRereads = 1
  MayFail = FALSE
  Erase = {FALSE}
INVARIANTS CarouselTypeOK HistoryInv UniqueIds RoundHasDistinctIds
PROPERTY StableIds

SPECIFICATION FairSpec
CONSTANTS
  c1 = c1
  c2 = c2
  p1 = p1
  WordSize = 1
  k_max_msg = 8
  Spellings <- MCSpellings
  ErrTexts <- MCErrTexts
  Keys <- MCKeys
  Values <- MCValues
  Clients = {}
  Peers = {p1}
  Argvs <- NoFrames
  Frames <- MCFrames
INVARIANT ParseExact
PROPERTIES DroppedOnlyIfMalformed CallsReturn

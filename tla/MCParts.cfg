SPECIFICATION Spec
CHECK_DEADLOCK FALSE
CONSTANTS
  BlockSize = 8
  LengthBytes = 2
  KeyFrames = 100
  Bands = 33
  PointerBytes = 8
  Garbage <- MCGarbage
  Audio = 100
  UIntMod = 1024
  Past = 100
  Future = 600
  Unknown <- MCUnknown
  Rank <- MCRank
  MaxMessage = 18
  MaxPiece = 17
  MaxSize = 3
  MaxNames = 3
  TagFrames <- MCFrames
  MaxTagFrames = 2
  Paddings = {0, 12}
  Cuts = {0, 8, 40, 1000}
  Values = {0, 1, 3}
INVARIANTS
  DigestIsOfTheMessage
  AverageIsOfTheLast
  FilterBankFits
  MbidIsRight
  TracksKeepTheirWorth
  StationsComeBack

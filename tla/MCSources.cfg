SPECIFICATION FairSpec
CONSTANTS
  PCMBufSize = 4
  InBufSize = 5
  Frames <- MCFrames
  MaxFrames = 4
  MaxBroken = 1
  Id3Sizes = {2, 5, 6}
  Skips = {0, 3}
  Rate = 3
  Second = 2
  PreBuffer = 5
INVARIANTS
  InputIsWhole
  StreamIsWhole
PROPERTIES
  SkipIsTight
  GenerateEnds

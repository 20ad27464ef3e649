SPECIFICATION FairSpec
CHECK_DEADLOCK FALSE
CONSTANTS
  MaxGood = 2
  HopDiv = 2
  ProcessSize = 6
  FrameSize = 4
  Overlap = 2
  KeyWidth = 1
  HalfWindow = 2
  ToSkip = 3
  ToProcess = 6
  SubWindow = 4
  MinUnique = 2
  Lengths = {11, 20, 23, 30}
  Pieces = {2, 7, 12}
  Values = {1, 2}
  MaxKeys = 6
INVARIANTS
  KeysOfOnePass
  GroupsAreSound
PROPERTIES
  ProcessAnswers

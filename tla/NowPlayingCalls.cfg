\* Three tracks, every answer, up to two replaced managers.
CONSTANTS
    Tracks = {a, b, c}
    NoTrack = none
    MaxReplaced = 2
SPECIFICATION FairSpec
INVARIANT
    CorrectionsFit
PROPERTY
    ReplyReleased

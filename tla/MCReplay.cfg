SPECIFICATION FairSpec
CONSTANTS
    N = 2
    Live = {"Up", "Down"}
    Capacity = 2
    MaxFrame = 3
    MaxOps = 5
    MaxQueue = 2
CHECK_DEADLOCK FALSE
INVARIANTS TypeOK PlaybackFollowsReplay RecordingFaithful RewindIsThePast
PROPERTIES SeekEnds PlaybackEnds

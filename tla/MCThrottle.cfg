SPECIFICATION ThrottleFairSpec
CONSTANTS
    SweepLen = 3
    SweepRpm = 3
    SpeedMod = 3
    RpmStep = 1
    RpmMod = 4
    ByteMax = 3
    WordMax = 9
    MaxFrames = 3
INVARIANT ValuesFit
PROPERTY ResetAnswered
PROPERTY BroadcastsAgain

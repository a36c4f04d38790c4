\* Frames of two samples, fed by one or three.
\* The worker may make no more calls, with nothing active: the device then rests.
CHECK_DEADLOCK FALSE
SPECIFICATION FairSpec
CONSTANTS
    Frame = 2
    Sizes = {1, 3}
    MaxSamples = 4
    MaxCalls = 8
INVARIANTS
    DeviceInv
    StoppedIsSilent
    CallbackInUse
    OneLateFeed
PROPERTIES
    StopReturns
    KeepsPlaying

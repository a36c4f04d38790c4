SPECIFICATION CodecSpec
CONSTANTS
    WrongType = wrong
    NoCodec = none
    NoDecoder = none
    NoMSDK = none
    MaxNalus = 2
    MaxFrames = 4
    MaxDelay = 2
    MaxPackets = 4
    MaxKept = 2
    SurfaceSize = {1, 720, 1080}
    Shape <- MCShape
INVARIANTS
    EncoderInv
    FragmentsAreUnits
    DecoderInv
    MSDKSafe
CHECK_DEADLOCK FALSE

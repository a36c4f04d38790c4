\* Two tracks, with a buffer for each of them, for _lastVideoFrame and for NDI.
SPECIFICATION Spec
CONSTANTS
    Track = {first, second}
    Buffer = {b1, b2, b3, b4}
    NoBuffer = null
    CheckEvery = 3
    Size <- MCSize
    Out <- MCOut
SYMMETRY MCSymmetry
INVARIANTS
    WriterInv
    FrameFits
    ClientIsNoticed

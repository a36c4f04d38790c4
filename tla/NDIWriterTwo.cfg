\* Two tracks that send their frames at the same time.
SPECIFICATION Spec
CONSTANTS
    Track = {first, second}
    Buffer = {b1, b2, b3}
    NoBuffer = null
    CheckEvery = 1
    Size <- MCSize
    Out <- MCOut
INVARIANTS
    CurrentIsKept

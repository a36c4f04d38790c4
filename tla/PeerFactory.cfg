SPECIFICATION Spec
CONSTANTS
    Platform = "linux"
    WrongType = wrong
    Absent = absent
    NoPeer = none
    MaxAttempts = 2
    Configuration <- MCConfiguration
INVARIANTS
    PeerInv
    PortsInRange
    RetryWorks

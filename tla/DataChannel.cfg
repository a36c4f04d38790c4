\* The channel of createDataChannel, and one that the peer opens at any moment.
SPECIFICATION Spec
CONSTANTS
    Local = local
    Remote = {remote}
    NoChannel = null
    MaxCommands = 4
INVARIANTS
    DataChannelInv
    ToldIsCurrent
    AnswersInOrder

\* One command per way of answering: by the runner after one call or two, or by an
\* observer; the theorems are about all commands.
SPECIFICATION FairSpec
CONSTANTS
    Command = {"createPeer", "createOffer", "addIceCandidate", "sendDataMessage"}
    MaxLines = 3
    MaxEvents = 1
INVARIANTS
    LoopsInv
    OneReply
    PeerWasCreated
PROPERTIES
    ChannelSpec
    StopEnds
    CallReturns
    PostedIsAnswered
    SentIsPrinted

\* The shortest race for dc: one command, one channel opened by the peer.
SPECIFICATION Spec
CONSTANTS
    Local = local
    Remote = {remote}
    NoChannel = null
    MaxCommands = 1
INVARIANTS
    OnlyOneChannel

\* Two streams that share the reader, and gathering that completes twice.
SPECIFICATION FairSpec
CONSTANTS
    Stream = {camera, screen}
    MaxReaders = 2
    MaxCommands = 3
    MaxCompletions = 2
INVARIANTS
    ReaderInv
    OneCapture
    CapturesWhenComplete
PROPERTIES
    CommandReturns
    EndReturns

\* The main thread and two others, three lines of two contents.
SPECIFICATION FairSpec
CONSTANTS
    Thread = {main, runner, other}
    Main = main
    Line = {a, b}
    NoThread = nobody
    MaxLines = 3
INVARIANTS
    SignalingInv
PROPERTIES
    ChannelSpec
    EveryLinePrinted

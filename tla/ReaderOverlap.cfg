\* One completion of gathering, and one command it may be delivered in.
SPECIFICATION Spec
CONSTANTS
    Stream = {camera}
    MaxReaders = 1
    MaxCommands = 1
    MaxCompletions = 1
INVARIANTS
    StartsIdle

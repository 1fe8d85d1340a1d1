SPECIFICATION Spec
CONSTANTS
    TaskCapacity = 2
    InputCapacity = 1
    MaxPid = 3
    ReceiveLimit = 1
    MaxAttempts = 1
    Garbage = {0}
    Consoles = {"serial", "remote"}
    Commands = {"edit", "exec", "top", "exit"}
INVARIANT
    ForegroundKnown

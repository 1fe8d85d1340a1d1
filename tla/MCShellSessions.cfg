SPECIFICATION FairSpec
CONSTANTS
    TaskCapacity = 2
    InputCapacity = 1
    MaxPid = 3
    ReceiveLimit = 1
    MaxAttempts = 1
    Garbage = {1}
    Consoles = {"serial", "remote"}
    Commands = {"edit", "exec", "run", "tcplisten", "key", "service", "exit"}
INVARIANTS
    LiveIsForeground
    InputQueuesSound
    EndedOwnsNothing
PROPERTIES
    DisconnectEndsPrograms

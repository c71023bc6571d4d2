SPECIFICATION FairSpec
CONSTANTS
    Workers = {w1}
    Instances = {i1, i2}
    Requests = {q1}
    Jobs = {j1}
    Workspaces = {s1}
    Runtimes = {r1}
    Assigns = {a1}
    InteractiveReady = {w1}
    MaxSlots = 1
    Vram <- VramTwo
    FreeVram <- FreeOneThree
    LeaseTicks = 2
    FreshTicks = 1
    StartupTicks = 1
    LifetimeTicks = 2
    None = None
PROPERTIES DeadAttemptEnds StoppedRuntimeEnds

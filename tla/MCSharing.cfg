SPECIFICATION Spec
CONSTANTS
    Workers = {w1}
    Instances = {i1}
    Requests = {q1, q2}
    Jobs = {j1}
    Workspaces = {s1}
    Runtimes = {r1}
    Assigns = {a1, a2}
    InteractiveReady = {w1}
    MaxSlots = 2
    Vram <- VramTwo
    FreeVram <- FreeThree
    LeaseTicks = 2
    FreshTicks = 1
    StartupTicks = 1
    LifetimeTicks = 0
    None = None
SYMMETRY Sym
INVARIANT ExclusiveHold

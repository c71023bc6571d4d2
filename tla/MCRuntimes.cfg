SPECIFICATION Spec
CONSTANTS
    Workers = {w1}
    Instances = {i1}
    Requests = {q1, q2}
    Jobs = {}
    Workspaces = {s1}
    Runtimes = {r1, r2}
    Assigns = {a1, a2}
    InteractiveReady = {w1}
    MaxSlots = 1
    Vram <- VramTwo
    FreeVram <- FreeThree
    LeaseTicks = 1
    FreshTicks = 1
    StartupTicks = 1
    LifetimeTicks = 0
    None = None
SYMMETRY Sym
INVARIANTS RuntimeAgrees ReadyIsHeld
PROPERTY HostReleasedClean

SPECIFICATION Spec
CONSTANTS
    Workers = {w1, w2}
    Instances = {i1}
    Requests = {q1, q2}
    Jobs = {j1}
    Workspaces = {}
    Runtimes = {}
    Assigns = {a1, a2}
    InteractiveReady = {}
    MaxSlots = 1
    Vram <- VramTwo
    FreeVram <- FreeThree
    LeaseTicks = 2
    FreshTicks = 1
    StartupTicks = 1
    LifetimeTicks = 0
    None = None
SYMMETRY Sym
INVARIANTS OneAttemptPerTarget 
PROPERTIES  NoResurrection

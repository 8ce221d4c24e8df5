\* Two workers race zipper hooks and the log-structured hook with the
\* periodic thread's level-1 rotation; every L0 merge fills an L1 table.
CONSTANTS
    k1 = k1
    k2 = k2
    wk1 = wk1
    wk2 = wk2
    c1 = c1
    None = None
    Keys = {k1}
    Workers = {wk1, wk2}
    Compactors = {c1}
    L0Max = 2
    L1Cap = 1
    L1Max = 5
    MaxManual = 2
SPECIFICATION Spec
INVARIANTS NoLostVersion
PROPERTIES PipelineDrains

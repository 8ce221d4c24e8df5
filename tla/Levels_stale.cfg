\* Two MemTables flushed in either order, one worker, level 1 taking one
\* L0 merge per table: the zipper hooks rotate level 1 between the merges.
CONSTANTS
    k1 = k1
    k2 = k2
    wk1 = wk1
    wk2 = wk2
    c1 = c1
    None = None
    Keys = {k1}
    Workers = {wk1}
    Compactors = {}
    L0Max = 2
    L1Cap = 1
    L1Max = 3
    MaxManual = 0
SPECIFICATION Spec
INVARIANT LevelReadNewest

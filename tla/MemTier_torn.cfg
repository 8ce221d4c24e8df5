\* One writer and the periodic compaction thread, MemTables of two
\* entries: the writer's unlocked copy of mem_[s].table races the manual
\* rotation, the flush and the trim.
CONSTANTS
    w1 = w1  w2 = w2  r1 = r1  c1 = c1  k1 = k1  k2 = k2  wk1 = wk1  wk2 = wk2
    Writers = {w1}
    Readers = {}
    Compactors = {c1}
    Keys = {k1}
    Workers = {wk1}
    MaxTables = 3
    Cap = 2
    DramTables = 5
    MaxPuts = 2
    MaxGets = 0
    MaxManual = 1
    None = None
SPECIFICATION Spec
INVARIANTS NoLostWrite
CHECK_DEADLOCK FALSE

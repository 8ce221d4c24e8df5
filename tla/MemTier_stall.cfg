\* One writer against a DRAM ceiling of two tables: the flush callback's
\* notify_all, sent without ws_mu_, races the stalled writer's predicate.
CONSTANTS
    w1 = w1  w2 = w2  r1 = r1  c1 = c1  k1 = k1  k2 = k2  wk1 = wk1  wk2 = wk2
    Writers = {w1}
    Readers = {}
    Compactors = {}
    Keys = {k1}
    Workers = {wk1}
    MaxTables = 4
    Cap = 1
    DramTables = 2
    MaxPuts = 3
    MaxGets = 0
    MaxManual = 0
    None = None
SPECIFICATION Spec
PROPERTIES StallEnds
CHECK_DEADLOCK FALSE

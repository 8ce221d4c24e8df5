\* Two writers racing on rotation, the write stall and the flush/merge
\* pipeline on one worker; no readers (see MemTier_read.cfg).
CONSTANTS
    w1 = w1  w2 = w2  r1 = r1  c1 = c1  k1 = k1  k2 = k2  wk1 = wk1  wk2 = wk2
    Writers = {w1, w2}
    Readers = {}
    Compactors = {}
    Keys = {k1}
    Workers = {wk1, wk2}
    MaxTables = 5
    Cap = 1
    DramTables = 3
    MaxPuts = 2
    MaxGets = 0
    MaxManual = 0
    None = None
SPECIFICATION Spec
INVARIANTS TypeOK NoLostWrite DramBound
CHECK_DEADLOCK FALSE

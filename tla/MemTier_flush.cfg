\* Two writers and one worker: a writer holding a rotated table while it
\* waits for mem_[s].mu keeps the flush job's use_count spin going.
CONSTANTS
    w1 = w1  w2 = w2  r1 = r1  c1 = c1  k1 = k1  k2 = k2  wk1 = wk1  wk2 = wk2
    Writers = {w1, w2}
    Readers = {}
    Compactors = {}
    Keys = {k1}
    Workers = {wk1}
    MaxTables = 5
    Cap = 1
    DramTables = 2
    MaxPuts = 2
    MaxGets = 0
    MaxManual = 0
    None = None
SPECIFICATION Spec
PROPERTIES FlushCompletes
CHECK_DEADLOCK FALSE

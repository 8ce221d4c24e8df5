\* A reader walking the chains while a writer and the periodic compaction
\* thread rotate tables and the pipeline flushes, merges and trims them.
\* DRAM is large enough that no writer stalls.
CONSTANTS
    w1 = w1  w2 = w2  r1 = r1  c1 = c1  k1 = k1  k2 = k2  wk1 = wk1  wk2 = wk2
    Writers = {w1}
    Readers = {r1}
    Compactors = {c1}
    Keys = {k1}
    Workers = {wk1}
    MaxTables = 4
    Cap = 1
    DramTables = 5
    MaxPuts = 3
    MaxGets = 2
    MaxManual = 2
    None = None
SPECIFICATION Spec
INVARIANTS ReadLatest


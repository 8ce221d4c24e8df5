\* Puts that rotate up to two MemTables on job_mgr_, then stabilize (which
\* may rotate a third), one worker per manager.  MaxL1 = 1 + MaxSeq + 3
\* covers every L1 rotation: one per zipper hook, one per manual loop pass.
CONSTANTS
    MaxSeq = 3
    MaxL1 = 7
    L1Cap = 1
    NoJob = NoJob
    MWorkers <- MCMWorkers
    AWorkers <- MCAWorkers
    BWorkers <- MCBWorkers
SPECIFICATION Spec
INVARIANT TypeOK
INVARIANT StabilizeQuiesces
PROPERTY StabilizeReturns

\* Three shards (kNumShards = 3), keys 1..6 (two per shard), every content
\* of the last level and every begin key, scans of up to 4 entries.
CONSTANTS
    NShards = 3
    KeySpace <- MCKeys
    MaxLen = 4
SPECIFICATION Spec
INVARIANT ScanComplete

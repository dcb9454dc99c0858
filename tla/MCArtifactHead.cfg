SPECIFICATION Spec
CONSTANTS
    long = long
    small = small
    None = None
    Artifacts = {long, small}
    Subject = long
    Data = 2
    Parity = 1
    Shards <- ShardCounts
    ScanWindow = 3
    MaxEdits = 1
INVARIANTS
    ValidCopySuffices
CHECK_DEADLOCK FALSE

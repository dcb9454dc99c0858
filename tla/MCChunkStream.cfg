SPECIFICATION Spec
CONSTANTS
    ChunkSize = 2
    Totals <- PayloadLengths
    MaxEdits = 3
INVARIANTS
    TypeOK
    NeverWrongBytes
    RoundTrip
    ScanAcceptsWhatDecrypts
CHECK_DEADLOCK FALSE

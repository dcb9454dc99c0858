SPECIFICATION Spec
CONSTANTS
    Rate <- MCRate
    MaxU64 = 63
    NanosPerSec = 8
    Window = 6
    None = None
    NoBody = NoBody
    Radix = 16
    NotUtf8 = 15
    Requests <- MCRequests
    Readings <- MCReadings
    Primes = {17, 19, 23, 31}
    Bases = {0, 1, 5, 437}
    MINIMUM_MODULUS_BITS = 10
    FileKey = 77
    KeySpace = 65521
    SALT <- MCSalt
    Edited = {0, 1, 2, 15}
    MaxEdits = 1
    CheckEvery = 4
    EmitEvery = 6
INVARIANTS TypeOK Reopens OpensOnlyAfterTheDelay SelfDelimiting CancelIsPrompt ShowsTheTarget
CHECK_DEADLOCK FALSE

\* Two runs with one output path: one locks a file or a text and verifies, one stdin.
SPECIFICATION FairSpec
CONSTANTS
    Runs = {r1, r2}
    Stdin = {r2}
    Message = {}
    OutOption = {r1, r2}
    Verify = {r1}
    Paths = {p1}
    Versions = {v1, v2}
    Chunks = 2
    NoFile = NoFile
    Typed = Typed
    Nobody = Nobody
    Other = Other
    r1 = r1
    r2 = r2
    v1 = v1
    v2 = v2
    p1 = p1
    p2 = p2
    Output <- SharedOutput
INVARIANTS TypeOK OutputIsTheStagedCopy NothingLeftBehind
PROPERTIES CancelIsHonoured EndsOrWaitsForStdin ImplementsDelivery

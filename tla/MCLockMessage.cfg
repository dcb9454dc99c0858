\* A typed message that happens to name an existing file.
SPECIFICATION Spec
CONSTANTS
    Runs = {r1}
    Stdin = {}
    Message = {r1}
    OutOption = {r1}
    Verify = {}
    Paths = {p1}
    Versions = {v1}
    Chunks = 1
    NoFile = NoFile
    Typed = Typed
    Nobody = Nobody
    Other = Other
    r1 = r1
    r2 = r2
    v1 = v1
    v2 = v2
    p1 = p1
    p2 = p2
    Output <- SharedOutput
INVARIANT MessageIsLockedAsText

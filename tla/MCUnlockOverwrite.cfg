\* One run, and another program that creates a file at the chosen path.
SPECIFICATION Spec
CONSTANTS
    Runs = {r1}
    Prompting = {}
    OutOption = {}
    Artifacts = {plain}
    Texts = {}
    NotUtf8 = {}
    Protected = {}
    Chunks = 1
    MaxSuffix = 1
    Inputs <- OneInput
    Nobody = Nobody
    Other = Other
    NoArtifact = NoArtifact
    r1 = r1
    r2 = r2
    plain = plain
    secret = secret
    note = note
    blob = blob
PROPERTY NoSilentOverwrite
\* A run ends, and then nothing is left to do.
CHECK_DEADLOCK FALSE

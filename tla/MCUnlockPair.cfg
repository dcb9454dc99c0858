\* Two runs race for the output names; the first has an output option, the second
\* nobody who could be asked for a passphrase.
SPECIFICATION Spec
CONSTANTS
    Runs = {r1, r2}
    Prompting = {r1}
    OutOption = {r1}
    Artifacts = {plain, note}
    Texts = {note}
    NotUtf8 = {}
    Protected = {note}
    Chunks = 2
    MaxSuffix = 1
    Inputs <- PairInputs
    Nobody = Nobody
    Other = Other
    NoArtifact = NoArtifact
    r1 = r1
    r2 = r2
    plain = plain
    secret = secret
    note = note
    blob = blob
PROPERTIES ImplementsDelivery

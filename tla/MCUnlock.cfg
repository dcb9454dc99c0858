\* One run, every kind of input, and an input that changes under it.
SPECIFICATION FairSpec
CONSTANTS
    Runs = {r1}
    Prompting = {r1}
    OutOption = {}
    Artifacts = {plain, secret, note, blob}
    Texts = {note, blob}
    NotUtf8 = {blob}
    Protected = {secret, note}
    Chunks = 2
    MaxSuffix = 1
    Inputs <- AllInputs
    Nobody = Nobody
    Other = Other
    NoArtifact = NoArtifact
    r1 = r1
    r2 = r2
    plain = plain
    secret = secret
    note = note
    blob = blob
INVARIANTS TypeOK OnlyAuthenticPayloads NothingLeftBehind PassphraseAfterTimelock
           AuthErrorIsJustified
PROPERTIES CancelIsHonoured EndsOrWaitsForPassphrase

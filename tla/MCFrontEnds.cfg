SPECIFICATION Spec
CONSTANTS
    Letters = {"x"}
    DiskPaths <- MCDiskPaths
    Contents <- MCContents
    Names <- MCNames
    DefaultTarget <- MCDefaultTarget
    MaxEdits = 2
INVARIANTS
    TypeOK
    ShownIsTrue
PROPERTIES
    RunsWhatWasChosen
    TextIsKept
CHECK_DEADLOCK FALSE

\* Installing, updating and downgrading the plugin, with edits and failures.
SPECIFICATION Spec
CONSTANTS
    Versions = {v1, v2}
    None = None
    MaxImages = 3
    MaxEdits = 2
    MaxFailures = 3
INVARIANTS
    TypeOK
    BeforeIsThere
PROPERTIES
    EndsByItsPhase
    ServesWhole
    Converges

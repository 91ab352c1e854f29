SPECIFICATION Spec
CONSTANTS
    Vars = {job, other}
    Keys = {manager, settings}
    Scalars = {s1}
    Nothing = Nothing
    MaxObjects = 5
INVARIANTS
    JsonTypeOK
    OneOwner
    PointerMatchesType
PROPERTIES
    DocumentsSpec
SYMMETRY MCSymmetry
CHECK_DEADLOCK FALSE

CONSTANTS
    Browser = {b1, b2}
    StartHour = {s1, s2}
    Duration = {d1}
    Typed <- Texts
    FactoryTables <- Factory
    MaxMoves = 4
    MaxBoots = 1
    NaN = NaN
    NoTable = NoTable
    NoBrowser = NoBrowser
SPECIFICATION Spec
CHECK_DEADLOCK FALSE
SYMMETRY Interchangeable
INVARIANT PageTypeOK
PROPERTY UntouchedStays
PROPERTY UnfilledSavesNothing

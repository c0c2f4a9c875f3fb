SPECIFICATION Spec
CONSTANTS
    Buckets = {b1}
    Keys = {k1, k2}
    Bodies = {x, y}
    Metas = {m}
    NoMeta = NoMeta
    NoPart = NoPart
    NoUpload = NoUpload
    NoEntry = NoEntry
    NoObject = NoObject
    NoBucket = NoBucket
    Nothing = Nothing
    MaxUploads = 2
    MaxPart = 2
    MaxInput = 2
SYMMETRY Symmetry
INVARIANTS TypeOK IndexMatchesUploads CompletedOnce CompletedAsNamed CompletingIsHeld
PROPERTIES EndedStaysEnded PartsAreKept EndsOnlyWhenStored

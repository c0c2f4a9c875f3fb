SPECIFICATION Spec
CONSTANTS
    Buckets = {b1}
    Keys = {k1}
    Bodies = {x}
    Metas = {m}
    NoMeta = NoMeta
    NoPart = NoPart
    NoUpload = NoUpload
    NoEntry = NoEntry
    NoObject = NoObject
    NoBucket = NoBucket
    Nothing = Nothing
    MaxUploads = 1
    MaxPart = 2
    MaxInput = 2
SYMMETRY Symmetry
INVARIANTS CompletedInPartOrder

SPECIFICATION Spec
CONSTANTS
    Buckets = {b1}
    Keys = {k1, k2}
    Clients = {c1, c2}
    Bodies = {x, y}
    Metas = {m}
    Dates = {d1, d2}
    NoMeta = NoMeta
    NoObject = NoObject
    NoBucket = NoBucket
    NoDate = NoDate
    NoWrite = NoWrite
SYMMETRY Symmetry
INVARIANTS NoStrayMetadata
PROPERTIES ImplementsStore

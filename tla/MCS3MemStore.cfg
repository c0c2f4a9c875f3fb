SPECIFICATION Spec
CONSTANTS
    Buckets = {b1}
    Keys = {k1}
    Clients = {c1, c2}
    Bodies = {x}
    Metas = {m1, m2}
    NoMeta = NoMeta
    NoBody = NoBody
    NoData = NoData
    NoObject = NoObject
    NoClient = NoClient
    NoBucket = NoBucket
    NoWrite = NoWrite
    MaxVersion = 3
    MaxBatch = 2
SYMMETRY Symmetry
INVARIANTS CurrentIsNewest UnracedMerge
PROPERTIES VersionsLeaveOnlyWhenAsked ImplementsStore

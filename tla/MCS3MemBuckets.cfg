SPECIFICATION Spec
CONSTANTS
    Buckets = {b1, b2}
    Keys = {k1, k2}
    Clients = {c1, c2}
    Bodies = {x}
    Metas = {m}
    NoMeta = NoMeta
    NoBody = NoBody
    NoData = NoData
    NoObject = NoObject
    NoClient = NoClient
    MaxVersion = 2
    MaxBatch = 1
SYMMETRY Symmetry
INVARIANTS TypeOK VersionIdsUnique NoEmptyObject NeverVersionedIsPlain AckedNamesOneVersion
PROPERTIES VersionsAreFresh

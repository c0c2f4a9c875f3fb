SPECIFICATION Spec
CONSTANTS
    Buckets = {b1}
    Keys = {k1}
    Clients = {c1}
    Bodies = {x}
    Metas = {m}
    NoMeta = NoMeta
    NoBody = NoBody
    NoData = NoData
    NoObject = NoObject
    NoClient = NoClient
    MaxVersion = 3
    MaxBatch = 1
SYMMETRY Symmetry
INVARIANTS GetObjectReturns

CONSTANTS
    b1 = b1
    flat = flat
    nested = nested
    d1 = d1
    Setups <- SetupsKey
    Buckets = {b1}
    KeyOrder <- OneKey
    Dir <- OneDir
    Readers = {c2}
    Writers = {c1, c2}
    Copiers = {c1}
    Bodies = {x, y}
    Metas = {m}
    NoDir = NoDir
    NoBucket = NoBucket
    NoFile = NoFile
    NoMeta = NoMeta
    NoClient = NoClient
    EmptyFile = EmptyFile
    TornFile = TornFile
    MetaHash = MetaHash
    Gone = Gone
    Damaged = Damaged
    MaxTime = 0
SPECIFICATION Spec
INVARIANTS HashIsOfTheFile

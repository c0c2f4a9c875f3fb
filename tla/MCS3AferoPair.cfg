CONSTANTS
    b1 = b1
    flat = flat
    nested = nested
    d1 = d1
    Setups <- SetupsPair
    Buckets = {b1}
    KeyOrder <- TwoKeys
    Dir <- TwoDirs
    Readers = {c2}
    Writers = {c1}
    Copiers = {c1}
    Bodies = {x}
    Metas = {}
    NoDir = NoDir
    NoBucket = NoBucket
    NoFile = NoFile
    NoMeta = NoMeta
    NoClient = NoClient
    EmptyFile = EmptyFile
    TornFile = TornFile
    MetaHash = MetaHash
    Gone = Gone
    Damaged = Damaged
    MaxTime = 1
SPECIFICATION Spec
INVARIANTS AnsweredWritesAreServed

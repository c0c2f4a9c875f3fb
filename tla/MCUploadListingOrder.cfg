SPECIFICATION ListingSpec
CONSTANTS
    k1 = k1
    k2 = k2
    k3 = k3
    k4 = k4
    Buckets = {b1}
    Keys = {k1, k2, k3, k4}
    Bodies = {}
    Metas = {}
    NoMeta = NoMeta
    NoPart = NoPart
    NoUpload = NoUpload
    NoEntry = NoEntry
    NoObject = NoObject
    NoBucket = NoBucket
    Nothing = Nothing
    MaxUploads = 3
    MaxPart = 0
    MaxInput = 0
    KeyOrder <- FourKeys
    Match <- Matches
    Content = Content
    UnderPrefix = UnderPrefix
    NoMatch = NoMatch
    NoMarker = NoMarker
    MaxLimit = 2
    MaxPages = 4
INVARIANTS OrderedAcrossPages

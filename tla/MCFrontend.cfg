SPECIFICATION FrontSpec
CONSTANTS
    Buckets = {b1}
    Setups <- MCSetups
    Keys = {k1}
    Clients = {c1, c2}
    Bodies = {x, y}
    Metas = {}
    NoMeta = NoMeta
    NoObject = NoObject
    NoBucket = NoBucket
    NoWrite = NoWrite
    BadBody = BadBody
    NoEtag = NoEtag
    NoResult = NoResult
INVARIANTS FrontTypeOK
PROPERTIES ReadsAreOfOneMoment AnsweredWritesHappened RefusalsHaveACause
PROPERTIES OnlyAnsweredRequestsChangeObjects EveryRequestAnswered

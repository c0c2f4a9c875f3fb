SPECIFICATION Spec
CONSTANTS
    KeyOrder <- MCKeyOrder
    Queries <- MCQueries
    Delimiters <- MCDelimiters
    NoDelimiter = NoDelimiter
    Backends <- MCBackends
    MaxLimit = 2
INVARIANTS ListingAgrees NothingIsSkipped InOrderAcrossPages
PROPERTIES WalkEnds

SPECIFICATION Spec
CONSTANTS
    MaxInt = 5
    MaxChunks = 2
    MaxLength = 3
    Uploads <- MCUploads
    CopyBuffer = 2
    ReadBuffer = 2
INVARIANTS AcceptedIsWhole HonestIsAccepted RangeIsServed
CHECK_DEADLOCK FALSE

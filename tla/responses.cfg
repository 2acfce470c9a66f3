SPECIFICATION Spec
CONSTANTS
    Segments <- MCSegments
    MaxSegments = 2
    MaxChunk = 3
    RetryMax = 1
INVARIANTS
    SieveFaithful
    OneAnswer
    Findable
PROPERTIES
    ClientSpec
CHECK_DEADLOCK FALSE

SPECIFICATION Spec
CONSTANTS
    Keys <- AllKeys
    Bucket <- OneBucket
    FirstFour <- KeyBytes
    ShortKeys <- OnlyShort
    Lines <- OwnCalls
    Garbage <- BothOperators
    MaxRecords = 1
    MaxRequests = 1
INVARIANT NumbersBelongToLabels
CHECK_DEADLOCK FALSE

SPECIFICATION FairSpec
CONSTANTS
    Keys <- AllKeys
    Bucket <- OneBucket
    FirstFour <- KeyBytes
    ShortKeys <- OnlyShort
    Lines <- AllTraffic
    Garbage <- BothOperators
    MaxRecords = 2
    MaxRequests = 1
INVARIANT OneAggregatePerKey
INVARIANT StoresAgreeOnCrossTraffic
INVARIANT GapsSpoilWhatFollows
PROPERTY TakenOutIsReported
CHECK_DEADLOCK FALSE

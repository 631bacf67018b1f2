SPECIFICATION Spec
CONSTANTS
    Keys <- AllKeys
    Bucket <- OneBucket
    FirstFour <- KeyBytes
    ShortKeys <- OnlyShort
    Lines <- DataAndCalls
    Garbage <- BothOperators
    MaxRecords = 3
    MaxRequests = 2
INVARIANT TypeOK
INVARIANT ReportMissesAtMostOneRecord
INVARIANT NoRecordInTwoReports
CHECK_DEADLOCK FALSE

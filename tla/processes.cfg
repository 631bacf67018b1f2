SPECIFICATION FairSpec
CONSTANTS
    Directories <- WithAndWithout
    MaxWords = 2
    MaxUIStarts = 1
    MaxRTs = 2
    MaxFailures = 1
INVARIANT TypeOK
INVARIANT StolenOnlyWithoutKeyFiles
 
PROPERTY ServedByHandAfterwards
CHECK_DEADLOCK FALSE

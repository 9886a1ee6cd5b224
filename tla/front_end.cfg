CONSTANTS
    CommandLines <- SomeCommandLines
    InputFiles <- SomeFiles
    MaxFailures = 2
SPECIFICATION Spec
INVARIANTS
    TypeOK
    ParsedAsWritten
    OneListTooMany
    GoodInputIsSafe
    FreesOnlyAllocated
    OnlyKnownLeaks
    PassesAgree
PROPERTIES
    MainEnds
CHECK_DEADLOCK FALSE

CONSTANTS
    null = null
    undefined = undefined
    Null <- null
    Undefined <- undefined
    \* the lists
    Row <- MCRow
    MaxScan = 3
    MaxLambdaScan = 3
    MaxDeletes = 2
    Cases <- MCCases
    Listed <- MCListed
    Settings <- MCSettings
    Ranges <- MCRanges
    \* the filters
    Numbers <- MCNumbers
    Strings <- MCStrings
    Fields <- MCFields
    Lambdas <- MCLambdas
    Strict = TRUE
    MaxLambdaDepth = 2
    Relations <- MCRelations
    RootModel = "Root"
    Rows <- MCRows
    Written <- MCWritten
    Garbled <- MCGarbled
    MaxPattern = 2
    MaxDepth = 3
    MaxJoins = 2
    \* the pipelines
    ApplyCases <- MCApplyCases
    ApplyFields = {"id", "g", "n", "stamp"}
    ApplyNumbers <- MCApplyNumbers
    ApplyMaxScan = 6
    Navigation <- MCNavigation
    Spare <- MCSpare
    NewValues <- MCNewValues
    MaxResult = 6
    MaxFanout = 4
    MaxPages = 5
SPECIFICATION ReadSpec
INVARIANTS
    ReadAsWritten
    AnswersMeanTheFilter
    OnlyMatchesAreAnswered
    FeedIsComplete
    CountsAgree
    FeedIsTheMeaning
    StableBucketsReadOnce
PROPERTIES
    GoneBucketsAreReported
    FeedEnds
CHECK_DEADLOCK FALSE

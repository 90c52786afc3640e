CONSTANTS
    \* the batch
    N = 3
    g1 = g1
    g2 = g2
    NoGroup = NoGroup
    Groups <- MCGroups
    Batches <- MCAllBatches
    TimeoutEnabled = TRUE
    \* the multipart payloads
    CompactAfter = 0
    NoId = "no id"
    Boundary <- MCBoundary
    MultipartBoundary <- MCMultipartBoundary
    ContentId <- MCContentId
    Headers <- MCHeaders
    Multipart <- MCMultipart
    ContentIds <- MCContentIds
    Http = "http"
    Json = "json"
    RequestLine = "get"
    JsonBodies <- MCJsonBodies
    Word <- MCAllWords
    Cases <- MCAllCases
    GroupToken <- MCGroupToken
    Multiparts <- MCMultiparts
SPECIFICATION RequestSpec
CHECK_DEADLOCK FALSE
INVARIANTS
    CutsDoNotMatter
    QueueHoldsTheRest
    GroupAllOrNothing
    FailedGroupLeavesNothing
    NoDanglingTransaction
    ResponsesInOrder
PROPERTIES
    DependencyEffectVisible
    ContentIdTargetExists
    AtomicUnitsSpec
    EventuallyAnswered

SPECIFICATION ParserSpec
CONSTANTS
    CompactAfter = 0
    NoId = "no id"
    Boundary <- MCBoundary
    MultipartBoundary <- MCMultipartBoundary
    ContentId <- MCContentId
    Headers <- MCHeaders
    Multipart <- MCMultipart
    ContentIds <- MCContentIds
    Http = "http"
    Json = "json"
    RequestLine = "get"
    JsonBodies <- MCJsonBodies
    Word <- MCWord
    Cases <- MCSingle
INVARIANT BoundariesAreDetected
CHECK_DEADLOCK FALSE

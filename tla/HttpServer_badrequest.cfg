SPECIFICATION Spec
CONSTANTS
    Connection = {c1}
    Path <- MCPath
    HeaderName <- MCHeaderName
    HeaderValue <- MCHeaderValue
    ByteValue <- MCByteValue
    Stoi <- MCStoi
    UintModulus = 64
    Code <- MCCode
    Requests <- WellFormed
    MaxRequests = 1
    CallbackThrows = FALSE
INVARIANT BadRequestOnlyOnError
CHECK_DEADLOCK FALSE

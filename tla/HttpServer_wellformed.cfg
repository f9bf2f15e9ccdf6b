SPECIFICATION Spec
CONSTANTS
    Connection = {c1}
    Path <- MCPath
    HeaderName <- MCHeaderName
    HeaderValue <- MCHeaderValue
    ByteValue <- MCByteValue
    Stoi <- MCStoi
    UintModulus = 64
    Code <- MCCode
    Requests <- WellFormed
    MaxRequests = 3
    CallbackThrows = TRUE
INVARIANTS ProcessAlive StaleContent SpinsOnlyOnHandled
PROPERTY RequestsInOrder
CHECK_DEADLOCK FALSE

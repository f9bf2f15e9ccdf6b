SPECIFICATION FairSpec
CONSTANTS
    Connection = {c1}
    Path <- MCPath
    HeaderName <- MCHeaderName
    HeaderValue <- MCHeaderValue
    ByteValue <- MCByteValue
    Stoi <- MCStoi
    UintModulus = 64
    Code <- MCCode
    Requests <- Malformed
    MaxRequests = 3
    CallbackThrows = FALSE
INVARIANTS TypeOK BodyIsBytes NoSpin DiesOfRejectedLine
PROPERTY CallbackReturns
CHECK_DEADLOCK FALSE

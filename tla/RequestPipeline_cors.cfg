SPECIFICATION Spec
CONSTANTS
    Method = {"kGet", "kOptions"}
    Path = {"/a", "/b"}
    Pattern = {"/:id", "/a:x"}
    Match <- MCMatch
    Handler = {h1}
    Origin <- MCOrigin
    Config <- MCConfig
    Code = {200}
    MaxRoutes = 1
    MaxMiddlewares = 1
    MaxRequests = 2
INVARIANT PreflightIsKept
CHECK_DEADLOCK FALSE

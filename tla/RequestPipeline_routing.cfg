SPECIFICATION Spec
CONSTANTS
    Method = {"kGet", "kOptions"}
    Path = {"/a", "/b"}
    Pattern = {"/:id", "/a:x"}
    Match <- MCMatch
    Handler = {h1, h2}
    Origin <- FewOrigins
    Config <- FewConfig
    Code = {200}
    MaxRoutes = 2
    MaxMiddlewares = 2
    MaxRequests = 1
SYMMETRY HandlerSymmetry
INVARIANTS TypeOK RoutedByPrecedence CallsAreNested PreflightStaysOut EveryEndHasAStatus
CHECK_DEADLOCK FALSE

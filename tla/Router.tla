------------------------------- MODULE Router -------------------------------
(***************************************************************************)
(* http::router::Router: the four tables, registration, and the search.    *)
(* Operators on a record of tables; a module that keeps one in a variable  *)
(* decides when they run.                                                  *)
(*                                                                         *)
(* A pattern such as /users/:id becomes a regular expression; what matters *)
(* of it is the set of paths it matches, the constant Match.               *)
(***************************************************************************)
EXTENDS Naturals, SequencesExt

CONSTANTS
    Method,    \* request methods
    Path,      \* request paths
    Pattern,   \* patterns of dynamic routes
    Match,     \* Match[pattern]: the paths that it matches
    Handler    \* handler objects and callback functions

NoHandler == "no handler"

ASSUME RouterAssumption ==
    /\ Match \in [Pattern -> SUBSET Path]
    /\ NoHandler \notin Handler

RouteKey == Method \X Path
Route    == [method : Method, pattern : Pattern, handler : Handler]

\* handlers_ and callbacks_ are maps, regexHandlers_ and regexCallbacks_ vectors.
EmptyTables ==
    [handlers |-> <<>>, callbacks |-> <<>>, regexHandlers |-> <<>>, regexCallbacks |-> <<>>]

IsTable(map) == DOMAIN map \subseteq RouteKey /\ \A key \in DOMAIN map : map[key] \in Handler

\* Bug: insert instead of operator[], which keeps the earlier handler.
PutIfAbsent(map, key, handler) ==
    [k \in DOMAIN map \cup {key} |-> IF k \in DOMAIN map THEN map[k] ELSE handler]

\* operator[] and assignment: an earlier handler of the same key is replaced.
Put(map, key, handler) ==
    [k \in DOMAIN map \cup {key} |-> IF k = key THEN handler ELSE map[k]]

registerHandler(tables, method, path, handler) ==
    [tables EXCEPT !.handlers = Put(@, <<method, path>>, handler)]
registerCallback(tables, method, path, callback) ==
    [tables EXCEPT !.callbacks = Put(@, <<method, path>>, callback)]

Dynamic(method, pattern, handler) ==
    [method |-> method, pattern |-> pattern, handler |-> handler]
addRegexHandler(tables, method, pattern, handler) ==
    [tables EXCEPT !.regexHandlers = Append(@, Dynamic(method, pattern, handler))]
addRegexCallback(tables, method, pattern, callback) ==
    [tables EXCEPT !.regexCallbacks = Append(@, Dynamic(method, pattern, callback))]

\* The handler of the first route in a vector whose method and expression match.
FirstMatch(routes, method, path) ==
    LET i == SelectInSeq(routes, LAMBDA r : r.method = method /\ path \in Match[r.pattern])
    IN IF i = 0 THEN NoHandler ELSE routes[i].handler

\* route: the handler that is called; NoHandler: route returns false.
route(tables, method, path) ==
    LET key == <<method, path>>
        dynamic == FirstMatch(tables.regexHandlers, method, path)
    IN IF key \in DOMAIN tables.handlers THEN tables.handlers[key]
       ELSE IF key \in DOMAIN tables.callbacks THEN tables.callbacks[key]
       ELSE IF dynamic # NoHandler THEN dynamic
       ELSE FirstMatch(tables.regexCallbacks, method, path)
=============================================================================

---------------------------- MODULE Router_proofs ----------------------------
(***************************************************************************)
(* What the operators of Router do to well-typed tables: the search finds  *)
(* the first route of a vector, and registration keeps the types.          *)
(***************************************************************************)
EXTENDS Router, SequenceTheorems, WellFoundedInduction, TLAPS

\* Every set of positions that is not empty has a least one, which is the one
\* that Min chooses.
LEMMA LeastPosition ==
    ASSUME NEW I \in SUBSET Nat, I # {}
    PROVE  /\ Min(I) \in I
           /\ \A n \in I : Min(I) <= n
<1> DEFINE Less == {p \in Nat \X Nat : p[1] < p[2]}
<1>1. IsWellFoundedOn(Less, Nat)
  BY NatLessThanWellFounded DEF OpToRel
<1>2. PICK n \in I : \A m \in I : <<m, n>> \notin Less
  <2> HIDE DEF Less
  <2> QED
    BY <1>1, WFMin
<1>3. ASSUME NEW m \in I PROVE n <= m
  <2>1. m < n => <<m, n>> \in Less
    OBVIOUS
  <2> QED
    BY <1>2, <2>1
<1> QED
  BY <1>3 DEF Min

\* A route whose method and expression match a request.
Matches(r, method, path) == r.method = method /\ path \in Match[r.pattern]

\* The search through a vector returns the handler of the first route that
\* matches, and nothing only if none does.
LEMMA FirstMatchIsFirst ==
    ASSUME NEW routes \in Seq(Route), NEW method, NEW path
    PROVE  \/ /\ \A n \in 1..Len(routes) : ~Matches(routes[n], method, path)
              /\ FirstMatch(routes, method, path) = NoHandler
           \/ \E n \in 1..Len(routes) :
                 /\ Matches(routes[n], method, path)
                 /\ \A m \in 1..n - 1 : ~Matches(routes[m], method, path)
                 /\ FirstMatch(routes, method, path) = routes[n].handler
<1> DEFINE I == {n \in 1..Len(routes) : Matches(routes[n], method, path)}
           k == SelectInSeq(routes, LAMBDA r : r.method = method /\ path \in Match[r.pattern])
<1>0. Len(routes) \in Nat
  BY LenProperties
<1>1. k = IF I # {} THEN Min(I) ELSE 0
  BY DEF SelectInSeq, Matches
<1>2. FirstMatch(routes, method, path) = IF k = 0 THEN NoHandler ELSE routes[k].handler
  BY DEF FirstMatch
<1> HIDE DEF k
<1>3. CASE I = {}
  BY <1>1, <1>2, <1>3
<1>4. CASE I # {}
  <2>1. I \in SUBSET Nat
    BY <1>0
  <2>2. k \in I /\ \A n \in I : k <= n
    BY <1>1, <1>4, <2>1, LeastPosition
  <2>3. k # 0 /\ k \in 1..Len(routes) /\ Matches(routes[k], method, path)
    BY <2>2, <1>0
  <2>4. \A m \in 1..k - 1 : ~Matches(routes[m], method, path)
    BY <2>2, <2>3, <1>0
  <2> QED
    BY <1>2, <2>3, <2>4
<1> QED
  BY <1>3, <1>4

\* A handler that the search returns is a registered one.
LEMMA FirstMatchType ==
    ASSUME NEW routes \in Seq(Route), NEW method, NEW path
    PROVE  FirstMatch(routes, method, path) \in Handler \cup {NoHandler}
<1>1. \A n \in 1..Len(routes) : routes[n] \in Route
  BY ElementOfSeq
<1>2. \A n \in 1..Len(routes) : routes[n].handler \in Handler
  BY <1>1 DEF Route
<1> QED
  BY <1>2, FirstMatchIsFirst

\* Assignment through operator[]: the key holds the new handler, every other
\* key what it held.
LEMMA PutDefinition ==
    ASSUME NEW map, NEW key, NEW handler
    PROVE  /\ DOMAIN Put(map, key, handler) = DOMAIN map \cup {key}
           /\ Put(map, key, handler)[key] = handler
           /\ \A k \in DOMAIN map : k # key => Put(map, key, handler)[k] = map[k]
BY DEF Put

\* The maps and the vectors of the four tables.
Map    == UNION {[keys -> Handler] : keys \in SUBSET RouteKey}
Tables == [handlers : Map, callbacks : Map, regexHandlers : Seq(Route), regexCallbacks : Seq(Route)]

\* A map is a table in the sense of Router.
LEMMA MapIsTable == \A map \in Map : IsTable(map)
BY DEF Map, IsTable

\* A map stays one when a handler is assigned to a key.
LEMMA PutType ==
    ASSUME NEW map \in Map, NEW key \in RouteKey, NEW handler \in Handler
    PROVE  Put(map, key, handler) \in Map
<1>1. PICK keys \in SUBSET RouteKey : map \in [keys -> Handler]
  BY DEF Map
<1>2. Put(map, key, handler) \in [keys \cup {key} -> Handler]
  BY <1>1 DEF Put
<1>3. keys \cup {key} \in SUBSET RouteKey
  BY <1>1
<1> QED
  BY <1>2, <1>3 DEF Map

\* Each of the four registrations gives well-typed tables.
LEMMA RegistrationType ==
    ASSUME NEW t \in Tables, NEW method \in Method, NEW handler \in Handler
    PROVE  /\ \A path \in Path : /\ registerHandler(t, method, path, handler) \in Tables
                                 /\ registerCallback(t, method, path, handler) \in Tables
           /\ \A pattern \in Pattern : /\ addRegexHandler(t, method, pattern, handler) \in Tables
                                       /\ addRegexCallback(t, method, pattern, handler) \in Tables
<1>1. ASSUME NEW path \in Path
      PROVE  /\ registerHandler(t, method, path, handler) \in Tables
             /\ registerCallback(t, method, path, handler) \in Tables
  <2>1. <<method, path>> \in RouteKey
    BY DEF RouteKey
  <2>2. Put(t.handlers, <<method, path>>, handler) \in Map
    BY <2>1, PutType DEF Tables
  <2>3. Put(t.callbacks, <<method, path>>, handler) \in Map
    BY <2>1, PutType DEF Tables
  <2> QED
    BY <2>2, <2>3 DEF registerHandler, registerCallback, Tables
<1>2. ASSUME NEW pattern \in Pattern
      PROVE  /\ addRegexHandler(t, method, pattern, handler) \in Tables
             /\ addRegexCallback(t, method, pattern, handler) \in Tables
  <2>1. Dynamic(method, pattern, handler) \in Route
    BY DEF Dynamic, Route
  <2>2. /\ Append(t.regexHandlers, Dynamic(method, pattern, handler)) \in Seq(Route)
        /\ Append(t.regexCallbacks, Dynamic(method, pattern, handler)) \in Seq(Route)
    BY <2>1, AppendProperties DEF Tables
  <2> QED
    BY <2>2 DEF addRegexHandler, addRegexCallback, Tables
<1> QED
  BY <1>1, <1>2

\* The handler that route finds is a registered one.
LEMMA RouteType ==
    ASSUME NEW tables \in Tables, NEW method, NEW path
    PROVE  route(tables, method, path) \in Handler \cup {NoHandler}
<1>1. /\ tables.regexHandlers \in Seq(Route) /\ tables.regexCallbacks \in Seq(Route)
      /\ IsTable(tables.handlers) /\ IsTable(tables.callbacks)
  BY MapIsTable DEF Tables
<1>2. /\ FirstMatch(tables.regexHandlers, method, path) \in Handler \cup {NoHandler}
      /\ FirstMatch(tables.regexCallbacks, method, path) \in Handler \cup {NoHandler}
  BY <1>1, FirstMatchType
<1> QED
  BY <1>1, <1>2 DEF route, IsTable
=============================================================================

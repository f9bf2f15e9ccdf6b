------------------------ MODULE SessionManager_proofs ------------------------
(***************************************************************************)
(* Proofs about SessionManager: its types, the isolation of clients from   *)
(* each other as long as no two draws of an id overlap, and what can bring *)
(* a destroyed session back.                                               *)
(***************************************************************************)
EXTENDS SessionManager, TLAPS

\* A step, as the action of the thread or of the clock that takes it.
LEMMA StepCases ==
    ASSUME [Next]_vars
    PROVE  \/ \E t \in Thread, s \in Session, age \in Lifetime :
                 CreateSession(t, s, age) /\ UNCHANGED alive
           \/ \E t \in Thread : /\ \/ Load(t) \/ CheckExpired(t) \/ RemoveExpiredSession(t)
                                   \/ BeginDraw(t) \/ Save(t) \/ BeginChange(t) \/ Clear(t)
                                   \/ BeginDestroy(t) \/ Destroy(t)
                                   \/ BeginClean(t) \/ Clean(t) \/ EndRequest(t)
                                /\ UNCHANGED alive
           \/ \E t \in Thread, v \in Value : (SetValue(t, v) \/ RemoveValue(t, v)) /\ UNCHANGED alive
           \/ \E t \in Thread, i \in SessionId \cup {NoId} : BeginRequest(t, i) /\ UNCHANGED alive
           \/ Tick /\ UNCHANGED alive
           \/ \E t \in Thread : DereferenceNull(t)
           \/ DataRace
           \/ UNCHANGED vars
BY DEF Next, ThreadStep, GetSessionStep, HandlerStep

\* Every step keeps the types.
LEMMA TypeStep == TypeOK /\ [Next]_vars => TypeOK'
<1> SUFFICES ASSUME TypeOK, [Next]_vars PROVE TypeOK'
  OBVIOUS
<1> USE DEF TypeOK, object, request, generator, GoTo, At, PC, InMap, Writing, Saving, Made
<1>0. NoId \notin Nat /\ NoId \notin SessionId /\ SessionId \subseteq Nat /\ NoSession \notin Session
  BY SessionAssumption
<1>1. ASSUME NEW t \in Thread, NEW s \in Session, NEW age \in Lifetime,
             CreateSession(t, s, age), UNCHANGED alive
      PROVE  TypeOK'
  <2>1. age \in Int /\ now \in Int
    BY SessionAssumption
  <2>2. now + age \in Int
    BY <2>1
  <2>3. maxAge' \in [Session -> Int] /\ expiry' \in [Session -> Int]
    BY <1>1, <2>1, <2>2 DEF CreateSession
  <2>4. /\ id' \in [Session -> Nat \cup {NoId}]
        /\ Made' = Made \cup {s}
        /\ \A x \in Made : id'[x] = id[x]
    BY <1>0, <1>1 DEF CreateSession
  <2>5. rng' \in Nat /\ drawn' \in [Thread -> Nat]
    BY <1>1 DEF CreateSession, Advanced
  <2>6. held' \in [Thread -> Made' \cup {NoSession}] /\ held'[t] # NoSession
    BY <1>0, <1>1, <2>4 DEF CreateSession
  <2>7. sessions' \subseteq Made'
    BY <1>1, <2>4 DEF CreateSession
  <2>8. \A u \in Thread :
           /\ pc'[u] \in Saving \cup {"check", "handler", "change", "destroy", "clean", "remove"} =>
                 held'[u] # NoSession
           /\ pc'[u] \in {"load", "null", "idle", "create", "draw"} => held'[u] = NoSession
           /\ pc'[u] \in {"load", "null"} => cookie'[u] # NoId
           /\ pc'[u] \in {"check", "remove"} => id'[held'[u]] = cookie'[u]
    <3> SUFFICES ASSUME NEW u \in Thread
                 PROVE  /\ pc'[u] \in Saving \cup {"check", "handler", "change", "destroy", "clean", "remove"} =>
                              held'[u] # NoSession
                        /\ pc'[u] \in {"load", "null", "idle", "create", "draw"} => held'[u] = NoSession
                        /\ pc'[u] \in {"load", "null"} => cookie'[u] # NoId
                        /\ pc'[u] \in {"check", "remove"} => id'[held'[u]] = cookie'[u]
      OBVIOUS
    <3>1. CASE u = t
      BY <1>1, <2>6, <3>1 DEF CreateSession
    <3>2. CASE u # t
      <4>1. pc'[u] = pc[u] /\ held'[u] = held[u] /\ cookie'[u] = cookie[u]
        BY <1>1, <3>2 DEF CreateSession
      <4>2. pc[u] \in {"check", "remove"} => id'[held[u]] = id[held[u]]
        BY <2>4
      <4> QED
        BY <4>1, <4>2
    <3> QED
      BY <3>1, <3>2
  <2>9. /\ now' = now /\ destroyed' = destroyed /\ data' = data /\ cookie' = cookie
        /\ overlapped' = overlapped /\ alive' = alive
        /\ pc' \in [Thread -> PC]
    BY <1>1 DEF CreateSession
  <2> QED
    BY <2>3, <2>4, <2>5, <2>6, <2>7, <2>8, <2>9
<1>2. ASSUME NEW t \in Thread, Load(t), UNCHANGED alive PROVE TypeOK'
  BY <1>0, <1>2 DEF Load, Of
<1>3. ASSUME NEW t \in Thread, CheckExpired(t), UNCHANGED alive PROVE TypeOK'
  <2>1. held[t] \in Session /\ maxAge[held[t]] \in Int /\ now \in Int
    BY <1>3 DEF CheckExpired
  <2>2. now + maxAge[held[t]] \in Int
    BY <2>1
  <2>3. expiry' \in [Session -> Int]
    BY <1>3, <2>1, <2>2 DEF CheckExpired
  <2> QED
    BY <1>3, <2>3 DEF CheckExpired
<1>4. ASSUME NEW t \in Thread, RemoveExpiredSession(t), UNCHANGED alive PROVE TypeOK'
  BY <1>4 DEF RemoveExpiredSession
<1>5. ASSUME NEW t \in Thread, Save(t), UNCHANGED alive PROVE TypeOK'
  BY <1>5 DEF Save
<1>6. ASSUME NEW t \in Thread, Clear(t), UNCHANGED alive PROVE TypeOK'
  BY <1>6 DEF Clear
<1>7. ASSUME NEW t \in Thread, BeginDestroy(t) \/ BeginClean(t) \/ BeginChange(t), UNCHANGED alive
      PROVE  TypeOK'
  <2>1. CASE BeginDestroy(t)
    BY <1>7, <2>1 DEF BeginDestroy
  <2>2. CASE BeginClean(t)
    BY <1>7, <2>2 DEF BeginClean
  <2>3. CASE BeginChange(t)
    BY <1>7, <2>3 DEF BeginChange
  <2> QED
    BY <1>7, <2>1, <2>2, <2>3
<1>8. ASSUME NEW t \in Thread, Destroy(t), UNCHANGED alive PROVE TypeOK'
  BY <1>8 DEF Destroy
<1>9. ASSUME NEW t \in Thread, Clean(t), UNCHANGED alive PROVE TypeOK'
  BY <1>9 DEF Clean
<1>10. ASSUME NEW t \in Thread, EndRequest(t), UNCHANGED alive PROVE TypeOK'
  BY <1>10 DEF EndRequest
<1>11. ASSUME NEW t \in Thread, NEW v \in Value, SetValue(t, v) \/ RemoveValue(t, v),
              UNCHANGED alive
       PROVE  TypeOK'
  <2>1. data' \in [Session -> SUBSET Value]
    BY <1>11 DEF SetValue, RemoveValue
  <2>2. CASE SetValue(t, v)
    BY <2>1, <2>2, <1>11 DEF SetValue
  <2>3. CASE RemoveValue(t, v)
    BY <2>1, <2>3, <1>11 DEF RemoveValue
  <2> QED
    BY <1>11, <2>2, <2>3
<1>12. ASSUME NEW t \in Thread, NEW i \in SessionId \cup {NoId}, BeginRequest(t, i),
              UNCHANGED alive
       PROVE  TypeOK'
  BY <1>12 DEF BeginRequest
<1>13. ASSUME NEW t \in Thread, BeginDraw(t), UNCHANGED alive PROVE TypeOK'
  BY <1>13 DEF BeginDraw
<1>14. CASE Tick /\ UNCHANGED alive
  <2>1. now' \in 0..MaxTime
    BY <1>14, SessionAssumption DEF Tick
  <2> QED
    BY <1>14, <2>1 DEF Tick
<1>15. CASE DataRace \/ \E t \in Thread : DereferenceNull(t)
  BY <1>15 DEF DataRace, DereferenceNull
<1>16. CASE UNCHANGED vars
  BY <1>16 DEF vars
<1> QED
  BY StepCases, <1>1, <1>2, <1>3, <1>4, <1>5, <1>6, <1>7, <1>8, <1>9, <1>10, <1>11, <1>12,
     <1>13, <1>14, <1>15, <1>16

\* Every reachable state is well typed; a handler always has a session.
THEOREM SessionTypeCorrect == Spec => []TypeOK
<1>1. ASSUME Init PROVE TypeOK
  <2>1. Made = {}
    BY <1>1 DEF Init, Made
  <2>2. now \in 0..MaxTime /\ id \in [Session -> Nat \cup {NoId}]
    BY <1>1, SessionAssumption DEF Init
  <2>3. \A t \in Thread : pc[t] = "idle" /\ held[t] = NoSession
    BY <1>1 DEF Init
  <2>4. pc \in [Thread -> PC] /\ held \in [Thread -> Made \cup {NoSession}]
    BY <1>1 DEF Init, PC
  <2> QED
    <3>1. \A t \in Thread : pc[t] \notin Saving \cup {"check", "handler", "change", "destroy", "clean",
                                                   "remove", "load", "null"}
      BY <2>3 DEF Saving
    <3>2. /\ rng \in Nat /\ sessions \subseteq Made /\ destroyed \subseteq Nat
          /\ overlapped \in BOOLEAN /\ alive \in BOOLEAN
      BY <1>1 DEF Init
    <3>3. /\ maxAge \in [Session -> Int] /\ expiry \in [Session -> Int]
          /\ data \in [Session -> SUBSET Value]
          /\ drawn \in [Thread -> Nat] /\ cookie \in [Thread -> SessionId \cup {NoId}]
      BY <1>1 DEF Init
    <3> QED
      BY <2>2, <2>3, <2>4, <3>1, <3>2, <3>3 DEF TypeOK
<1> QED
  BY <1>1, TypeStep, PTL DEF Spec

---------------------------------------------------------------------------
(* As long as no two draws have overlapped, the generator never goes back: *)
(* the one thread that is drawing holds its position, and every id of a    *)
(* session is behind it.                                                   *)
IdsAreBehind ==
    ~overlapped =>
        /\ \A t, u \in Thread : At(t, "draw") /\ At(u, "draw") => t = u
        /\ \A t \in Thread : At(t, "draw") => drawn[t] = rng
        /\ \A s \in Made : id[s] < rng

\* Every step keeps that: only the end of a draw moves the generator.
LEMMA IdsAreBehindStep == TypeOK /\ IdsAreBehind /\ [Next]_vars => IdsAreBehind'
<1> SUFFICES ASSUME TypeOK, IdsAreBehind, [Next]_vars, ~overlapped'
             PROVE  IdsAreBehind'
  BY DEF IdsAreBehind
<1> USE DEF TypeOK, GoTo, At
<1>1. ASSUME NEW t \in Thread, NEW s \in Session, NEW age \in Lifetime, CreateSession(t, s, age)
      PROVE  IdsAreBehind'
  <2>1. ~overlapped /\ drawn[t] = rng /\ rng' = rng + 1
    BY <1>1 DEF CreateSession, IdsAreBehind, Advanced
  <2>2. \A u \in Thread : pc'[u] # "draw"
    BY <1>1, <2>1 DEF CreateSession, IdsAreBehind
  <2>3. \A x \in Made' : id'[x] < rng'
    <3> SUFFICES ASSUME NEW x \in Made' PROVE id'[x] < rng'
      OBVIOUS
    <3>1. CASE x = s
      BY <1>1, <2>1, <3>1 DEF CreateSession
    <3>2. CASE x # s
      <4>1. x \in Made /\ id'[x] = id[x]
        BY <1>1, <3>2 DEF CreateSession, Made
      <4>2. id[x] \in Nat /\ id[x] < rng
        BY <2>1, <4>1 DEF Made, IdsAreBehind
      <4> QED
        BY <2>1, <4>1, <4>2
    <3> QED
      BY <3>1, <3>2
  <2> QED
    BY <2>2, <2>3 DEF IdsAreBehind
<1>2. ASSUME NEW t \in Thread, BeginDraw(t) PROVE IdsAreBehind'
  <2>1. ~overlapped /\ \A u \in Thread : pc[u] # "draw"
    BY <1>2 DEF BeginDraw
  <2>2. \A u \in Thread : pc'[u] = "draw" => u = t
    BY <1>2, <2>1 DEF BeginDraw
  <2>3. drawn'[t] = rng' /\ rng' = rng /\ id' = id
    BY <1>2 DEF BeginDraw, object
  <2> QED
    BY <2>1, <2>2, <2>3 DEF IdsAreBehind, Made
<1>3. CASE /\ UNCHANGED <<generator, id>>
           /\ \A t \in Thread : pc'[t] = "draw" => pc[t] = "draw"
  BY <1>3 DEF IdsAreBehind, Made, generator
<1>4. ASSUME NEW t \in Thread,
             \/ Load(t) \/ CheckExpired(t) \/ RemoveExpiredSession(t) \/ Save(t)
             \/ BeginChange(t) \/ Clear(t) \/ BeginDestroy(t) \/ Destroy(t) \/ BeginClean(t)
             \/ Clean(t) \/ EndRequest(t)
      PROVE  IdsAreBehind'
  BY <1>3, <1>4 DEF Load, CheckExpired, RemoveExpiredSession, Save, BeginChange, Clear,
     BeginDestroy, Destroy, BeginClean, Clean, EndRequest, object
<1>5. ASSUME NEW t \in Thread, NEW v \in Value, SetValue(t, v) \/ RemoveValue(t, v)
      PROVE  IdsAreBehind'
  BY <1>3, <1>5 DEF SetValue, RemoveValue
<1>6. ASSUME NEW t \in Thread, NEW i \in SessionId \cup {NoId}, BeginRequest(t, i)
      PROVE  IdsAreBehind'
  BY <1>3, <1>6 DEF BeginRequest, object
<1>7. CASE UNCHANGED <<generator, id, pc>>
  BY <1>3, <1>7
<1> QED
  BY StepCases, <1>1, <1>2, <1>4, <1>5, <1>6, <1>7 DEF Tick, DereferenceNull, DataRace, vars, object

---------------------------------------------------------------------------
\* A session that is held without a cookie that names its id is held by the
\* one thread whose request created it: its id was behind nobody's then, unless
\* two threads drew at once (SessionManager.cpp:94), and another thread can
\* only have it from the map, by that id.
THEOREM NoForeignSessionCorrect == Spec => []NoForeignSession
<1> DEFINE Inv == IdsAreBehind /\ NoForeignSession
<1>1. Init => Inv
  BY SessionAssumption DEF Init, IdsAreBehind, NoForeignSession, At, Made
<1>2. TypeOK /\ Inv /\ [Next]_vars => Inv'
  <2> SUFFICES ASSUME TypeOK, IdsAreBehind, NoForeignSession, [Next]_vars, ~overlapped'
               PROVE  NoForeignSession'
    BY IdsAreBehindStep DEF NoForeignSession
  <2>1. ASSUME NEW t \in Thread, NEW s \in Session, NEW age \in Lifetime, CreateSession(t, s, age)
        PROVE  NoForeignSession'
    <3>1. ~overlapped /\ drawn[t] = rng /\ rng \in Nat
      BY <2>1 DEF CreateSession, IdsAreBehind, TypeOK
    <3>2. ASSUME NEW u \in Thread, u # t, held[u] # NoSession
          PROVE  held'[u] = held[u] /\ id'[held[u]] = id[held[u]] /\ id[held[u]] # rng
      <4>1. held[u] \in Made
        BY <3>2 DEF TypeOK
      <4>2. id[held[u]] \in Nat /\ id[held[u]] < rng
        BY <3>1, <4>1 DEF IdsAreBehind, Made, TypeOK
      <4>3. held[u] # s
        BY <2>1, <4>1 DEF CreateSession, Made
      <4> QED
        BY <2>1, <3>1, <3>2, <4>1, <4>2, <4>3 DEF CreateSession, TypeOK, Made
    <3>3. held'[t] = s /\ id'[s] = rng /\ cookie' = cookie
      BY <2>1, <3>1 DEF CreateSession, TypeOK
    <3> SUFFICES ASSUME NEW u \in Thread, NEW w \in Thread, u # w,
                        held'[u] # NoSession, held'[w] # NoSession,
                        id'[held'[u]] = id'[held'[w]]
                 PROVE  cookie'[u] = id'[held'[u]] \/ cookie'[w] = id'[held'[w]]
      BY DEF NoForeignSession
    <3>4. held'[u] = held[u] \/ u = t
      BY <2>1 DEF CreateSession, TypeOK
    <3>5. held'[w] = held[w] \/ w = t
      BY <2>1 DEF CreateSession, TypeOK
    <3>6. u # t /\ w # t
      BY <3>2, <3>3, <3>4, <3>5
    <3> QED
      BY <3>1, <3>2, <3>3, <3>4, <3>5, <3>6 DEF NoForeignSession
  <2>2. ASSUME NEW t \in Thread, Load(t) PROVE NoForeignSession'
    BY <2>2 DEF Load, NoForeignSession, TypeOK, Of, generator, object
  <2>3. ASSUME NEW t \in Thread, RemoveExpiredSession(t) \/ EndRequest(t) PROVE NoForeignSession'
    BY <2>3 DEF RemoveExpiredSession, EndRequest, NoForeignSession, TypeOK, generator, object
  <2>4. ASSUME NEW t \in Thread, NEW i \in SessionId \cup {NoId}, BeginRequest(t, i)
        PROVE  NoForeignSession'
    BY <2>4 DEF BeginRequest, At, NoForeignSession, TypeOK, generator, object
  <2>5. ASSUME NEW t \in Thread, BeginDraw(t) PROVE NoForeignSession'
    BY <2>5 DEF BeginDraw, NoForeignSession, request, object
  <2>6. CASE UNCHANGED <<request, overlapped, id>>
    BY <2>6 DEF request, NoForeignSession
  <2> QED
    BY StepCases, <2>1, <2>2, <2>3, <2>4, <2>5, <2>6 DEF CheckExpired, Save, BeginChange, Clear,
       BeginDestroy, Destroy, BeginClean, Clean, SetValue, RemoveValue, Tick, DereferenceNull,
       DataRace, vars, request, generator, object
<1>3. Inv => NoForeignSession
  OBVIOUS
<1> QED
  BY <1>1, <1>2, <1>3, SessionTypeCorrect, PTL DEF Spec

\* save is the only thing that puts a session into the map, and it saves the
\* session its thread holds (SessionStorage.cpp:12).
THEOREM DestroyedStaysAwayCorrect == Spec => DestroyedStaysAway
<1>1. TypeOK /\ [Next]_vars =>
        [\A i \in destroyed :
          (Of(i) = {} /\ \A t \in Thread : ~Holds(t, i)) => Of(i)' = {}]_vars
  <2> SUFFICES ASSUME TypeOK, [Next]_vars, NEW i \in destroyed, Of(i) = {},
                      \A t \in Thread : ~Holds(t, i)
               PROVE  {s \in sessions' : id'[s] = i} = {}
    BY DEF Of
  <2>1. ASSUME NEW t \in Thread, Save(t) PROVE {s \in sessions' : id'[s] = i} = {}
    BY <2>1 DEF Save, Of, Holds, TypeOK, object, Saving
  <2>2. ASSUME NEW t \in Thread, NEW s \in Session, NEW age \in Lifetime, CreateSession(t, s, age)
        PROVE  {x \in sessions' : id'[x] = i} = {}
    <3>1. s \notin sessions /\ sessions' = sessions /\ sessions \subseteq Session
      BY <2>2 DEF CreateSession, TypeOK, Made
    <3>2. \A x \in sessions : id'[x] = id[x]
      BY <2>2, <3>1 DEF CreateSession, TypeOK
    <3> QED
      BY <3>1, <3>2 DEF Of
  <2>3. CASE sessions' \subseteq sessions /\ id' = id
    BY <2>3 DEF Of
  <2> QED
    BY StepCases, <2>1, <2>2, <2>3 DEF Load, CheckExpired, RemoveExpiredSession, BeginDraw,
       BeginChange, Clear, BeginDestroy, Destroy, BeginClean, Clean, EndRequest, SetValue,
       RemoveValue, BeginRequest, Tick, DereferenceNull, DataRace, vars, object
<1> QED
  BY <1>1, SessionTypeCorrect, PTL DEF Spec, DestroyedStaysAway
===========================================================================

------------------------ MODULE GomokuServer_proofs ------------------------
(***************************************************************************)
(* Proofs about GomokuServer and its pool, for any number of threads and   *)
(* any finite set of users.                                                *)
(***************************************************************************)
EXTENDS GomokuServer, FiniteSetTheorems, TLAPS

\* How many are online is a number between none and all.
LEMMA OnlineCount ==
    ASSUME NEW S \in SUBSET User
    PROVE  Cardinality(S) \in 0..Cardinality(User)
<1>1. Cardinality(User) \in Nat
  BY UserAssumption, FS_CardinalityType
<1>2. IsFiniteSet(S) /\ Cardinality(S) <= Cardinality(User)
  BY UserAssumption, FS_Subset
<1>3. Cardinality(S) \in Nat
  BY <1>2, FS_CardinalityType
<1> QED
  BY <1>1, <1>2, <1>3

\* The handlers that requests are routed to.
LEMMA RoutesType ==
    ASSUME NEW path \in DOMAIN Routes
    PROVE  Routes[path] \in {"LoginHandler", "restartChessGameVsAi", "getBackendData"}
BY DEF Routes

LEMMA InitTypes == Init => TypeOK
<1> SUFFICES ASSUME Init PROVE TypeOK
  OBVIOUS
<1>1. Cardinality({}) \in 0..Cardinality(User) /\ Cardinality({}) = 0
  BY OnlineCount, FS_EmptySet
<1>2. PoolTypeOK
  BY DEF Init, PoolInit, PoolTypeOK, Opened, Initialized, DbState
<1>3. pc \in [Thread -> PC]
  BY DEF Init, PC
<1> QED
  BY <1>1, <1>2, <1>3 DEF Init, TypeOK

LEMMA TypeStep == TypeOK /\ [Next]_vars => TypeOK'
<1> SUFFICES ASSUME TypeOK, [Next]_vars PROVE TypeOK'
  OBVIOUS
<1> USE DEF TypeOK, PoolTypeOK, poolVars, online, max, GoTo, Respond, ForgetCount
<1>0. 0 \in 0..Cardinality(User) /\ Cardinality(onlineUsers) \in 0..Cardinality(User)
  <2>1. Cardinality({}) = 0 /\ Cardinality({}) \in 0..Cardinality(User)
    BY OnlineCount, FS_EmptySet
  <2> QED
    BY <2>1, OnlineCount
<1>1. ASSUME NEW t \in Thread, NEW path \in DOMAIN Routes, NEW u \in User, Receive(t, path, u)
      PROVE  TypeOK'
  <2>1. Routes[path] \in PC /\ Routes[path] # "idle" /\ u # NoUser
    BY RoutesType, UserAssumption DEF PC, Handler
  <2> QED
    BY <1>1, <2>1 DEF Receive
<1>2. ASSUME NEW t \in Thread, ChangeOnline(t) PROVE TypeOK'
  <2>1. "count" \in PC /\ user[t] \in User
    BY <1>2 DEF ChangeOnline, PC
  <2> QED
    BY <1>2, <2>1 DEF ChangeOnline
<1>3. ASSUME NEW t \in Thread, GetCurOnline(t) PROVE TypeOK'
  <2>1. "load" \in PC /\ "max" \in PC
    BY DEF PC
  <2> QED
    BY <1>0, <1>3, <2>1 DEF GetCurOnline
<1>4. ASSUME NEW t \in Thread, LoadMax(t) PROVE TypeOK'
  <2>1. "store" \in PC
    BY DEF PC
  <2> QED
    BY <1>4, <2>1 DEF LoadMax
<1>5. ASSUME NEW t \in Thread, StoreMax(t) PROVE TypeOK'
  <2>1. "idle" \in PC
    BY DEF PC
  <2>2. maxOnline' \in 0..Cardinality(User) /\ overtaken' \in BOOLEAN
    BY <1>5 DEF StoreMax
  <2>3. /\ count' \in [Thread -> 0..Cardinality(User)]
        /\ seen' \in [Thread -> 0..Cardinality(User)]
    BY <1>0, <1>5 DEF StoreMax
  <2> QED
    BY <1>5, <2>1, <2>2, <2>3 DEF StoreMax
<1>6. ASSUME NEW t \in Thread, CheckSession(t) PROVE TypeOK'
  <2>1. "idle" \in PC /\ "lock" \in PC
    BY DEF PC
  <2> QED
    BY <1>6, <2>1 DEF CheckSession
<1>7. ASSUME NEW t \in Thread, LockGames(t) PROVE TypeOK'
  <2>1. "erase" \in PC
    BY DEF PC
  <2> QED
    BY <1>7, <2>1 DEF LockGames
<1>8. ASSUME NEW t \in Thread, EraseGame(t) \/ InsertGame(t) PROVE TypeOK'
  <2>1. "insert" \in PC /\ "idle" \in PC /\ user[t] \in User
    BY <1>8 DEF EraseGame, InsertGame, PC
  <2> QED
    BY <1>8, <2>1 DEF EraseGame, InsertGame
<1>9. ASSUME NEW t \in Thread, GetMaxOnline(t) PROVE TypeOK'
  <2>1. "pool" \in PC /\ "asks" \in DbState
    BY DEF PC, DbState
  <2> QED
    BY <1>9, <2>1 DEF GetMaxOnline, Ask
<1>10. ASSUME NEW t \in Thread, GetConnection(t) PROVE TypeOK'
  <2>1. {"locked", "got", "waits", "threw"} \subseteq DbState
    BY DEF DbState
  <2>2. CASE LockPool(t)
    BY <1>10, <2>1, <2>2 DEF GetConnection, LockPool
  <2>3. CASE Look(t)
    <3>1. connections' \in Nat
      BY <2>3 DEF Look
    <3> QED
      BY <1>10, <2>1, <2>3, <3>1 DEF GetConnection, Look
  <2> QED
    BY <1>10, <2>2, <2>3 DEF GetConnection
<1>11. ASSUME NEW t \in Thread, AnswerBackend(t) PROVE TypeOK'
  <2>1. "idle" \in PC /\ "out" \in DbState
    BY DEF PC, DbState
  <2> QED
    BY <1>11, <2>1 DEF AnswerBackend
<1>12. CASE CheckerStep
  BY <1>12 DEF CheckerStep, CheckerLocks, CheckerWakes
<1>13. CASE UNCHANGED vars
  BY <1>13 DEF vars
<1> QED
  BY <1>1, <1>2, <1>3, <1>4, <1>5, <1>6, <1>7, <1>8, <1>9, <1>10, <1>11, <1>12, <1>13
     DEF Next, HandlerStep

\* The types of GomokuServer and of its pool.
THEOREM GomokuTypeCorrect == Spec => []TypeOK
BY InitTypes, TypeStep, PTL DEF Spec

---------------------------------------------------------------------------
(* Restarts.                                                               *)

\* A thread in aiGames_ has the mutex of the online users.
HoldsMutex == \A t \in Thread : pc[t] \in {"erase", "insert"} => usersMutex = t

LEMMA MutexStep == TypeOK /\ HoldsMutex /\ [Next]_vars => HoldsMutex'
<1> SUFFICES ASSUME TypeOK, HoldsMutex, [Next]_vars PROVE HoldsMutex'
  OBVIOUS
<1> USE DEF HoldsMutex, TypeOK, GoTo, Respond, online
<1>1. ASSUME NEW t \in Thread, NEW path \in DOMAIN Routes, NEW u \in User, Receive(t, path, u)
      PROVE  HoldsMutex'
  BY <1>1, RoutesType DEF Receive
<1>2. ASSUME NEW t \in Thread, LockGames(t) PROVE HoldsMutex'
  <2>1. \A o \in Thread : pc[o] \notin {"erase", "insert"}
    BY <1>2, PoolAssumption DEF LockGames
  <2> QED
    BY <1>2, <2>1 DEF LockGames
<1>3. ASSUME NEW t \in Thread, EraseGame(t) PROVE HoldsMutex'
  BY <1>3 DEF EraseGame
<1>4. ASSUME NEW t \in Thread, InsertGame(t) PROVE HoldsMutex'
  <2>1. \A o \in Thread : o # t => pc[o] \notin {"erase", "insert"}
    BY <1>4 DEF InsertGame
  <2> QED
    BY <1>4, <2>1 DEF InsertGame
<1>5. ASSUME NEW t \in Thread, ChangeOnline(t) \/ GetCurOnline(t) \/ LoadMax(t) PROVE HoldsMutex'
  BY <1>5 DEF ChangeOnline, GetCurOnline, LoadMax
<1>6. ASSUME NEW t \in Thread, StoreMax(t) \/ CheckSession(t) \/ GetMaxOnline(t) PROVE HoldsMutex'
  BY <1>6 DEF StoreMax, CheckSession, GetMaxOnline
<1>7. ASSUME NEW t \in Thread, GetConnection(t) \/ AnswerBackend(t) PROVE HoldsMutex'
  BY <1>7 DEF GetConnection, AnswerBackend
<1> QED
  BY <1>1, <1>2, <1>3, <1>4, <1>5, <1>6, <1>7 DEF Next, HandlerStep, CheckerStep, vars

\* Two restarts are never in aiGames_ at once (GomokuServer.cpp 117-123).
THEOREM RestartsExcludeCorrect == Spec => []RestartsExclude
<1>1. Init => HoldsMutex
  BY DEF Init, HoldsMutex
<1>2. HoldsMutex => RestartsExclude
  BY DEF HoldsMutex, RestartsExclude
<1> QED
  BY <1>1, <1>2, MutexStep, GomokuTypeCorrect, PTL DEF Spec

---------------------------------------------------------------------------
(* Who is online.                                                          *)

\* Some login will still bring the maximum up to the users that are online.
Covers(t) ==
    \/ pc[t] = "count"
    \/ pc[t] \in {"load", "store"} /\ Cardinality(onlineUsers) <= count[t]

\* Unless a store was overtaken, the maximum covers them or will: the last
\* thread that changed onlineUsers_ has not stored, or has stored enough.
CoversInv ==
    \/ overtaken
    \/ Cardinality(onlineUsers) <= maxOnline
    \/ \E t \in Thread : Covers(t)

LEMMA CoversStep == TypeOK /\ CoversInv /\ [Next]_vars => CoversInv'
<1> SUFFICES ASSUME TypeOK, CoversInv, [Next]_vars PROVE CoversInv'
  OBVIOUS
<1> DEFINE n == Cardinality(onlineUsers)
<1>0. /\ n \in Nat /\ Cardinality(User) \in Nat /\ maxOnline \in Nat
      /\ \A t \in Thread : count[t] \in Nat /\ seen[t] \in Nat
  <2>1. n \in 0..Cardinality(User)
    BY OnlineCount DEF TypeOK
  <2>2. Cardinality(User) \in Nat
    BY UserAssumption, FS_CardinalityType
  <2>3. maxOnline \in 0..Cardinality(User)
        /\ \A t \in Thread : count[t] \in 0..Cardinality(User) /\ seen[t] \in 0..Cardinality(User)
    BY DEF TypeOK
  <2> QED
    BY <2>1, <2>2, <2>3
<1>1. ASSUME NEW t \in Thread, ChangeOnline(t) PROVE CoversInv'
  <2>1. pc'[t] = "count"
    BY <1>1 DEF ChangeOnline, GoTo, TypeOK
  <2> QED
    BY <2>1 DEF CoversInv, Covers
<1>2. ASSUME NEW t \in Thread, GoTo(t, "count", "load"),
             count' = [count EXCEPT ![t] = Cardinality(onlineUsers)], GetCurOnline(t)
      PROVE  CoversInv'
  <2>1. pc'[t] = "load" /\ count'[t] = n /\ onlineUsers' = onlineUsers
    BY <1>2 DEF GetCurOnline, GoTo, TypeOK, online
  <2> QED
    BY <1>0, <2>1 DEF CoversInv, Covers
<1>3. ASSUME NEW t \in Thread, StoreMax(t) PROVE CoversInv'
  <2>1. /\ onlineUsers' = onlineUsers
        /\ maxOnline' >= seen[t] /\ maxOnline' >= count[t] /\ maxOnline' \in Nat
        /\ overtaken' = (overtaken \/ maxOnline # seen[t])
    BY <1>0, <1>3 DEF StoreMax, online
  <2>2. \A o \in Thread : o # t /\ Covers(o) => Covers(o)'
    BY <1>3, <2>1 DEF StoreMax, Respond, GoTo, ForgetCount, Covers, TypeOK
  <2>3. pc[t] = "store"
    BY <1>3 DEF StoreMax, Respond, GoTo
  <2>4. CASE overtaken \/ maxOnline # seen[t]
    BY <2>1, <2>4 DEF CoversInv
  <2>5. CASE n <= maxOnline /\ maxOnline = seen[t]
    BY <1>0, <2>1, <2>5 DEF CoversInv
  <2>6. CASE \E o \in Thread : Covers(o)
    <3>1. PICK o \in Thread : Covers(o)
      BY <2>6
    <3>2. CASE o = t
      BY <1>0, <2>1, <2>3, <3>1, <3>2 DEF CoversInv, Covers
    <3> QED
      BY <2>2, <3>1, <3>2 DEF CoversInv
  <2> QED
    BY <2>4, <2>5, <2>6 DEF CoversInv
<1>4. ASSUME UNCHANGED <<onlineUsers, maxOnline, overtaken>>,
             \A t \in Thread : Covers(t) => Covers(t)'
      PROVE  CoversInv'
  BY <1>4 DEF CoversInv
<1>5. ASSUME NEW t \in Thread, LoadMax(t) PROVE CoversInv'
  <2>1. \A o \in Thread : Covers(o) => Covers(o)'
    BY <1>5 DEF LoadMax, GoTo, Covers, TypeOK, online
  <2> QED
    BY <1>4, <1>5, <2>1 DEF LoadMax, online
<1>6. ASSUME NEW t \in Thread, NEW from, NEW to, GoTo(t, from, to),
             from \notin {"count", "load", "store"}, UNCHANGED <<onlineUsers, max>>
      PROVE  CoversInv'
  <2>1. \A o \in Thread : Covers(o) => Covers(o)'
    BY <1>6 DEF GoTo, Covers, TypeOK, max
  <2> QED
    BY <1>4, <1>6, <2>1 DEF max
<1>7. ASSUME UNCHANGED <<pc, onlineUsers, max>> PROVE CoversInv'
  BY <1>4, <1>7 DEF Covers, max
<1>8. ASSUME NEW t \in Thread, NEW path \in DOMAIN Routes, NEW u \in User, Receive(t, path, u)
      PROVE  CoversInv'
  BY <1>6, <1>8 DEF Receive, online
<1>9. ASSUME NEW t \in Thread, GetCurOnline(t) PROVE CoversInv'
  <2>1. CASE GoTo(t, "getBackendData", "max") /\ UNCHANGED count
    BY <1>6, <1>9, <2>1 DEF GetCurOnline, online, max
  <2> QED
    BY <1>2, <1>9, <2>1 DEF GetCurOnline
<1>10. ASSUME NEW t \in Thread, CheckSession(t) \/ LockGames(t) \/ EraseGame(t) \/ InsertGame(t)
       PROVE  CoversInv'
  BY <1>6, <1>10 DEF CheckSession, LockGames, EraseGame, InsertGame, Respond, online
<1>11. ASSUME NEW t \in Thread, GetMaxOnline(t) \/ AnswerBackend(t) PROVE CoversInv'
  BY <1>6, <1>11 DEF GetMaxOnline, AnswerBackend, Respond, online
<1>12. ASSUME NEW t \in Thread, GetConnection(t) PROVE CoversInv'
  BY <1>7, <1>12 DEF GetConnection, online
<1>13. CASE CheckerStep \/ UNCHANGED vars
  BY <1>7, <1>13 DEF CheckerStep, vars, online, max
<1> QED
  BY <1>1, <1>3, <1>5, <1>8, <1>9, <1>10, <1>11, <1>12, <1>13 DEF Next, HandlerStep

\* The maximum is too small only while a login is on its way, or after a
\* store that was overtaken between load and store (GomokuServer.cpp 236).
THEOREM MaxCoversOnlineCorrect == Spec => []MaxCoversOnline
<1>1. Init => CoversInv
  BY FS_EmptySet DEF Init, CoversInv
<1>2. CoversInv => MaxCoversOnline
  BY DEF CoversInv, Covers, MaxCoversOnline, LoginUnderWay
<1> QED
  BY <1>1, <1>2, CoversStep, GomokuTypeCorrect, PTL DEF Spec
=============================================================================

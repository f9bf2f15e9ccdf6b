---------------------------- MODULE GomokuServer ----------------------------
(***************************************************************************)
(* GomokuServer: the routes, the two handlers that are members, and the    *)
(* state the handlers of all IO threads share: who is online, the maximum  *)
(* of that, and who has a game against the AI.                             *)
(*                                                                         *)
(* LoginHandler and LogoutHandler are external: of the handlers that are   *)
(* friends of this class they are the two its members serve, with          *)
(* onlineUsers_ under its mutex and updateMaxOnline(getCurOnline()).  What *)
(* the other external handlers do to this state is unknown, and left out.  *)
(*                                                                         *)
(* The file does not compile as it stands: k2000k (line 130), a ';' that   *)
(* is missing (153), setConntentType (181) and a mutex locked in a const   *)
(* function (230) are read as what they must mean.                         *)
(***************************************************************************)
EXTENDS DbConnectionPool, FiniteSets

CONSTANTS User, NoUser

ASSUME UserAssumption == IsFiniteSet(User) /\ NoUser \notin User

VARIABLES
    pc,          \* where the thread of a request is
    user,        \* the user of the request
    onlineUsers, \* onlineUsers_
    usersMutex,  \* who has mutexForOnlineUsers_
    maxOnline,   \* maxOnline_
    count, seen, \* the argument of updateMaxOnline, and what load() gave
    overtaken,   \* a store met a value its load had not seen (history)
    aiGames      \* the users with a game in aiGames_

vars == <<poolVars, pc, user, onlineUsers, usersMutex, maxOnline, count, seen, overtaken,
          aiGames>>
online == <<onlineUsers, usersMutex>>
max    == <<maxOnline, count, seen, overtaken>>

Handler == {"EntryHandler", "LoginHandler", "LogoutHandler", "RegisterHandler",
            "MenuHandler", "AiGameStartHandler", "AiGameMoveHandler",
            "GameBackendHandler", "restartChessGameVsAi", "getBackendData"}

\* initializeRouter, the paths whose handlers touch the shared state.
Routes == [path \in {"/login", "/user/logout", "/aiBot/restart", "/backend_data"} |->
    CASE path \in {"/login", "/user/logout"} -> "LoginHandler"
      [] path = "/aiBot/restart" -> "restartChessGameVsAi"
      [] path = "/backend_data" -> "getBackendData"]

PC == Handler \cup {"idle", "count", "load", "store",
                    "lock", "erase", "insert", "max", "pool"}

Init ==
    /\ PoolInit
    /\ pc = [t \in Thread |-> "idle"]
    /\ user = [t \in Thread |-> NoUser]
    /\ onlineUsers = {}
    /\ usersMutex = NoOwner
    /\ maxOnline = 0
    /\ count = [t \in Thread |-> 0]
    /\ seen = [t \in Thread |-> 0]
    /\ overtaken = FALSE
    /\ aiGames = {}

GoTo(t, from, to) ==
    /\ pc[t] = from
    /\ pc' = [pc EXCEPT ![t] = to]

Respond(t, from) ==
    /\ GoTo(t, from, "idle")
    /\ user' = [user EXCEPT ![t] = NoUser]

\* handleRequest finds the handler of the path, for a request of user u.
Receive(t, path, u) ==
    /\ GoTo(t, "idle", Routes[path])
    /\ user' = [user EXCEPT ![t] = u]
    /\ UNCHANGED <<poolVars, online, max, aiGames>>

---------------------------------------------------------------------------
(* LoginHandler and LogoutHandler (external), and updateMaxOnline.         *)

ChangeOnline(t) ==
    /\ pc[t] \in {"LoginHandler", "LogoutHandler"}
    /\ GoTo(t, pc[t], "count")
    /\ usersMutex = NoOwner
    /\ onlineUsers' = IF pc[t] = "LoginHandler" THEN onlineUsers \cup {user[t]}
                                                ELSE onlineUsers \ {user[t]}
    /\ UNCHANGED <<poolVars, user, usersMutex, max, aiGames>>

\* getCurOnline, for updateMaxOnline and for the backend.
GetCurOnline(t) ==
    /\ \/ GoTo(t, "count", "load") /\ count' = [count EXCEPT ![t] = Cardinality(onlineUsers)]
       \/ GoTo(t, "getBackendData", "max") /\ UNCHANGED count
    /\ usersMutex = NoOwner
    /\ UNCHANGED <<poolVars, user, online, maxOnline, seen, overtaken, aiGames>>

\* maxOnline_.load()
LoadMax(t) ==
    /\ GoTo(t, "load", "store")
    /\ seen' = [seen EXCEPT ![t] = maxOnline]
    /\ UNCHANGED <<poolVars, user, online, maxOnline, count, overtaken, aiGames>>

\* The end of updateMaxOnline, and of its local values.
ForgetCount(t) ==
    /\ count' = [count EXCEPT ![t] = 0]
    /\ seen' = [seen EXCEPT ![t] = 0]

\* Bug: the count is stored as it is.
StoreCount(t) ==
    /\ Respond(t, "store")
    /\ maxOnline' = count[t]
    /\ overtaken' = (overtaken \/ maxOnline # seen[t])
    /\ ForgetCount(t)
    /\ UNCHANGED <<poolVars, online, aiGames>>

\* Bug: the user who logs in is counted once more.
StoreOneMore(t) ==
    /\ Respond(t, "store")
    /\ maxOnline' = IF seen[t] > count[t] THEN seen[t] ELSE count[t] + 1
    /\ overtaken' = (overtaken \/ maxOnline # seen[t])
    /\ ForgetCount(t)
    /\ UNCHANGED <<poolVars, online, aiGames>>

\* maxOnline_ = std::max(...)
StoreMax(t) ==
    /\ Respond(t, "store")
    /\ maxOnline' = IF seen[t] > count[t] THEN seen[t] ELSE count[t]
    /\ overtaken' = (overtaken \/ maxOnline # seen[t])
    /\ ForgetCount(t)
    /\ UNCHANGED <<poolVars, online, aiGames>>

---------------------------------------------------------------------------
(* restartChessGameVsAi.                                                   *)

\* isLoggedIN is not "true", 401, or std::stoi throws on the userId, which
\* handleRequest answers with 500; else the game is restarted.
CheckSession(t) ==
    /\ \/ Respond(t, "restartChessGameVsAi")
       \/ GoTo(t, "restartChessGameVsAi", "lock") /\ UNCHANGED user
    /\ UNCHANGED <<poolVars, online, max, aiGames>>

\* Bug: no lock is taken.
EnterGames(t) ==
    /\ GoTo(t, "lock", "erase")
    /\ UNCHANGED <<poolVars, user, onlineUsers, usersMutex, max, aiGames>>

\* The mutex it takes is that of the online users.
LockGames(t) ==
    /\ GoTo(t, "lock", "erase")
    /\ usersMutex = NoOwner
    /\ usersMutex' = t
    /\ UNCHANGED <<poolVars, user, onlineUsers, max, aiGames>>

\* An old game, if there is one, goes.
EraseGame(t) ==
    /\ GoTo(t, "erase", "insert")
    /\ aiGames' = aiGames \ {user[t]}
    /\ UNCHANGED <<poolVars, user, online, max>>

\* aiGames_[userId] = a new game; the lock's scope ends.
InsertGame(t) ==
    /\ Respond(t, "insert")
    /\ aiGames' = aiGames \cup {user[t]}
    /\ usersMutex' = NoOwner
    /\ UNCHANGED <<poolVars, onlineUsers, max>>

---------------------------------------------------------------------------
(* getBackendData, after getCurOnline.                                     *)

\* getMaxOnline; getUserCount asks for a connection.
GetMaxOnline(t) ==
    /\ GoTo(t, "max", "pool")
    /\ Ask(t)
    /\ UNCHANGED <<user, online, max, aiGames>>

GetConnection(t) ==
    /\ LockPool(t) \/ Look(t)
    /\ UNCHANGED <<pc, user, online, max, aiGames>>

\* With a connection the query gives a count; an exception is caught: 500.
AnswerBackend(t) ==
    /\ db[t] \in {"got", "threw"}
    /\ Respond(t, "pool")
    /\ db' = [db EXCEPT ![t] = "out"]
    /\ UNCHANGED <<connections, initialized, mutex, online, max, aiGames>>

---------------------------------------------------------------------------
CheckerStep ==
    /\ CheckerLocks \/ CheckerWakes
    /\ UNCHANGED <<pc, user, online, max, aiGames>>

HandlerStep(t) ==
    \/ ChangeOnline(t) \/ GetCurOnline(t) \/ LoadMax(t) \/ StoreMax(t)
    \/ CheckSession(t) \/ LockGames(t) \/ EraseGame(t) \/ InsertGame(t)
    \/ GetMaxOnline(t) \/ GetConnection(t) \/ AnswerBackend(t)

Next ==
    \/ \E t \in Thread, path \in DOMAIN Routes, u \in User : Receive(t, path, u)
    \/ \E t \in Thread : HandlerStep(t)
    \/ CheckerStep

Spec == Init /\ [][Next]_vars

\* A thread that can go on does so in the end.  No more: std::mutex keeps no
\* queue, so a thread that finds a mutex taken each time it looks may wait for
\* ever.  Requests are free to come or not.
FairSpec ==
    /\ Spec
    /\ WF_vars(CheckerStep)
    /\ \A t \in Thread : WF_vars(HandlerStep(t))

---------------------------------------------------------------------------
TypeOK ==
    /\ PoolTypeOK
    /\ pc \in [Thread -> PC]
    /\ user \in [Thread -> User \cup {NoUser}]
    /\ \A t \in Thread : user[t] = NoUser <=> pc[t] = "idle"
    /\ onlineUsers \subseteq User
    /\ usersMutex \in Thread \cup {NoOwner}
    /\ maxOnline \in 0..Cardinality(User)
    /\ count \in [Thread -> 0..Cardinality(User)]
    /\ seen \in [Thread -> 0..Cardinality(User)]
    /\ overtaken \in BOOLEAN
    /\ aiGames \subseteq User

\* The maximum covers the users that are online whenever no login is on its
\* way and no store has met a value that its load had not seen.  load and
\* store are two steps (GomokuServer.cpp 236): without the second condition it
\* is not so, a slower thread puts a smaller count back for good.
LoginUnderWay == \E t \in Thread : pc[t] \in {"count", "load", "store"}
MaxCoversOnline ==
    ~LoginUnderWay /\ ~overtaken => Cardinality(onlineUsers) <= maxOnline

\* Two restarts, of one user or of two, are never in aiGames_ at once: the
\* mutex of the online users does for it, as long as every other function
\* that changes the map takes the same (GomokuServer.cpp 117-123).
RestartsExclude ==
    \A t, u \in Thread :
        pc[t] \in {"erase", "insert"} /\ pc[u] \in {"erase", "insert"} => t = u

\* A request is never left hanging for good except in front of a mutex: no
\* notification is waited for in vain.  And every mutex that is taken is given
\* back, by the checking thread too, which sleeps with the pool's
\* (DbConnectionPool.cpp 49-57, 105-112).  That whoever stands in front of a
\* mutex gets it is not said, and not so: the checking thread takes the pool's
\* again at once.
AtUsersMutex(t) == pc[t] \in {"LoginHandler", "LogoutHandler", "count", "getBackendData", "lock"}
AtPoolMutex(t)  == pc[t] = "pool" /\ db[t] = "asks"
WaitsOnlyForAMutex ==
    /\ \A t \in Thread : pc[t] # "idle" ~> pc[t] = "idle" \/ AtUsersMutex(t) \/ AtPoolMutex(t)
    /\ []<>(usersMutex = NoOwner)
    /\ []<>(mutex = NoOwner)
=============================================================================

-------------------------- MODULE DbConnectionPool --------------------------
(***************************************************************************)
(* http::db::DbConnectionPool: the threads that ask it for a connection    *)
(* (through MysqlUtil::executeQuery) and its checking thread, which the    *)
(* constructor starts, around one mutex.                                   *)
(*                                                                         *)
(* init makes no connection, so no connection ever exists; what            *)
(* getConnection, the deleter of its result and checkConnections do with   *)
(* one (ping, reconnect, give back, notify) is not reached and left out.   *)
(***************************************************************************)
EXTENDS Naturals

CONSTANTS
    Thread,      \* the IO threads
    Checker,     \* checkThread_
    NoOwner      \* a mutex that is free

ASSUME PoolAssumption == Checker \notin Thread /\ NoOwner \notin Thread \cup {Checker}

VARIABLES
    connections, \* how many connections are in the queue
    initialized, \* initialized_
    mutex,       \* who has mutex_
    db           \* where each thread is with getConnection

poolVars == <<connections, initialized, mutex, db>>

\* "out": not in it; "asks": before the lock; "locked"; "waits" on cv_;
\* "threw" and "got": how it ended.
DbState == {"out", "asks", "locked", "waits", "threw", "got"}

\* init stores the parameters and sets initialized_ to false.
Initialized == FALSE

\* init never calls createConnection.
Opened == 0

\* getInstance constructs the pool, and init runs, before the server starts.
PoolInit ==
    /\ connections = Opened
    /\ initialized = Initialized
    /\ mutex = NoOwner
    /\ db = [t \in Thread |-> "out"]

---------------------------------------------------------------------------
(* getConnection.                                                          *)

Ask(t) ==
    /\ db' = [db EXCEPT ![t] = "asks"]
    /\ UNCHANGED <<connections, initialized, mutex>>

LockPool(t) ==
    /\ db[t] = "asks"
    /\ mutex = NoOwner
    /\ mutex' = t
    /\ db' = [db EXCEPT ![t] = "locked"]
    /\ UNCHANGED <<connections, initialized>>

\* The loop while the queue is empty; the throw, and the wait, unlock.
Look(t) ==
    /\ db[t] = "locked"
    /\ db' = [db EXCEPT ![t] = IF connections > 0 THEN "got"
                               ELSE IF initialized THEN "waits" ELSE "threw"]
    /\ connections' = IF connections > 0 THEN connections - 1 ELSE connections
    /\ mutex' = NoOwner
    /\ UNCHANGED initialized

---------------------------------------------------------------------------
(* checkConnections, while the queue is empty: it sleeps with the lock.    *)

CheckerLocks ==
    /\ mutex = NoOwner
    /\ mutex' = Checker
    /\ UNCHANGED <<connections, initialized, db>>

\* Bug: it sleeps on in the scope of the lock.
CheckerKeepsTheLock ==
    /\ mutex = Checker
    /\ UNCHANGED poolVars

\* After the second, continue unlocks.
CheckerWakes ==
    /\ mutex = Checker
    /\ mutex' = NoOwner
    /\ UNCHANGED <<connections, initialized, db>>

PoolTypeOK ==
    /\ connections \in Nat
    /\ initialized \in BOOLEAN
    /\ mutex \in Thread \cup {Checker, NoOwner}
    /\ db \in [Thread -> DbState]
=============================================================================

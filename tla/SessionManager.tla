--------------------------- MODULE SessionManager ---------------------------
(***************************************************************************)
(* http::session: Session objects, the MemorySessionStorage that maps ids  *)
(* to them, and the SessionManager through which handlers reach both.      *)
(*                                                                         *)
(* Handlers run in the IO threads of the server, on one shared manager,    *)
(* and no lock protects anything in it:                                    *)
(*   - Being inside a function of the storage, or of the values of one     *)
(*     session, is a value of pc, so that two threads in one map at once   *)
(*     are a state.  If one of them writes, the nodes of the map may be    *)
(*     torn, and the model ends (DataRace), for the program may then do    *)
(*     anything.                                                           *)
(*   - Two threads that draw ids at once race for the position of the      *)
(*     generator.  That ends nothing: each reads the position, and writes  *)
(*     it back advanced, so that ids can repeat.                           *)
(*                                                                         *)
(* Ids are numbered in the order in which the generator yields them.  Two  *)
(* sessions may get one id, so a session is not its id: the map holds at   *)
(* most one session of each id, and one it does not hold may be in use.    *)
(***************************************************************************)
EXTENDS Integers

CONSTANTS
    Thread,      \* the IO threads
    Session,     \* session objects; bounds how many are ever made
    SessionId,   \* ids that come in cookies
    Value,       \* values a handler stores in a session
    Lifetime,    \* what maxAge_ may hold, in seconds
    MaxTime,     \* bound on the clock
    NoId,        \* no cookie
    NoSession    \* the null pointer

ASSUME SessionAssumption ==
    /\ SessionId \subseteq Nat
    /\ NoId \notin Nat
    /\ NoSession \notin Session
    /\ Lifetime \subseteq Int
    /\ MaxTime \in Nat

VARIABLES
    now,         \* system_clock
    rng,         \* the position of rng_: the next id it yields
    sessions,    \* the sessions in sessions_
    id, maxAge, expiry, data,   \* the members of the session objects
    pc,          \* where the thread of a request is
    drawn,       \* the id that generateSessionId is drawing, else 0
    cookie,      \* the session id in the request's Cookie header
    held,        \* the session the handler got from getSession
    destroyed,   \* ids given to destorySession (history)
    overlapped,  \* two threads were in generateSessionId at once (history)
    alive        \* no null pointer was dereferenced, no map was torn

object == <<id, maxAge, expiry, data>>
generator == <<rng, drawn, overlapped>>
request == <<cookie, held>>
vars == <<now, generator, sessions, object, pc, request, destroyed, alive>>

\* Inside the storage: save, load, remove and removeExpired.
Saving   == {"save", "update"}
Writing  == Saving \cup {"remove", "destroy", "clean"}
InMap    == Writing \cup {"load"}
PC == InMap \cup {"idle", "create", "draw", "check", "null", "handler", "change"}

Made == {s \in Session : id[s] # NoId}

Init ==
    /\ now = 0
    /\ rng = 0
    /\ sessions = {}
    /\ id     = [s \in Session |-> NoId]
    /\ maxAge = [s \in Session |-> 0]
    /\ expiry = [s \in Session |-> 0]
    /\ data   = [s \in Session |-> {}]
    /\ pc     = [t \in Thread |-> "idle"]
    /\ drawn  = [t \in Thread |-> 0]
    /\ cookie = [t \in Thread |-> NoId]
    /\ held   = [t \in Thread |-> NoSession]
    /\ destroyed = {}
    /\ overlapped = FALSE
    /\ alive = TRUE

Expired(s) == now > expiry[s]
Of(i) == {s \in sessions : id[s] = i}

GoTo(t, where) == pc' = [pc EXCEPT ![t] = where]
At(t, where) == pc[t] = where

\* load erases when it finds an expired session; else it only reads.
LoadWrites(t) == At(t, "load") /\ \E s \in Of(cookie[t]) : Expired(s)
Writes(t) == pc[t] \in Writing \/ LoadWrites(t)
Race ==
    \E t, u \in Thread :
        /\ t # u
        /\ \/ Writes(t) /\ pc[u] \in InMap
           \/ At(t, "change") /\ At(u, "change") /\ held[t] = held[u]

---------------------------------------------------------------------------
(* getSession.                                                             *)

\* A request with the id its Cookie header carries; an id no session was
\* created with is one of an earlier run of the server, or made up.
BeginRequest(t, i) ==
    /\ At(t, "idle")
    /\ cookie' = [cookie EXCEPT ![t] = i]
    /\ GoTo(t, IF i = NoId THEN "create" ELSE "load")
    /\ UNCHANGED <<now, generator, sessions, object, held, destroyed>>

\* generateSessionId takes the position of the generator ...
BeginDraw(t) ==
    /\ At(t, "create")
    /\ drawn' = [drawn EXCEPT ![t] = rng]
    /\ overlapped' = (overlapped \/ \E u \in Thread : At(u, "draw"))
    /\ GoTo(t, "draw")
    /\ UNCHANGED <<now, rng, sessions, object, request, destroyed>>

\* Bug: ids are drawn from a copy of the generator.
DrawFromCopy(i) == rng

\* ... and leaves it behind the id drawn.
Advanced(i) == i + 1

\* The end of generateSessionId, and make_shared<Session>.  maxAge_ is
\* initialised with itself: it keeps whatever the memory held.
CreateSession(t, s, age) ==
    /\ At(t, "draw")
    /\ id[s] = NoId
    /\ rng' = Advanced(drawn[t])
    /\ id'     = [id EXCEPT ![s] = drawn[t]]
    /\ maxAge' = [maxAge EXCEPT ![s] = age]
    /\ expiry' = [expiry EXCEPT ![s] = now + age]
    /\ drawn'  = [drawn EXCEPT ![t] = 0]
    /\ held'   = [held EXCEPT ![t] = s]
    /\ GoTo(t, "save")
    /\ UNCHANGED <<now, sessions, data, cookie, destroyed, overlapped>>

\* storage_->save(session), here and in updateSession.
Save(t) ==
    /\ pc[t] \in Saving
    /\ sessions' = (sessions \ Of(id[held[t]])) \cup {held[t]}
    /\ GoTo(t, "handler")
    /\ UNCHANGED <<now, generator, object, request, destroyed>>

\* Bug: load looks the id up with operator[], which inserts a null pointer.
LoadInserts(t) ==
    /\ At(t, "load")
    /\ \/ \E s \in Of(cookie[t]) :
             /\ ~Expired(s)
             /\ held' = [held EXCEPT ![t] = s]
             /\ GoTo(t, "check")
             /\ UNCHANGED sessions
       \/ /\ \A s \in Of(cookie[t]) : Expired(s)
          /\ GoTo(t, "null")
          /\ sessions' = (sessions \ Of(cookie[t])) \cup {NoSession}
          /\ UNCHANGED held
    /\ UNCHANGED <<now, generator, object, cookie, destroyed>>

\* Bug: a second level of the storage, which remove forgets, gives back
\* what the map no longer holds.
LoadRevives(t) ==
    /\ At(t, "load")
    /\ \/ \E s \in Made :
             /\ id[s] = cookie[t]
             /\ ~Expired(s)
             /\ sessions' = (sessions \ Of(cookie[t])) \cup {s}
             /\ held' = [held EXCEPT ![t] = s]
             /\ GoTo(t, "check")
       \/ /\ \A s \in Made : id[s] = cookie[t] => Expired(s)
          /\ GoTo(t, "null")
          /\ sessions' = sessions \ Of(cookie[t])
          /\ UNCHANGED held
    /\ UNCHANGED <<now, generator, object, cookie, destroyed>>

\* storage_->load: an id that is not in the map, and an expired session,
\* which is erased, give a null pointer.
Load(t) ==
    /\ At(t, "load")
    /\ \/ \E s \in Of(cookie[t]) :
             /\ ~Expired(s)
             /\ held' = [held EXCEPT ![t] = s]
             /\ GoTo(t, "check")
             /\ UNCHANGED sessions
       \/ /\ \A s \in Of(cookie[t]) : Expired(s)
          /\ GoTo(t, "null")
          /\ sessions' = sessions \ Of(cookie[t])
          /\ UNCHANGED held
    /\ UNCHANGED <<now, generator, object, cookie, destroyed>>

\* session->isExpired() on the null pointer.
DereferenceNull(t) ==
    /\ At(t, "null")
    /\ alive' = FALSE
    /\ UNCHANGED <<now, generator, sessions, object, pc, request, destroyed>>

\* session->isExpired() on a session that load still found alive: it is only
\* true when the clock has moved on since.  If not, the session is refreshed.
CheckExpired(t) ==
    /\ At(t, "check")
    /\ \/ /\ Expired(held[t])
          /\ GoTo(t, "remove")
          /\ UNCHANGED expiry
       \/ /\ ~Expired(held[t])
          /\ expiry' = [expiry EXCEPT ![held[t]] = now + maxAge[held[t]]]
          /\ GoTo(t, "handler")
    /\ UNCHANGED <<now, generator, sessions, id, maxAge, data, request, destroyed>>

RemoveExpiredSession(t) ==
    /\ At(t, "remove")
    /\ sessions' = sessions \ Of(cookie[t])
    /\ held' = [held EXCEPT ![t] = NoSession]
    /\ GoTo(t, "create")
    /\ UNCHANGED <<now, generator, object, cookie, destroyed>>

---------------------------------------------------------------------------
(* What a handler does with its session.                                   *)

\* setValue, remove and clear begin; data_ is a map without a lock as well.
BeginChange(t) ==
    /\ At(t, "handler")
    /\ GoTo(t, "change")
    /\ UNCHANGED <<now, generator, sessions, object, request, destroyed>>

\* setValue changes the object, then saves it through the manager.
SetValue(t, v) ==
    /\ At(t, "change")
    /\ data' = [data EXCEPT ![held[t]] = @ \cup {v}]
    /\ GoTo(t, "update")
    /\ UNCHANGED <<now, generator, sessions, id, maxAge, expiry, request, destroyed>>

\* remove(key) and clear() change the object and save nothing.
RemoveValue(t, v) ==
    /\ At(t, "change")
    /\ data' = [data EXCEPT ![held[t]] = @ \ {v}]
    /\ GoTo(t, "handler")
    /\ UNCHANGED <<now, generator, sessions, id, maxAge, expiry, request, destroyed>>
Clear(t) ==
    /\ At(t, "change")
    /\ data' = [data EXCEPT ![held[t]] = {}]
    /\ GoTo(t, "handler")
    /\ UNCHANGED <<now, generator, sessions, id, maxAge, expiry, request, destroyed>>

\* destorySession(session->getId()), a logout; the object stays held.
BeginDestroy(t) ==
    /\ At(t, "handler")
    /\ GoTo(t, "destroy")
    /\ UNCHANGED <<now, generator, sessions, object, request, destroyed>>
Destroy(t) ==
    /\ At(t, "destroy")
    /\ sessions'  = sessions \ Of(id[held[t]])
    /\ destroyed' = destroyed \cup {id[held[t]]}
    /\ GoTo(t, "handler")
    /\ UNCHANGED <<now, generator, object, request>>

\* cleanExpiredSession, which any handler may call: removeExpired.
BeginClean(t) ==
    /\ At(t, "handler")
    /\ GoTo(t, "clean")
    /\ UNCHANGED <<now, generator, sessions, object, request, destroyed>>
Clean(t) ==
    /\ At(t, "clean")
    /\ sessions' = {s \in sessions : ~Expired(s)}
    /\ GoTo(t, "handler")
    /\ UNCHANGED <<now, generator, object, request, destroyed>>

\* The handler returns and lets its shared_ptr go.
EndRequest(t) ==
    /\ At(t, "handler")
    /\ held'   = [held EXCEPT ![t] = NoSession]
    /\ cookie' = [cookie EXCEPT ![t] = NoId]
    /\ GoTo(t, "idle")
    /\ UNCHANGED <<now, generator, sessions, object, destroyed>>

---------------------------------------------------------------------------
Tick ==
    /\ now < MaxTime
    /\ now' = now + 1
    /\ UNCHANGED <<generator, sessions, object, pc, request, destroyed>>

\* Two threads in one map, one of them writing: anything may follow.
DataRace ==
    /\ Race
    /\ alive' = FALSE
    /\ UNCHANGED <<now, generator, sessions, object, pc, request, destroyed>>

\* The steps of getSession, which the thread takes by itself.
GetSessionStep(t) ==
    \/ BeginDraw(t)
    \/ \E s \in Session, age \in Lifetime : CreateSession(t, s, age)
    \/ Load(t) \/ CheckExpired(t) \/ RemoveExpiredSession(t)
    \/ Save(t)

\* The steps a handler chooses.
HandlerStep(t) ==
    \/ BeginChange(t)
    \/ \E v \in Value : SetValue(t, v) \/ RemoveValue(t, v)
    \/ Clear(t) \/ BeginDestroy(t) \/ Destroy(t) \/ BeginClean(t) \/ Clean(t)
    \/ EndRequest(t)

ThreadStep(t) == GetSessionStep(t) \/ HandlerStep(t)

Next ==
    /\ alive
    /\ \/ /\ ~Race
          /\ \/ \E t \in Thread : ThreadStep(t)
             \/ \E t \in Thread, i \in SessionId \cup {NoId} : BeginRequest(t, i)
             \/ Tick
          /\ UNCHANGED alive
       \/ \E t \in Thread : DereferenceNull(t)
       \/ DataRace

Spec == Init /\ [][Next]_vars

---------------------------------------------------------------------------
(* Properties.                                                             *)

\* Every variable has its type, and a handler runs with a session that exists.
TypeOK ==
    /\ now \in 0..MaxTime
    /\ rng \in Nat
    /\ id \in [Session -> Nat \cup {NoId}]
    /\ sessions \subseteq Made
    /\ destroyed \subseteq Nat
    /\ maxAge \in [Session -> Int] /\ expiry \in [Session -> Int]
    /\ data \in [Session -> SUBSET Value]
    /\ pc \in [Thread -> PC]
    /\ drawn \in [Thread -> Nat]
    /\ cookie \in [Thread -> SessionId \cup {NoId}]
    /\ held \in [Thread -> Made \cup {NoSession}]
    /\ overlapped \in BOOLEAN
    /\ alive \in BOOLEAN
    /\ \A t \in Thread :
          /\ pc[t] \in Saving \cup {"check", "handler", "change", "destroy", "clean", "remove"} =>
                held[t] # NoSession
          /\ pc[t] \in {"load", "null", "idle", "create", "draw"} => held[t] = NoSession
          /\ pc[t] \in {"load", "null"} => cookie[t] # NoId
          /\ pc[t] \in {"check", "remove"} => id[held[t]] = cookie[t]

\* Two requests work at once on sessions of one id only if all but one of them
\* came with it - unless two draws from the generator have overlapped: with
\* rng_ shared and unlocked (SessionManager.cpp:94) that, and nothing else in
\* the module, gives a client the session of another.
NoForeignSession ==
    ~overlapped =>
        \A t, u \in Thread :
            /\ t # u
            /\ held[t] # NoSession /\ held[u] # NoSession
            /\ id[held[t]] = id[held[u]]
            => cookie[t] = id[held[t]] \/ cookie[u] = id[held[u]]

\* A session that was destroyed comes back into the map only by the hand of a
\* handler that still held it (setValue saves it again, Session.cpp:36) or of
\* one whose session was given the same id; without such a handler it is gone
\* for good, whatever cookies come.
Holds(t, i) == held[t] # NoSession /\ id[held[t]] = i
DestroyedStaysAway ==
    [][\A i \in destroyed :
          (Of(i) = {} /\ \A t \in Thread : ~Holds(t, i)) => Of(i)' = {}]_vars
=============================================================================

-------------------------- MODULE IdempotencyCache --------------------------
(***************************************************************************)
(* services/idempotency.py: the in-memory Idempotency-Key cache of the     *)
(* operational verb routes.  It keeps a map of cached responses with a     *)
(* time to live, and one "flight" per key in use: an asyncio.Lock and the  *)
(* number of requests that hold a reference to it.                         *)
(*                                                                         *)
(* The mutex self._lock is never held across a suspension point, so every  *)
(* body it protects is one step here.  A client is a coroutine inside      *)
(* single_flight; its local variable `flight' is modelled because the code *)
(* compares object identities when it drops a flight.                      *)
(***************************************************************************)
EXTENDS Naturals, FiniteSets

CONSTANTS
    Clients,    \* coroutines that use the cache
    Keys,       \* CacheKey values
    Flights,    \* identities a _Flight object can have
    Bodies,     \* cached responses, as far as the callers tell them apart
    None        \* Python's None

Entry == [pending : BOOLEAN, expired : BOOLEAN, body : Bodies]

ASSUME ClientsFinite == IsFiniteSet(Clients)
Local == [key : Keys, flight : Flights]

ASSUME NoneIsFresh == None \notin Clients \cup Flights \cup Keys \cup Entry \cup Local

VARIABLES
    entries,    \* self._entries: Keys -> Entry or None
    flights,    \* self._flights: Keys -> identity of the _Flight or None
    users,      \* _Flight.users of every flight object
    owner,      \* client that holds _Flight.lock, or None
    waiting,    \* clients suspended in flight.lock.acquire()
    mine        \* the locals (cache_key, flight) of a client in single_flight

cacheVars == <<entries, flights, users, owner, waiting, mine>>

TypeOK ==
    /\ entries \in [Keys -> Entry \cup {None}]
    /\ flights \in [Keys -> Flights \cup {None}]
    /\ users \in [Flights -> Nat]
    /\ owner \in [Flights -> Clients \cup {None}]
    /\ waiting \in SUBSET Clients
    /\ mine \in [Clients -> Local \cup {None}]

CacheInit ==
    /\ entries = [k \in Keys |-> None]
    /\ flights = [k \in Keys |-> None]
    /\ users = [f \in Flights |-> 0]
    /\ owner = [f \in Flights |-> None]
    /\ waiting = {}
    /\ mine = [c \in Clients |-> None]

Holds(c) == mine[c] # None /\ owner[mine[c].flight] = c

UsersOf(f) == {c \in Clients : mine[c] # None /\ mine[c].flight = f}

(***************************************************************************)
(* The entry map.  Time is abstract: an entry may pass its expires_at at   *)
(* any moment, and stays in the map until the next prune.                  *)
(***************************************************************************)
Prune(es) ==
    [k \in Keys |-> IF es[k] # None /\ es[k].expired THEN None ELSE es[k]]

Put(es, k, isPending, b) ==
    IF es[k] # None /\ ~es[k].pending /\ isPending
    THEN es
    ELSE [es EXCEPT ![k] = [pending |-> isPending, expired |-> FALSE, body |-> b]]

ExpireEntry(k) ==
    /\ entries[k] # None
    /\ ~entries[k].expired
    /\ entries' = [entries EXCEPT ![k].expired = TRUE]
    /\ UNCHANGED <<flights, users, owner, waiting, mine>>

\* get_entry: callers look the key up while they hold its flight lock.
GetEntry(c) ==
    /\ Holds(c)
    /\ entries' = Prune(entries)
    /\ UNCHANGED <<flights, users, owner, waiting, mine>>

Store(c, isPending, b) ==
    /\ Holds(c)
    /\ entries' = Put(entries, mine[c].key, isPending, b)
    /\ UNCHANGED <<flights, users, owner, waiting, mine>>

(***************************************************************************)
(* single_flight.                                                          *)
(***************************************************************************)
\* An object that nothing refers to any more: the identity of a new _Flight.
Unreferenced(f) ==
    /\ \A k \in Keys : flights[k] # f
    /\ \A c \in Clients : mine[c] # None => mine[c].flight # f

EnterSingleFlight(c, k) ==
    /\ mine[c] = None
    /\ entries' = Prune(entries)
    /\ \/ /\ flights[k] # None
          /\ users' = [users EXCEPT ![flights[k]] = @ + 1]
          /\ mine' = [mine EXCEPT ![c] = [key |-> k, flight |-> flights[k]]]
          /\ UNCHANGED <<flights, owner>>
       \/ /\ flights[k] = None
          /\ \E f \in Flights :
                /\ Unreferenced(f)
                /\ flights' = [flights EXCEPT ![k] = f]
                /\ users' = [users EXCEPT ![f] = 1]
                /\ owner' = [owner EXCEPT ![f] = None]
                /\ mine' = [mine EXCEPT ![c] = [key |-> k, flight |-> f]]
    /\ waiting' = waiting \cup {c}

AcquireFlightLock(c) ==
    /\ c \in waiting
    /\ owner[mine[c].flight] = None
    /\ owner' = [owner EXCEPT ![mine[c].flight] = c]
    /\ waiting' = waiting \ {c}
    /\ UNCHANGED <<entries, flights, users, mine>>

\* CancelledError delivered while the client waits for the flight lock.
CancelWait(c) ==
    /\ c \in waiting
    /\ waiting' = waiting \ {c}
    /\ UNCHANGED <<entries, flights, users, owner, mine>>

\* Mutant: an exception leaves single_flight without releasing the lock.
LeaveLocked(c) ==
    /\ Holds(c) /\ c \notin waiting
    /\ mine' = [mine EXCEPT ![c] = None]
    /\ users' = [users EXCEPT ![mine[c].flight] = @ - 1]
    /\ UNCHANGED <<entries, flights, owner, waiting>>

ReleaseFlightLock(c) ==
    /\ Holds(c)
    /\ owner' = [owner EXCEPT ![mine[c].flight] = None]
    /\ UNCHANGED <<entries, flights, users, waiting, mine>>

\* Mutants of _release_single_flight: the flight is dropped while others use
\* it, or the counter is tested before it is decremented.
ReleaseDropsFlight(c) ==
    /\ mine[c] # None /\ c \notin waiting /\ ~Holds(c)
    /\ users' = [users EXCEPT ![mine[c].flight] = @ - 1]
    /\ flights' = [flights EXCEPT ![mine[c].key] = None]
    /\ mine' = [mine EXCEPT ![c] = None]
    /\ UNCHANGED <<entries, owner, waiting>>

ReleaseTestsFirst(c) ==
    /\ mine[c] # None /\ c \notin waiting /\ ~Holds(c)
    /\ users' = [users EXCEPT ![mine[c].flight] = @ - 1]
    /\ flights' = [flights EXCEPT ![mine[c].key] =
                       IF users[mine[c].flight] = 0 THEN None ELSE @]
    /\ mine' = [mine EXCEPT ![c] = None]
    /\ UNCHANGED <<entries, owner, waiting>>

\* _release_single_flight, run as a task of its own from the finally block.
ReleaseSingleFlight(c) ==
    /\ mine[c] # None
    /\ c \notin waiting
    /\ ~Holds(c)
    /\ LET f == mine[c].flight
           k == mine[c].key
       IN  /\ users' = [users EXCEPT ![f] = @ - 1]
           /\ flights' = [flights EXCEPT ![k] =
                             IF users[f] = 1 /\ flights[k] = f THEN None ELSE @]
    /\ mine' = [mine EXCEPT ![c] = None]
    /\ UNCHANGED <<entries, owner, waiting>>

\* The process is restarted: the singleton and all coroutines are gone.
ProcessRestart ==
    /\ entries' = [k \in Keys |-> None]
    /\ flights' = [k \in Keys |-> None]
    /\ users' = [f \in Flights |-> 0]
    /\ owner' = [f \in Flights |-> None]
    /\ waiting' = {}
    /\ mine' = [c \in Clients |-> None]

ClientStep(c) ==
    \/ \E k \in Keys : EnterSingleFlight(c, k)
    \/ AcquireFlightLock(c)
    \/ CancelWait(c)
    \/ GetEntry(c)
    \/ \E isPending \in BOOLEAN, b \in Bodies : Store(c, isPending, b)
    \/ ReleaseFlightLock(c)
    \/ ReleaseSingleFlight(c)

CacheNext ==
    \/ \E c \in Clients : ClientStep(c)
    \/ \E k \in Keys : ExpireEntry(k)
    \/ ProcessRestart

CacheSpec == CacheInit /\ [][CacheNext]_cacheVars

(***************************************************************************)
(* Fairness: asyncio.Lock wakes its waiters in FIFO order (strong fairness *)
(* of the acquisition), a holder's operation is made of awaits with client *)
(* timeouts and ends, and the cleanup task is awaited to completion.       *)
(***************************************************************************)
FairCacheSpec ==
    /\ CacheSpec
    /\ \A c \in Clients :
          /\ SF_cacheVars(AcquireFlightLock(c))
          /\ WF_cacheVars(ReleaseFlightLock(c))
          /\ WF_cacheVars(ReleaseSingleFlight(c))

-----------------------------------------------------------------------------
(* Safety of single_flight (idempotency.py:162-192).                       *)

\* Two coroutines never run the miss-to-store section of the same key at the
\* same time, although flights are created, shared and dropped on the fly.
SingleFlight ==
    \A c, d \in Clients :
        Holds(c) /\ Holds(d) /\ mine[c].key = mine[d].key => c = d

\* Every coroutine between entry and cleanup uses the flight the map has for
\* its key: a flight in use is never dropped and re-created behind its back.
FlightIsCurrent ==
    \A c \in Clients : mine[c] # None => flights[mine[c].key] = mine[c].flight

\* The flight map holds no flight that nobody uses: it cannot grow for ever.
NoFlightLeak ==
    \A k \in Keys, f \in Flights : flights[k] = f => UsersOf(f) # {}

\* The reference count the cleanup decides by is the real number of users.
UsersCounted ==
    \A k \in Keys, f \in Flights : flights[k] = f => users[f] = Cardinality(UsersOf(f))

(* The inductive strengthening.                                            *)

\* Two keys never share a flight object.
FlightsInjective ==
    \A k, l \in Keys : flights[k] # None /\ flights[k] = flights[l] => k = l

\* A lock is held by a coroutine that still has the flight as its own.
OwnerIsUser ==
    \A f \in Flights : owner[f] # None =>
        mine[owner[f]] # None /\ mine[owner[f]].flight = f

\* A waiter has a flight and does not hold its lock.
WaiterHasFlight ==
    \A c \in waiting : mine[c] # None /\ owner[mine[c].flight] # c

CacheInv ==
    /\ TypeOK
    /\ FlightIsCurrent
    /\ FlightsInjective
    /\ OwnerIsUser
    /\ WaiterHasFlight
    /\ NoFlightLeak
    /\ UsersCounted

(* Liveness.                                                               *)

\* A waiter is never forgotten: it gets the lock or is cancelled.
WaiterProgress ==
    \A c \in Clients : c \in waiting ~> c \notin waiting

=============================================================================

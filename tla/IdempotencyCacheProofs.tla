---------------------- MODULE IdempotencyCacheProofs ----------------------
(***************************************************************************)
(* CacheInv is an inductive invariant of IdempotencyCache for every number *)
(* of clients, keys and flight objects; mutual exclusion of single_flight  *)
(* and the absence of leaked flights follow from it.                       *)
(***************************************************************************)
EXTENDS IdempotencyCache, FiniteSetTheorems, TLAPS

\* The clients that refer to a flight are finitely many.
LEMMA UsersOfFinite ==
    ASSUME NEW f
    PROVE  IsFiniteSet(UsersOf(f))
  BY ClientsFinite, FS_Subset DEF UsersOf

\* How the users of a flight change when one client's local variable does.
LEMMA UsersOfUpdate ==
    ASSUME TypeOK, NEW c \in Clients, NEW m \in Local \cup {None},
           mine' = [mine EXCEPT ![c] = m], NEW g \in Flights
    PROVE  UsersOf(g)' = IF m # None /\ m.flight = g THEN UsersOf(g) \cup {c}
                                                    ELSE UsersOf(g) \ {c}
  <1>1. \A d \in Clients : mine'[d] = IF d = c THEN m ELSE mine[d]
    BY DEF TypeOK
  <1>2. UsersOf(g)' = {d \in Clients : mine'[d] # None /\ mine'[d].flight = g}
    BY DEF UsersOf
  <1>3. \A d : d \in UsersOf(g)' <=>
            d \in Clients /\ IF d = c THEN m # None /\ m.flight = g
                                     ELSE mine[d] # None /\ mine[d].flight = g
    BY <1>1, <1>2
  <1>4. \A d : d \in UsersOf(g) <=> d \in Clients /\ mine[d] # None /\ mine[d].flight = g
    BY DEF UsersOf
  <1> QED BY <1>3, <1>4

\* The initial cache satisfies the invariant.
LEMMA InitCacheInv == CacheInit => CacheInv
  BY NoneIsFresh
     DEF CacheInit, CacheInv, TypeOK, FlightIsCurrent, FlightsInjective,
         OwnerIsUser, WaiterHasFlight, NoFlightLeak, UsersCounted

\* Pruning and storing keep the type of the entry map.
LEMMA PruneType ==
    ASSUME NEW es \in [Keys -> Entry \cup {None}]
    PROVE  Prune(es) \in [Keys -> Entry \cup {None}]
  BY DEF Prune

\* store leaves a well-typed entry map.
LEMMA PutType ==
    ASSUME NEW es \in [Keys -> Entry \cup {None}], NEW k \in Keys,
           NEW p \in BOOLEAN, NEW b \in Bodies
    PROVE  Put(es, k, p, b) \in [Keys -> Entry \cup {None}]
  BY DEF Put, Entry

\* Steps that touch the entry map only.
LEMMA EntryStepInv ==
    ASSUME CacheInv, entries' \in [Keys -> Entry \cup {None}],
           UNCHANGED <<flights, users, owner, waiting, mine>>
    PROVE  CacheInv'
  BY DEF CacheInv, TypeOK, FlightIsCurrent, FlightsInjective, OwnerIsUser,
         WaiterHasFlight, NoFlightLeak, UsersCounted, UsersOf

\* A client joins the flight of its key or opens a new one.
LEMMA EnterInv ==
    ASSUME CacheInv, NEW c \in Clients, NEW k \in Keys, EnterSingleFlight(c, k)
    PROVE  CacheInv'
  <1> USE NoneIsFresh DEF CacheInv
  <1>0. entries' \in [Keys -> Entry \cup {None}]
    BY PruneType DEF EnterSingleFlight, TypeOK
  <1>w. c \notin waiting /\ mine[c] = None
    BY DEF EnterSingleFlight, WaiterHasFlight
  <1>l. None \notin Local
    OBVIOUS
  <1>1. CASE flights[k] # None
    <2>0. PICK f \in Flights : f = flights[k]
      BY <1>1 DEF TypeOK
    <2>1. /\ flights[k] = f /\ f # None
          /\ users' = [users EXCEPT ![f] = @ + 1]
          /\ mine' = [mine EXCEPT ![c] = [key |-> k, flight |-> f]]
          /\ UNCHANGED <<flights, owner>>
          /\ waiting' = waiting \cup {c}
      BY <1>1, <2>0 DEF EnterSingleFlight
    <2>2. c \notin UsersOf(f)
      BY <1>w DEF UsersOf
    <2>m. [key |-> k, flight |-> f] \in Local /\ [key |-> k, flight |-> f] # None
      BY <2>1, <1>l DEF Local
    <2>3. \A g \in Flights : UsersOf(g)' = IF g = f THEN UsersOf(g) \cup {c} ELSE UsersOf(g)
      <3> SUFFICES ASSUME NEW g \in Flights
                   PROVE  UsersOf(g)' = IF g = f THEN UsersOf(g) \cup {c} ELSE UsersOf(g)
        OBVIOUS
      <3>1. c \notin UsersOf(g)
        BY <1>w DEF UsersOf
      <3>2. PICK m \in Local : m # None /\ m.flight = f /\ mine' = [mine EXCEPT ![c] = m]
        BY <2>1, <2>m
      <3>3. UsersOf(g)' = IF f = g THEN UsersOf(g) \cup {c} ELSE UsersOf(g) \ {c}
        BY <3>2, UsersOfUpdate
      <3> QED BY <3>1, <3>3
    <2>4. Cardinality(UsersOf(f)') = Cardinality(UsersOf(f)) + 1
      BY <2>1, <2>2, <2>3, UsersOfFinite, FS_AddElement
    <2>5. UsersCounted'
      BY <2>1, <2>3, <2>4 DEF UsersCounted, TypeOK
    <2>6. NoFlightLeak'
      BY <2>1, <2>3 DEF NoFlightLeak, TypeOK
    <2>7. TypeOK'
      BY <1>0, <2>1 DEF TypeOK, Local
    <2>8. FlightIsCurrent' /\ FlightsInjective' /\ OwnerIsUser' /\ WaiterHasFlight'
      BY <2>1, <1>w DEF FlightIsCurrent, FlightsInjective, OwnerIsUser, WaiterHasFlight,
                        TypeOK, Local
    <2> QED BY <2>5, <2>6, <2>7, <2>8
  <1>2. CASE flights[k] = None
    <2>1. PICK f \in Flights :
             /\ Unreferenced(f)
             /\ flights' = [flights EXCEPT ![k] = f]
             /\ users' = [users EXCEPT ![f] = 1]
             /\ owner' = [owner EXCEPT ![f] = None]
             /\ mine' = [mine EXCEPT ![c] = [key |-> k, flight |-> f]]
             /\ waiting' = waiting \cup {c}
      BY <1>2 DEF EnterSingleFlight
    <2>2. f # None
      BY <2>1
    <2>m. [key |-> k, flight |-> f] \in Local /\ [key |-> k, flight |-> f] # None
      BY <1>l DEF Local
    <2>e. UsersOf(f) = {}
      BY <2>1 DEF UsersOf, Unreferenced
    <2>3. \A g \in Flights : UsersOf(g)' = IF g = f THEN {c} ELSE UsersOf(g)
      <3> SUFFICES ASSUME NEW g \in Flights
                   PROVE  UsersOf(g)' = IF g = f THEN {c} ELSE UsersOf(g)
        OBVIOUS
      <3>1. c \notin UsersOf(g)
        BY <1>w DEF UsersOf
      <3>2. PICK m \in Local : m # None /\ m.flight = f /\ mine' = [mine EXCEPT ![c] = m]
        BY <2>1, <2>m
      <3>3. UsersOf(g)' = IF f = g THEN UsersOf(g) \cup {c} ELSE UsersOf(g) \ {c}
        BY <3>2, UsersOfUpdate
      <3> QED BY <2>e, <3>1, <3>3
    <2>4. UsersCounted'
      BY <2>1, <2>3, FS_Singleton DEF UsersCounted, Unreferenced, TypeOK
    <2>5. NoFlightLeak'
      BY <2>1, <2>3 DEF NoFlightLeak, Unreferenced, TypeOK
    <2>6. TypeOK'
      BY <1>0, <2>1 DEF TypeOK, Local
    <2>7. FlightIsCurrent' /\ FlightsInjective'
      BY <2>1, <1>2, <1>w DEF FlightIsCurrent, FlightsInjective, Unreferenced, TypeOK, Local
    <2>8. OwnerIsUser' /\ WaiterHasFlight'
      BY <2>1, <1>w DEF OwnerIsUser, WaiterHasFlight, Unreferenced, TypeOK, Local
    <2> QED BY <2>4, <2>5, <2>6, <2>7, <2>8
  <1> QED BY <1>1, <1>2

\* The lock changes hands, or a waiter gives up.
LEMMA LockStepInv ==
    ASSUME CacheInv, NEW c \in Clients,
           AcquireFlightLock(c) \/ CancelWait(c) \/ ReleaseFlightLock(c)
    PROVE  CacheInv'
  <1> USE NoneIsFresh DEF CacheInv
  <1>1. UNCHANGED <<entries, flights, users, mine>>
    BY DEF AcquireFlightLock, CancelWait, ReleaseFlightLock
  <1>2. \A g : UsersOf(g)' = UsersOf(g)
    BY <1>1 DEF UsersOf
  <1>3. FlightIsCurrent' /\ FlightsInjective' /\ NoFlightLeak' /\ UsersCounted'
    BY <1>1, <1>2 DEF FlightIsCurrent, FlightsInjective, NoFlightLeak, UsersCounted
  <1>4. TypeOK' /\ OwnerIsUser' /\ WaiterHasFlight'
    <2>1. CASE AcquireFlightLock(c)
      BY <1>1, <2>1 DEF AcquireFlightLock, TypeOK, OwnerIsUser, WaiterHasFlight, Local
    <2>2. CASE CancelWait(c)
      BY <1>1, <2>2 DEF CancelWait, TypeOK, OwnerIsUser, WaiterHasFlight, Local
    <2>3. CASE ReleaseFlightLock(c)
      BY <1>1, <2>3 DEF ReleaseFlightLock, Holds, TypeOK, OwnerIsUser, WaiterHasFlight, Local
    <2> QED BY <2>1, <2>2, <2>3
  <1> QED BY <1>3, <1>4

\* The last user of a flight drops it, an earlier one leaves it in the map.
LEMMA ReleaseInv ==
    ASSUME CacheInv, NEW c \in Clients, ReleaseSingleFlight(c)
    PROVE  CacheInv'
  <1> USE NoneIsFresh DEF CacheInv
  <1>0. PICK f \in Flights, k \in Keys : mine[c] = [key |-> k, flight |-> f]
    BY DEF ReleaseSingleFlight, TypeOK, Local
  <1>r. /\ mine[c] # None /\ mine[c].flight = f /\ mine[c].key = k /\ f # None
        /\ flights[k] = f
    BY <1>0 DEF ReleaseSingleFlight, FlightIsCurrent
  <1>1. /\ mine[c] # None /\ mine[c].flight = f /\ mine[c].key = k /\ f # None
        /\ flights[k] = f
        /\ c \notin waiting
        /\ owner[f] # c
        /\ users' = [users EXCEPT ![f] = @ - 1]
        /\ flights' = [flights EXCEPT ![k] = IF users[f] = 1 THEN None ELSE @]
        /\ mine' = [mine EXCEPT ![c] = None]
        /\ UNCHANGED <<entries, owner, waiting>>
    <2>1. flights' = [flights EXCEPT ![k] =
                         IF users[f] = 1 /\ flights[k] = f THEN None ELSE @]
      BY <1>r DEF ReleaseSingleFlight
    <2>2. flights' = [flights EXCEPT ![k] = IF users[f] = 1 THEN None ELSE @]
      BY <1>r, <2>1
    <2> QED BY <1>r, <2>2 DEF ReleaseSingleFlight, Holds
  <1>2. \A g \in Flights : UsersOf(g)' = IF g = f THEN UsersOf(g) \ {c} ELSE UsersOf(g)
    <2> SUFFICES ASSUME NEW g \in Flights
                 PROVE  UsersOf(g)' = IF g = f THEN UsersOf(g) \ {c} ELSE UsersOf(g)
      OBVIOUS
    <2>1. UsersOf(g)' = UsersOf(g) \ {c}
      BY <1>1, UsersOfUpdate
    <2>2. g # f => c \notin UsersOf(g)
      BY <1>1 DEF UsersOf
    <2> QED BY <2>1, <2>2
  <1>3. c \in UsersOf(f)
    BY <1>1 DEF UsersOf
  <1>4. Cardinality(UsersOf(f)') = users[f] - 1 /\ users[f] \in Nat
    BY <1>1, <1>2, <1>3, UsersOfFinite, FS_RemoveElement DEF UsersCounted, TypeOK
  <1>5. users[f] # 0
    BY <1>1, <1>3, UsersOfFinite, FS_EmptySet DEF UsersCounted
  <1>6. \A l \in Keys : flights'[l] # None =>
           flights[l] = flights'[l] /\ (l # k => flights[l] # f) /\ (l = k => users[f] # 1)
    BY <1>1 DEF FlightsInjective, TypeOK
  <1>7. UsersCounted'
    BY <1>1, <1>2, <1>4, <1>6 DEF UsersCounted, TypeOK
  <1>8. NoFlightLeak'
    <2>1. users[f] # 1 => UsersOf(f)' # {}
      BY <1>4, <1>5, FS_EmptySet
    <2> QED BY <1>1, <1>2, <1>6, <2>1 DEF NoFlightLeak, TypeOK
  <1>9. TypeOK'
    BY <1>1, <1>4, <1>5 DEF TypeOK
  <1>10. FlightIsCurrent'
    <2> SUFFICES ASSUME NEW d \in Clients, mine'[d] # None
                 PROVE  flights'[mine'[d].key] = mine'[d].flight
      BY DEF FlightIsCurrent
    <2>1. d # c /\ mine'[d] = mine[d] /\ flights[mine[d].key] = mine[d].flight
      BY <1>1 DEF FlightIsCurrent, TypeOK
    <2>2. mine[d].flight = f => users[f] # 1
      <3> SUFFICES ASSUME mine[d].flight = f, users[f] = 1 PROVE FALSE
        OBVIOUS
      <3>1. d \in UsersOf(f)'
        BY <1>2, <2>1 , <1>1 DEF UsersOf
      <3>2. UsersOf(f)' = {}
        BY <1>4, <1>2, <1>1, UsersOfFinite, FS_RemoveElement, FS_EmptySet
      <3> QED BY <3>1, <3>2
    <2>3. mine[d].key \in Keys
      BY <2>1 DEF TypeOK, Local
    <2> QED BY <1>1, <2>1, <2>2, <2>3 DEF TypeOK
  <1>11. FlightsInjective' /\ OwnerIsUser' /\ WaiterHasFlight'
    BY <1>1 DEF FlightsInjective, OwnerIsUser, WaiterHasFlight, TypeOK, Local
  <1> QED BY <1>7, <1>8, <1>9, <1>10, <1>11

\* Every step of the cache keeps the invariant.
LEMMA CacheInvStep == CacheInv /\ [CacheNext]_cacheVars => CacheInv'
  <1> SUFFICES ASSUME CacheInv, [CacheNext]_cacheVars PROVE CacheInv'
    OBVIOUS
  <1>1. ASSUME NEW c \in Clients, ClientStep(c) PROVE CacheInv'
    <2>1. ASSUME NEW k \in Keys, EnterSingleFlight(c, k) PROVE CacheInv'
      BY <2>1, EnterInv
    <2>2. CASE AcquireFlightLock(c) \/ CancelWait(c) \/ ReleaseFlightLock(c)
      BY <2>2, LockStepInv
    <2>3. CASE GetEntry(c)
      BY <2>3, PruneType, EntryStepInv DEF GetEntry, CacheInv, TypeOK
    <2>4. ASSUME NEW p \in BOOLEAN, NEW b \in Bodies, Store(c, p, b) PROVE CacheInv'
      <3>1. mine[c].key \in Keys
        BY <2>4 DEF Store, Holds, CacheInv, TypeOK, Local
      <3> QED BY <2>4, <3>1, PutType, EntryStepInv DEF Store, CacheInv, TypeOK
    <2>5. CASE ReleaseSingleFlight(c)
      BY <2>5, ReleaseInv
    <2> QED BY <1>1, <2>1, <2>2, <2>3, <2>4, <2>5 DEF ClientStep
  <1>2. ASSUME NEW k \in Keys, ExpireEntry(k) PROVE CacheInv'
    <2>1. entries' \in [Keys -> Entry \cup {None}]
      BY <1>2 DEF ExpireEntry, CacheInv, TypeOK, Entry
    <2> QED BY <1>2, <2>1, EntryStepInv DEF ExpireEntry
  <1>3. CASE ProcessRestart
    BY <1>3, NoneIsFresh
       DEF ProcessRestart, CacheInv, TypeOK, FlightIsCurrent, FlightsInjective,
           OwnerIsUser, WaiterHasFlight, NoFlightLeak, UsersCounted
  <1>4. CASE UNCHANGED cacheVars
    BY <1>4, EntryStepInv DEF cacheVars, CacheInv, TypeOK
  <1> QED BY <1>1, <1>2, <1>3, <1>4 DEF CacheNext

\* The invariant holds in every reachable state of the cache, for any number
\* of clients: reference counts are exact and a flight in use stays current.
THEOREM CacheInvariant == CacheSpec => []CacheInv
  BY InitCacheInv, CacheInvStep, PTL DEF CacheSpec

\* The invariant implies mutual exclusion.
LEMMA InvImpliesSingleFlight == CacheInv => SingleFlight
  BY DEF CacheInv, FlightIsCurrent, SingleFlight, Holds

\* single_flight never lets two coroutines into the section of one key.
THEOREM MutualExclusion == CacheSpec => []SingleFlight
  BY CacheInvariant, InvImpliesSingleFlight, PTL

\* The flight map never keeps a flight that no coroutine uses.
THEOREM FlightsDoNotLeak == CacheSpec => []NoFlightLeak
  <1>1. CacheInv => NoFlightLeak
    BY DEF CacheInv
  <1> QED BY <1>1, CacheInvariant, PTL

=============================================================================

--------------------------- MODULE SettingsCache ---------------------------
(***************************************************************************)
(* settings_client.py: the plugin settings, read from NetBox by one thread *)
(* at a time and shared with the others through a cache with a lifetime.   *)
(*                                                                         *)
(* NetBox is external: an administrator edits the settings, and a request  *)
(* brings the version of its moment or fails.  A thread that builds a      *)
(* NetBox session decrypts its token, and asks for the settings again from *)
(* inside its own fetch: calls are <<thread, level>>, level 1 the nested.  *)
(* The fetch generation and the last result are written and never read by  *)
(* the program; they are left out.                                         *)
(***************************************************************************)
EXTENDS Naturals

CONSTANTS
    Threads,
    CallKinds,         \* the arguments callers use: see Arguments
    TTL,               \* _SETTINGS_CACHE_TTL
    MaxTime,           \* bound: clock
    MaxCalls,          \* bound: calls
    MaxEdits,          \* bound: versions of the settings in NetBox
    MaxInvalidations,  \* bound: invalidations
    Defaults,          \* get_default_settings()
    Override,          \* settings given to a thread by the override context
    None

Version == 0..MaxEdits
Value == Version \cup {Defaults, Override}

\* use_cache, request_timeout_seconds, cache_fallback, whether the caller brings a
\* session, and whether it runs under override_settings_for_current_thread.
Arguments == [useCache : BOOLEAN, timeout : Nat \cup {None}, fallback : BOOLEAN,
              session : BOOLEAN, override : BOOLEAN]

\* The encryption-key lookup of credentials.py: get_settings() without arguments.
KeyLookup == [useCache |-> TRUE, timeout |-> None, fallback |-> TRUE,
              session |-> FALSE, override |-> FALSE]

ASSUME SettingsConstants ==
    /\ CallKinds \subseteq Arguments
    /\ TTL \in Nat /\ MaxTime \in Nat /\ MaxCalls \in Nat
    /\ MaxEdits \in Nat /\ MaxInvalidations \in Nat
    /\ None \notin Nat /\ Defaults \notin Nat /\ Override \notin Nat
    /\ Defaults # Override /\ None \notin {Defaults, Override}

\* What a fetch yields: the settings, and the number of invalidations before NetBox
\* (or the fallback) gave them.
Fetched == [value : Version \cup {Defaults}, epoch : Nat]

ASSUME NoneIsNoRecord ==
    /\ None \notin Fetched /\ None \notin Arguments
    /\ None \notin [value : Version \cup {Defaults}, epoch : Nat, at : Nat]

Call == Threads \X {0, 1}
Nested(c) == <<c[1], 1>>

VARIABLES
    plugin,      \* NetBox: the current version of the settings
    clock,       \* time
    cache,       \* _SETTINGS_CACHE with its time, or None
    inProgress,  \* _SETTINGS_FETCH_IN_PROGRESS
    depth,       \* thread -> fetch_depth
    pc,          \* call -> where it is
    args,        \* call -> its arguments
    deadline,    \* call -> deadline
    settings,    \* call -> settings: None when the fetch raised
    result,      \* call -> what it returned last
    calls,       \* calls so far (bound)
    epoch,       \* history: invalidations so far (bound)
    overlapped,  \* history: an answer was on its way at the last invalidation
    failedAt     \* history: when the defaults were last cached, or None

shared == <<cache, inProgress>>
frames == <<pc, args, deadline, settings, result>>
history == <<epoch, overlapped, failedAt>>
vars == <<plugin, clock, shared, depth, frames, calls, history>>

\* The lock is held in no state: a critical section is one step.
Stages == {"idle", "entered", "locked", "waiting", "claimed", "session", "request",
           "stalled", "store"}
FetchStages == {"claimed", "session", "request", "stalled", "store"}

TypeOK ==
    /\ plugin \in Version /\ clock \in Nat
    /\ cache \in [value : Version \cup {Defaults}, epoch : Nat, at : Nat] \cup {None}
    /\ inProgress \in BOOLEAN
    /\ depth \in [Threads -> BOOLEAN]
    /\ pc \in [Call -> Stages]
    /\ args \in [Call -> Arguments]
    /\ deadline \in [Call -> Nat \cup {None}]
    /\ settings \in [Call -> Fetched \cup {None}]
    /\ result \in [Call -> Value \cup {None}]
    /\ calls \in Nat /\ epoch \in Nat /\ overlapped \in BOOLEAN
    /\ failedAt \in Nat \cup {None}

Init ==
    /\ plugin = 0 /\ clock = 0
    /\ cache = None /\ inProgress = FALSE
    /\ depth = [t \in Threads |-> FALSE]
    /\ pc = [c \in Call |-> "idle"]
    /\ args = [c \in Call |-> KeyLookup]
    /\ deadline = [c \in Call |-> None]
    /\ settings = [c \in Call |-> None]
    /\ result = [c \in Call |-> None]
    /\ calls = 0 /\ epoch = 0 /\ overlapped = FALSE /\ failedAt = None

-----------------------------------------------------------------------------
\* get_settings, from the call to the claim of the fetch.

Fresh == cache # None /\ clock < cache.at + TTL
Expired(c) == deadline[c] # None /\ clock >= deadline[c]

Goto(c, stage) == pc' = [pc EXCEPT ![c] = stage]
Return(c, v) ==
    /\ Goto(c, "idle")
    /\ result' = [result EXCEPT ![c] = v]
    /\ UNCHANGED <<args, deadline, settings>>

\* A caller calls; a thread inside get_raw_netbox_session calls from its own fetch.
Enter(c, k) ==
    /\ pc[c] = "idle" /\ calls < MaxCalls
    /\ c[2] = 1 => k = KeyLookup /\ pc[<<c[1], 0>>] = "session"
    /\ Goto(c, "entered")
    /\ args' = [args EXCEPT ![c] = k]
    /\ deadline' = [deadline EXCEPT ![c] = None]
    /\ settings' = [settings EXCEPT ![c] = None]
    /\ result' = [result EXCEPT ![c] = None]
    /\ calls' = calls + 1
    /\ UNCHANGED <<plugin, clock, shared, depth, history>>

\* The two returns before the lock, or the deadline.
Overridden(c) ==
    /\ pc[c] = "entered" /\ args[c].override
    /\ Return(c, Override)
    /\ UNCHANGED <<plugin, clock, shared, depth, calls, history>>

InsideOwnFetch(c) == depth[c[1]]

Recursion(c) ==
    /\ pc[c] = "entered" /\ ~args[c].override /\ InsideOwnFetch(c)
    /\ Return(c, Defaults)
    /\ UNCHANGED <<plugin, clock, shared, depth, calls, history>>

SetDeadline(c) ==
    /\ pc[c] = "entered" /\ ~args[c].override /\ ~InsideOwnFetch(c)
    /\ deadline' = [deadline EXCEPT
           ![c] = IF args[c].timeout = None THEN None ELSE clock + args[c].timeout]
    /\ Goto(c, "locked")
    /\ UNCHANGED <<plugin, clock, shared, depth, args, settings, result, calls, history>>

Hit(c) ==
    /\ pc[c] = "locked" /\ args[c].useCache /\ Fresh
    /\ Return(c, cache.value)
    /\ UNCHANGED <<plugin, clock, shared, depth, calls, history>>

Misses(c) == pc[c] = "locked" /\ ~(args[c].useCache /\ Fresh)

Claim(c) ==
    /\ Misses(c) /\ ~inProgress
    /\ inProgress' = TRUE
    /\ depth' = [depth EXCEPT ![c[1]] = TRUE]
    /\ Goto(c, "claimed")
    /\ UNCHANGED <<plugin, clock, cache, args, deadline, settings, result, calls, history>>

GiveUp(c) ==
    /\ Misses(c) /\ inProgress /\ Expired(c)
    /\ Return(c, Defaults)
    /\ UNCHANGED <<plugin, clock, shared, depth, calls, history>>

Wait(c) ==
    /\ Misses(c) /\ inProgress /\ ~Expired(c)
    /\ Goto(c, "waiting")
    /\ UNCHANGED <<plugin, clock, shared, depth, args, deadline, settings, result, calls, history>>

\* Mutant: the wait has no timeout.
SleepOn(c) == FALSE /\ UNCHANGED vars

\* The wait's own timeout; Store is what ends the others.
WakeUp(c) ==
    /\ pc[c] = "waiting" /\ Expired(c)
    /\ Goto(c, "locked")
    /\ UNCHANGED <<plugin, clock, shared, depth, args, deadline, settings, result, calls, history>>

-----------------------------------------------------------------------------
\* The fetch, outside the lock.

Yield(c, v) ==
    /\ settings' = [settings EXCEPT ![c] = [value |-> v, epoch |-> epoch]]
    /\ Goto(c, "store")
    /\ UNCHANGED <<plugin, clock, shared, depth, args, deadline, result, calls, history>>

Proceed(c, stage) ==
    /\ Goto(c, stage)
    /\ UNCHANGED <<plugin, clock, shared, depth, args, deadline, settings, result, calls, history>>

\* No time left, or the session, given or to be built.
StartFetch(c) ==
    /\ pc[c] = "claimed"
    /\ IF Expired(c) THEN Yield(c, Defaults)
       ELSE Proceed(c, IF args[c].session THEN "request" ELSE "session")

\* get_raw_netbox_session returns or fails; then the time left is read again.
BuildSession(c) ==
    /\ pc[c] = "session" /\ pc[Nested(c)] = "idle"
    /\ \/ ~Expired(c) /\ Proceed(c, "request")
       \/ Yield(c, Defaults)

\* fetch_settings_from_netbox: the settings of this moment, or None.
Respond(c) ==
    /\ pc[c] \in {"request", "stalled"}
    /\ \E v \in {plugin, Defaults} : Yield(c, v)

\* The time left, or the default, is the timeout of single socket operations, not of the
\* request: a server that trickles its answer holds any call's request up.
Stall(c) ==
    /\ pc[c] = "request"
    /\ Proceed(c, "stalled")

\* A BaseException leaves the fetch: settings stays None.
Raise(c) ==
    /\ \/ pc[c] = "session" /\ pc[Nested(c)] = "idle"
       \/ pc[c] \in {"request", "stalled"}
    /\ Proceed(c, "store")

\* Mutant: cache_fallback is ignored.
CachesAnyFallback(c) == settings[c] # None

Caches(c) == settings[c] # None /\ (settings[c].value # Defaults \/ args[c].fallback)

\* Mutant: a fetch that raises leaves the flag up.
StoreReleasesOnSuccess(c) ==
    /\ pc[c] = "store"
    /\ cache' = IF Caches(c)
                THEN [value |-> settings[c].value, epoch |-> settings[c].epoch, at |-> clock]
                ELSE cache
    /\ failedAt' = IF args[c].fallback /\ settings[c] # None /\ settings[c].value = Defaults
                   THEN clock ELSE failedAt
    /\ inProgress' = (settings[c] = None)
    /\ depth' = [depth EXCEPT ![c[1]] = FALSE]
    /\ pc' = [d \in Call |-> IF d = c THEN "idle"
                             ELSE IF pc[d] = "waiting" THEN "locked" ELSE pc[d]]
    /\ result' = [result EXCEPT
           ![c] = IF settings[c] = None THEN None ELSE settings[c].value]
    /\ UNCHANGED <<plugin, clock, args, deadline, settings, calls, epoch, overlapped>>

\* The finally block: store, release the flag and wake every waiter; then return.
Store(c) ==
    /\ pc[c] = "store"
    /\ cache' = IF Caches(c)
                THEN [value |-> settings[c].value, epoch |-> settings[c].epoch, at |-> clock]
                ELSE cache
    /\ failedAt' = IF args[c].fallback /\ settings[c] # None /\ settings[c].value = Defaults
                   THEN clock ELSE failedAt
    /\ inProgress' = FALSE
    /\ depth' = [depth EXCEPT ![c[1]] = FALSE]
    /\ pc' = [d \in Call |-> IF d = c THEN "idle"
                             ELSE IF pc[d] = "waiting" THEN "locked" ELSE pc[d]]
    /\ result' = [result EXCEPT
           ![c] = IF settings[c] = None THEN None ELSE settings[c].value]
    /\ UNCHANGED <<plugin, clock, args, deadline, settings, calls, epoch, overlapped>>

-----------------------------------------------------------------------------
\* Mutant: an invalidation leaves the cache to the fetch that is running.
InvalidateWhenQuiet ==
    /\ epoch < MaxInvalidations
    /\ cache' = IF inProgress THEN cache ELSE None
    /\ epoch' = epoch + 1
    /\ overlapped' = (\E c \in Call : pc[c] = "store" /\ settings[c] # None)
    /\ UNCHANGED <<plugin, clock, inProgress, depth, frames, calls, failedAt>>

\* invalidate_settings_cache, called where the local encryption key changes.
Invalidate ==
    /\ epoch < MaxInvalidations
    /\ cache' = None
    /\ epoch' = epoch + 1
    /\ overlapped' = (\E c \in Call : pc[c] = "store" /\ settings[c] # None)
    /\ UNCHANGED <<plugin, clock, inProgress, depth, frames, calls, failedAt>>

\* An administrator saves the settings in NetBox.
Edit ==
    /\ plugin < MaxEdits /\ plugin' = plugin + 1
    /\ UNCHANGED <<clock, shared, depth, frames, calls, history>>

\* The bound never stops the clock of a caller that waits for it.
Tick ==
    /\ \/ clock < MaxTime
       \/ \E c \in Call : pc[c] = "waiting" /\ deadline[c] # None /\ ~Expired(c)
    /\ clock' = clock + 1
    /\ UNCHANGED <<plugin, shared, depth, frames, calls, history>>

\* Steps the thread takes by itself once it runs.
Local(c) ==
    \/ Overridden(c) \/ Recursion(c) \/ SetDeadline(c)
    \/ Hit(c) \/ Claim(c) \/ GiveUp(c) \/ Wait(c) \/ WakeUp(c)
    \/ StartFetch(c) \/ BuildSession(c) \/ Store(c)

Next ==
    \/ \E c \in Call :
        \/ \E k \in CallKinds \cup {KeyLookup} : Enter(c, k)
        \/ Local(c) \/ Respond(c) \/ Stall(c) \/ Raise(c)
    \/ Invalidate \/ Edit \/ Tick

Spec == Init /\ [][Next]_vars

\* Threads run, time passes, and a request that is not held up ends.
Fairness ==
    /\ \A c \in Call : WF_vars(Local(c)) /\ WF_vars(pc[c] = "request" /\ Respond(c))
    /\ WF_vars(Tick)

FairSpec == Spec /\ Fairness

-----------------------------------------------------------------------------
\* Single flight: the flag is up exactly while some call is inside its fetch, no two
\* calls ever are, and a thread knows of its own fetch (fetch_depth).  A flag left up by
\* an error path would block every later caller.
SingleFlight ==
    /\ inProgress = (\E c \in Call : pc[c] \in FetchStages)
    /\ \A c, d \in Call : pc[c] \in FetchStages /\ pc[d] \in FetchStages => c = d
    /\ \A c \in Call : pc[c] \in FetchStages => depth[c[1]]

\* Nobody is asleep while no fetch is running: a waiter always has someone to wake it,
\* and never waits for its own thread.
WaitersHaveAFetcher ==
    \A c \in Call : pc[c] = "waiting" =>
        \E d \in Call : pc[d] \in FetchStages /\ d[1] # c[1]

\* A caller sees the defaults only for a reason of its own (it asks from inside its
\* fetch, its deadline passed, its own fetch failed), or because a call that may cache
\* its fallback failed less than a TTL ago: the bounded calls with cache_fallback off
\* never spoil the cache of the others.
DefaultsExplained ==
    [][\A c \in Call :
        pc[c] # "idle" /\ pc'[c] = "idle" /\ result'[c] = Defaults =>
            \/ c[2] = 1
            \/ Expired(c)
            \/ settings[c] # None /\ settings[c].value = Defaults
            \/ args[c].useCache /\ failedAt # None /\ clock < failedAt + TTL]_vars

\* After invalidate_settings_cache no older settings are served, unless an answer was
\* already on its way to the cache at that moment.
InvalidationForcesFetch ==
    cache # None /\ ~overlapped => cache.epoch = epoch

\* Every call returns, unless its own request is held up for ever or, for a call without
\* a time limit, the request of the fetch it waits for: no wake-up is lost, no thread waits
\* for itself, and a caller with a limit never inherits another thread's longer fetch.
HeldUp(c) ==
    \/ pc[c] = "stalled"
    \/ args[c].timeout = None /\ \E d \in Call : pc[d] = "stalled"
CallsReturn ==
    \A c \in Call : pc[c] # "idle" ~> (pc[c] = "idle" \/ []HeldUp(c))
=============================================================================

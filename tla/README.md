# A TLA+ verification of proxbox-api

proxbox-api is a FastAPI service between Proxmox clusters and NetBox. It reads
clusters and writes what it finds to NetBox (sync), and it carries operator
actions (start, stop, delete, migrate, ...) from NetBox to Proxmox with an audit
trail. Nearly all of it is asyncio code on one event loop, so two pieces of code
interleave only where one of them awaits. The hard parts are what happens
between two awaits: another request with the same key, a client that goes away
(CancelledError), a remote call that took effect although its answer was lost, a
cache entry that expires, a restart.

This directory holds the specifications of the parts where those things matter,
the TLC configurations that check them, and TLAPS proofs of the main results.

## Inventory

| Component | Source (under `proxbox_api/`) | State | Operations | Hard because |
|---|---|---|---|---|
| Operational verbs | `routes/proxmox_actions.py` | per request: write-ahead journal entry, outcome; NetBox journal; Proxmox tasks | gate, cache lookup, resolve node and audit target, write-ahead journal create, status check, dispatch, terminal PATCH, store, replay | cancellation at any await, lost answers, retries with the same Idempotency-Key |
| Idempotency cache | `services/idempotency.py` | response entries with TTL, one flight (lock + user count) per key | `get_entry`, `store`, `single_flight` | flights created and dropped while others wait; identity of flight objects |
| Verb helpers | `services/verb_dispatch.py` | none | resolve node / VM, journal POST and PATCH | failure with unknown effect |
| NetBox list traversal | `netbox_rest.py` | cursor, records collected, GET cache | `rest_list_async`, `rest_list_paginated_async`, cache fill | the list changes between two pages; a server that breaks the protocol; limits |
| NetBox writes | `netbox_rest.py`, `utils/retry.py` | NetBox records, GET cache | create with retries, ensure, reconcile, bulk create/patch/delete | lost answers of POSTs; check-then-act between tasks; stale lookups |
| Settings client | `settings_client.py` | cached settings, fetch flag, condition variable, per-thread depth | `get_settings`, `invalidate_settings_cache` | real threads; waiting with deadlines; recursion; invalidation during a fetch |
| Deletion requests | `routes/intent/deletion_requests.py`, `routes/intent/dispatchers/*_destroy.py` | one database row per request | approve, reject, execute | read, test and write with awaits in between; crash while executing |
| SSH terminal | `services/ssh_terminal.py`, `routes/ssh_terminal.py` | table of sessions, one-shot tickets; per connection two relay tasks | create, consume, relay, release | limits, expiry, racing consumers, errors and cancellation at every await |
| SSE bridge, active-sync registry | `utils/streaming.py`, `app/sync_state.py` | a queue per task; list of running syncs | emit, iterate, join, complete; register, release | end of stream, client gone, cancellation |
| Full update | `app/full_update.py` | the stage's task and bridge | stages one after the other | orphaned tasks |
| VM batch of a full update | `routes/virtualization/virtual_machines/sync_vm.py`, `services/name_collision.py`, `services/sync/reconciliation/vm_queue.py`, `services/sync/sync_state_*.py` | NetBox records with names, sidecar rows with identity and last run | fetch, snapshot, hydrate, resolve names, queue, dispatch, stamp, identify | partial failure; overlapping runs; a decision on a snapshot carried out later |
| Orphan sweep | `services/sync/orphan_sweep.py` | candidates | scan, check, delete | deletes what looks unsynchronised |
| Ceph v2 engine | `ceph/v2_engine.py` | the last 512 plans, a row per run | plan, apply | order, confirmation, partial failure |
| Intent planning and apply | `routes/intent/plan.py`, `apply.py` | none of its own | plan, apply | partial failure |
| Sessions, database, code generation, log buffer | `session/`, `database.py`, `proxmox_codegen/`, `log_buffer.py` | | | storage, set-up and generated code |

How they interact: a verb request passes `_gate`, enters
`IdempotencyCache.single_flight` for its key, and under that lock looks the key
up, talks to Proxmox and NetBox (through the helpers, `rest_create_async` and
`rest_patch_async`), and stores its response. The sync paths read NetBox through
`rest_list_async` and its GET cache, which every write of the process
invalidates, and write through create, ensure and reconcile. A full update runs
its stages as tasks that put events into a bridge, which the response generator
relays; the VM stage ends with stamps that the orphan sweep of the same update
reads. Opening a NetBox session decrypts a token and may ask the settings client,
which itself opens a session. Deletion requests share `_gate` with the verbs.

What makes each part correct: a key dispatches once per window and the journal
tells the truth about it (verbs); one holder per key, exact reference counts, no
lost waiter (cache); a returned list is the list, whole and once, within limits
(traversal); concurrent tasks end with one record that holds what they want
(writes); one fetch at a time, nobody left waiting, nothing older than the last
invalidation (settings); nothing is destroyed without an approval, and what is
recorded as done was done (deletion requests); a ticket serves once and its place
comes back (terminal); a stream that says ok is done, and its work stops with it
(streams); records keep their guest and a sweep takes only what its run did not
synchronise (VM sync).

## Modules

| Module | Models | Kind |
|---|---|---|
| `IdempotencyCache` | `services/idempotency.py` | component |
| `DispatchWindow` | what an Idempotency-Key promises: the module comment of `services/idempotency.py` over `single_flight`, `store` and the TTL | abstract specification |
| `VerbDispatch` | `routes/proxmox_actions.py`, `services/verb_dispatch.py` | component; uses the actions of `IdempotencyCache`, implements `DispatchWindow` |
| `RestList` | list traversal of `netbox_rest.py` with its GET cache entry | component |
| `Reconcile` | create, ensure, reconcile and bulk reconcile of `netbox_rest.py` over the GET cache | tasks and NetBox composed |
| `SettingsCache` | `settings_client.py` | component |
| `DeletionRequests` | approval, rejection and execution of a deletion request, with the destroy dispatchers | component |
| `TerminalSessions` | `services/ssh_terminal.py`, `routes/ssh_terminal.py` | manager and handlers composed |
| `SyncStream` | `utils/streaming.py`, `app/full_update.py`, `app/sync_state.py` | generator, tasks and registry composed |
| `VmSync` | the VM batch, the sidecars, the name resolver, the queue and the orphan sweep | composition |
| `IdempotencyCacheProofs`, `VerbDispatchProofs`, `RestListProofs`, `SettingsCacheProofs`, `DeletionRequestsProofs`, `ReconcileProofs`, `VmSyncProofs` | theorems about the module of that name | proofs |
| `ConnectionProofs` | theorems about `TerminalSessions` and `SyncStream` | proofs |
| `MC...` | instances for TLC | model checking |

Definitions whose comment says *Mutant* are deliberately wrong versions of the
definition that follows them. No specification uses them; they are substituted
for it to see that the property they are paired with in `PROJECT.json` notices.

### IdempotencyCache

`entries` is `self._entries` (`pending` is a response with journal-finalization
metadata, `expired` says its `expires_at` has passed), `flights` is
`self._flights`, `users` and `owner` are the fields of the flight objects,
`mine[c]` the locals of a coroutine inside `single_flight` and `waiting` the
coroutines suspended in `flight.lock.acquire()`. The mutex `self._lock` is never
held across an await, so each body under it is one action: `EnterSingleFlight`,
`GetEntry`, `Store`, `ReleaseSingleFlight`. Object identity is kept because the
code compares it (`self._flights.get(key) is flight`); an identity can be used
again once nothing refers to it, as CPython does. Time is abstract: an entry may
expire at any moment (`ExpireEntry`) and is removed at the next prune.

### VerbDispatch

A request's `pc` is the await it is suspended in. One action is the code from
one await to the next.

| Actions | Code |
|---|---|
| `Issue`, `Refuse`, `Admit`, `Acquire`, `Lookup` | routes, `_gate`, `_run_with_idempotency_single_flight`, `_cached_idempotency_response` |
| `RetryPatch`, `CancelledRetry`, `BestEffortRetry` | `_retry_cached_journal_finalization` |
| `Resolve`, `WriteaheadCreated`, `WriteaheadFailed` | `resolve_proxmox_node`, `_resolve_audit_target_or_error`, `_create_writeahead_journal_or_error` |
| `CheckPassed`, `CheckNoop`, `StopAccepted`, `CallAccepted`, `ProxmoxError`, `UnexpectedError` | the `_dispatch_*` functions; `Plan` is the table of what distinguishes them |
| `Patch`, `CancelledPatch`, `BestEffortPatch` | `_audit_and_respond`, `_finalize_journal_entry`, `_update_journal_entry_resistant_to_cancellation`, `_best_effort_mark_journal_terminal` |
| `Finalize`, `FinalizePatch` | `_await_with_interruption_journal`, `_finalize_after_unexpected_dispatch_error` |
| `Exit`, `Cleanup`, `Finish` | the end of `single_flight`, the answer |
| `Cancel`, `Expire`, `Restart` | CancelledError at each await, TTL, process restart |

A cancelled request that awaits a shielded task goes on in a `_c` state: the
task is awaited to its end before the exception is raised again. A NetBox PATCH
is acknowledged, or fails with or without effect; a write-ahead create that fails
may have made the entry. Endpoint and VM are fixed, since the cache key separates
them; texts, UPIDs and HTTP codes are reduced to the journal entry an answer is
about, its result, and whether it is a success. `calls` and `fault` are history
variables: calls made for a key in the current window, and what NetBox did not
confirm about an entry.

`DispatchWindow` says what this is for, without flights, journal or outcomes: the
requests of a key are served one by one; a call is made only if none was made in the
window and no cached answer stands; whoever made a call does not leave the key before
an answer is cached for it; the window ends with the TTL and with nothing else.
`OneCallPerWindow` maps the dispatcher to it (`Window`): the requests being served are
those between `single_flight` and its release, `live` are the keys with an entry that
has not expired. Nothing in the actions of `VerbDispatch` refers to it; a lookup that
overlooks pending answers, or an exit before the store, breaks it.

### RestList

One traversal and NetBox. NetBox's list is a sequence of ids that are never used
twice; `Reply` computes an answer from the list as it is, and the answer is then
on its way (`answer`) while `Insert`, `Delete` and `Post` change the list. A create of this
process has two steps: the POST lands, and its answer is received and parsed
(`CreateAnswered`), which alone drops the cached list, or is lost (`CreateLost`), which
leaves it.
`Begin` is the part before the first request (bounds, GET cache), `FetchFails`
the retry loop of `_fetch_page`, `Page` the body of the loop: `Collect` accepts a
page (`SameCollection`, `PageFits`, `Complete` or `Continues` are its tests, in
the order of the code) and `Refuse` is the 502. In a workload with `faulty` the server
may answer anything from a small set: repeated records, other counts, a bare array,
any next link. A record's content is its id, so a record that changes between
two pages is not modelled. `first`, `own` and `raced` are history: NetBox's list when
it answered for the first page, the records whose create was acknowledged, and those
acknowledged while the answer for the last page was on its way.

### Reconcile

Tasks that bring one object of NetBox to a desired state, each with one of five
operations: `create` is `rest_create_async` with a lookup, `ensure` is
`rest_ensure_async`, `reconcile` is `rest_reconcile_async`, and `bulk` and `bulk_only`
are `rest_bulk_reconcile_async` with and without its fallback to single requests, seen
from one object of the batch. A batch is created whole or not at all (`Post`), may be
refused because of another object (`BatchRefused`), and a failed one is left for a
reconcile of each object or the save of each record (`LeaveBatch`). `pc` is the request a
task is at: the first lookup (`find`), the lookup before a repeated POST
(`relook`), the lookups after a duplicate error (`refind`, `rescan`), the POST and
the PATCH. `reply` is the answer on its way; a POST arrives at NetBox (`Post`), and
its answer is used (`Created`, `Duplicate`) or lost (`PostAnswerLost`) later. The code
decides what to do with a failed POST by the text of the error; the text is any of
`Texts`, whether the POST arrived or not (a proxy behind which NetBox answered may say
"connection refused"), and `SafeToRetry` is the test: other errors are raised at once.
A POST that failed has landed by the time its failure is seen, or never does.

The cache has one entry per query, so that a lookup can be answered by what an earlier
one left there. A record may be committed and not shown by lists yet (`hidden`, until
`Appear`): that is what the refetch rounds after a duplicate error are for, and when
they are used up the task returns its own payload without an id, as
`test_confirmed_duplicate_without_refetch_returns_unchanged` expects. `unique` says
whether NetBox has a uniqueness constraint on the object. The candidate lookups of one
object are one query. A 400 for a filter value that does not exist reads as an empty
list and is not told apart from it. `landed`, `blind` (the POSTs a task repeated
unprotected), `veiled` (the queries NetBox answered without a record it had) and
`overlap` are history.

### SettingsCache

Real threads, so a step is what happens between two points where another thread
can interfere: a critical section under `_SETTINGS_CONDITION` is one step. A call
is `<<thread, level>>`; level 1 is the nested call of a thread that builds a
session from inside its fetch. `Enter`, `Overridden`, `Recursion` and `SetDeadline`
are the code before the lock; `Hit`, `Claim`, `GiveUp` and `Wait` the four ends of
the loop under it; `StartFetch`, `BuildSession`, `Respond`, `Stall` and `Raise` the
fetch outside the lock; `Store` is the finally block with its `notify_all`. The limit
of a call bounds its wait for other fetches and each socket operation of its own
requests, not a request as a whole: `Stall` may hold up any request for ever.
`epoch`, `overlapped` and `failedAt` are history.

### TerminalSessions

`table` is `_sessions`; session objects live on in their handlers when they have
left it. Each method of the manager is one step, since its lock is never held
across an await. A handler goes from the ticket to the credential, the connection
and the relay, whose two tasks are `output` and `input`; `ReadDeadline` is computed
before the wait, as the code does. A read that times out, and a handler that ends,
first send the browser a frame (`parting`, `farewell`), which waits when the browser does
not read (`PartUnread`, `FarewellUnread`). `Cancel` is a CancelledError at any of the
handler's awaits, and `Release` the finally block.

### SyncStream

One response. `kind` is `stage` for `sse_stream_generator` (which owns one task) and
`full` for the `event_stream` of a full update (a task and a bridge per stage).
`at` is the yield or the await the generator is suspended in: at a yield the server
may ask for more or abandon it (GeneratorExit follows, `Close`), at an await it may
cancel it. An await of the task itself passes the cancellation on to the task
(`CancelStream`), or cancels the generator when the task has just ended. A full update does not stop the task of its stage when it is cancelled
while it relays: that task runs on, no longer registered. A task that answers its cancellation
with an error of its own leaves a stream without a `complete` event, the exception
in `OneComplete`.

### VmSync

Runs of the VM batch over one NetBox cluster. All guests have the same name in
Proxmox, which is the case the resolver exists for; a name in NetBox is the number
of its suffix. `row` is the sidecar row of a record: the guest it names and the run
that stamped it last. A run lists and fetches guests (`Start`), takes the snapshot,
finds records through rows (`Hydrate`), resolves names in the order of VMIDs
(`Resolved`), classifies (`Classify`), dispatches concurrently (`Keep`,
`ResolveCreate`, `Post`, `Update`), stamps and identifies one guest after the other,
and sweeps (`Scan`, `Check`, `Delete`). `absent` are the guests without a row in the
list of rows that `Hydrate` read: `ResolveCreate` asks the same query again and is
answered by that list while the GET cache keeps it, or by NetBox. Any request may fail with or without effect,
any run may break off, and runs may overlap. The setting `custom_fields_enabled` is
off, its default, so the rows are the only identity; operators rename nothing.
`origin`, `listed`, `swept` and `overlapped` are history.

What the model shows of the code besides its properties: a guest whose fetch or
operation failed keeps an old stamp, and the sweep deletes its record
(`SweepExplained` has that exception). A failed read of the rows during the name
pre-pass gives a guest a suffixed name that the next run takes back. A lost answer
of the POST, or a failed write of the identity, leaves a record without a row, beside
which the next run creates one with a suffix. When a guest is to get the name of
another, NetBox refuses it if its PATCH comes first, until a later run: `NamesCoexist`
excepts a name that the record of another guest of the batch held in the snapshot, and
nothing else. Overlapping runs can create two records for one guest, after
which its CREATE fails as ambiguous (`IdentityUnique` excludes them). A hard error of
one deletion ends the sweep.

### DeletionRequests

One record and any number of handlers of the three routes, each with a database
session of its own. `pc` is the await a handler is suspended in, `loaded` what
its session holds as the row's state, `goal` the state assigned and not yet
committed (or the result of a refusal). SQLAlchemy writes a column only when its
value differs from the one loaded and the UPDATE names the primary key only, so
`Commit` overwrites whatever the row is by then; SQLite in WAL mode with the
driver's default isolation holds no read snapshot between the SELECT and the
UPDATE. `Load` is `_get_record`, `Gate` the three tests of the routes, `Refuse`
their journal entries and answers, `Commit` and `Refresh` the two halves of
`_save_record`; `OpenSession`, `Destroy`, `LogError` and `LogOk` are the destroy
dispatchers (QEMU and LXC differ in the path they call), and `CommitOutcome` is
the end of execute. A handler can end at every await (`Abort`): the code catches
`Exception`, which CancelledError is not. A DELETE that fails may have been
accepted, and a journal POST that fails may have been stored. `sent` and
`granted` are history: DELETE calls sent, an approval committed.

## Runs

| Run | Configuration | Checks | Distinct states |
|---|---|---|---|
| `cache` | 3 coroutines, 2 keys, fair | `SingleFlight`, `NoFlightLeak`, `WaiterProgress` | 37 700 |
| `verb_start` | 2 requests, 1 key, `start` | `AtMostOneCall`, `FailedPatchIsRetryable`, `JournalTruthful`, `CacheAgreesWithJournal`, `OneCallPerWindow` (refinement of `DispatchWindow`) | 1.6 million |
| `verb_delete` | 2 requests, 1 key, `delete`, fair | `CancellationClosesEntry`, `RequestsAnswered` | 0.2 million |
| `verb_mixed` | 2 requests, 1 key, `snapshot`, `migrate`, `migrate_cancel` | `SuccessIsAudited` | 0.5 million |
| `list` | 4 records, 2 edits of four kinds of workload or a faulty server, 10 queries, fair | `ReturnsSnapshot`, `OwnWritesSeen`, `CollectedOnce`, `WithinLimits`, `Terminates` | 0.2 million |
| `reconcile` | 2 tasks, 6 pairs of jobs, 2 faults, edits or late records, fair | `Converge`, `ReachesDesired`, `NoNeedlessDuplicate`, `LandsOnce`, `TasksEnd` | 0.7 million |
| `settings` | 2 threads, 3 calls of the four kinds the program makes, 1 edit, 1 invalidation, fair | `SingleFlight`, `InvalidationForcesFetch`, `DefaultsExplained`, `CallsReturn` | 0.2 million |
| `deletion_requests` | 3 handlers, 4 requests | `DestroyWasApproved`, `OutcomeIsTrue`, `AtMostOneDestroy` | 1.1 million (symmetry) |
| `deletion_race` | 2 handlers, 3 requests | `ExecuteRequiresApproved` | violated: the finding |
| `terminal` | 2 handlers, 2 tickets, 1 place, fair | `OneRelayPerTicket`, `CapacityKept`, `NoSlotLeak`, `SessionEnds` | 0.3 million |
| `sync_stream` | both kinds, 3 stages, 2 events each, fair | `OkMeansDone`, `OneComplete`, `WorkStops` | 4 200 |
| `vm_sync` | 2 guests, 2 runs, 4 records, 2 faults | `SweepSparesSynced`, `BoundToItsGuest`, `IdentityUnique`, `SweepExplained`, `NamesCoexist` | 2.5 million (symmetry) |

The type invariants, the inductive invariants (`CacheInv`, `DispatchInv`, `AuditInv`
and those of the proof modules) and `WaitersHaveAFetcher` are proved and have no run:
what a run adds is the properties above. After a change of a module, check its
invariants with TLC before repairing the proof: `TypeOK`, `DispatchInv` and `AuditInv`
can be added to the `.cfg` as they are.

Bounds. Interference on a key needs a holder and a waiter, and a third coroutine
to be born between a release and its cleanup: three in the cache runs. In the
dispatcher the cache is known to behave, two requests suffice for one to replay,
overtake or outlive the other, and the slots are reused without limit, so later
requests find what earlier ones left. `JournalIds` bounds the journal entries
NetBox creates in a run: two (`verb_start`) allow a repair and a new dispatch. A write-ahead
create that finds none left can still fail, so the bound stops no request. `stop`
and `reboot` have the plan of `start`, and `backup` and `delete_snapshot` that of
`snapshot` up to the name of the no-op, so the runs take one verb of each shape.
In the list run pages have one or two records, so lists of four have a boundary
inside them; `HardPages` and `HardRecords` are small enough to be hit; two edits
are the fewest that can cancel each other in the count.

Two tasks are the fewest that race for one object, and one of them may start when
the other has ended, so a stale cache is met too. `MaxTrouble` counts faults, edits of
other clients and records that lists do not show at once together: two allow a lost
answer and a failed lookup behind it, a lost answer and a list without the record, or
two tasks' faults; one retry and two refetch rounds (the code has three) the repetition
of each; the ids are more than the POSTs a behaviour can land. In the
settings run the third call meets what two others left (an expired entry, an
invalidated one, a raised exception). One place and two tickets make the limit bite,
and a lifetime of two ticks is longer than the idle time and the ticket's. Three
stages have a first, a middle and a last one. Two runs overlap or follow each other;
two faults are a lost identity and one more; four records suffice for each guest to
be created twice.

For a deletion request, three handlers let an approval be followed by an
execution that a third handler disturbs; four requests one after another are
enough to approve, execute, abort and try again.

Deadlock checking is off where the system stops by itself: a finished traversal,
finished tasks, ended handlers, an ended stream, and all runs done; and in the
settings run, whose calls are bounded.

## Fairness

A coroutine's own step is weakly fair because every await of it is bounded: the
NetBox client has a timeout (`session/netbox.py`, `_resolve_netbox_timeout`), the
Proxmox session too (`session/proxmox_core.py`), and the event loop runs what is
ready. Acquiring an `asyncio.Lock` is strongly fair because its waiters are served
first in, first out. Nothing is assumed of clients, cancellation, restarts or of
NetBox: in `list` `FetchFails` may happen for ever, and in `reconcile` the bound on
faults is not used as an assumption, since every failure ends a task or uses up an
attempt.

Where time matters the clock is fair (`Tick`). In `settings` threads run and a
request that is not held up ends; every request may be held up for ever (`Stall`: a
timeout is for one socket operation, so a server that trickles its answer never meets
it), and `CallsReturn` says what then still returns: a call is held up by its own
request, or, if it has no limit, by the fetch it waits for (`HeldUp`). In `terminal`
nothing is assumed of the browser, of the SSH handshake, or of a process or browser
that does not read: `SessionEnds` names exactly these. In `sync_stream` a cancelled task ends and the event loop
closes an abandoned generator; nothing is assumed of the client or of a task left
alone.

## Findings

`ExecuteRequiresApproved` (`deletion_race`). Execute answers "execute requires
approved" (`deletion_requests.py:312`) to a row that is not, but tests the row as
loaded before an await and overwrites it: a request that another handler has just
rejected, or is already executing, is executed. `DestroyWasApproved` and
`OutcomeIsTrue` say what holds nevertheless, and `AtMostOneDestroy` what holds when
requests do not overlap.

Places where a text of the repository says more than the code does. They are read
off the models and have no run of their own:

- `proxmox_actions.py:21-22` and `docs/api/http-reference.md:215` promise one
  journal entry for every invocation. A request whose node or audit target is not
  resolved is answered without one (`Resolve`): there is no object to attach it to.
- `netbox_rest.py:2103-2104`: "partial collections are never returned or cached".
  With the list a b c d and pages of two, an insertion at the end and the deletion
  of a between the two pages give a b d e: the count is still four, nothing repeats,
  and c is missing. `ReturnsSnapshot` says how far the promise goes (`OneWayEdits`).
- `docs/architecture/caching.md:16` promises invalidation of the GET cache on
  mutations. A create invalidates while a traversal has its last page on the way; the
  traversal then fills the cache with the older list. A POST that landed and whose
  answer was lost invalidates nothing (1337-1348). `OwnWritesSeen` is about acknowledged
  creates and has exactly the first exception.
- The docstring of `rest_create_async` (1316-1318) says that a retry returns the
  record if the prior attempt landed. The lookup may be answered from the GET cache by
  an empty list older than that attempt, or fail and read as "not there". It also says
  that without a lookup only errors that clearly indicate that the request never reached
  NetBox are retried; the test is for words in the text of the error (`utils/retry.py:84-87`).
  `LandsOnce` counts these cases and excludes all others.
- `_gate` says it enforces `allow_writes` (`proxmox_actions.py:142`). Its second call,
  in the destroy dispatcher, is answered from the session's identity map and cannot
  see that writes were withdrawn since the first.
- `sync_state.py:6-9`: an entry inside the generator "tracks the actual lifetime of the
  work". The stage task of a cancelled full update runs on without it
  (`CancelStream`, then `Leave`).
- `docs/sync/name-collision-resolver.md:8-9`: suffixes are assigned "so both records
  can coexist". A guest that is to take over another record's name is refused when
  its PATCH comes before that record's (`NamesCoexist` has that exception).

## Proofs

TLAPS checks every theorem for all values of the constants. Every invariant and action
property that a passing run checks is also a theorem; the liveness properties are not.

*IdempotencyCacheProofs*, from `ClientsFinite` and `NoneIsFresh`. `SingleFlight`
alone is not inductive: a coroutine could hold the lock of a flight the map has
forgotten. `CacheInv` adds that the flight of every coroutine inside is the one
in the map (`FlightIsCurrent`), that keys do not share flights, that an owner is a
user, and that `users` is the cardinality of the set of users; the step that
needs the count is `ReleaseSingleFlight`, which drops a flight exactly when its
last user leaves. Theorems `CacheInvariant`, `MutualExclusion`, `FlightsDoNotLeak`.

*VerbDispatchProofs*. `Simulation` shows that every step of the dispatcher is a
step of the cache or leaves it alone, by the way the dispatcher is written, which lets
the cache invariant be used by instantiation instead of being proved again. `DispatchInv` then says where a request stands in the code
determines what it has of the cache (`PcMatchesLock`), that the journal entries
it refers to exist (`EntriesExist`), and `CallsCovered`: every call of a window
is covered by a live cached response or by a request, still inside the section,
that is about to store one. Mutual exclusion is what makes that request unique.
`KeyOpensOneWindow` is the refinement of `DispatchWindow`: mutual exclusion makes
`Admit` find the key free, `CallsCovered` gives the guards of `Call` (a request past its
lookup has neither a call nor a live answer beside it) and of `Leave` (who made a call
has stored an answer, and a live one is not replaced by nothing). Theorems
`DispatchInvariant`, `AtMostOnce`, `KeyOpensOneWindow`. The assumptions are `VerbsKnown`, `ReqsFinite` and `NoneIsNothing`; the set of verbs is arbitrary.

The properties of the journal need a second invariant, `AuditInv`, which is inductive
relative to `DispatchInv` and `CacheInv`. Its core is `OneHandler`: a journal entry is in
the hands of one request, of one cached response, or of a request inside the section
of the very key whose response it is. So nobody else patches the entry a request
works on, and what the request knows of it (`RequestKnows`: the result it is about to
write is what Proxmox answered) stays true across its awaits; a cached response knows
as much (`ResponseKnows`), which is what a replay that repairs a failed PATCH relies on;
and a success that was answered is about an entry nothing will write again
(`AnswerKnows`, `Settled`). Without `Settled`, `SuccessIsAudited` is not inductive: a
later PATCH could change the entry behind the answer. Theorems `AuditInvariant`,
`JournalIsTruthful`, `CacheAgreement`, `SuccessAudited`, `CancellationCloses`,
`FailedPatchRetryable`.

*RestListProofs*, from `PagingConstants`. `LoopInv` holds against any server: the
records collected are distinct, the cursor is where they end, limits are strict
inside the loop. `SnapshotInv` is the argument for `SnapshotRead`: while edits go
one way, a list of the same length is the same list (`SameLengthSameList`), so an
answer with the expected count is an answer of the first list, and the records
collected are its prefix. Theorems `TypeCorrect`, `CollectsOnce`,
`StaysWithinLimits`, `SnapshotRead`; the last is about workloads that satisfy
`OneWayEdits`. `OwnWrites` rests on it: `CacheAge` says that a cached list is either
older than the traversal, and then no create was acknowledged since (that drops the
entry), or is what the traversal read, which `SnapshotRead` identifies: a record
acknowledged before the last page was asked for is in NetBox by then, so a list of the
first page's length that lacks it cannot be the answer.

*DeletionRequestsProofs*, from `DeletionConstants`. `DestroyWasApproved` is not
inductive: a handler about to send the DELETE must know that an approval was
committed. `HandlerKnows` says what each place in the code knows (an execution
past its test loaded an approved row; a success to be committed comes from an
answer of Proxmox), and since approvals and accepted calls are never taken back,
no step of another handler disturbs it (`OthersKnow`): that is why these two
properties survive the race that the finding describes. Theorems
`TypeCorrect`, `ApprovalFirst`, `RecordsAreTrue`, for any number of handlers. `OneDestroy`
needs what a handler knows when it is alone (`AloneKnows`, part of `SequentialInv`): the
row is as it loaded it, and since a row never returns to pending or approved, an
execution past its commit is the first one.

*SettingsCacheProofs*, from `SettingsConstants` and `NoneIsNoRecord`, for any number
of threads, any arguments and any failures. `SingleFlight` is not inductive: a nested
call could claim a second fetch. `FlowInv` adds that a nested call exists only while
its thread builds a session and gets no further than the check for recursion
(`NestedReturnsAtOnce`), and that `fetch_depth` is raised exactly for the thread's own
fetch (`DepthExact`). `WaitersHaveAFetcher` follows because only `Store` ends a fetch
and it wakes everybody, and a thread inside its own fetch never waits. `ValueInv`
relates values to time: a call holds no settings before its answer, defaults in the
cache are dated by `failedAt`, and answers on their way are as recent as the last
invalidation unless it overlapped them. Theorems `TypeCorrect`, `OneFetchAtATime`,
`WaitersAreWoken`, `InvalidationHolds` and the action property `DefaultsAreExplained`.

*ReconcileProofs*, from `ReconcileConstants` (ids are numbers and there is one, the
bounds on retries, rounds and faults are numbers, nothing is `None`), for any number of
tasks of any operation, any payloads, any cache contents the tasks and other clients can
produce, and any failures. A lemma per action states its effect, and `Keeps` what it
leaves of the other tasks, so that each invariant is argued on effects. `StagesFit` ties
answers to stages and stages to operations. `Converge`: `NothingLost` says that while
nobody deletes, every id that the cache, an answer or a task knows is in NetBox, and
that after a duplicate error NetBox has a record, which the scan finds unless the list
that answers it does not show it; with at most one record (`AtMostOne`) whatever is found
is the record. `LandsOnce`: `LandsKnown` says where a task may stand with a POST that
landed and is not counted in `blind` yet; a lookup that NetBox itself answers with
nothing, although it shows everything, proves that it did not land. `ReachesDesired`:
`PayloadStays` says that a record seen with the payload keeps it, because nobody writes
another one; that is why a stale comparison does no harm. `NoNeedlessDuplicate`:
`EmptyIsTrue` says that an empty list, on its way or cached, means an empty NetBox,
unless it was one that did not show a record, and except between a POST's arrival and
its answer, when only its own task runs. Theorems `TypeCorrect`, `RacesConverge`,
`PostsLandOnce`, `ReconcilesReachDesired`, `DuplicatesHaveReasons`.

*ConnectionProofs*, first part, from `TerminalConstants`, for any finite sets of sessions and
handlers, any limit and any timeouts. `TicketInv` says that a handler's session was
paid for with its ticket, which is why a second handler is refused. `SlotInv` says
that a session served within its lifetime is in the table, and the table within its
limit; since handlers and sessions correspond one to one, the served handlers are no
more than the places (`PlacesBound`, a pigeonhole argument). Theorems `TypeCorrect`,
`TicketsAreOneShot`, `PlacesAreReturned`, `CapacityHolds`.

Second part, about `SyncStream` (whose specification is called `StreamSpec` so that one
module can extend both), from `StreamConstants`, for any number of stages and of events.
`OkMeansDone` is not inductive; `Bridges` says what is in each queue (the events not
relayed yet and then, when the task is over, the end), so that a generator that has met
the end has relayed everything; `Order` says which stages are over, by the place of the
generator; `LastWord` that nothing follows a complete event. Theorems
`StreamTypeCorrect`, `StreamIsTruthful`, `StreamCompletesOnce`.

*VmSyncProofs*, from `VmSyncConstants`, for any number of guests and of overlapping
runs. `BindingInv` follows a record from the row to the run and back: a run never
holds another guest's record for a guest (`TargetsMatch`), because rows name their
record's guest and ids are never used twice (`FreshIds`). `SweepInv` says that a sweep
that deletes has been compared with what its run synchronised, which does not change
any more (`SweepChecked`). Theorems `TypeCorrect`, `RecordsKeepTheirGuest`,
`OwnRecordsAreSafe`.

For runs that do not overlap, `AloneInv` adds that what a run knows of a guest stays true
(`KnowsGuest`): the record it holds is the only one bound to the guest, and a guest it
is about to create has none. This gives `GuestsStayUnambiguous`; with `StagesMatch`
(every listed guest has an operation that has ended by the time of the sweep) it gives
`SweepIsExplained`. `BatchNamesCoexist` needs `QuietInv`: a run without faults works on
the snapshot it took, and a name that is wanted and taken is held by the record that
another guest of the batch had in the snapshot, under that name. There the resolver must find a name at all: `NamesSuffice` is a
pigeonhole argument, and the least free name exists by `LeastNumber`, which is derived
from the well-foundedness of strict inclusion on finite sets, since the library's
induction theorems cannot be used here.

Only model-checked: the liveness properties `WaiterProgress`, `RequestsAnswered`,
`Terminates`, `CallsReturn`, `SessionEnds`, `TasksEnd` and `WorkStops`, since fairness and
ENABLED are outside the prover. `ExecuteRequiresApproved` is refuted by its run.

## Not modelled, and the plan

Next, in this order:

1. The Ceph v2 engine: a bounded store of plans, the confirmation, an ordered apply
   that stops in the middle and is asked for again.
2. Proofs: the safety half of the liveness properties, that is, the variants that
   bound what is left to do (attempts and refetch rounds of a task, pages of a
   traversal), as action properties. The step from there to progress stays with TLC.

Left out for good: generated models (a quarter of the repository's Python lines) and the
code generator, database migrations, session set-up, HTML and log
formatting (no state that two actors share), and the sync stages other than the
virtual machines. These stages are long, but what they do between two calls of
`rest_reconcile_async` or `rest_bulk_reconcile_async` is the mapping of fields, one
object after the other; the interleavings they have are those of `Reconcile`. The SSE
stream of a migrate task only reads a Proxmox task's log. The Rust twin of the VM
queue is a compiled extension.

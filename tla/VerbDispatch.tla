---------------------------- MODULE VerbDispatch ----------------------------
(***************************************************************************)
(* routes/proxmox_actions.py: one operational verb (start, stop, reboot,   *)
(* delete, snapshot, backup, delete_snapshot, migrate, migrate-cancel) for *)
(* one VM of one endpoint, as many concurrent HTTP requests run it.        *)
(*                                                                         *)
(* A request is a coroutine; its pc is the await it is suspended in.  The  *)
(* idempotency cache is the module IdempotencyCache.  NetBox's journal and *)
(* the Proxmox calls are external and modelled by what the code sees: a    *)
(* call returns, fails without effect, or takes effect and its answer is   *)
(* lost.  CancelledError may be delivered at every await that can raise it *)
(* and the whole process may restart.                                      *)
(***************************************************************************)
EXTENDS Naturals, FiniteSets

CONSTANTS
    Reqs,        \* request slots
    IdemKeys,    \* values of the Idempotency-Key header
    Verbs,       \* verbs the clients use
    JournalIds,  \* bound: journal entries NetBox can create
    Flights,     \* identities of _Flight objects
    None

(***************************************************************************)
(* The table of the _dispatch_* functions: what is read before the call    *)
(* (check), the result audited when that makes the call unnecessary (noop) *)
(* and the results audited when the call is accepted (ok) or refused (err).*)
(***************************************************************************)
DispatchStart == [check |-> "status", noop |-> "already_running", ok |-> "ok", err |-> "failed"]
DispatchStop == [check |-> "status", noop |-> "already_stopped", ok |-> "ok", err |-> "failed"]
DispatchReboot == [check |-> "status", noop |-> "already_stopped", ok |-> "ok", err |-> "failed"]
DispatchDelete == [check |-> "prepare", noop |-> "none", ok |-> "ok", err |-> "failed"]
DispatchSnapshot == [check |-> "none", noop |-> "none", ok |-> "ok", err |-> "failed"]
DispatchBackup == [check |-> "none", noop |-> "none", ok |-> "ok", err |-> "failed"]
DispatchDeleteSnapshot == [check |-> "none", noop |-> "none", ok |-> "ok", err |-> "failed"]
DispatchMigrate == [check |-> "preflight", noop |-> "rejected", ok |-> "accepted", err |-> "failed"]
MigrateCancel == [check |-> "none", noop |-> "none", ok |-> "cancel_requested", err |-> "cancel_failed"]

Plan == [start |-> DispatchStart, stop |-> DispatchStop, reboot |-> DispatchReboot,
         delete |-> DispatchDelete, snapshot |-> DispatchSnapshot,
         backup |-> DispatchBackup, delete_snapshot |-> DispatchDeleteSnapshot,
         migrate |-> DispatchMigrate, migrate_cancel |-> MigrateCancel]

ASSUME VerbsKnown == Verbs \subseteq DOMAIN Plan
ASSUME ReqsFinite == IsFiniteSet(Reqs)

Results == {"ok", "accepted", "cancel_requested", "already_running", "already_stopped",
            "rejected", "failed", "cancel_failed", "interrupted"}

\* Results whose http_status is below 400.
SuccessResults == {"ok", "accepted", "cancel_requested", "already_running", "already_stopped"}

\* _idempotency_cache_key: the endpoint and the VM are fixed in this model.
CacheKeys == Verbs \X IdemKeys

\* What a response and a cached body are told apart by: the journal entry the
\* answer is about, its result, and whether the HTTP status is a success.
Body == [entry : JournalIds, result : Results, success : BOOLEAN]

Call == [verb : Verbs, key : IdemKeys \cup {None}]
Response == [kind : {"refused", "unresolved", "conflict", "raised"}]
            \cup [kind : {"audited"}, body : Body]
Record == [verb : Verbs, result : Results \cup {"in_progress"}]

ASSUME NoneIsNothing ==
    None \notin Reqs \cup Flights \cup IdemKeys \cup JournalIds \cup CacheKeys
                \cup Body \cup Call \cup Response \cup Record
                \cup [pending : BOOLEAN, expired : BOOLEAN, body : Body]
                \cup [key : CacheKeys, flight : Flights]

VARIABLES
    entries, flights, users, owner, waiting, mine,  \* IdempotencyCache
    pc,        \* the await a request is suspended in
    call,      \* the verb and the Idempotency-Key of the request
    entry,     \* write-ahead journal entry id the coroutine has, or None
    terminal,  \* the _JOURNAL_TERMINAL_SENTINEL of that entry dict
    outcome,   \* result under audit
    guarded,   \* the audit runs inside _await_with_interruption_journal
    resp,      \* response of the request, or None
    journal,   \* NetBox: journal entry id -> [verb, result]
    sent,      \* Proxmox: what became of the call audited by an entry
    calls,     \* history: Proxmox calls made for a key in its current window
    fault      \* history: what NetBox failed to confirm about an entry

Cache == INSTANCE IdempotencyCache WITH Clients <- Reqs, Keys <- CacheKeys, Bodies <- Body

cacheVars == <<entries, flights, users, owner, waiting, mine>>
reqVars == <<call, entry, terminal, outcome, guarded>>
worldVars == <<journal, sent, calls, fault>>
vars == <<cacheVars, pc, reqVars, resp, worldVars>>

PCs == {"idle", "gate", "acquire", "lookup", "retry", "retry_c", "retry_be", "resolve",
        "writeahead", "writeahead_c", "check", "stopping", "dispatch", "patch", "patch_c",
        "patch_be", "finalize", "finalize_patch", "exit", "cleanup", "done"}

TypeOK ==
    /\ Cache!TypeOK
    /\ pc \in [Reqs -> PCs]
    /\ call \in [Reqs -> Call \cup {None}]
    /\ entry \in [Reqs -> JournalIds \cup {None}]
    /\ terminal \in [Reqs -> BOOLEAN]
    /\ outcome \in [Reqs -> Results \cup {"none"}]
    /\ guarded \in [Reqs -> BOOLEAN]
    /\ resp \in [Reqs -> Response \cup {None}]
    /\ journal \in [JournalIds -> Record \cup {None}]
    /\ sent \in [JournalIds -> {"no", "sent", "accepted"}]
    /\ calls \in [CacheKeys -> Nat]
    /\ fault \in [JournalIds -> {"none", "patch", "lost"}]

Init ==
    /\ Cache!CacheInit
    /\ pc = [r \in Reqs |-> "idle"]
    /\ call = [r \in Reqs |-> None]
    /\ entry = [r \in Reqs |-> None]
    /\ terminal = [r \in Reqs |-> FALSE]
    /\ outcome = [r \in Reqs |-> "none"]
    /\ guarded = [r \in Reqs |-> FALSE]
    /\ resp = [r \in Reqs |-> None]
    /\ journal = [j \in JournalIds |-> None]
    /\ sent = [j \in JournalIds |-> "no"]
    /\ calls = [k \in CacheKeys |-> 0]
    /\ fault = [j \in JournalIds |-> "none"]

-----------------------------------------------------------------------------
(* Parts of the actions.                                                   *)

Goto(r, label) == pc' = [pc EXCEPT ![r] = label]

Keyed(r) == call[r].key # None

\* Mutant: the cache key forgets the verb.
KeyWithoutVerb(r) == <<CHOOSE v \in Verbs : TRUE, call[r].key>>

CacheKey(r) == <<call[r].verb, call[r].key>>

\* The coroutine leaves the operation with a response or an exception.
Respond(r, response) == resp' = [resp EXCEPT ![r] = response] /\ Goto(r, "exit")

Raised == [kind |-> "raised"]
Audited(b) == [kind |-> "audited", body |-> b]

\* The body of _audit_and_respond and of the cached replay: an answer whose
\* journal entry is not finalized is never a success.
AuditBody(j, result, finalized) ==
    [entry |-> j, result |-> result,
     success |-> finalized /\ result \in SuccessResults]

\* cache.store, when the caller supplied an Idempotency-Key.
StoreResponse(r, isPending, b) ==
    IF Keyed(r) THEN Cache!Store(r, isPending, b) ELSE UNCHANGED cacheVars

\* update_verb_journal_entry: acknowledged, or failed with or without effect.
\* A failure is remembered in `fault', with whether a replay can repair it.
CachedAfter(r) ==
    /\ Keyed(r)
    /\ entries'[CacheKey(r)] # None
    /\ ~entries'[CacheKey(r)].expired

PatchAcked(j, result) ==
    /\ journal' = [journal EXCEPT ![j].result = result]
    /\ UNCHANGED fault

PatchFailed(r, j, result) ==
    /\ journal' \in {journal, [journal EXCEPT ![j].result = result]}
    /\ fault' = [fault EXCEPT ![j] =
                     IF @ = "lost" THEN @ ELSE IF CachedAfter(r) THEN "patch" ELSE "lost"]

\* A Proxmox mutation is issued for the request's write-ahead entry j.
IssueCall(r, j) ==
    /\ sent' = [sent EXCEPT ![j] = "sent"]
    /\ calls' = IF Keyed(r) THEN [calls EXCEPT ![CacheKey(r)] = @ + 1] ELSE calls

\* Mutant: nothing is cached before the terminal PATCH.
StartAuditUncached(r, result) ==
    /\ outcome' = [outcome EXCEPT ![r] = result]
    /\ UNCHANGED cacheVars
    /\ Goto(r, "patch")

\* _audit_and_respond up to its first suspension: the pending response is
\* stored before the terminal PATCH is sent.
StartAudit(r, result) ==
    /\ outcome' = [outcome EXCEPT ![r] = result]
    /\ StoreResponse(r, TRUE, AuditBody(entry[r], result, FALSE))
    /\ Goto(r, "patch")

\* Mutants: an interrupted call is taken for an accepted one; an interrupted
\* stop of a delete is not audited.
StartFinalizeAssumesOk(r, result) ==
    /\ outcome' = [outcome EXCEPT ![r] = IF pc[r] = "dispatch" THEN Plan[call[r].verb].ok ELSE result]
    /\ Goto(r, "finalize")

StartFinalizeSkipsStop(r, result) ==
    /\ outcome' = [outcome EXCEPT ![r] = result]
    /\ Goto(r, IF pc[r] = "stopping" THEN "exit" ELSE "finalize")

\* CancelledError or an unexpected exception inside
\* _await_with_interruption_journal: the finalize task is created.
StartFinalize(r, result) ==
    /\ outcome' = [outcome EXCEPT ![r] = result]
    /\ Goto(r, "finalize")

-----------------------------------------------------------------------------
(* Admission: gate, NetBox session, single flight, cache lookup.           *)

Issue(r) ==
    /\ pc[r] = "idle"
    /\ \E v \in Verbs, k \in IdemKeys \cup {None} :
          /\ v = "migrate_cancel" => k = None
          /\ call' = [call EXCEPT ![r] = [verb |-> v, key |-> k]]
    /\ Goto(r, "gate")
    /\ UNCHANGED <<cacheVars, entry, terminal, outcome, guarded, resp, worldVars>>

\* 403 of _gate, 400 of a missing body field, 502 of the NetBox session.
Refuse(r) ==
    /\ pc[r] = "gate"
    /\ resp' = [resp EXCEPT ![r] = [kind |-> "refused"]]
    /\ Goto(r, "done")
    /\ UNCHANGED <<cacheVars, reqVars, worldVars>>

\* _run_with_idempotency_single_flight.
Admit(r) ==
    /\ pc[r] = "gate"
    /\ \/ Keyed(r) /\ Cache!EnterSingleFlight(r, CacheKey(r)) /\ Goto(r, "acquire")
       \/ ~Keyed(r) /\ Goto(r, "resolve") /\ UNCHANGED cacheVars
    /\ UNCHANGED <<reqVars, resp, worldVars>>

Acquire(r) ==
    /\ pc[r] = "acquire"
    /\ Cache!AcquireFlightLock(r)
    /\ Goto(r, "lookup")
    /\ UNCHANGED <<reqVars, resp, worldVars>>

\* Mutant: a cached answer whose journal entry is still open counts as a miss.
LookupFinalOnly(r) ==
    /\ pc[r] = "lookup"
    /\ Cache!GetEntry(r)
    /\ LET e == entries'[CacheKey(r)]
       IN  IF e = None \/ e.pending THEN Goto(r, "resolve") /\ UNCHANGED resp
           ELSE Respond(r, Audited(e.body))
    /\ UNCHANGED <<reqVars, worldVars>>

\* _cached_idempotency_response up to its PATCH: a miss goes on to dispatch,
\* a final entry is replayed, a pending one has its journal entry retried.
Lookup(r) ==
    /\ pc[r] = "lookup"
    /\ Cache!GetEntry(r)
    /\ LET e == entries'[CacheKey(r)]
       IN  \/ /\ e = None
              /\ Goto(r, "resolve")
              /\ UNCHANGED <<entry, outcome, resp>>
           \/ /\ e # None /\ ~e.pending
              /\ Respond(r, Audited(e.body))
              /\ UNCHANGED <<entry, outcome>>
           \/ /\ e # None /\ e.pending
              /\ Goto(r, "retry")
              /\ entry' = [entry EXCEPT ![r] = e.body.entry]
              /\ outcome' = [outcome EXCEPT ![r] = e.body.result]
              /\ UNCHANGED resp
    /\ UNCHANGED <<call, terminal, guarded, worldVars>>

\* Mutant: the replay is stored as final although its PATCH failed.
RetryPatchStoresFinal(r) ==
    /\ pc[r] = "retry"
    /\ \E finalized \in BOOLEAN :
          LET b == AuditBody(entry[r], outcome[r], finalized)
          IN  /\ StoreResponse(r, FALSE, b)
              /\ IF finalized THEN PatchAcked(entry[r], outcome[r])
                              ELSE PatchFailed(r, entry[r], outcome[r])
              /\ Respond(r, Audited(b))
    /\ UNCHANGED <<reqVars, sent, calls>>

\* The rest of _cached_idempotency_response, after the retried PATCH.
RetryPatch(r) ==
    /\ pc[r] = "retry"
    /\ \E finalized \in BOOLEAN :
          LET b == AuditBody(entry[r], outcome[r], finalized)
          IN  /\ StoreResponse(r, ~finalized, b)
              /\ IF finalized THEN PatchAcked(entry[r], outcome[r])
                              ELSE PatchFailed(r, entry[r], outcome[r])
              /\ Respond(r, Audited(b))
    /\ UNCHANGED <<reqVars, sent, calls>>

-----------------------------------------------------------------------------
(* Dispatch: node and audit target, write-ahead entry, check, call.        *)

\* Proxmox session, node and NetBox audit target; 502, 404 or 409.
Resolve(r) ==
    /\ pc[r] = "resolve"
    /\ \/ Goto(r, "writeahead") /\ UNCHANGED resp
       \/ Respond(r, [kind |-> "unresolved"])
    /\ UNCHANGED <<cacheVars, reqVars, worldVars>>

\* The await after the write-ahead entry was created.
AfterWriteahead(verb) == IF Plan[verb].check = "none" THEN "dispatch" ELSE "check"

\* _create_writeahead_journal_or_error.  The create is shielded: a cancelled
\* request waits for it and closes the entry it made.
WriteaheadCreated(r) ==
    /\ pc[r] \in {"writeahead", "writeahead_c"}
    /\ \E j \in JournalIds :
          /\ journal[j] = None
          /\ journal' = [journal EXCEPT ![j] = [verb |-> call[r].verb, result |-> "in_progress"]]
          /\ entry' = [entry EXCEPT ![r] = j]
          /\ \/ /\ pc[r] = "writeahead"
                /\ Goto(r, AfterWriteahead(call[r].verb))
                /\ IF AfterWriteahead(call[r].verb) = "dispatch"
                   THEN IssueCall(r, j)
                   ELSE UNCHANGED <<sent, calls>>
                /\ UNCHANGED outcome
             \/ /\ pc[r] = "writeahead_c"
                /\ StartFinalize(r, "interrupted")
                /\ UNCHANGED <<sent, calls>>
    /\ UNCHANGED <<cacheVars, call, terminal, guarded, resp, fault>>

\* The create raises or returns no id; NetBox may have made the entry anyway.
WriteaheadFailed(r) ==
    /\ pc[r] \in {"writeahead", "writeahead_c"}
    /\ \/ UNCHANGED <<journal, fault>>
       \/ \E j \in JournalIds :
             /\ journal[j] = None
             /\ journal' = [journal EXCEPT ![j] = [verb |-> call[r].verb, result |-> "in_progress"]]
             /\ fault' = [fault EXCEPT ![j] = "lost"]
    /\ Respond(r, IF pc[r] = "writeahead" THEN [kind |-> "conflict"] ELSE Raised)
    /\ UNCHANGED <<cacheVars, reqVars, sent, calls>>

\* get_vm_status / migrate_preflight returned: go on, or audit a no-op.
CheckPassed(r) ==
    /\ pc[r] = "check"
    /\ IssueCall(r, entry[r])
    /\ \/ Goto(r, "dispatch")
       \/ Plan[call[r].verb].check = "prepare" /\ Goto(r, "stopping")
    /\ UNCHANGED <<cacheVars, reqVars, resp, journal, fault>>

CheckNoop(r) ==
    /\ pc[r] = "check"
    /\ Plan[call[r].verb].noop # "none"
    /\ StartAudit(r, Plan[call[r].verb].noop)
    /\ UNCHANGED <<call, entry, terminal, guarded, resp, worldVars>>

\* _prepare_delete_dispatch stopped the VM: the destroy call follows.
StopAccepted(r) ==
    /\ pc[r] = "stopping"
    /\ Goto(r, "dispatch")
    /\ UNCHANGED <<cacheVars, reqVars, resp, worldVars>>

CallAccepted(r) ==
    /\ pc[r] = "dispatch"
    /\ sent' = [sent EXCEPT ![entry[r]] = "accepted"]
    /\ StartAudit(r, Plan[call[r].verb].ok)
    /\ UNCHANGED <<call, entry, terminal, guarded, resp, journal, calls, fault>>

\* ProxmoxAPIError of the check, of the stop or of the call.  The audits of
\* _prepare_delete_dispatch run inside _await_with_interruption_journal.
ProxmoxError(r) ==
    /\ pc[r] \in {"check", "stopping", "dispatch"}
    /\ StartAudit(r, Plan[call[r].verb].err)
    /\ guarded' = [guarded EXCEPT ![r] =
                      Plan[call[r].verb].check = "prepare" /\ pc[r] # "dispatch"]
    /\ UNCHANGED <<call, entry, terminal, resp, worldVars>>

\* Any other exception of the same awaits.
UnexpectedError(r) ==
    /\ pc[r] \in {"check", "stopping", "dispatch"}
    /\ StartFinalize(r, "failed")
    /\ UNCHANGED <<cacheVars, call, entry, terminal, guarded, resp, worldVars>>

-----------------------------------------------------------------------------
(* Audit: the terminal PATCH of the write-ahead entry.                     *)

\* Mutant: the response is stored as final although its PATCH failed.
PatchStoresFinal(r) ==
    /\ pc[r] = "patch"
    /\ \E finalized \in BOOLEAN :
          LET b == AuditBody(entry[r], outcome[r], finalized)
          IN  /\ StoreResponse(r, FALSE, b)
              /\ IF finalized THEN PatchAcked(entry[r], outcome[r])
                              ELSE PatchFailed(r, entry[r], outcome[r])
              /\ terminal' = [terminal EXCEPT ![r] = finalized]
              /\ Respond(r, Audited(b))
    /\ UNCHANGED <<call, entry, outcome, guarded, sent, calls>>

\* _finalize_journal_entry and the rest of _audit_and_respond.
Patch(r) ==
    /\ pc[r] = "patch"
    /\ \E finalized \in BOOLEAN :
          LET b == AuditBody(entry[r], outcome[r], finalized)
          IN  /\ StoreResponse(r, ~finalized, b)
              /\ IF finalized THEN PatchAcked(entry[r], outcome[r])
                              ELSE PatchFailed(r, entry[r], outcome[r])
              /\ terminal' = [terminal EXCEPT ![r] = finalized]
              /\ Respond(r, Audited(b))
    /\ UNCHANGED <<call, entry, outcome, guarded, sent, calls>>

\* Where a CancelledError goes when it leaves the audit.
Reraise(r) ==
    IF guarded[r]
    THEN StartFinalize(r, "interrupted") /\ UNCHANGED resp
    ELSE Respond(r, Raised) /\ UNCHANGED outcome

\* _update_journal_entry_resistant_to_cancellation after a cancellation: the
\* PATCH is awaited to its end; if it failed the entry is marked interrupted.
CancelledPatch(r) ==
    /\ pc[r] = "patch_c"
    /\ UNCHANGED cacheVars
    /\ \/ /\ PatchAcked(entry[r], outcome[r])
          /\ terminal' = [terminal EXCEPT ![r] = TRUE]
          /\ Reraise(r)
       \/ /\ PatchFailed(r, entry[r], outcome[r])
          /\ Goto(r, "patch_be")
          /\ UNCHANGED <<terminal, outcome, resp>>
    /\ UNCHANGED <<call, entry, guarded, sent, calls>>

\* _best_effort_mark_journal_terminal.
BestEffortPatch(r) ==
    /\ pc[r] = "patch_be"
    /\ UNCHANGED cacheVars
    /\ \/ /\ PatchAcked(entry[r], "interrupted")
          /\ terminal' = [terminal EXCEPT ![r] = TRUE]
       \/ /\ PatchFailed(r, entry[r], "interrupted")
          /\ UNCHANGED terminal
    /\ Reraise(r)
    /\ UNCHANGED <<call, entry, guarded, sent, calls>>

\* The same two steps for the PATCH of a cached replay (no entry dict).
CancelledRetry(r) ==
    /\ pc[r] = "retry_c"
    /\ UNCHANGED cacheVars
    /\ \/ PatchAcked(entry[r], outcome[r]) /\ Respond(r, Raised)
       \/ PatchFailed(r, entry[r], outcome[r]) /\ Goto(r, "retry_be") /\ UNCHANGED resp
    /\ UNCHANGED <<reqVars, sent, calls>>

BestEffortRetry(r) ==
    /\ pc[r] = "retry_be"
    /\ UNCHANGED cacheVars
    /\ \/ PatchAcked(entry[r], "interrupted")
       \/ PatchFailed(r, entry[r], "interrupted")
    /\ Respond(r, Raised)
    /\ UNCHANGED <<reqVars, sent, calls>>

\* _finalize_after_unexpected_dispatch_error, a task awaited to completion.
Finalize(r) ==
    /\ pc[r] = "finalize"
    /\ \/ /\ terminal[r]
          /\ Respond(r, Raised)
          /\ UNCHANGED cacheVars
       \/ /\ ~terminal[r]
          /\ StoreResponse(r, TRUE, AuditBody(entry[r], outcome[r], FALSE))
          /\ Goto(r, "finalize_patch")
          /\ UNCHANGED resp
    /\ UNCHANGED <<reqVars, worldVars>>

FinalizePatch(r) ==
    /\ pc[r] = "finalize_patch"
    /\ \E finalized \in BOOLEAN :
          /\ StoreResponse(r, ~finalized, AuditBody(entry[r], outcome[r], finalized))
          /\ IF finalized THEN PatchAcked(entry[r], outcome[r])
                          ELSE PatchFailed(r, entry[r], outcome[r])
          /\ terminal' = [terminal EXCEPT ![r] = finalized]
    /\ Respond(r, Raised)
    /\ UNCHANGED <<call, entry, outcome, guarded, sent, calls>>

-----------------------------------------------------------------------------
(* Leaving single_flight, cancellation and the environment.                *)

\* Mutant: an operation that raises keeps the flight lock.
ExitKeepsLock(r) ==
    /\ pc[r] = "exit"
    /\ \/ Keyed(r) /\ resp[r] # Raised /\ Cache!ReleaseFlightLock(r) /\ Goto(r, "cleanup")
       \/ (~Keyed(r) \/ resp[r] = Raised) /\ Goto(r, "done") /\ UNCHANGED cacheVars
    /\ terminal' = [terminal EXCEPT ![r] = FALSE]
    /\ outcome' = [outcome EXCEPT ![r] = "none"]
    /\ guarded' = [guarded EXCEPT ![r] = FALSE]
    /\ UNCHANGED <<call, entry, resp, worldVars>>

Exit(r) ==
    /\ pc[r] = "exit"
    /\ \/ Keyed(r) /\ Cache!ReleaseFlightLock(r) /\ Goto(r, "cleanup")
       \/ ~Keyed(r) /\ Goto(r, "done") /\ UNCHANGED cacheVars
    /\ terminal' = [terminal EXCEPT ![r] = FALSE]
    /\ outcome' = [outcome EXCEPT ![r] = "none"]
    /\ guarded' = [guarded EXCEPT ![r] = FALSE]
    /\ UNCHANGED <<call, entry, resp, worldVars>>

Cleanup(r) ==
    /\ pc[r] = "cleanup"
    /\ Cache!ReleaseSingleFlight(r)
    /\ Goto(r, "done")
    /\ UNCHANGED <<reqVars, resp, worldVars>>

\* The client has its answer; the slot is free for another request.
Finish(r) ==
    /\ pc[r] = "done"
    /\ Goto(r, "idle")
    /\ call' = [call EXCEPT ![r] = None]
    /\ entry' = [entry EXCEPT ![r] = None]
    /\ resp' = [resp EXCEPT ![r] = None]
    /\ UNCHANGED <<cacheVars, terminal, outcome, guarded, worldVars>>

\* The awaits a cancelled request leaves by the exception, and the awaits in
\* which it stays because the inner task is shielded.
Shielded == [writeahead |-> "writeahead_c", patch |-> "patch_c", retry |-> "retry_c"]

Cancel(r) ==
    \/ /\ pc[r] = "gate"
       /\ resp' = [resp EXCEPT ![r] = Raised]
       /\ Goto(r, "done")
       /\ UNCHANGED <<cacheVars, reqVars, worldVars>>
    \/ /\ pc[r] = "acquire"
       /\ Cache!CancelWait(r)
       /\ resp' = [resp EXCEPT ![r] = Raised]
       /\ Goto(r, "cleanup")
       /\ UNCHANGED <<reqVars, worldVars>>
    \/ /\ pc[r] = "resolve"
       /\ Respond(r, Raised)
       /\ UNCHANGED <<cacheVars, reqVars, worldVars>>
    \/ /\ pc[r] \in {"check", "stopping", "dispatch"}
       /\ StartFinalize(r, "interrupted")
       /\ UNCHANGED <<cacheVars, call, entry, terminal, guarded, resp, worldVars>>
    \/ /\ pc[r] \in DOMAIN Shielded
       /\ Goto(r, Shielded[pc[r]])
       /\ UNCHANGED <<cacheVars, reqVars, resp, worldVars>>
    \/ /\ pc[r] = "cleanup"
       /\ resp' = [resp EXCEPT ![r] = Raised]
       /\ UNCHANGED <<cacheVars, pc, reqVars, worldVars>>

\* The TTL of a cached entry runs out: its window is over, and an entry still
\* in progress in NetBox can no longer be closed by a retry.
Expire(k) ==
    /\ Cache!ExpireEntry(k)
    /\ calls' = [calls EXCEPT ![k] = 0]
    /\ fault' = [fault EXCEPT ![entries[k].body.entry] = IF @ = "patch" THEN "lost" ELSE @]
    /\ UNCHANGED <<pc, reqVars, resp, journal, sent>>

Restart ==
    /\ Cache!ProcessRestart
    /\ pc' = [r \in Reqs |-> "idle"]
    /\ call' = [r \in Reqs |-> None]
    /\ entry' = [r \in Reqs |-> None]
    /\ terminal' = [r \in Reqs |-> FALSE]
    /\ outcome' = [r \in Reqs |-> "none"]
    /\ guarded' = [r \in Reqs |-> FALSE]
    /\ resp' = [r \in Reqs |-> None]
    /\ calls' = [k \in CacheKeys |-> 0]
    /\ fault' = [j \in JournalIds |-> IF journal[j] # None THEN "lost" ELSE fault[j]]
    /\ UNCHANGED <<journal, sent>>

\* What the coroutine does by itself.
Progress(r) ==
    \/ Refuse(r) \/ Admit(r) \/ Lookup(r) \/ RetryPatch(r)
    \/ Resolve(r) \/ WriteaheadCreated(r) \/ WriteaheadFailed(r)
    \/ CheckPassed(r) \/ CheckNoop(r) \/ StopAccepted(r) \/ CallAccepted(r)
    \/ ProxmoxError(r) \/ UnexpectedError(r)
    \/ Patch(r) \/ CancelledPatch(r) \/ BestEffortPatch(r)
    \/ CancelledRetry(r) \/ BestEffortRetry(r) \/ Finalize(r) \/ FinalizePatch(r)
    \/ Exit(r) \/ Cleanup(r)

Next ==
    \/ \E r \in Reqs : Issue(r) \/ Acquire(r) \/ Progress(r) \/ Finish(r) \/ Cancel(r)
    \/ \E k \in CacheKeys : Expire(k)
    \/ Restart

Spec == Init /\ [][Next]_vars

(***************************************************************************)
(* Fairness: every await of the coroutine is bounded by a client timeout   *)
(* (NetBox and Proxmox sessions), so its step is weakly fair; asyncio.Lock *)
(* is FIFO, so acquiring it is strongly fair.  Clients, cancellation, time *)
(* and restarts owe nothing.                                               *)
(***************************************************************************)
FairSpec ==
    /\ Spec
    /\ \A r \in Reqs : WF_vars(Progress(r)) /\ SF_vars(Acquire(r))

-----------------------------------------------------------------------------
(* Properties.                                                             *)

\* Within the window of a cached response at most one Proxmox call is made
\* for a key, whatever is cancelled, retried or failing (idempotency.py:9-10).
AtMostOneCall == \A k \in CacheKeys : calls[k] <= 1

\* The coroutine still has code to run on its write-ahead entry.
Working == {"check", "stopping", "dispatch", "patch", "patch_c", "patch_be",
            "finalize", "finalize_patch"}

\* A cancellation never leaves a journal entry in progress: it takes a call
\* to NetBox that was not confirmed, or a restart.
CancellationClosesEntry ==
    \A j \in JournalIds :
        journal[j] # None /\ journal[j].result = "in_progress" /\ fault[j] = "none"
            => \E r \in Reqs : entry[r] = j /\ pc[r] \in Working

\* If the terminal PATCH of a keyed request failed, the entry can be closed
\* by a replay until the cached response expires.
FailedPatchIsRetryable ==
    \A j \in JournalIds :
        journal[j] # None /\ journal[j].result = "in_progress" /\ fault[j] = "patch"
            => \/ \E r \in Reqs : entry[r] = j /\ pc[r] \in Working
               \/ \E k \in CacheKeys :
                     /\ entries[k] # None
                     /\ entries[k].pending
                     /\ ~entries[k].expired
                     /\ entries[k].body.entry = j

\* The journal never claims more than Proxmox said, and never claims less
\* than a no-op: success results were accepted, no-op results made no call.
JournalTruthful ==
    \A j \in JournalIds : journal[j] # None =>
        /\ journal[j].result \in {"ok", "accepted", "cancel_requested"} => sent[j] = "accepted"
        /\ journal[j].result \in {"already_running", "already_stopped", "rejected"} => sent[j] = "no"

\* A final cached response agrees with the journal entry it refers to, and
\* belongs to the verb of its key.
CacheAgreesWithJournal ==
    \A k \in CacheKeys :
        entries[k] # None /\ ~entries[k].pending =>
            LET b == entries[k].body
            IN  journal[b.entry] = [verb |-> k[1], result |-> b.result]

\* A success response means that the journal entry of this verb is closed
\* with the same result, also when the response is a replay.
SuccessIsAudited ==
    \A r \in Reqs :
        pc[r] # "idle" /\ resp[r] # None /\ resp[r].kind = "audited" /\ resp[r].body.success
            => journal[resp[r].body.entry] = [verb |-> call[r].verb, result |-> resp[r].body.result]

(* The inductive strengthening of AtMostOneCall.                           *)

Retrying == {"retry", "retry_c", "retry_be"}
Auditing == {"patch", "patch_c", "patch_be", "finalize", "finalize_patch"}
BeforeCall == {"resolve", "writeahead", "writeahead_c", "check"}
Calling == {"stopping", "dispatch"}
Section == {"lookup"} \cup Retrying \cup BeforeCall \cup Calling \cup Auditing \cup {"exit"}

\* Where a request stands in the code decides what it has of the cache.
PcMatchesLock ==
    \A r \in Reqs :
        /\ pc[r] = "idle" <=> call[r] = None
        /\ mine[r] # None <=> (pc[r] \notin {"idle", "gate", "done"} /\ Keyed(r))
        /\ mine[r] # None => mine[r].key = CacheKey(r)
        /\ r \in waiting <=> pc[r] = "acquire"
        /\ pc[r] \in Section /\ Keyed(r) => Cache!Holds(r)
        /\ pc[r] = "cleanup" => ~Cache!Holds(r)
        /\ pc[r] \in {"acquire", "lookup", "cleanup"} \cup Retrying => Keyed(r)

\* The journal entries the code refers to exist, and it knows their outcome.
EntriesExist ==
    /\ \A r \in Reqs :
          /\ pc[r] \in Working \cup Retrying => entry[r] # None /\ journal[entry[r]] # None
          /\ pc[r] \in Auditing \cup Retrying => outcome[r] # "none"
    /\ \A k \in CacheKeys : entries[k] # None => journal[entries[k].body.entry] # None

\* A call of the current window is covered by a live cached response, or by
\* a request in the section that is about to store one.
Live(k) == entries[k] # None /\ ~entries[k].expired

AboutToStore(r) ==
    pc[r] \in Calling \/ (pc[r] = "finalize" /\ ~terminal[r])

CallCover(k) ==
    calls[k] # 0 =>
        /\ calls[k] = 1
        /\ \/ Live(k)
           \/ \E r \in Reqs : pc[r] # "idle" /\ Keyed(r) /\ CacheKey(r) = k /\ AboutToStore(r)

\* What a request in the section of its key knows about the window.
WindowOf(r) ==
    /\ pc[r] \notin Auditing \cup {"exit"} => ~terminal[r]
    /\ pc[r] # "idle" /\ Keyed(r) =>
          /\ pc[r] \in BeforeCall => calls[CacheKey(r)] = 0
          /\ pc[r] \in BeforeCall \cup Calling => entries[CacheKey(r)] = None
          /\ pc[r] \in Auditing \cup Retrying =>
                entries[CacheKey(r)] = None \/ entries[CacheKey(r)].pending

CallsCovered ==
    /\ \A k \in CacheKeys : CallCover(k)
    /\ \A r \in Reqs : WindowOf(r)

DispatchInv == TypeOK /\ PcMatchesLock /\ EntriesExist /\ CallsCovered

(* The inductive strengthening of the properties about the journal.        *)

Busy == Working \cup Retrying

Truthful(result, j) ==
    /\ result \in {"ok", "accepted", "cancel_requested"} => sent[j] = "accepted"
    /\ result \in {"already_running", "already_stopped", "rejected"} => sent[j] = "no"

\* A journal entry is in the hands of one request, of one cached response, or
\* of a request in the section of the key whose response it is.
OneHandler ==
    /\ \A r, q \in Reqs :
          pc[r] \in Busy /\ pc[q] \in Busy /\ entry[r] = entry[q] => r = q
    /\ \A r \in Reqs, k \in CacheKeys :
          pc[r] \in Busy /\ entries[k] # None /\ entries[k].body.entry = entry[r]
              => Keyed(r) /\ CacheKey(r) = k
    /\ \A k, l \in CacheKeys :
          entries[k] # None /\ entries[l] # None /\ entries[k].body.entry = entries[l].body.entry
              => k = l

\* What a request knows of the entry it works on.
RequestKnows(r) ==
    /\ pc[r] \in Busy => journal[entry[r]].verb = call[r].verb
    /\ pc[r] \in {"check", "stopping", "dispatch"} => journal[entry[r]].result = "in_progress"
    /\ pc[r] = "check" => sent[entry[r]] = "no"
    /\ pc[r] \in Auditing \cup Retrying => Truthful(outcome[r], entry[r])
    /\ pc[r] \in Auditing \cup Retrying /\ Keyed(r) /\ entries[CacheKey(r)] # None
          => entries[CacheKey(r)].body.entry = entry[r]
    /\ pc[r] \in Working /\ terminal[r] => journal[entry[r]].result # "in_progress"

\* What a cached response knows of the entry it is about.
ResponseKnows(k) ==
    entries[k] # None =>
        LET b == entries[k].body
        IN  /\ journal[b.entry].verb = k[1]
            /\ Truthful(b.result, b.entry)
            /\ ~entries[k].pending => journal[b.entry].result = b.result

\* Nothing will write the entry again.
Settled(j) ==
    /\ \A q \in Reqs : pc[q] \in Busy => entry[q] # j
    /\ \A k \in CacheKeys : entries[k] # None /\ entries[k].body.entry = j => ~entries[k].pending

Succeeded(r) == resp[r] # None /\ resp[r].kind = "audited" /\ resp[r].body.success

AnswerKnows(r) ==
    /\ resp[r] # None => pc[r] \in {"exit", "cleanup", "done"}
    /\ pc[r] # "idle" /\ Succeeded(r) =>
          /\ journal[resp[r].body.entry] = [verb |-> call[r].verb, result |-> resp[r].body.result]
          /\ Settled(resp[r].body.entry)

AuditInv ==
    /\ OneHandler
    /\ \A r \in Reqs : RequestKnows(r) /\ AnswerKnows(r)
    /\ \A k \in CacheKeys : ResponseKnows(k)
    /\ \A j \in JournalIds : journal[j] = None => sent[j] = "no"
    /\ JournalTruthful
    /\ CancellationClosesEntry
    /\ FailedPatchIsRetryable

(* Refinement and liveness.                                                *)

\* The requests that are in the section of a key, and the keys with a live answer.
Inside(k) == {r \in Reqs : pc[r] \in Section /\ Keyed(r) /\ CacheKey(r) = k}
Holders == [k \in CacheKeys |-> Inside(k)]
LiveKeys == {k \in CacheKeys : Live(k)}

Window == INSTANCE DispatchWindow WITH Keys <- CacheKeys, holders <- Holders, live <- LiveKeys

\* The dispatcher keeps the promise of the Idempotency-Key: one request of a key at a
\* time, no call while a call or an answer stands, and no way out of a call (error,
\* cancellation, lost PATCH) that leaves the key without an answer (proxmox_actions.py
\* 2681-2804, idempotency.py).
OneCallPerWindow == Window!WindowSpec

\* Every request is answered.
RequestsAnswered == \A r \in Reqs : pc[r] = "gate" ~> pc[r] \in {"done", "idle"}

=============================================================================

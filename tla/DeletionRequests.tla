-------------------------- MODULE DeletionRequests --------------------------
(***************************************************************************)
(* routes/intent/deletion_requests.py: approve, reject and execute of one  *)
(* DeletionRequestRecord, as concurrent HTTP requests run them, with the   *)
(* destroy dispatchers of routes/intent/dispatchers.                       *)
(*                                                                         *)
(* A handler is a coroutine with a database session of its own; its pc is  *)
(* the await it is suspended in.  The session keeps the row as it was when *)
(* it was loaded, writes a column only if its value differs from the one   *)
(* loaded, and writes unconditionally: nothing compares the row in the     *)
(* database.  A handler may end at any await (CancelledError, which the    *)
(* code does not catch, a database error or a restart).                    *)
(***************************************************************************)
EXTENDS Naturals

CONSTANTS
    Reqs,          \* handler slots
    MaxRequests,   \* bound: requests issued
    None

States == {"pending", "approved", "rejected", "executing", "succeeded", "failed"}
Verbs == {"approve", "reject", "execute"}

ASSUME DeletionConstants ==
    /\ MaxRequests \in Nat
    /\ None \notin States \cup Verbs

VARIABLES
    row,       \* database: DeletionRequestRecord.state
    allow,     \* database: ProxmoxEndpoint.allow_writes
    pc,        \* the await a handler is suspended in
    verb,      \* the route the handler serves
    matches,   \* the body names the vmid, node and kind of the record
    loaded,    \* record.state as the handler's session loaded it
    goal,      \* record.state assigned and not yet committed, or the refusal
    journal,   \* NetBox: <<verb, result>> of the journal entries written
    accepted,  \* Proxmox has accepted a DELETE of the VM
    sent,      \* history: DELETE calls sent
    granted,   \* history: an approval has been committed
    overlap,   \* history: two requests have been handled at the same time
    issued     \* bound: requests so far

handlers == <<pc, verb, matches, loaded, goal>>
vars == <<row, allow, handlers, journal, accepted, sent, granted, overlap, issued>>

PCs == {"idle", "load", "gate", "refuse", "commit", "refresh", "journal", "session",
        "destroy", "log_ok", "log_error", "commit_outcome"}

TypeOK ==
    /\ row \in States
    /\ allow \in BOOLEAN
    /\ pc \in [Reqs -> PCs]
    /\ verb \in [Reqs -> Verbs \cup {None}]
    /\ matches \in [Reqs -> BOOLEAN]
    /\ loaded \in [Reqs -> States \cup {None}]
    /\ goal \in [Reqs -> States \cup {"blocked", None}]
    /\ journal \subseteq Verbs \X {"blocked", "failed", "succeeded"}
    /\ accepted \in BOOLEAN
    /\ sent \in Nat
    /\ granted \in BOOLEAN
    /\ overlap \in BOOLEAN
    /\ issued \in Nat

Init ==
    /\ row = "pending"
    /\ allow = TRUE
    /\ pc = [r \in Reqs |-> "idle"]
    /\ verb = [r \in Reqs |-> None]
    /\ matches = [r \in Reqs |-> FALSE]
    /\ loaded = [r \in Reqs |-> None]
    /\ goal = [r \in Reqs |-> None]
    /\ journal = {}
    /\ accepted = FALSE
    /\ sent = 0
    /\ granted = FALSE
    /\ overlap = FALSE
    /\ issued = 0

-----------------------------------------------------------------------------
(* Parts of the actions.                                                   *)

Goto(r, label) == pc' = [pc EXCEPT ![r] = label]
Assign(r, state) == goal' = [goal EXCEPT ![r] = state]

\* The handler is over: its answer is sent and its session is closed.
End(r) ==
    /\ Goto(r, "idle")
    /\ verb' = [verb EXCEPT ![r] = None]
    /\ matches' = [matches EXCEPT ![r] = FALSE]
    /\ loaded' = [loaded EXCEPT ![r] = None]
    /\ goal' = [goal EXCEPT ![r] = None]

\* write_deletion_request_journal: written, or it raised.
WriteJournal(r, result) == journal' \in {journal, journal \cup {<<verb[r], result>>}}

\* Mutant: execute does not test the state.
PermittedToExecute(v, state) ==
    \/ v = "approve" /\ state \in {"pending", "approved"}
    \/ v = "reject" /\ state \notin {"executing", "succeeded"}
    \/ v = "execute"

\* Mutant: an interrupted execution may be repeated.
PermittedAgain(v, state) ==
    \/ v = "approve" /\ state \in {"pending", "approved"}
    \/ v = "reject" /\ state \notin {"executing", "succeeded"}
    \/ v = "execute" /\ state \in {"approved", "executing"}

\* The states a route accepts the record in.
Permitted(v, state) ==
    \/ v = "approve" /\ state \in {"pending", "approved"}
    \/ v = "reject" /\ state \notin {"executing", "succeeded"}
    \/ v = "execute" /\ state = "approved"

\* The state a route then gives it.
Target(v) ==
    CASE v = "approve" -> "approved" [] v = "reject" -> "rejected" [] v = "execute" -> "executing"

-----------------------------------------------------------------------------
(* The three routes.                                                       *)

Issue(r) ==
    /\ pc[r] = "idle"
    /\ overlap' = (overlap \/ \E s \in Reqs : pc[s] # "idle")
    /\ issued < MaxRequests /\ issued' = issued + 1
    /\ \E v \in Verbs, m \in BOOLEAN :
          /\ v = "reject" => m
          /\ verb' = [verb EXCEPT ![r] = v]
          /\ matches' = [matches EXCEPT ![r] = m]
    /\ Goto(r, "load")
    /\ UNCHANGED <<row, allow, loaded, goal, journal, accepted, sent, granted>>

\* _get_record.
Load(r) ==
    /\ pc[r] = "load"
    /\ loaded' = [loaded EXCEPT ![r] = row]
    /\ Goto(r, "gate")
    /\ UNCHANGED <<row, allow, verb, matches, goal, journal, accepted, sent, granted, overlap, issued>>

\* _gate, _target_mismatch and the test of the state.
Gate(r) ==
    /\ pc[r] = "gate"
    /\ \/ /\ ~allow
          /\ Assign(r, "blocked")
          /\ Goto(r, "refuse")
       \/ /\ allow
          /\ ~(matches[r] /\ Permitted(verb[r], loaded[r]))
          /\ Assign(r, "failed")
          /\ Goto(r, "refuse")
       \/ /\ allow
          /\ matches[r] /\ Permitted(verb[r], loaded[r])
          /\ Assign(r, Target(verb[r]))
          /\ Goto(r, "commit")
    /\ UNCHANGED <<row, allow, verb, matches, loaded, journal, accepted, sent, granted, overlap, issued>>

\* The journal entry of a refusal, then the 403 or 409.
Refuse(r) ==
    /\ pc[r] = "refuse"
    /\ WriteJournal(r, goal[r])
    /\ End(r)
    /\ UNCHANGED <<row, allow, accepted, sent, granted, overlap, issued>>

\* _save_record up to its commit.
Commit(r) ==
    /\ pc[r] = "commit"
    /\ row' = IF goal[r] # loaded[r] THEN goal[r] ELSE row
    /\ granted' = (granted \/ verb[r] = "approve")
    /\ loaded' = [loaded EXCEPT ![r] = goal[r]]
    /\ Goto(r, "refresh")
    /\ UNCHANGED <<allow, verb, matches, goal, journal, accepted, sent, overlap, issued>>

\* session.refresh: the handler sees the row as it is by now.  An execute goes
\* on into the dispatcher, which calls _gate again without suspending: its
\* session.get answers from the session's identity map, where the endpoint is
\* as the first gate loaded it, so this gate always passes.
Refresh(r) ==
    /\ pc[r] = "refresh"
    /\ loaded' = [loaded EXCEPT ![r] = row]
    /\ Goto(r, IF verb[r] = "execute" THEN "session" ELSE "journal")
    /\ UNCHANGED <<row, allow, verb, matches, goal, journal, accepted, sent, granted, overlap, issued>>

\* The journal entry of an approval or a rejection, and the answer.
Journal(r) ==
    /\ pc[r] = "journal"
    /\ WriteJournal(r, "succeeded")
    /\ End(r)
    /\ UNCHANGED <<row, allow, accepted, sent, granted, overlap, issued>>

-----------------------------------------------------------------------------
(* dispatch_qemu_destroy and dispatch_lxc_destroy.                         *)

\* The Proxmox session opens and the DELETE is sent, or it fails.
OpenSession(r) ==
    /\ pc[r] = "session"
    /\ \/ sent' = sent + 1 /\ Goto(r, "destroy")
       \/ Goto(r, "log_error") /\ UNCHANGED sent
    /\ UNCHANGED <<row, allow, verb, matches, loaded, goal, journal, accepted, granted, overlap, issued>>

\* Proxmox answers with a task id, or the call fails: refused, or accepted and
\* the answer lost.
Destroy(r) ==
    /\ pc[r] = "destroy"
    /\ \/ accepted' = TRUE /\ Goto(r, "log_ok")
       \/ accepted' \in {accepted, TRUE} /\ Goto(r, "log_error")
    /\ UNCHANGED <<row, allow, verb, matches, loaded, goal, journal, sent, granted, overlap, issued>>

\* Mutant: the outcome of a failed destroy is taken for success.
LogErrorSwallowed(r) ==
    /\ pc[r] = "log_error"
    /\ WriteJournal(r, "failed")
    /\ Assign(r, "succeeded")
    /\ Goto(r, "commit_outcome")
    /\ UNCHANGED <<row, allow, verb, matches, loaded, accepted, sent, granted, overlap, issued>>

\* The entry of a failed destroy; the dispatcher raises.
LogError(r) ==
    /\ pc[r] = "log_error"
    /\ WriteJournal(r, "failed")
    /\ Assign(r, "failed")
    /\ Goto(r, "commit_outcome")
    /\ UNCHANGED <<row, allow, verb, matches, loaded, accepted, sent, granted, overlap, issued>>

\* The entry of an accepted destroy.  If its POST fails, with or without effect,
\* the dispatcher raises and execute records a failure.
LogOk(r) ==
    /\ pc[r] = "log_ok"
    /\ \/ journal' = journal \cup {<<verb[r], "succeeded">>} /\ Assign(r, "succeeded")
       \/ WriteJournal(r, "succeeded") /\ Assign(r, "failed")
    /\ Goto(r, "commit_outcome")
    /\ UNCHANGED <<row, allow, verb, matches, loaded, accepted, sent, granted, overlap, issued>>

\* _save_record of the outcome: its refresh is followed by the answer only.
CommitOutcome(r) ==
    /\ pc[r] = "commit_outcome"
    /\ row' = IF goal[r] # loaded[r] THEN goal[r] ELSE row
    /\ End(r)
    /\ UNCHANGED <<allow, journal, accepted, sent, granted, overlap, issued>>

-----------------------------------------------------------------------------
(* The environment.                                                        *)

\* The handler ends at its await; a DELETE already sent may still be accepted.
Abort(r) ==
    /\ pc[r] # "idle"
    /\ End(r)
    /\ accepted' \in {accepted, accepted \/ pc[r] = "destroy"}
    /\ UNCHANGED <<row, allow, journal, sent, granted, overlap, issued>>

\* The endpoint's allow_writes is changed through its own routes.
SetWrites ==
    /\ allow' = ~allow
    /\ UNCHANGED <<row, handlers, journal, accepted, sent, granted, overlap, issued>>

Next ==
    \/ \E r \in Reqs :
          \/ Issue(r) \/ Load(r) \/ Gate(r) \/ Refuse(r) \/ Commit(r) \/ Refresh(r)
          \/ Journal(r) \/ OpenSession(r) \/ Destroy(r) \/ LogError(r) \/ LogOk(r)
          \/ CommitOutcome(r) \/ Abort(r)
    \/ SetWrites

Spec == Init /\ [][Next]_vars

-----------------------------------------------------------------------------
(* Properties.                                                             *)

\* However the requests interleave, the VM is destroyed only after somebody's
\* approval was committed (deletion_requests.py 184-201, 311).
DestroyWasApproved == sent # 0 => granted

\* However they interleave, what the row and the journal say was done was
\* done: "succeeded" means that Proxmox accepted the destroy.
OutcomeIsTrue ==
    /\ row = "succeeded" => accepted
    /\ <<"execute", "succeeded">> \in journal => accepted
    /\ <<"approve", "succeeded">> \in journal => granted

\* Requests that do not overlap destroy the VM at most once, also when they
\* are aborted half-way and repeated.
AtMostOneDestroy == ~overlap => sent <= 1

\* deletion_requests.py 312, "Deletion request is {record.state}; execute
\* requires approved.": an execution starts only when the row is approved.
ExecuteRequiresApproved ==
    [][\A r \in Reqs :
          pc[r] = "commit" /\ verb[r] = "execute" /\ pc'[r] = "refresh" => row = "approved"]_vars
=============================================================================

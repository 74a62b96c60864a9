----------------------------- MODULE Reconcile -----------------------------
(***************************************************************************)
(* netbox_rest.py: concurrent tasks that bring one object of NetBox to a   *)
(* desired state.  A task looks the object up (through the GET cache),     *)
(* creates it, or patches what it found.  The operations: "create" is      *)
(* rest_create_async with a lookup, which a repeated POST stands behind;   *)
(* "ensure" is rest_ensure_async, which looks first and creates so;        *)
(* "reconcile" is rest_reconcile_async, whose POST has no lookup.  The     *)
(* object may be one of many in a rest_bulk_reconcile_async: "bulk" falls  *)
(* back to rest_reconcile_async for each object of a batch that fails,     *)
(* "bulk_only" (fallback_to_individual=False) does not.  The other objects *)
(* of its batch show when NetBox refuses the batch because of them.        *)
(*                                                                         *)
(* NetBox is external: records with ids that are never used twice, with or *)
(* without a uniqueness constraint on the object; other clients edit it.   *)
(* An answer is on its way while other steps happen, and may be lost; a    *)
(* POST that failed has landed by then or never does.  The text of an      *)
(* error is up to whoever made it.  Lists may not show a record yet.       *)
(* The data of a record is one value; the candidate lookups of one object  *)
(* are one query; the full scan and the list of a bulk reconcile, which    *)
(* differ in their parameters, are two more.                               *)
(***************************************************************************)
EXTENDS Naturals, FiniteSets

CONSTANTS
    Tasks,
    Payloads,        \* what a record of the object may hold
    Jobs,            \* what the tasks may have to do: task -> [op, want]
    Ids,             \* ids NetBox may hand out: numbers
    MaxRetries,      \* netbox_max_retries
    RefetchRounds,   \* duplicate_refetch_attempts
    MaxTrouble,      \* bound: requests that fail, edits by other clients and records that
                     \* lists do not show at once, together
    None

Operations == {"create", "ensure", "reconcile", "bulk", "bulk_only"}
Queries == {"lookup", "scan", "list"}
Snapshot == UNION {[S -> Payloads] : S \in SUBSET Ids}
Empty == [i \in {} |-> None]

\* What is on its way to a task: nothing, a list, or the answer of a POST.
Reply == [kind : {"none", "list", "created", "duplicate"}, records : Snapshot]
NoReply == [kind |-> "none", records |-> Empty]

\* What _is_connection_refused_error and _is_transient_netbox_error make of an error's text.
Texts == {"refused", "transient", "other"}

\* What a task returns: a record of NetBox, or its own payload without an id.
Result == [id : Ids \cup {None}, status : {"found", "created", "updated", "unchanged"}]

ASSUME ReconcileConstants ==
    /\ Jobs \subseteq [Tasks -> [op : Operations, want : Payloads]]
    /\ Ids \subseteq Nat /\ Ids # {} /\ MaxRetries \in Nat /\ RefetchRounds \in Nat \ {0}
    /\ MaxTrouble \in Nat
    /\ None \notin Nat /\ None \notin Snapshot /\ None \notin Result /\ None \notin Payloads

Least(S) == CHOOSE i \in S : \A j \in S : i <= j
With(f, i, v) == [j \in DOMAIN f \cup {i} |-> IF j = i THEN v ELSE f[j]]
Without(f, i) == [j \in DOMAIN f \ {i} |-> f[j]]

VARIABLES
    unique,    \* NetBox has a uniqueness constraint on the object
    netbox,    \* the records of the object: id -> data
    used,      \* ids handed out
    hidden,    \* records that lists do not show yet
    cache,     \* query -> cached list, or None
    op,        \* task -> its operation
    want,      \* task -> its desired payload
    pc,        \* task -> where it is
    reply,     \* task -> what is on its way to it
    attempt,   \* task -> attempts of its POST, or of its bulk PATCH, that failed
    round,     \* task -> rounds of the refetch after a duplicate error
    target,    \* task -> the record to be patched
    result,    \* task -> what it returned
    faults,    \* history: requests that failed
    edits,     \* history: kinds of edits by other clients, with their number
    delays,    \* history: records that lists did not show at once
    landed,    \* history: task -> its POSTs that created a record
    blind,     \* history: task -> its POSTs repeated although the one before may have landed
    veiled,    \* history: queries that NetBox answered without a record it had
    overlap    \* history: two tasks ran at the same time

server == <<unique, netbox, used, hidden, delays>>
input == <<op, want>>
progress == <<attempt, round, target>>
history == <<faults, edits, landed, blind, veiled, overlap>>
vars == <<server, cache, input, pc, reply, progress, result, history>>

GetStages == {"list", "find", "relook", "refind", "rescan"}
PostStages == {"post", "bulkpost"}
PatchStages == {"patch", "bulkpatch"}
BatchStages == {"bulkpost", "bulkpatch"}
Stages == {"idle", "done", "error"} \cup GetStages \cup PostStages \cup PatchStages
Ended == {"done", "error"}

TypeOK ==
    /\ unique \in BOOLEAN /\ netbox \in Snapshot /\ DOMAIN netbox \subseteq used /\ used \subseteq Ids
    /\ hidden \subseteq Ids /\ cache \in [Queries -> Snapshot \cup {None}]
    /\ op \in [Tasks -> Operations] /\ want \in [Tasks -> Payloads]
    /\ pc \in [Tasks -> Stages] /\ reply \in [Tasks -> Reply]
    /\ attempt \in [Tasks -> 0..MaxRetries] /\ round \in [Tasks -> 0..RefetchRounds]
    /\ target \in [Tasks -> Ids \cup {None}] /\ result \in [Tasks -> Result \cup {None}]
    /\ faults \in Nat /\ delays \in Nat /\ overlap \in BOOLEAN /\ veiled \subseteq Queries
    /\ landed \in [Tasks -> Nat] /\ blind \in [Tasks -> Nat]
    /\ edits \in [{"create", "change", "delete"} -> Nat]

Init ==
    /\ unique \in BOOLEAN
    /\ netbox \in {Empty} \cup {With(Empty, Least(Ids), v) : v \in Payloads}
    /\ used = DOMAIN netbox
    /\ hidden \in {{}, DOMAIN netbox} /\ delays = Cardinality(hidden) /\ delays <= MaxTrouble
    /\ cache = [q \in Queries |-> None]
    /\ \E j \in Jobs : op = [t \in Tasks |-> j[t].op] /\ want = [t \in Tasks |-> j[t].want]
    /\ pc = [t \in Tasks |-> "idle"]
    /\ reply = [t \in Tasks |-> NoReply]
    /\ attempt = [t \in Tasks |-> 0] /\ round = [t \in Tasks |-> 0]
    /\ target = [t \in Tasks |-> None] /\ result = [t \in Tasks |-> None]
    /\ faults = 0 /\ overlap = FALSE /\ veiled = {}
    /\ landed = [t \in Tasks |-> 0] /\ blind = [t \in Tasks |-> 0]
    /\ edits = [k \in {"create", "change", "delete"} |-> 0]

Bounded == faults + delays + edits["create"] + edits["change"] + edits["delete"] < MaxTrouble
Fault == Bounded /\ faults' = faults + 1

-----------------------------------------------------------------------------
\* Mutant: the write leaves the list path in the cache.
InvalidateNothing == UNCHANGED cache

\* _invalidate_get_cache_for_path: every list of the path.
Invalidate == cache' = [q \in Queries |-> None]

Goto(t, stage) == pc' = [pc EXCEPT ![t] = stage]
Settle(t, id, status) ==
    /\ Goto(t, "done")
    /\ result' = [result EXCEPT ![t] = [id |-> id, status |-> status]]

Reconciles(t) == op[t] \in {"reconcile", "bulk", "bulk_only"}

Start(t) ==
    /\ pc[t] = "idle"
    /\ Goto(t, CASE op[t] = "create" -> "post"
                 [] op[t] \in {"ensure", "reconcile"} -> "find"
                 [] op[t] \in {"bulk", "bulk_only"} -> "list")
    /\ overlap' = (overlap \/ \E u \in Tasks \ {t} : pc[u] \notin {"idle"} \cup Ended)
    /\ UNCHANGED <<server, cache, input, reply, progress, result, faults, edits, landed, blind,
                   veiled>>

\* rest_first_async and _select_existing: the first record that matches.
Select(records) == Least(DOMAIN records)

\* Mutant: a record that exists is left as it is.
CompareNothing(t, records) ==
    Settle(t, Select(records), "unchanged") /\ UNCHANGED progress

\* The record found against the desired payload: _reconcile, and the loop of
\* rest_bulk_reconcile_async that fills to_patch.
Compare(t, records) ==
    LET id == Select(records)
    IN  IF records[id] = want[t]
        THEN Settle(t, id, "unchanged") /\ UNCHANGED progress
        ELSE /\ Goto(t, IF pc[t] = "list" THEN "bulkpatch" ELSE "patch")
             /\ target' = [target EXCEPT ![t] = id]
             /\ UNCHANGED <<attempt, round, result>>

\* A record was found: only a reconcile changes it.
Use(t, records) ==
    IF Reconciles(t)
    THEN Compare(t, records)
    ELSE Settle(t, Select(records), "found") /\ UNCHANGED progress

LastRound(t) == round[t] + 1 >= RefetchRounds

\* Nothing was found; the cache becomes c, unless a new round of the refetch clears it.
NotFound(t, c) ==
    CASE pc[t] = "list" ->
            Goto(t, "bulkpost") /\ cache' = c /\ UNCHANGED <<progress, result>>
      [] pc[t] \in {"find", "relook"} ->
            Goto(t, "post") /\ cache' = c /\ UNCHANGED <<progress, result>>
      [] pc[t] = "refind" /\ op[t] = "ensure" ->
            Goto(t, "error") /\ cache' = c /\ UNCHANGED <<progress, result>>
      [] pc[t] = "refind" /\ op[t] # "ensure" ->
            Goto(t, "rescan") /\ cache' = c /\ UNCHANGED <<progress, result>>
      [] pc[t] = "rescan" /\ ~LastRound(t) ->
            /\ Goto(t, "refind") /\ Invalidate
            /\ round' = [round EXCEPT ![t] = @ + 1]
            /\ UNCHANGED <<attempt, target, result>>
      [] pc[t] = "rescan" /\ LastRound(t) ->
            Settle(t, None, "unchanged") /\ cache' = c /\ UNCHANGED progress

Continue(t, records, c) ==
    \/ DOMAIN records # {} /\ Use(t, records) /\ cache' = c
    \/ DOMAIN records = {} /\ NotFound(t, c)

-----------------------------------------------------------------------------
\* rest_list_async for one query: from the cache, or from NetBox.

QueryOf(t) ==
    CASE pc[t] = "rescan" -> "scan" [] pc[t] = "list" -> "list" [] OTHER -> "lookup"

\* The lookup that stands before a second POST: of a retry, or of the fallback of a batch.
BeforeSecondPost(t) == pc[t] = "relook" \/ (pc[t] = "find" /\ op[t] = "bulk")

\* Whether this lookup has failed to protect is counted when it answers.
CountBlind(t, unprotected) ==
    blind' = [blind EXCEPT ![t] = IF BeforeSecondPost(t) /\ unprotected THEN @ + 1 ELSE @]

Hit(t) ==
    /\ pc[t] \in GetStages /\ reply[t] = NoReply /\ cache[QueryOf(t)] # None
    /\ Continue(t, cache[QueryOf(t)], cache)
    /\ CountBlind(t, DOMAIN cache[QueryOf(t)] = {})
    /\ UNCHANGED <<server, input, reply, faults, edits, landed, veiled, overlap>>

\* What a list shows.
Visible == [i \in DOMAIN netbox \ hidden |-> netbox[i]]

Ask(t) ==
    /\ pc[t] \in GetStages /\ reply[t] = NoReply /\ cache[QueryOf(t)] = None
    /\ reply' = [reply EXCEPT ![t] = [kind |-> "list", records |-> Visible]]
    /\ veiled' = IF Visible = netbox THEN veiled ELSE veiled \cup {QueryOf(t)}
    /\ CountBlind(t, DOMAIN Visible = {} /\ DOMAIN netbox # {})
    /\ UNCHANGED <<server, cache, input, pc, progress, result, faults, edits, landed, overlap>>

Listed(t) ==
    /\ reply[t].kind = "list"
    /\ reply' = [reply EXCEPT ![t] = NoReply]
    /\ Continue(t, reply[t].records, [cache EXCEPT ![QueryOf(t)] = reply[t].records])
    /\ UNCHANGED <<server, input, history>>

\* A GET that fails for good ends the task, except the lookup before a retried POST,
\* whose failure reads as "not there".
AskFails(t) ==
    /\ pc[t] \in GetStages /\ reply[t] = NoReply /\ cache[QueryOf(t)] = None
    /\ Fault
    /\ Goto(t, IF pc[t] = "relook" THEN "post" ELSE "error")
    /\ CountBlind(t, pc[t] = "relook")
    /\ UNCHANGED <<server, cache, input, reply, progress, result, edits, landed, veiled, overlap>>

-----------------------------------------------------------------------------
\* rest_create_async and rest_bulk_create_async.

\* NetBox gets a record.  Lists may not show it at once.
Insert(v) ==
    LET id == Least(Ids \ used)
    IN  /\ Ids \ used # {}
        /\ netbox' = With(netbox, id, v)
        /\ used' = used \cup {id}
        /\ \/ UNCHANGED <<hidden, delays>>
           \/ Bounded /\ hidden' = hidden \cup {id} /\ delays' = delays + 1

\* The POST arrives at NetBox, which creates all objects of a batch or none.
Post(t) ==
    /\ pc[t] \in PostStages /\ reply[t] = NoReply
    /\ IF unique /\ DOMAIN netbox # {}
       THEN /\ reply' = [reply EXCEPT ![t] = [kind |-> "duplicate", records |-> Empty]]
            /\ UNCHANGED <<server, landed>>
       ELSE /\ Insert(want[t]) /\ UNCHANGED unique
            /\ landed' = [landed EXCEPT ![t] = @ + 1]
            /\ reply' = [reply EXCEPT ![t] = [kind |-> "created",
                             records |-> With(Empty, Least(Ids \ used), want[t])]]
    /\ UNCHANGED <<cache, input, pc, progress, result, faults, edits, blind, veiled, overlap>>

Created(t) ==
    /\ reply[t].kind = "created"
    /\ reply' = [reply EXCEPT ![t] = NoReply]
    /\ Invalidate
    /\ Settle(t, Least(DOMAIN reply[t].records), "created")
    /\ UNCHANGED <<server, input, progress, history>>

\* Mutants: a duplicate is taken for the wanted record; or the POST is repeated.
DuplicateIsSuccess(t) ==
    /\ reply[t].kind = "duplicate"
    /\ reply' = [reply EXCEPT ![t] = NoReply]
    /\ Settle(t, None, "unchanged")
    /\ UNCHANGED <<server, cache, input, progress, history>>
DuplicateIsRepeated(t) ==
    /\ reply[t].kind = "duplicate"
    /\ reply' = [reply EXCEPT ![t] = NoReply]
    /\ Goto(t, "post")
    /\ UNCHANGED <<server, cache, input, progress, result, history>>

\* A batch failed for good: rest_bulk_reconcile_async goes on with its objects one by
\* one, with a reconcile or with the save of the record, or raises.
LeaveBatch(t) ==
    /\ Goto(t, CASE op[t] = "bulk_only" -> "error"
                 [] op[t] = "bulk" /\ pc[t] = "bulkpost" -> "find"
                 [] op[t] = "bulk" /\ pc[t] = "bulkpatch" -> "patch")
    /\ attempt' = [attempt EXCEPT ![t] = 0]

\* A duplicate error: a batch is left, an ensure or a reconcile looks again, the latter
\* with a cleared cache.
Duplicate(t) ==
    /\ reply[t].kind = "duplicate"
    /\ reply' = [reply EXCEPT ![t] = NoReply]
    /\ \/ pc[t] = "bulkpost" /\ LeaveBatch(t) /\ UNCHANGED cache
       \/ /\ pc[t] = "post" /\ UNCHANGED attempt
          /\ IF Reconciles(t) THEN Invalidate ELSE UNCHANGED cache
          /\ Goto(t, IF op[t] = "create" THEN "error" ELSE "refind")
    /\ UNCHANGED <<server, input, round, target, result, history>>

\* Mutant: a create without a lookup is repeated after any transient error.
SafeToRetryTransient(t, text) == text # "other"

\* is_safe_retry; a bulk POST has no lookup either.
SafeToRetry(t, text) == text = "refused" \/ (~Reconciles(t) /\ text = "transient")

\* The POST failed: another attempt, behind the lookup if there is one, or the error.
PostFailed(t, text) ==
    /\ Fault
    /\ IF attempt[t] < MaxRetries /\ SafeToRetry(t, text)
       THEN /\ attempt' = [attempt EXCEPT ![t] = @ + 1]
            /\ Goto(t, IF Reconciles(t) THEN pc[t] ELSE "relook")
       ELSE \/ pc[t] = "bulkpost" /\ LeaveBatch(t)
            \/ pc[t] = "post" /\ Goto(t, "error") /\ UNCHANGED attempt
    /\ UNCHANGED <<server, cache, input, round, target, result, edits, landed, veiled, overlap>>

\* Before NetBox saw it.
PostNotSent(t, text) ==
    /\ pc[t] \in PostStages /\ reply[t] = NoReply
    /\ PostFailed(t, text) /\ UNCHANGED <<reply, blind>>

\* After NetBox answered: the answer is lost, or tells of a failure behind NetBox.  If its
\* text has the words of a refused connection, the POST is repeated all the same.
PostAnswerLost(t, text) ==
    /\ pc[t] \in PostStages /\ reply[t] # NoReply
    /\ reply' = [reply EXCEPT ![t] = NoReply]
    /\ PostFailed(t, text)
    /\ blind' = [blind EXCEPT ![t] =
                    IF Reconciles(t) /\ attempt[t] < MaxRetries /\ text = "refused" THEN @ + 1 ELSE @]

-----------------------------------------------------------------------------

\* RestRecord.save: one PATCH, which is not repeated.
Patch(t) ==
    /\ pc[t] = "patch"
    /\ IF target[t] \in DOMAIN netbox
       THEN /\ netbox' = [netbox EXCEPT ![target[t]] = want[t]]
            /\ Invalidate
            /\ Settle(t, target[t], "updated")
       ELSE Goto(t, "error") /\ UNCHANGED <<netbox, cache, result>>
    /\ UNCHANGED <<unique, used, hidden, delays, input, reply, progress, history>>

\* It fails, before or after NetBox applied it.
PatchFails(t) ==
    /\ pc[t] = "patch" /\ Fault
    /\ \/ target[t] \in DOMAIN netbox /\ netbox' = [netbox EXCEPT ![target[t]] = want[t]]
       \/ UNCHANGED netbox
    /\ Goto(t, "error")
    /\ UNCHANGED <<unique, used, hidden, delays, cache, input, reply, progress, result, edits,
                   landed, blind, veiled, overlap>>

\* rest_bulk_patch_async.  NetBox leaves out a record that is gone, which then has no
\* result, or refuses the batch.
BulkPatch(t) ==
    /\ pc[t] = "bulkpatch"
    /\ \/ /\ target[t] \in DOMAIN netbox
          /\ netbox' = [netbox EXCEPT ![target[t]] = want[t]]
          /\ Invalidate
          /\ Settle(t, target[t], "updated") /\ UNCHANGED attempt
       \/ /\ target[t] \notin DOMAIN netbox /\ UNCHANGED <<netbox, result>>
          /\ \/ Goto(t, "error") /\ Invalidate /\ UNCHANGED attempt
             \/ LeaveBatch(t) /\ UNCHANGED cache
    /\ UNCHANGED <<unique, used, hidden, delays, input, reply, round, target, history>>

\* It fails, before or after NetBox applied it: a transient failure is repeated, or the
\* batch is left.
BulkPatchFails(t) ==
    /\ pc[t] = "bulkpatch" /\ Fault
    /\ \/ target[t] \in DOMAIN netbox /\ netbox' = [netbox EXCEPT ![target[t]] = want[t]]
       \/ UNCHANGED netbox
    /\ \/ attempt[t] < MaxRetries /\ attempt' = [attempt EXCEPT ![t] = @ + 1] /\ UNCHANGED pc
       \/ LeaveBatch(t)
    /\ UNCHANGED <<unique, used, hidden, delays, cache, input, reply, round, target, result, edits,
                   landed, blind, veiled, overlap>>

\* NetBox refuses a batch because of another object in it.
BatchRefused(t) ==
    /\ pc[t] \in BatchStages /\ reply[t] = NoReply
    /\ Fault
    /\ LeaveBatch(t)
    /\ UNCHANGED <<server, cache, input, reply, round, target, result, edits, landed, blind, veiled,
                   overlap>>

\* Lists show a record at last.
Appear(i) ==
    /\ i \in hidden /\ hidden' = hidden \ {i}
    /\ UNCHANGED <<unique, netbox, used, delays, cache, input, pc, reply, progress, result, history>>

\* Entries of the GET cache expire.
Expire ==
    /\ \E q \in Queries : cache[q] # None /\ cache' = [cache EXCEPT ![q] = None]
    /\ UNCHANGED <<server, input, pc, reply, progress, result, history>>

\* Other clients of NetBox.
Edit(kind) ==
    /\ Bounded
    /\ edits' = [edits EXCEPT ![kind] = @ + 1]
    /\ UNCHANGED <<unique, cache, input, pc, reply, progress, result, faults, landed, blind, veiled,
                   overlap>>

OthersCreate ==
    /\ Edit("create") /\ (unique => DOMAIN netbox = {})
    /\ \E v \in Payloads : Insert(v)

OthersChange ==
    /\ Edit("change") /\ UNCHANGED <<used, hidden, delays>>
    /\ \E i \in DOMAIN netbox, v \in Payloads : netbox' = [netbox EXCEPT ![i] = v]

OthersDelete ==
    /\ Edit("delete") /\ UNCHANGED <<used, delays>>
    /\ \E i \in DOMAIN netbox : netbox' = Without(netbox, i) /\ hidden' = hidden \ {i}

-----------------------------------------------------------------------------
Step(t) ==
    \/ Start(t) \/ Hit(t) \/ Ask(t) \/ Listed(t)
    \/ Post(t) \/ Created(t) \/ Duplicate(t) \/ Patch(t) \/ BulkPatch(t)

Fail(t) ==
    \/ AskFails(t) \/ PatchFails(t) \/ BulkPatchFails(t) \/ BatchRefused(t)
    \/ \E text \in Texts : PostNotSent(t, text) \/ PostAnswerLost(t, text)

Next ==
    \/ \E t \in Tasks : Step(t) \/ Fail(t)
    \/ Expire \/ OthersCreate \/ OthersChange \/ OthersDelete
    \/ \E i \in Ids : Appear(i)

Spec == Init /\ [][Next]_vars

\* The event loop runs every task, and a request is answered or fails.
FairSpec == Spec /\ \A t \in Tasks : WF_vars(Step(t))

-----------------------------------------------------------------------------
\* With a uniqueness constraint and no deletions, however the tasks race and whatever the
\* cache holds, every task that succeeds returns the one record of NetBox: the loser of
\* a create finds the winner's record.  It is answered with its own payload, without an id,
\* only if the full scan was answered by a list that did not show the record yet (1565-1588).
Converge ==
    unique /\ edits["delete"] = 0 =>
        \A t \in Tasks : pc[t] = "done" =>
            IF result[t].id = None
            THEN DOMAIN netbox # {} /\ "scan" \in veiled
            ELSE DOMAIN netbox = {result[t].id}

\* When only reconciles with one payload touch the object, and all of them succeed, every
\* record they return holds that payload: no decision taken on a cached record leaves it
\* different.
ReachesDesired ==
    (/\ \A k \in DOMAIN edits : edits[k] = 0
     /\ \A t, u \in Tasks : Reconciles(t) /\ want[t] = want[u] /\ pc[t] = "done")
        => \A t \in Tasks : result[t].id # None =>
               result[t].id \in DOMAIN netbox /\ netbox[result[t].id] = want[t]

\* Without a constraint, a second record needs a reason: two tasks at the same time, a
\* failed request, another client, a list that did not show a record yet, or a create that
\* does not look first.  In particular no task acts on a list cached before an earlier
\* task's create.
NoNeedlessDuplicate ==
    ~overlap /\ faults = 0 /\ edits["create"] = 0 /\ veiled = {}
        /\ (\A t \in Tasks : op[t] # "create") =>
            Cardinality(DOMAIN netbox) <= 1

\* A task creates one record, and one more for every POST it repeats unprotected: a create
\* without a lookup is repeated only when the error's text says that the connection was
\* refused, and one with a lookup only when the lookup finds nothing (rest_create_async:
\* "if the prior attempt landed, we return that record instead of POSTing again").  The
\* same holds of the fallback of a batch whose answer was lost.  What leaves a repeated POST
\* unprotected is counted: a text that says so of a POST that reached NetBox, a lookup that
\* fails, one that the GET cache answers, one that does not show the record yet.
LandsOnce ==
    \A t \in Tasks :
        op[t] \in {"reconcile", "bulk_only"} \/ edits["delete"] = 0 => landed[t] <= 1 + blind[t]

\* Every task ends: retries and refetch rounds are bounded.
TasksEnd == \A t \in Tasks : pc[t] \in {"find", "post", "list"} ~> pc[t] \in Ended
=============================================================================

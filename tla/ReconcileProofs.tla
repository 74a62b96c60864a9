--------------------------- MODULE ReconcileProofs ---------------------------
(***************************************************************************)
(* Proofs about Reconcile, for any tasks, payloads, ids and bounds, for    *)
(* any interleaving of the tasks with the GET cache and other clients, and *)
(* for any requests that fail or whose answers are lost.                   *)
(***************************************************************************)
EXTENDS Reconcile, FiniteSetTheorems, TLAPS

\* A set of ids has a least one: of the intervals below its members, one is minimal.
LEMMA LeastExists ==
    ASSUME NEW S \in SUBSET Nat, S # {}
    PROVE  \E i \in S : \A j \in S : i <= j
<1> DEFINE Below == {1..i : i \in S}
<1>1. IsWellFoundedOn(StrictSubsetOrdering(Nat), FiniteSubsetsOf(Nat))
  BY FS_StrictSubsetOrderingWellFounded
<1>2. Below \subseteq FiniteSubsetsOf(Nat) /\ Below # {}
  <2>1. \A i \in S : IsFiniteSet(1..i) /\ 1..i \subseteq Nat
    BY FS_Interval
  <2> QED
    BY <2>1 DEF FiniteSubsetsOf
<1> HIDE DEF Below
<1>3. PICK b \in Below : \A c \in Below : <<c, b>> \notin StrictSubsetOrdering(Nat)
  BY <1>1, <1>2, WFMin
<1>4. PICK i \in S : b = 1..i
  BY DEF Below
<1>5. ASSUME NEW j \in S, j < i
      PROVE  FALSE
  <2>1. 1..j \subseteq 1..i /\ i \in 1..i /\ i \notin 1..j
    BY <1>5
  <2>2. <<1..j, 1..i>> \in StrictSubsetOrdering(Nat)
    BY <2>1 DEF StrictSubsetOrdering
  <2> QED
    BY <1>3, <1>4, <2>2 DEF Below
<1> QED
  BY <1>5

LEMMA LeastOfIds ==
    ASSUME NEW S \in SUBSET Ids, S # {}
    PROVE  Least(S) \in S
BY LeastExists, ReconcileConstants DEF Least

\* A snapshot is a function from ids to payloads.
LEMMA SnapshotIs ==
    \A f : f \in Snapshot <=> DOMAIN f \in SUBSET Ids /\ f \in [DOMAIN f -> Payloads]
<1>1. ASSUME NEW f \in Snapshot
      PROVE  DOMAIN f \in SUBSET Ids /\ f \in [DOMAIN f -> Payloads]
  <2>1. PICK S \in SUBSET Ids : f \in [S -> Payloads]
    BY DEF Snapshot
  <2>2. DOMAIN f = S
    BY <2>1
  <2> QED
    BY <2>1, <2>2
<1>2. ASSUME NEW f, DOMAIN f \in SUBSET Ids, f \in [DOMAIN f -> Payloads]
      PROVE  f \in Snapshot
  BY <1>2 DEF Snapshot
<1> QED
  BY <1>1, <1>2

LEMMA EmptyTyped == Empty \in Snapshot /\ DOMAIN Empty = {}
<1>1. DOMAIN Empty = {} /\ Empty \in [DOMAIN Empty -> Payloads]
  BY DEF Empty
<1> QED
  BY <1>1, SnapshotIs

\* A record added, changed or removed.
LEMMA WithTyped ==
    ASSUME NEW f \in Snapshot, NEW i \in Ids, NEW v \in Payloads
    PROVE  /\ With(f, i, v) \in Snapshot /\ DOMAIN With(f, i, v) = DOMAIN f \cup {i}
           /\ With(f, i, v)[i] = v /\ \A j \in DOMAIN f : j # i => With(f, i, v)[j] = f[j]
<1>1. DOMAIN f \in SUBSET Ids /\ f \in [DOMAIN f -> Payloads]
  BY SnapshotIs
<1>2. DOMAIN With(f, i, v) = DOMAIN f \cup {i}
  BY DEF With
<1>3. With(f, i, v) \in [DOMAIN f \cup {i} -> Payloads]
  BY <1>1 DEF With
<1>4. With(f, i, v)[i] = v /\ \A j \in DOMAIN f : j # i => With(f, i, v)[j] = f[j]
  BY DEF With
<1>5. With(f, i, v) \in Snapshot
  BY <1>1, <1>2, <1>3, SnapshotIs
<1> QED
  BY <1>2, <1>4, <1>5

LEMMA ChangedTyped ==
    ASSUME NEW f \in Snapshot, NEW i \in DOMAIN f, NEW v \in Payloads
    PROVE  /\ [f EXCEPT ![i] = v] \in Snapshot /\ DOMAIN [f EXCEPT ![i] = v] = DOMAIN f
           /\ [f EXCEPT ![i] = v][i] = v
           /\ \A j \in DOMAIN f : j # i => [f EXCEPT ![i] = v][j] = f[j]
<1> DEFINE g == [f EXCEPT ![i] = v]
<1>1. DOMAIN f \in SUBSET Ids /\ f \in [DOMAIN f -> Payloads]
  BY SnapshotIs
<1>2. g \in [DOMAIN f -> Payloads] /\ DOMAIN g = DOMAIN f
  BY <1>1
<1>3. g[i] = v /\ \A j \in DOMAIN f : j # i => g[j] = f[j]
  BY <1>1
<1>4. g \in Snapshot
  <2> HIDE DEF g
  <2> QED BY <1>1, <1>2, SnapshotIs
<1> QED
  BY <1>2, <1>3, <1>4

LEMMA WithoutTyped ==
    ASSUME NEW f \in Snapshot, NEW i \in DOMAIN f
    PROVE  Without(f, i) \in Snapshot /\ DOMAIN Without(f, i) = DOMAIN f \ {i}
<1>1. DOMAIN f \in SUBSET Ids /\ f \in [DOMAIN f -> Payloads]
  BY SnapshotIs
<1>2. DOMAIN Without(f, i) = DOMAIN f \ {i} /\ Without(f, i) \in [DOMAIN f \ {i} -> Payloads]
  BY <1>1 DEF Without
<1> QED
  BY <1>1, <1>2, SnapshotIs

\* The record that _select_existing takes is one of the list.
LEMMA SelectTyped ==
    ASSUME NEW f \in Snapshot, DOMAIN f # {}
    PROVE  Select(f) \in DOMAIN f /\ Select(f) \in Ids
BY SnapshotIs, LeastOfIds DEF Select

-----------------------------------------------------------------------------
(***************************************************************************)
(* The inductive invariants.                                               *)
(***************************************************************************)

\* What is on its way to a task fits its stage, and its stage fits its operation.
StagesFit ==
    \A t \in Tasks :
        /\ reply[t].kind = "list" => pc[t] \in GetStages
        /\ reply[t].kind \in {"created", "duplicate"} => pc[t] \in PostStages
        /\ reply[t].kind = "created" => DOMAIN reply[t].records # {}
        /\ pc[t] \in {"list"} \cup BatchStages => op[t] \in {"bulk", "bulk_only"}
        /\ pc[t] \in {"find", "post", "relook", "refind", "rescan", "patch"} => op[t] # "bulk_only"
        /\ pc[t] = "relook" => ~Reconciles(t)

NoDeletes == edits["delete"] = 0

\* What a task returns: a record of NetBox, or no id after a scan that left one out.
Returned(t) ==
    \/ result[t].id \in DOMAIN netbox
    \/ result[t].id = None /\ DOMAIN netbox # {} /\ "scan" \in veiled

\* While nobody deletes, what the tasks and the cache know of stays in NetBox; and the
\* refetch after a duplicate error finds something, unless NetBox left the record out of a
\* scan: only tasks that met a duplicate scan.
NothingLost ==
    NoDeletes =>
        /\ \A q \in Queries : cache[q] # None => DOMAIN cache[q] \subseteq DOMAIN netbox
        /\ cache["scan"] # None => DOMAIN cache["scan"] # {} \/ "scan" \in veiled
        /\ \A t \in Tasks :
              /\ DOMAIN reply[t].records \subseteq DOMAIN netbox
              /\ pc[t] \in PatchStages => target[t] \in DOMAIN netbox
              /\ reply[t].kind = "duplicate" \/ pc[t] \in {"refind", "rescan"} => DOMAIN netbox # {}
              /\ pc[t] = "rescan" /\ reply[t].kind = "list" =>
                    DOMAIN reply[t].records # {} \/ "scan" \in veiled
              /\ pc[t] = "done" => Returned(t)

\* The constraint of NetBox.
AtMostOne == unique => \A i, j \in DOMAIN netbox : i = j

\* Only reconciles with one payload touch the object.
OnePayload ==
    /\ \A k \in DOMAIN edits : edits[k] = 0
    /\ \A t, u \in Tasks : Reconciles(t) /\ want[t] = want[u]

\* Then a record that is seen with the payload, or that a task has left, keeps it.
Current(records, t) == \A i \in DOMAIN records : records[i] = want[t] => netbox[i] = want[t]
PayloadStays ==
    OnePayload => \A t \in Tasks :
        /\ \A q \in Queries : cache[q] # None => Current(cache[q], t)
        /\ Current(reply[t].records, t)
        /\ reply[t].kind = "created" => \A i \in DOMAIN reply[t].records : netbox[i] = want[t]
        /\ pc[t] = "done" /\ result[t].id # None => netbox[result[t].id] = want[t]

\* The tasks that LandsOnce protects, and what they know about their own POST.
Protected(t) == op[t] \in {"reconcile", "bulk_only"} \/ NoDeletes
LandsKnown ==
    \A t \in Tasks :
        /\ NoDeletes /\ landed[t] # 0 => DOMAIN netbox # {}
        /\ Protected(t) =>
              /\ landed[t] <= 1 + blind[t]
              /\ pc[t] \in {"idle", "list"} \cup PostStages /\ reply[t].kind # "created" =>
                    landed[t] <= blind[t]
              /\ pc[t] = "find" /\ op[t] # "bulk" => landed[t] <= blind[t]
              /\ pc[t] \in {"find", "relook"} /\ reply[t].kind = "list"
                    /\ DOMAIN reply[t].records = {} => landed[t] <= blind[t]

\* One task at a time, no failures, nobody else creates, and every list is complete.
Undisturbed ==
    /\ ~overlap /\ faults = 0 /\ edits["create"] = 0 /\ veiled = {}
    /\ \A t \in Tasks : op[t] # "create"
Running == {t \in Tasks : pc[t] \notin {"idle"} \cup Ended}

\* Then an empty list is true when it is used: it is dropped before the next task starts.
EmptyIsTrue ==
    Undisturbed =>
        /\ \A t, u \in Running : t = u
        /\ \A i, j \in DOMAIN netbox : i = j
        /\ \A t \in Tasks :
              /\ pc[t] \in PostStages /\ reply[t].kind # "created" => DOMAIN netbox = {}
              /\ reply[t].kind = "list" /\ DOMAIN reply[t].records = {} => DOMAIN netbox = {}
        /\ (\A t \in Tasks : reply[t].kind # "created") =>
              \A q \in Queries : cache[q] # None /\ DOMAIN cache[q] = {} => DOMAIN netbox = {}

-----------------------------------------------------------------------------
(***************************************************************************)
(* Types.                                                                  *)
(***************************************************************************)

LEMMA SettleTyped ==
    ASSUME TypeOK, NEW t \in Tasks, NEW id \in Ids \cup {None},
           NEW s \in {"found", "created", "updated", "unchanged"}, Settle(t, id, s)
    PROVE  /\ pc' \in [Tasks -> Stages] /\ result' \in [Tasks -> Result \cup {None}]
           /\ pc'[t] = "done" /\ result'[t].id = id
           /\ \A u \in Tasks : u # t => pc'[u] = pc[u] /\ result'[u] = result[u]
BY DEF TypeOK, Settle, Goto, Stages, Result

\* What a task does with a list: it settles on a record of it, goes on to patch one, or
\* found nothing.
LEMMA ContinueCases ==
    ASSUME TypeOK, NEW t \in Tasks, NEW records \in Snapshot, NEW c, Continue(t, records, c),
           pc[t] \in GetStages
    PROVE  /\ \/ /\ DOMAIN records # {} /\ cache' = c
                 /\ pc'[t] = "done" /\ result'[t].id \in DOMAIN records
                 /\ Reconciles(t) => records[result'[t].id] = want[t]
                 /\ UNCHANGED target
              \/ /\ DOMAIN records # {} /\ cache' = c
                 /\ pc'[t] = IF pc[t] = "list" THEN "bulkpatch" ELSE "patch"
                 /\ Reconciles(t) /\ target'[t] \in DOMAIN records /\ UNCHANGED result
              \/ /\ DOMAIN records = {} /\ cache' = c /\ UNCHANGED <<target, result>>
                 /\ \/ pc[t] = "list" /\ pc'[t] = "bulkpost"
                    \/ pc[t] \in {"find", "relook"} /\ pc'[t] = "post"
                    \/ pc[t] = "refind" /\ pc'[t] \in {"rescan", "error"}
              \/ /\ DOMAIN records = {} /\ Invalidate /\ UNCHANGED <<target, result>>
                 /\ pc[t] = "rescan" /\ pc'[t] = "refind"
              \/ /\ DOMAIN records = {} /\ cache' = c /\ UNCHANGED target
                 /\ pc[t] = "rescan" /\ pc'[t] = "done" /\ result'[t].id = None
           /\ \A u \in Tasks : u # t =>
                 pc'[u] = pc[u] /\ target'[u] = target[u] /\ result'[u] = result[u]
           /\ pc' \in [Tasks -> Stages] /\ result' \in [Tasks -> Result \cup {None}]
           /\ attempt' = attempt /\ round' \in [Tasks -> 0..RefetchRounds]
           /\ target' \in [Tasks -> Ids \cup {None}]
<1> DEFINE Typed == /\ \A u \in Tasks : u # t =>
                          pc'[u] = pc[u] /\ target'[u] = target[u] /\ result'[u] = result[u]
                    /\ pc' \in [Tasks -> Stages] /\ result' \in [Tasks -> Result \cup {None}]
                    /\ attempt' = attempt /\ round' \in [Tasks -> 0..RefetchRounds]
                    /\ target' \in [Tasks -> Ids \cup {None}]
<1> USE DEF progress
<1>1. CASE DOMAIN records # {} /\ Use(t, records) /\ cache' = c
  <2> DEFINE id == Select(records)
  <2>1. id \in DOMAIN records /\ id \in Ids
    BY <1>1, SelectTyped
  <2>2. CASE /\ UNCHANGED progress /\ \E s \in {"found", "unchanged"} : Settle(t, id, s)
             /\ Reconciles(t) => records[id] = want[t]
    <3>1. PICK s \in {"found", "created", "updated", "unchanged"} : Settle(t, id, s)
      BY <2>2
    <3>2. /\ pc'[t] = "done" /\ result'[t].id = id
          /\ pc' \in [Tasks -> Stages] /\ result' \in [Tasks -> Result \cup {None}]
          /\ \A u \in Tasks : u # t => pc'[u] = pc[u] /\ result'[u] = result[u]
      BY <2>1, <3>1, SettleTyped
    <3>3. Typed
      BY <2>2, <3>2 DEF TypeOK
    <3> QED
      BY <1>1, <2>1, <2>2, <3>2, <3>3
  <2>3. CASE /\ Reconciles(t) /\ Goto(t, IF pc[t] = "list" THEN "bulkpatch" ELSE "patch")
             /\ target' = [target EXCEPT ![t] = id] /\ UNCHANGED <<attempt, round, result>>
    <3>1. /\ pc'[t] = IF pc[t] = "list" THEN "bulkpatch" ELSE "patch"
          /\ target'[t] = id
      BY <2>3 DEF Goto, TypeOK
    <3>2. Typed
      BY <2>1, <2>3 DEF Goto, TypeOK, Stages, PatchStages
    <3> QED
      BY <1>1, <2>1, <2>3, <3>1, <3>2
  <2> QED
    BY <1>1, <2>2, <2>3 DEF Use, Compare
<1>2. CASE DOMAIN records = {} /\ NotFound(t, c)
  <2>1. CASE pc[t] = "list"
    <3>1. Goto(t, "bulkpost") /\ cache' = c /\ UNCHANGED <<progress, result>>
      BY <1>2, <2>1 DEF NotFound
    <3> QED
      BY <1>2, <2>1, <3>1 DEF Goto, TypeOK, Stages, PostStages
  <2>2. CASE pc[t] \in {"find", "relook"}
    <3>1. Goto(t, "post") /\ cache' = c /\ UNCHANGED <<progress, result>>
      BY <1>2, <2>2 DEF NotFound
    <3> QED
      BY <1>2, <2>2, <3>1 DEF Goto, TypeOK, Stages, PostStages
  <2>3. CASE pc[t] = "refind"
    <3>1. PICK s \in {"rescan", "error"} :
            Goto(t, s) /\ cache' = c /\ UNCHANGED <<progress, result>>
      BY <1>2, <2>3 DEF NotFound
    <3> QED
      BY <1>2, <2>3, <3>1 DEF Goto, TypeOK, Stages, GetStages
  <2>4. CASE pc[t] = "rescan" /\ ~LastRound(t)
    <3>1. /\ Goto(t, "refind") /\ Invalidate /\ UNCHANGED <<attempt, target, result>>
          /\ round' = [round EXCEPT ![t] = @ + 1]
      BY <1>2, <2>4 DEF NotFound
    <3>2. round[t] + 1 \in 0..RefetchRounds
      BY <2>4, ReconcileConstants DEF LastRound, TypeOK
    <3>3. round' \in [Tasks -> 0..RefetchRounds]
      BY <3>1, <3>2 DEF TypeOK
    <3> QED
      BY <1>2, <2>4, <3>1, <3>3 DEF Goto, TypeOK, Stages, GetStages
  <2>5. CASE pc[t] = "rescan" /\ LastRound(t)
    <3>1. Settle(t, None, "unchanged") /\ cache' = c /\ UNCHANGED progress
      BY <1>2, <2>5 DEF NotFound
    <3>2. /\ pc'[t] = "done" /\ pc' \in [Tasks -> Stages] /\ result'[t].id = None
          /\ result' \in [Tasks -> Result \cup {None}]
          /\ \A u \in Tasks : u # t => pc'[u] = pc[u] /\ result'[u] = result[u]
      BY <3>1, SettleTyped
    <3> QED
      BY <1>2, <2>5, <3>1, <3>2 DEF TypeOK
  <2> QED
    BY <2>1, <2>2, <2>3, <2>4, <2>5 DEF GetStages
<1> QED
  BY <1>1, <1>2 DEF Continue

\* Where a task may go.
LEMMA GotoTyped ==
    ASSUME TypeOK, NEW t \in Tasks, NEW s \in Stages, Goto(t, s)
    PROVE  /\ pc' \in [Tasks -> Stages]
           /\ \A u \in Tasks : pc'[u] = IF u = t THEN s ELSE pc[u]
BY DEF TypeOK, Goto

\* What is on its way to a task.
LEMMA ReplyTyped ==
    ASSUME TypeOK, NEW t \in Tasks, NEW k \in {"none", "list", "created", "duplicate"},
           NEW records \in Snapshot,
           reply' = [reply EXCEPT ![t] = [kind |-> k, records |-> records]]
    PROVE  /\ reply' \in [Tasks -> Reply]
           /\ reply'[t].kind = k /\ reply'[t].records = records
           /\ \A u \in Tasks : u # t => reply'[u] = reply[u]
<1>1. [kind |-> k, records |-> records] \in Reply
  BY DEF Reply
<1> QED
  BY <1>1 DEF TypeOK

LEMMA NothingTyped ==
    ASSUME TypeOK, NEW t \in Tasks, reply' = [reply EXCEPT ![t] = NoReply]
    PROVE  /\ reply' \in [Tasks -> Reply]
           /\ reply'[t].kind = "none" /\ reply'[t].records = Empty
           /\ \A u \in Tasks : u # t => reply'[u] = reply[u]
BY ReplyTyped, EmptyTyped DEF NoReply

LEMMA NoReplyIs == NoReply.kind = "none" /\ NoReply.records = Empty
BY DEF NoReply

LEMMA InvalidateTyped ==
    ASSUME Invalidate
    PROVE  cache' \in [Queries -> Snapshot \cup {None}] /\ \A q \in Queries : cache'[q] = None
BY DEF Invalidate

\* A batch is left for the stage that its operation has after it.
LEMMA LeaveTyped ==
    ASSUME TypeOK, StagesFit, NEW t \in Tasks, pc[t] \in BatchStages, LeaveBatch(t)
    PROVE  /\ pc' \in [Tasks -> Stages] /\ attempt' \in [Tasks -> 0..MaxRetries]
           /\ \A u \in Tasks : u # t => pc'[u] = pc[u]
           /\ \/ op[t] = "bulk_only" /\ pc'[t] = "error"
              \/ op[t] = "bulk" /\ pc[t] = "bulkpost" /\ pc'[t] = "find"
              \/ op[t] = "bulk" /\ pc[t] = "bulkpatch" /\ pc'[t] = "patch"
<1>1. op[t] \in {"bulk", "bulk_only"}
  BY DEF StagesFit
<1>2. PICK s \in Stages :
        /\ Goto(t, s)
        /\ \/ op[t] = "bulk_only" /\ s = "error"
           \/ op[t] = "bulk" /\ pc[t] = "bulkpost" /\ s = "find"
           \/ op[t] = "bulk" /\ pc[t] = "bulkpatch" /\ s = "patch"
  BY <1>1 DEF LeaveBatch, BatchStages, Stages, GetStages, PatchStages
<1>3. attempt' \in [Tasks -> 0..MaxRetries]
  BY ReconcileConstants DEF LeaveBatch, TypeOK
<1> QED
  BY <1>2, <1>3, GotoTyped

\* A POST that failed is repeated, as it is or behind a lookup, or left.
LEMMA PostFailedTyped ==
    ASSUME TypeOK, StagesFit, NEW t \in Tasks, pc[t] \in PostStages, NEW text \in Texts,
           PostFailed(t, text)
    PROVE  /\ pc' \in [Tasks -> Stages] /\ attempt' \in [Tasks -> 0..MaxRetries]
           /\ faults' = faults + 1
           /\ \A u \in Tasks : u # t => pc'[u] = pc[u]
           /\ \/ /\ Reconciles(t) /\ attempt[t] < MaxRetries /\ text = "refused"
                 /\ pc'[t] = pc[t]
              \/ ~Reconciles(t) /\ pc'[t] = "relook" /\ pc[t] = "post"
              \/ op[t] = "bulk" /\ pc[t] = "bulkpost" /\ pc'[t] = "find"
              \/ pc'[t] = "error"
<1>0. pc[t] \in Stages /\ "relook" \in Stages /\ "error" \in Stages
  BY DEF TypeOK, Stages, GetStages
<1>1. CASE attempt[t] < MaxRetries /\ SafeToRetry(t, text)
  <2>1. /\ attempt' = [attempt EXCEPT ![t] = @ + 1]
        /\ Goto(t, IF Reconciles(t) THEN pc[t] ELSE "relook")
    BY <1>1 DEF PostFailed
  <2>2. attempt[t] + 1 \in 0..MaxRetries
    BY <1>1, ReconcileConstants DEF TypeOK
  <2>3. attempt' \in [Tasks -> 0..MaxRetries]
    BY <2>1, <2>2 DEF TypeOK
  <2>4. ~Reconciles(t) => pc[t] = "post"
    BY DEF StagesFit, PostStages, BatchStages, Reconciles
  <2> QED
    BY <1>0, <1>1, <2>1, <2>3, <2>4, GotoTyped DEF PostFailed, SafeToRetry, Fault
<1>2. CASE pc[t] = "bulkpost" /\ LeaveBatch(t)
  BY <1>2, LeaveTyped DEF PostFailed, BatchStages, Fault
<1>3. CASE pc[t] = "post" /\ Goto(t, "error") /\ UNCHANGED attempt
  BY <1>0, <1>3, GotoTyped DEF PostFailed, TypeOK, Fault
<1> QED
  BY <1>1, <1>2, <1>3 DEF PostFailed

-----------------------------------------------------------------------------
(***************************************************************************)
(* What each step does, entry by entry.                                    *)
(***************************************************************************)

\* A step of one task leaves the others alone.
Keeps(t) ==
    \A u \in Tasks \ {t} :
        /\ pc'[u] = pc[u] /\ reply'[u] = reply[u]
        /\ target'[u] = target[u] /\ result'[u] = result[u]
        /\ landed'[u] = landed[u] /\ blind'[u] = blind[u]

LEMMA StartEffect ==
    ASSUME TypeOK, NEW t \in Tasks, Start(t)
    PROVE  /\ TypeOK' /\ Keeps(t) /\ pc[t] = "idle"
           /\ \/ op[t] = "create" /\ pc'[t] = "post"
              \/ op[t] \in {"ensure", "reconcile"} /\ pc'[t] = "find"
              \/ op[t] \in {"bulk", "bulk_only"} /\ pc'[t] = "list"
           /\ overlap' = (overlap \/ \E u \in Tasks \ {t} : pc[u] \notin {"idle"} \cup Ended)
           /\ UNCHANGED <<unique, op, want, netbox, cache, reply, target, result, landed, blind,
                          faults, edits, veiled>>
<1> USE DEF server, input, progress, history
<1>1. PICK s \in Stages :
        /\ Goto(t, s)
        /\ \/ op[t] = "create" /\ s = "post"
           \/ op[t] \in {"ensure", "reconcile"} /\ s = "find"
           \/ op[t] \in {"bulk", "bulk_only"} /\ s = "list"
  <2>1. op[t] \in Operations
    BY DEF TypeOK
  <2> QED
    BY <2>1 DEF Start, Operations, Stages, GetStages, PostStages
<1>2. pc' \in [Tasks -> Stages] /\ \A u \in Tasks : pc'[u] = IF u = t THEN s ELSE pc[u]
  BY <1>1, GotoTyped
<1>3. overlap' \in BOOLEAN
  BY DEF Start, TypeOK
<1>4. TypeOK'
  BY <1>2, <1>3 DEF Start, TypeOK
<1> QED
  BY <1>1, <1>2, <1>4 DEF Start, Keeps

\* A task takes a list, from the cache or from NetBox.
TakesList(t, records) ==
    /\ pc[t] \in GetStages /\ reply'[t].kind = "none" /\ reply'[t].records = Empty
    /\ \/ /\ records = cache[QueryOf(t)]
          /\ blind'[t] = IF BeforeSecondPost(t) /\ DOMAIN records = {} THEN blind[t] + 1
                                                                     ELSE blind[t]
       \/ records = reply[t].records /\ reply[t].kind = "list" /\ blind'[t] = blind[t]
    /\ \A q \in Queries : \/ cache'[q] \in {None, cache[q]}
                          \/ q = QueryOf(t) /\ cache'[q] = records
    /\ \/ /\ DOMAIN records # {} /\ pc'[t] = "done" /\ result'[t].id \in DOMAIN records
          /\ Reconciles(t) => records[result'[t].id] = want[t]
          /\ UNCHANGED target
       \/ /\ DOMAIN records # {} /\ Reconciles(t)
          /\ pc'[t] = IF pc[t] = "list" THEN "bulkpatch" ELSE "patch"
          /\ target'[t] \in DOMAIN records /\ UNCHANGED result
       \/ /\ DOMAIN records = {} /\ UNCHANGED <<target, result>>
          /\ \/ pc[t] = "list" /\ pc'[t] = "bulkpost"
             \/ pc[t] \in {"find", "relook"} /\ pc'[t] = "post"
             \/ pc[t] = "refind" /\ pc'[t] \in {"rescan", "error"}
       \/ /\ DOMAIN records = {} /\ UNCHANGED target /\ pc[t] = "rescan"
          /\ pc'[t] = "refind" \/ (pc'[t] = "done" /\ result'[t].id = None)

LEMMA QueryTyped == \A t \in Tasks : QueryOf(t) \in Queries
BY DEF QueryOf, Queries

LEMMA CountTyped ==
    ASSUME TypeOK, NEW t \in Tasks, NEW unprotected, CountBlind(t, unprotected)
    PROVE  /\ blind' \in [Tasks -> Nat]
           /\ blind'[t] = IF BeforeSecondPost(t) /\ unprotected THEN blind[t] + 1 ELSE blind[t]
           /\ \A u \in Tasks : u # t => blind'[u] = blind[u]
<1>1. blind \in [Tasks -> Nat]
  BY DEF TypeOK
<1>2. CASE BeforeSecondPost(t) /\ unprotected
  BY <1>1, <1>2 DEF CountBlind
<1>3. CASE ~(BeforeSecondPost(t) /\ unprotected)
  BY <1>1, <1>3 DEF CountBlind
<1> QED
  BY <1>2, <1>3

LEMMA ReadEffect ==
    ASSUME TypeOK, StagesFit, NEW t \in Tasks, Hit(t) \/ Listed(t)
    PROVE  /\ TypeOK' /\ Keeps(t)
           /\ UNCHANGED <<unique, op, want, netbox, landed, faults, edits, veiled, overlap>>
           /\ \E records \in Snapshot : TakesList(t, records)
<1> USE DEF server, input, history
<1>1. ASSUME NEW records \in Snapshot, NEW c \in [Queries -> Snapshot \cup {None}],
             Continue(t, records, c), pc[t] \in GetStages,
             \A q \in Queries : c[q] = cache[q] \/ (q = QueryOf(t) /\ c[q] = records),
             reply' \in [Tasks -> Reply], reply'[t].kind = "none", reply'[t].records = Empty,
             \A u \in Tasks : u # t => reply'[u] = reply[u],
             \/ records = cache[QueryOf(t)] /\ CountBlind(t, DOMAIN records = {})
             \/ records = reply[t].records /\ reply[t].kind = "list" /\ blind' = blind,
             UNCHANGED <<server, input, faults, edits, landed, veiled, overlap>>
      PROVE  TypeOK' /\ Keeps(t) /\ TakesList(t, records)
  <2>1. blind' \in [Tasks -> Nat] /\ \A u \in Tasks : u # t => blind'[u] = blind[u]
    BY <1>1, CountTyped DEF TypeOK
  <2>2. \/ /\ records = cache[QueryOf(t)]
           /\ blind'[t] = IF BeforeSecondPost(t) /\ DOMAIN records = {} THEN blind[t] + 1
                                                                      ELSE blind[t]
        \/ records = reply[t].records /\ reply[t].kind = "list" /\ blind'[t] = blind[t]
    BY <1>1, CountTyped
  <2>3. /\ \/ /\ DOMAIN records # {} /\ cache' = c
              /\ pc'[t] = "done" /\ result'[t].id \in DOMAIN records
              /\ Reconciles(t) => records[result'[t].id] = want[t]
              /\ UNCHANGED target
           \/ /\ DOMAIN records # {} /\ cache' = c
              /\ pc'[t] = IF pc[t] = "list" THEN "bulkpatch" ELSE "patch"
              /\ Reconciles(t) /\ target'[t] \in DOMAIN records /\ UNCHANGED result
           \/ /\ DOMAIN records = {} /\ cache' = c /\ UNCHANGED <<target, result>>
              /\ \/ pc[t] = "list" /\ pc'[t] = "bulkpost"
                 \/ pc[t] \in {"find", "relook"} /\ pc'[t] = "post"
                 \/ pc[t] = "refind" /\ pc'[t] \in {"rescan", "error"}
           \/ /\ DOMAIN records = {} /\ Invalidate /\ UNCHANGED <<target, result>>
              /\ pc[t] = "rescan" /\ pc'[t] = "refind"
           \/ /\ DOMAIN records = {} /\ cache' = c /\ UNCHANGED target
              /\ pc[t] = "rescan" /\ pc'[t] = "done" /\ result'[t].id = None
        /\ \A u \in Tasks : u # t =>
              pc'[u] = pc[u] /\ target'[u] = target[u] /\ result'[u] = result[u]
        /\ pc' \in [Tasks -> Stages] /\ result' \in [Tasks -> Result \cup {None}]
        /\ attempt' = attempt /\ round' \in [Tasks -> 0..RefetchRounds]
        /\ target' \in [Tasks -> Ids \cup {None}]
    BY <1>1, ContinueCases
  <2>4. cache' = c \/ Invalidate
    BY <2>3
  <2>5. /\ cache' \in [Queries -> Snapshot \cup {None}]
        /\ \A q \in Queries : \/ cache'[q] \in {None, cache[q]}
                              \/ q = QueryOf(t) /\ cache'[q] = records
    BY <1>1, <2>4, InvalidateTyped
  <2>6. TypeOK'
    BY <1>1, <2>1, <2>3, <2>5 DEF TypeOK
  <2>7. Keeps(t)
    BY <1>1, <2>1, <2>3 DEF Keeps
  <2>8. TakesList(t, records)
    BY <1>1, <2>2, <2>3, <2>5 DEF TakesList
  <2> QED
    BY <2>6, <2>7, <2>8
<1>2. CASE Hit(t)
  <2>1. cache[QueryOf(t)] \in Snapshot /\ cache \in [Queries -> Snapshot \cup {None}]
    BY <1>2, QueryTyped DEF Hit, TypeOK
  <2>2. /\ reply' \in [Tasks -> Reply] /\ reply'[t].kind = "none" /\ reply'[t].records = Empty
        /\ reply' = reply
    BY <1>2, NoReplyIs DEF Hit, TypeOK
  <2>3. /\ Continue(t, cache[QueryOf(t)], cache) /\ pc[t] \in GetStages
        /\ CountBlind(t, DOMAIN cache[QueryOf(t)] = {})
        /\ UNCHANGED <<server, input, faults, edits, landed, veiled, overlap>>
    BY <1>2 DEF Hit
  <2>4. TypeOK' /\ Keeps(t) /\ TakesList(t, cache[QueryOf(t)])
    BY <1>1, <2>1, <2>2, <2>3
  <2> QED
    BY <2>1, <2>3, <2>4
<1>3. CASE Listed(t)
  <2> DEFINE records == reply[t].records
             c == [cache EXCEPT ![QueryOf(t)] = records]
  <2>1. records \in Snapshot
    BY DEF TypeOK, Reply
  <2>2. /\ c \in [Queries -> Snapshot \cup {None}]
        /\ \A q \in Queries : c[q] = cache[q] \/ (q = QueryOf(t) /\ c[q] = records)
    BY <2>1 DEF TypeOK
  <2>3. /\ Continue(t, records, c) /\ pc[t] \in GetStages /\ reply[t].kind = "list"
        /\ UNCHANGED <<server, input, history>>
    BY <1>3 DEF Listed, StagesFit
  <2>4. /\ reply' \in [Tasks -> Reply] /\ reply'[t].kind = "none" /\ reply'[t].records = Empty
        /\ \A u \in Tasks : u # t => reply'[u] = reply[u]
    BY <1>3, NothingTyped DEF Listed
  <2> HIDE DEF c
  <2>5. TypeOK' /\ Keeps(t) /\ TakesList(t, records)
    BY <1>1, <2>1, <2>2, <2>3, <2>4
  <2> QED
    BY <2>1, <2>3, <2>5
<1> QED
  BY <1>2, <1>3

\* A list shows some of the records.
LEMMA VisibleTyped ==
    ASSUME TypeOK
    PROVE  /\ Visible \in Snapshot /\ DOMAIN Visible \subseteq DOMAIN netbox
           /\ \A i \in DOMAIN Visible : Visible[i] = netbox[i]
<1>1. DOMAIN netbox \in SUBSET Ids /\ netbox \in [DOMAIN netbox -> Payloads]
  BY SnapshotIs DEF TypeOK
<1>2. /\ DOMAIN Visible = DOMAIN netbox \ hidden
      /\ \A i \in DOMAIN netbox \ hidden : Visible[i] = netbox[i]
      /\ Visible \in [DOMAIN netbox \ hidden -> Payloads]
  BY <1>1 DEF Visible
<1> QED
  BY <1>1, <1>2, SnapshotIs

LEMMA AskEffect ==
    ASSUME TypeOK, NEW t \in Tasks, Ask(t)
    PROVE  /\ TypeOK' /\ Keeps(t)
           /\ pc[t] \in GetStages /\ reply[t].kind = "none"
           /\ reply'[t].kind = "list" /\ DOMAIN reply'[t].records \subseteq DOMAIN netbox
           /\ \A i \in DOMAIN reply'[t].records : reply'[t].records[i] = netbox[i]
           /\ veiled \subseteq veiled'
           /\ reply'[t].records = netbox \/ QueryOf(t) \in veiled'
           /\ blind'[t] = IF BeforeSecondPost(t) /\ DOMAIN reply'[t].records = {} /\ DOMAIN netbox # {}
                          THEN blind[t] + 1 ELSE blind[t]
           /\ UNCHANGED <<unique, op, want, netbox, cache, pc, target, result, landed, faults,
                          edits, overlap>>
<1> USE DEF server, input, progress
<1>1. /\ reply' \in [Tasks -> Reply] /\ reply'[t].kind = "list" /\ reply'[t].records = Visible
      /\ \A u \in Tasks : u # t => reply'[u] = reply[u]
  BY VisibleTyped, ReplyTyped DEF Ask
<1>2. veiled' = IF Visible = netbox THEN veiled ELSE veiled \cup {QueryOf(t)}
  BY DEF Ask
<1>3. veiled' \subseteq Queries /\ veiled \subseteq veiled'
  BY <1>2, QueryTyped DEF TypeOK
<1>4. CountBlind(t, DOMAIN Visible = {} /\ DOMAIN netbox # {})
  BY DEF Ask
<1>5. /\ blind' \in [Tasks -> Nat]
      /\ blind'[t] = IF BeforeSecondPost(t) /\ DOMAIN Visible = {} /\ DOMAIN netbox # {}
                     THEN blind[t] + 1 ELSE blind[t]
      /\ \A u \in Tasks : u # t => blind'[u] = blind[u]
  BY <1>4, CountTyped
<1>6. TypeOK'
  BY <1>1, <1>3, <1>5 DEF Ask, TypeOK
<1>7. Keeps(t)
  BY <1>1, <1>5 DEF Ask, Keeps
<1>8. /\ DOMAIN Visible \subseteq DOMAIN netbox
      /\ \A i \in DOMAIN Visible : Visible[i] = netbox[i]
  BY VisibleTyped
<1>9. /\ pc[t] \in GetStages /\ reply[t].kind = "none"
      /\ UNCHANGED <<unique, op, want, netbox, cache, pc, target, result, landed, faults,
                     edits, overlap>>
  BY NoReplyIs DEF Ask
<1> QED
  BY <1>1, <1>2, <1>3, <1>5, <1>6, <1>7, <1>8, <1>9

LEMMA AskFailsEffect ==
    ASSUME TypeOK, NEW t \in Tasks, AskFails(t)
    PROVE  /\ TypeOK' /\ Keeps(t)
           /\ pc[t] \in GetStages /\ reply[t].kind = "none"
           /\ pc'[t] = IF pc[t] = "relook" THEN "post" ELSE "error"
           /\ blind'[t] = IF pc[t] = "relook" THEN blind[t] + 1 ELSE blind[t]
           /\ faults' = faults + 1
           /\ UNCHANGED <<unique, op, want, netbox, cache, reply, target, result, landed, edits,
                          veiled, overlap>>
<1> USE DEF server, input, progress, history
<1>1. /\ pc' \in [Tasks -> Stages]
      /\ pc'[t] = IF pc[t] = "relook" THEN "post" ELSE "error"
      /\ \A u \in Tasks : u # t => pc'[u] = pc[u]
  BY DEF AskFails, Goto, TypeOK, Stages, PostStages
<1>2. /\ blind' \in [Tasks -> Nat]
      /\ blind'[t] = IF pc[t] = "relook" THEN blind[t] + 1 ELSE blind[t]
      /\ \A u \in Tasks : u # t => blind'[u] = blind[u]
  <2>1. CountBlind(t, pc[t] = "relook")
    BY DEF AskFails
  <2>2. /\ blind' \in [Tasks -> Nat]
        /\ blind'[t] = IF BeforeSecondPost(t) /\ pc[t] = "relook" THEN blind[t] + 1 ELSE blind[t]
        /\ \A u \in Tasks : u # t => blind'[u] = blind[u]
    BY <2>1, CountTyped
  <2> QED
    BY <2>2 DEF BeforeSecondPost
<1>3. faults' = faults + 1 /\ faults' \in Nat
  BY DEF AskFails, Fault, TypeOK
<1>4. TypeOK'
  BY <1>1, <1>2, <1>3 DEF AskFails, TypeOK
<1> QED
  BY <1>1, <1>2, <1>3, <1>4, NoReplyIs DEF AskFails, Keeps

\* A new record has an id of its own.
LEMMA NewRecord ==
    ASSUME TypeOK, Ids \ used # {}, NEW v \in Payloads
    PROVE  LET id == Least(Ids \ used)
               f == With(netbox, id, v)
           IN  /\ id \in Ids /\ id \notin DOMAIN netbox
               /\ f \in Snapshot /\ DOMAIN f = DOMAIN netbox \cup {id} /\ f[id] = v
               /\ \A j \in DOMAIN netbox : f[j] = netbox[j]
               /\ DOMAIN f \subseteq used \cup {id} /\ used \cup {id} \subseteq Ids
<1>1. Least(Ids \ used) \in Ids \ used
  BY LeastOfIds
<1> DEFINE id == Least(Ids \ used)
           f == With(netbox, id, v)
<1>2. id \in Ids /\ id \notin DOMAIN netbox /\ used \cup {id} \subseteq Ids
  BY <1>1 DEF TypeOK
<1>3. netbox \in Snapshot /\ DOMAIN netbox \subseteq used
  BY DEF TypeOK
<1> HIDE DEF id
<1>4. /\ f \in Snapshot /\ DOMAIN f = DOMAIN netbox \cup {id}
      /\ f[id] = v /\ \A j \in DOMAIN netbox : j # id => f[j] = netbox[j]
  BY <1>2, <1>3, WithTyped
<1> HIDE DEF f
<1>5. /\ id \in Ids /\ id \notin DOMAIN netbox
      /\ f \in Snapshot /\ DOMAIN f = DOMAIN netbox \cup {id} /\ f[id] = v
      /\ \A j \in DOMAIN netbox : f[j] = netbox[j]
      /\ DOMAIN f \subseteq used \cup {id} /\ used \cup {id} \subseteq Ids
  BY <1>2, <1>3, <1>4
<1> QED
  BY <1>5 DEF id, f

LEMMA InsertTyped ==
    ASSUME TypeOK, NEW v \in Payloads, Insert(v)
    PROVE  LET id == Least(Ids \ used)
           IN  /\ id \in Ids /\ id \notin DOMAIN netbox
               /\ netbox' \in Snapshot /\ DOMAIN netbox' = DOMAIN netbox \cup {id}
               /\ netbox'[id] = v /\ \A j \in DOMAIN netbox : netbox'[j] = netbox[j]
               /\ DOMAIN netbox' \subseteq used' /\ used' \subseteq Ids
               /\ hidden' \subseteq Ids /\ delays' \in Nat
<1> DEFINE id == Least(Ids \ used)
<1>1. /\ Ids \ used # {} /\ netbox' = With(netbox, id, v) /\ used' = used \cup {id}
      /\ \/ UNCHANGED <<hidden, delays>>
         \/ hidden' = hidden \cup {id} /\ delays' = delays + 1
  BY DEF Insert
<1>2. /\ id \in Ids /\ id \notin DOMAIN netbox
      /\ netbox' \in Snapshot /\ DOMAIN netbox' = DOMAIN netbox \cup {id} /\ netbox'[id] = v
      /\ \A j \in DOMAIN netbox : netbox'[j] = netbox[j]
      /\ DOMAIN netbox' \subseteq used' /\ used' \subseteq Ids
  BY <1>1, NewRecord
<1> HIDE DEF id
<1>3. hidden' \subseteq Ids /\ delays' \in Nat
  BY <1>1, <1>2 DEF TypeOK
<1> QED
  BY <1>2, <1>3 DEF id

LEMMA PostEffect ==
    ASSUME TypeOK, NEW t \in Tasks, Post(t)
    PROVE  /\ TypeOK' /\ Keeps(t) /\ pc[t] \in PostStages /\ reply[t].kind = "none"
           /\ UNCHANGED <<unique, op, want, cache, pc, target, result, blind, faults, edits,
                          veiled, overlap>>
           /\ \/ /\ unique /\ DOMAIN netbox # {} /\ UNCHANGED <<netbox, landed>>
                 /\ reply'[t].kind = "duplicate" /\ reply'[t].records = Empty
              \/ /\ unique => DOMAIN netbox = {}
                 /\ landed'[t] = landed[t] + 1 /\ reply'[t].kind = "created"
                 /\ \E id \in Ids :
                       /\ id \notin DOMAIN netbox
                       /\ DOMAIN netbox' = DOMAIN netbox \cup {id} /\ netbox'[id] = want[t]
                       /\ \A j \in DOMAIN netbox : netbox'[j] = netbox[j]
                       /\ DOMAIN reply'[t].records = {id} /\ reply'[t].records[id] = want[t]
<1> USE DEF server, input, progress, history
<1>0. reply[t].kind = "none" /\ pc[t] \in PostStages
  BY NoReplyIs DEF Post
<1>1. CASE unique /\ DOMAIN netbox # {}
  <2>1. /\ reply' = [reply EXCEPT ![t] = [kind |-> "duplicate", records |-> Empty]]
        /\ UNCHANGED <<server, landed>>
    BY <1>1 DEF Post
  <2>2. /\ reply' \in [Tasks -> Reply] /\ reply'[t].kind = "duplicate" /\ reply'[t].records = Empty
        /\ \A u \in Tasks : u # t => reply'[u] = reply[u]
    BY <2>1, ReplyTyped, EmptyTyped
  <2>3. TypeOK'
    BY <2>1, <2>2 DEF Post, TypeOK
  <2> QED
    BY <1>0, <1>1, <2>1, <2>2, <2>3 DEF Post, Keeps
<1>2. CASE ~(unique /\ DOMAIN netbox # {})
  <2> DEFINE id == Least(Ids \ used)
             one == With(Empty, id, want[t])
  <2>1. /\ Insert(want[t])
        /\ landed' = [landed EXCEPT ![t] = @ + 1]
        /\ reply' = [reply EXCEPT ![t] = [kind |-> "created", records |-> one]]
        /\ UNCHANGED unique
    BY <1>2 DEF Post
  <2>2. want[t] \in Payloads
    BY DEF TypeOK
  <2>3. /\ id \in Ids /\ id \notin DOMAIN netbox
        /\ netbox' \in Snapshot /\ DOMAIN netbox' = DOMAIN netbox \cup {id}
        /\ netbox'[id] = want[t] /\ \A j \in DOMAIN netbox : netbox'[j] = netbox[j]
        /\ DOMAIN netbox' \subseteq used' /\ used' \subseteq Ids
        /\ hidden' \subseteq Ids /\ delays' \in Nat
    BY <2>1, <2>2, InsertTyped
  <2>4. one \in Snapshot /\ DOMAIN one = {id} /\ one[id] = want[t]
    <3> HIDE DEF id
    <3>1. one \in Snapshot /\ DOMAIN one = DOMAIN Empty \cup {id} /\ one[id] = want[t]
      BY <2>2, <2>3, WithTyped, EmptyTyped
    <3> QED
      BY <3>1, EmptyTyped
  <2> HIDE DEF id, one
  <2>5. /\ reply' \in [Tasks -> Reply] /\ reply'[t].kind = "created" /\ reply'[t].records = one
        /\ \A u \in Tasks : u # t => reply'[u] = reply[u]
    BY <2>1, <2>4, ReplyTyped
  <2>6. /\ landed' \in [Tasks -> Nat] /\ landed'[t] = landed[t] + 1
        /\ \A u \in Tasks : u # t => landed'[u] = landed[u]
    BY <2>1 DEF TypeOK
  <2>7. TypeOK'
    BY <2>1, <2>3, <2>5, <2>6 DEF Post, TypeOK
  <2>8. Keeps(t)
    BY <2>5, <2>6 DEF Post, Keeps
  <2>9. /\ UNCHANGED <<unique, op, want, cache, pc, target, result, blind, faults, edits, veiled,
                        overlap>>
        /\ unique => DOMAIN netbox = {}
    BY <1>2, <2>1 DEF Post
  <2> QED
    BY <1>0, <2>3, <2>4, <2>5, <2>6, <2>7, <2>8, <2>9
<1> QED
  BY <1>1, <1>2

LEMMA CreatedEffect ==
    ASSUME TypeOK, StagesFit, NEW t \in Tasks, Created(t)
    PROVE  /\ TypeOK' /\ Keeps(t) /\ reply[t].kind = "created" /\ pc[t] \in PostStages
           /\ pc'[t] = "done" /\ result'[t].id \in DOMAIN reply[t].records
           /\ reply'[t].kind = "none" /\ reply'[t].records = Empty
           /\ \A q \in Queries : cache'[q] = None
           /\ UNCHANGED <<unique, op, want, netbox, target, landed, blind, faults, edits, veiled,
                          overlap>>
<1> USE DEF server, input, progress, history
<1> DEFINE id == Least(DOMAIN reply[t].records)
<1>1. /\ reply[t].kind = "created" /\ pc[t] \in PostStages /\ DOMAIN reply[t].records # {}
      /\ reply[t].records \in Snapshot
  BY DEF Created, StagesFit, TypeOK, Reply
<1>2. id \in DOMAIN reply[t].records /\ id \in Ids
  BY <1>1, SelectTyped DEF Select
<1>3. Settle(t, id, "created") /\ Invalidate /\ reply' = [reply EXCEPT ![t] = NoReply]
  BY DEF Created
<1> HIDE DEF id
<1>4. /\ pc' \in [Tasks -> Stages] /\ result' \in [Tasks -> Result \cup {None}]
      /\ pc'[t] = "done" /\ result'[t].id = id
      /\ \A u \in Tasks : u # t => pc'[u] = pc[u] /\ result'[u] = result[u]
  BY <1>2, <1>3, SettleTyped
<1>5. /\ reply' \in [Tasks -> Reply] /\ reply'[t].kind = "none" /\ reply'[t].records = Empty
      /\ \A u \in Tasks : u # t => reply'[u] = reply[u]
  BY <1>3, NothingTyped
<1>6. cache' \in [Queries -> Snapshot \cup {None}] /\ \A q \in Queries : cache'[q] = None
  BY <1>3, InvalidateTyped
<1>7. TypeOK'
  BY <1>4, <1>5, <1>6 DEF Created, TypeOK
<1> QED
  BY <1>1, <1>2, <1>4, <1>5, <1>6, <1>7 DEF Created, Keeps

LEMMA DuplicateEffect ==
    ASSUME TypeOK, StagesFit, NEW t \in Tasks, Duplicate(t)
    PROVE  /\ TypeOK' /\ Keeps(t) /\ reply[t].kind = "duplicate"
           /\ reply'[t].kind = "none" /\ reply'[t].records = Empty
           /\ \A q \in Queries : cache'[q] \in {None, cache[q]}
           /\ \/ op[t] = "bulk" /\ pc[t] = "bulkpost" /\ pc'[t] = "find"
              \/ pc[t] = "post" /\ pc'[t] = "refind"
              \/ pc'[t] = "error"
           /\ UNCHANGED <<unique, op, want, netbox, target, result, landed, blind, faults, edits,
                          veiled, overlap>>
<1> USE DEF server, input, history
<1>1. /\ reply' \in [Tasks -> Reply] /\ reply'[t].kind = "none" /\ reply'[t].records = Empty
      /\ \A u \in Tasks : u # t => reply'[u] = reply[u]
  BY NothingTyped DEF Duplicate
<1>2. CASE pc[t] = "bulkpost" /\ LeaveBatch(t) /\ UNCHANGED cache
  <2>1. /\ pc' \in [Tasks -> Stages] /\ attempt' \in [Tasks -> 0..MaxRetries]
        /\ \A u \in Tasks : u # t => pc'[u] = pc[u]
        /\ (op[t] = "bulk" /\ pc'[t] = "find") \/ pc'[t] = "error"
    BY <1>2, LeaveTyped DEF BatchStages
  <2>2. TypeOK'
    BY <1>1, <1>2, <2>1 DEF Duplicate, TypeOK
  <2> QED
    BY <1>1, <1>2, <2>1, <2>2 DEF Duplicate, Keeps
<1>3. CASE /\ pc[t] = "post" /\ UNCHANGED attempt
           /\ IF Reconciles(t) THEN Invalidate ELSE UNCHANGED cache
           /\ Goto(t, IF op[t] = "create" THEN "error" ELSE "refind")
  <2>1. /\ pc' \in [Tasks -> Stages] /\ pc'[t] \in {"error", "refind"}
        /\ \A u \in Tasks : u # t => pc'[u] = pc[u]
    BY <1>3, GotoTyped DEF Stages, GetStages
  <2>2. /\ cache' \in [Queries -> Snapshot \cup {None}]
        /\ \A q \in Queries : cache'[q] \in {None, cache[q]}
    BY <1>3, InvalidateTyped DEF TypeOK
  <2>3. TypeOK'
    BY <1>1, <1>3, <2>1, <2>2 DEF Duplicate, TypeOK
  <2> QED
    BY <1>1, <1>3, <2>1, <2>2, <2>3 DEF Duplicate, Keeps
<1> QED
  BY <1>2, <1>3 DEF Duplicate

\* A POST fails: NetBox did not see it, or answered.
LEMMA PostFailsEffect ==
    ASSUME TypeOK, StagesFit, NEW t \in Tasks,
           \E text \in Texts : PostNotSent(t, text) \/ PostAnswerLost(t, text)
    PROVE  /\ TypeOK' /\ Keeps(t) /\ pc[t] \in PostStages
           /\ reply'[t].kind = "none" /\ reply'[t].records = Empty
           /\ \/ /\ Reconciles(t) /\ pc'[t] = pc[t]
                 /\ reply[t].kind = "none" \/ blind'[t] = blind[t] + 1
              \/ ~Reconciles(t) /\ pc[t] = "post" /\ pc'[t] = "relook"
              \/ op[t] = "bulk" /\ pc[t] = "bulkpost" /\ pc'[t] = "find"
              \/ pc'[t] = "error"
           /\ faults' = faults + 1 /\ blind'[t] \in {blind[t], blind[t] + 1}
           /\ UNCHANGED <<unique, op, want, netbox, cache, target, result, landed, edits, veiled,
                          overlap>>
<1> USE DEF server, input, history
<1>1. PICK text \in Texts :
        /\ pc[t] \in PostStages /\ PostFailed(t, text)
        /\ \/ reply[t] = NoReply /\ UNCHANGED <<reply, blind>>
           \/ /\ reply' = [reply EXCEPT ![t] = NoReply]
              /\ blind' = [blind EXCEPT ![t] =
                     IF Reconciles(t) /\ attempt[t] < MaxRetries /\ text = "refused"
                     THEN @ + 1 ELSE @]
  BY DEF PostAnswerLost, PostNotSent
<1>2. /\ reply' \in [Tasks -> Reply] /\ reply'[t].kind = "none" /\ reply'[t].records = Empty
      /\ \A u \in Tasks : u # t => reply'[u] = reply[u]
  BY <1>1, NothingTyped, NoReplyIs DEF TypeOK
<1>3. /\ blind' \in [Tasks -> Nat] /\ blind'[t] \in {blind[t], blind[t] + 1}
      /\ \A u \in Tasks : u # t => blind'[u] = blind[u]
      /\ Reconciles(t) /\ attempt[t] < MaxRetries /\ text = "refused" =>
            reply[t].kind = "none" \/ blind'[t] = blind[t] + 1
  <2>1. blind \in [Tasks -> Nat]
    BY DEF TypeOK
  <2>2. CASE reply[t] = NoReply /\ UNCHANGED blind
    BY <2>1, <2>2, NoReplyIs
  <2>3. CASE /\ Reconciles(t) /\ attempt[t] < MaxRetries /\ text = "refused"
             /\ blind' = [blind EXCEPT ![t] = @ + 1]
    BY <2>1, <2>3
  <2>4. CASE ~(Reconciles(t) /\ attempt[t] < MaxRetries /\ text = "refused") /\ blind' = blind
    BY <2>1, <2>4
  <2> QED
    BY <1>1, <2>1, <2>2, <2>3, <2>4
<1>4. /\ pc' \in [Tasks -> Stages] /\ attempt' \in [Tasks -> 0..MaxRetries]
      /\ faults' = faults + 1
      /\ \A u \in Tasks : u # t => pc'[u] = pc[u]
      /\ \/ /\ Reconciles(t) /\ attempt[t] < MaxRetries /\ text = "refused"
            /\ pc'[t] = pc[t]
         \/ ~Reconciles(t) /\ pc'[t] = "relook" /\ pc[t] = "post"
         \/ op[t] = "bulk" /\ pc[t] = "bulkpost" /\ pc'[t] = "find"
         \/ pc'[t] = "error"
  BY <1>1, PostFailedTyped
<1>5. UNCHANGED <<server, cache, input, round, target, result, edits, landed, veiled, overlap>>
  BY <1>1 DEF PostFailed
<1>6. faults' \in Nat
  BY <1>4 DEF TypeOK
<1>7. TypeOK'
  BY <1>2, <1>3, <1>4, <1>5, <1>6 DEF TypeOK
<1> QED
  BY <1>1, <1>2, <1>3, <1>4, <1>5, <1>7 DEF Keeps

\* A PATCH changes at most the record it is about.
LEMMA PatchedTyped ==
    ASSUME TypeOK, NEW t \in Tasks,
           \/ netbox' = netbox
           \/ target[t] \in DOMAIN netbox /\ netbox' = [netbox EXCEPT ![target[t]] = want[t]]
    PROVE  /\ netbox' \in Snapshot /\ DOMAIN netbox' = DOMAIN netbox
           /\ \A j \in DOMAIN netbox :
                 netbox'[j] = netbox[j] \/ (j = target[t] /\ netbox'[j] = want[t])
<1>1. netbox \in Snapshot /\ want[t] \in Payloads
  BY DEF TypeOK
<1>2. CASE netbox' = netbox
  BY <1>1, <1>2
<1>3. CASE target[t] \in DOMAIN netbox /\ netbox' = [netbox EXCEPT ![target[t]] = want[t]]
  <2>1. /\ netbox' \in Snapshot /\ DOMAIN netbox' = DOMAIN netbox /\ netbox'[target[t]] = want[t]
        /\ \A j \in DOMAIN netbox : j # target[t] => netbox'[j] = netbox[j]
    BY <1>1, <1>3, ChangedTyped
  <2> QED
    BY <2>1
<1> QED
  BY <1>2, <1>3

LEMMA PatchEffect ==
    ASSUME TypeOK, StagesFit, NEW t \in Tasks,
           Patch(t) \/ PatchFails(t) \/ BulkPatch(t) \/ BulkPatchFails(t)
    PROVE  /\ TypeOK' /\ Keeps(t) /\ pc[t] \in PatchStages
           /\ DOMAIN netbox' = DOMAIN netbox
           /\ \A j \in DOMAIN netbox :
                 netbox'[j] = netbox[j] \/ (j = target[t] /\ netbox'[j] = want[t])
           /\ \A q \in Queries : cache'[q] \in {None, cache[q]}
           /\ \/ /\ pc'[t] = "done" /\ result'[t].id = target[t]
                 /\ target[t] \in DOMAIN netbox /\ netbox'[target[t]] = want[t]
              \/ pc'[t] = "error"
              \/ op[t] = "bulk" /\ pc[t] = "bulkpatch" /\ pc'[t] = "patch"
              \/ pc[t] = "bulkpatch" /\ pc'[t] = "bulkpatch"
           /\ faults' \in {faults, faults + 1}
           /\ UNCHANGED <<unique, op, want, reply, target, landed, blind, edits, veiled, overlap>>
<1> USE DEF server, input, progress, history
<1>0. /\ netbox \in Snapshot /\ want[t] \in Payloads /\ target[t] \in Ids \cup {None}
      /\ "done" \in Stages /\ "error" \in Stages
  BY DEF TypeOK, Stages
<1>1. /\ pc[t] \in PatchStages
      /\ UNCHANGED <<unique, used, hidden, delays, op, want, reply, round, target, edits, landed,
                     blind, veiled, overlap>>
      /\ faults' \in {faults, faults + 1}
  BY DEF Patch, PatchFails, BulkPatch, BulkPatchFails, PatchStages, Fault
<1>2. \/ netbox' = netbox
      \/ target[t] \in DOMAIN netbox /\ netbox' = [netbox EXCEPT ![target[t]] = want[t]]
  BY DEF Patch, PatchFails, BulkPatch, BulkPatchFails
<1>3. /\ netbox' \in Snapshot /\ DOMAIN netbox' = DOMAIN netbox
      /\ \A j \in DOMAIN netbox :
            netbox'[j] = netbox[j] \/ (j = target[t] /\ netbox'[j] = want[t])
  BY <1>2, PatchedTyped
<1>4. cache' = cache \/ Invalidate
  BY DEF Patch, PatchFails, BulkPatch, BulkPatchFails
<1>5. /\ cache' \in [Queries -> Snapshot \cup {None}]
      /\ \A q \in Queries : cache'[q] \in {None, cache[q]}
  BY <1>4, InvalidateTyped DEF TypeOK
<1> DEFINE Rest ==
        /\ pc' \in [Tasks -> Stages] /\ result' \in [Tasks -> Result \cup {None}]
        /\ attempt' \in [Tasks -> 0..MaxRetries]
        /\ \A u \in Tasks : u # t => pc'[u] = pc[u] /\ result'[u] = result[u]
        /\ \/ /\ pc'[t] = "done" /\ result'[t].id = target[t]
              /\ target[t] \in DOMAIN netbox /\ netbox'[target[t]] = want[t]
           \/ pc'[t] = "error"
           \/ op[t] = "bulk" /\ pc[t] = "bulkpatch" /\ pc'[t] = "patch"
           \/ pc[t] = "bulkpatch" /\ pc'[t] = "bulkpatch"
<1>6. Rest
  <2>1. CASE /\ target[t] \in DOMAIN netbox /\ netbox' = [netbox EXCEPT ![target[t]] = want[t]]
             /\ Settle(t, target[t], "updated") /\ attempt' = attempt
    <3>1. netbox'[target[t]] = want[t]
      BY <1>0, <2>1, ChangedTyped
    <3>2. /\ pc' \in [Tasks -> Stages] /\ result' \in [Tasks -> Result \cup {None}]
          /\ pc'[t] = "done" /\ result'[t].id = target[t]
          /\ \A u \in Tasks : u # t => pc'[u] = pc[u] /\ result'[u] = result[u]
      BY <1>0, <2>1, SettleTyped
    <3> QED
      BY <2>1, <3>1, <3>2 DEF TypeOK
  <2>2. CASE Goto(t, "error") /\ attempt' = attempt /\ result' = result
    BY <1>0, <2>2, GotoTyped DEF TypeOK
  <2>3. CASE pc[t] = "bulkpatch" /\ LeaveBatch(t) /\ result' = result
    BY <2>3, LeaveTyped DEF TypeOK, BatchStages
  <2>4. CASE /\ pc[t] = "bulkpatch" /\ attempt[t] < MaxRetries /\ pc' = pc /\ result' = result
             /\ attempt' = [attempt EXCEPT ![t] = @ + 1]
    <3>1. attempt[t] + 1 \in 0..MaxRetries
      BY <2>4, ReconcileConstants DEF TypeOK
    <3> QED
      BY <2>4, <3>1 DEF TypeOK
  <2>5. CASE Patch(t)
    BY <2>1, <2>2, <2>5 DEF Patch
  <2>6. CASE PatchFails(t)
    BY <2>2, <2>6 DEF PatchFails
  <2>7. CASE BulkPatch(t)
    BY <2>1, <2>2, <2>3, <2>7 DEF BulkPatch
  <2>8. CASE BulkPatchFails(t)
    BY <2>3, <2>4, <2>8 DEF BulkPatchFails
  <2> QED
    BY <2>5, <2>6, <2>7, <2>8
<1>7. TypeOK'
  <2>1. faults' \in Nat
    BY <1>1 DEF TypeOK
  <2> QED
    BY <1>1, <1>3, <1>5, <1>6, <2>1 DEF TypeOK
<1> QED
  BY <1>1, <1>3, <1>5, <1>6, <1>7 DEF Keeps

LEMMA RefusedEffect ==
    ASSUME TypeOK, StagesFit, NEW t \in Tasks, BatchRefused(t)
    PROVE  /\ TypeOK' /\ Keeps(t) /\ pc[t] \in BatchStages /\ reply[t].kind = "none"
           /\ \/ pc'[t] = "error"
              \/ op[t] = "bulk" /\ pc[t] = "bulkpost" /\ pc'[t] = "find"
              \/ op[t] = "bulk" /\ pc[t] = "bulkpatch" /\ pc'[t] = "patch"
           /\ faults' = faults + 1
           /\ UNCHANGED <<unique, op, want, netbox, cache, reply, target, result, landed, blind,
                          edits, veiled, overlap>>
<1> USE DEF server, input
<1>1. /\ pc' \in [Tasks -> Stages] /\ attempt' \in [Tasks -> 0..MaxRetries]
      /\ \A u \in Tasks : u # t => pc'[u] = pc[u]
      /\ \/ op[t] = "bulk_only" /\ pc'[t] = "error"
         \/ op[t] = "bulk" /\ pc[t] = "bulkpost" /\ pc'[t] = "find"
         \/ op[t] = "bulk" /\ pc[t] = "bulkpatch" /\ pc'[t] = "patch"
  BY LeaveTyped DEF BatchRefused
<1>2. faults' = faults + 1 /\ faults' \in Nat
  BY DEF BatchRefused, Fault, TypeOK
<1>3. TypeOK'
  BY <1>1, <1>2 DEF BatchRefused, TypeOK
<1> QED
  BY <1>1, <1>2, <1>3, NoReplyIs DEF BatchRefused, Keeps

\* What other clients do, and the cache by itself.
EditKinds == {"create", "change", "delete"}

LEMMA EditTyped ==
    ASSUME TypeOK, NEW k \in EditKinds, Edit(k)
    PROVE  /\ edits' \in [EditKinds -> Nat] /\ edits'[k] = edits[k] + 1
           /\ \A l \in EditKinds : l # k => edits'[l] = edits[l]
BY DEF TypeOK, Edit, EditKinds

LEMMA OthersEffect ==
    ASSUME TypeOK, OthersCreate \/ OthersChange \/ OthersDelete
    PROVE  /\ TypeOK' /\ edits' \in [EditKinds -> Nat]
           /\ \A k \in EditKinds : edits[k] <= edits'[k]
           /\ \E k \in EditKinds : edits'[k] = edits[k] + 1
           /\ \/ edits'["delete"] = edits["delete"] + 1 /\ DOMAIN netbox' \subseteq DOMAIN netbox
              \/ DOMAIN netbox' = DOMAIN netbox
              \/ /\ edits'["create"] = edits["create"] + 1 /\ (unique => DOMAIN netbox = {})
                 /\ \E id \in Ids : DOMAIN netbox' = DOMAIN netbox \cup {id}
           /\ UNCHANGED <<unique, op, want, cache, pc, reply, target, result, landed, blind,
                          faults, veiled, overlap>>
<1> USE DEF input, progress
<1>0. netbox \in Snapshot /\ edits \in [EditKinds -> Nat]
  BY DEF TypeOK, EditKinds
<1>1. PICK k \in EditKinds : Edit(k) /\ edits' = [edits EXCEPT ![k] = @ + 1]
  BY DEF OthersCreate, OthersChange, OthersDelete, Edit, EditKinds
<1>2. /\ edits' \in [EditKinds -> Nat] /\ edits'[k] = edits[k] + 1
      /\ \A l \in EditKinds : l # k => edits'[l] = edits[l]
  BY <1>1, EditTyped
<1>3. \A l \in EditKinds : edits[l] <= edits'[l]
  BY <1>0, <1>2
<1>4. /\ netbox' \in Snapshot /\ DOMAIN netbox' \subseteq used' /\ used' \subseteq Ids
      /\ hidden' \subseteq Ids /\ delays' \in Nat
      /\ \/ edits'["delete"] = edits["delete"] + 1 /\ DOMAIN netbox' \subseteq DOMAIN netbox
         \/ DOMAIN netbox' = DOMAIN netbox
         \/ /\ edits'["create"] = edits["create"] + 1 /\ (unique => DOMAIN netbox = {})
            /\ \E id \in Ids : DOMAIN netbox' = DOMAIN netbox \cup {id}
  <2>1. CASE OthersCreate
    <3> DEFINE id == Least(Ids \ used)
    <3>1. PICK v \in Payloads : Insert(v)
      BY <2>1 DEF OthersCreate
    <3>2. /\ unique => DOMAIN netbox = {}
          /\ edits'["create"] = edits["create"] + 1
      BY <2>1, EditTyped DEF OthersCreate, EditKinds
    <3>3. /\ id \in Ids /\ netbox' \in Snapshot /\ DOMAIN netbox' = DOMAIN netbox \cup {id}
          /\ DOMAIN netbox' \subseteq used' /\ used' \subseteq Ids
          /\ hidden' \subseteq Ids /\ delays' \in Nat
      BY <3>1, InsertTyped
    <3> QED
      BY <3>2, <3>3
  <2>2. CASE OthersChange
    <3>1. PICK i \in DOMAIN netbox, v \in Payloads : netbox' = [netbox EXCEPT ![i] = v]
      BY <2>2 DEF OthersChange
    <3>2. netbox' \in Snapshot /\ DOMAIN netbox' = DOMAIN netbox
      BY <1>0, <3>1, ChangedTyped
    <3> QED
      BY <2>2, <3>2 DEF OthersChange, TypeOK
  <2>3. CASE OthersDelete
    <3>1. PICK i \in DOMAIN netbox : netbox' = Without(netbox, i) /\ hidden' = hidden \ {i}
      BY <2>3 DEF OthersDelete
    <3>2. netbox' \in Snapshot /\ DOMAIN netbox' = DOMAIN netbox \ {i}
      BY <1>0, <3>1, WithoutTyped
    <3>3. edits'["delete"] = edits["delete"] + 1
      BY <2>3, EditTyped DEF OthersDelete, EditKinds
    <3> QED
      BY <2>3, <3>1, <3>2, <3>3 DEF OthersDelete, TypeOK
  <2> QED
    BY <2>1, <2>2, <2>3
<1>5. TypeOK'
  BY <1>1, <1>2, <1>4 DEF Edit, TypeOK, EditKinds
<1> QED
  BY <1>1, <1>2, <1>3, <1>4, <1>5 DEF Edit

LEMMA ExpireEffect ==
    ASSUME TypeOK, Expire \/ \E i \in Ids : Appear(i)
    PROVE  /\ TypeOK' /\ \A q \in Queries : cache'[q] \in {None, cache[q]}
           /\ UNCHANGED <<unique, op, want, netbox, pc, reply, target, result, landed, blind,
                          faults, edits, veiled, overlap>>
<1> USE DEF server, input, progress, history
<1>1. CASE Expire
  <2>1. /\ cache' \in [Queries -> Snapshot \cup {None}]
        /\ \A q \in Queries : cache'[q] \in {None, cache[q]}
    BY <1>1 DEF Expire, TypeOK
  <2>2. TypeOK'
    BY <1>1, <2>1 DEF Expire, TypeOK
  <2> QED
    BY <1>1, <2>1, <2>2 DEF Expire
<1>2. CASE \E i \in Ids : Appear(i)
  <2>1. TypeOK'
    BY <1>2 DEF Appear, TypeOK
  <2> QED
    BY <1>2, <2>1 DEF Appear
<1> QED
  BY <1>1, <1>2

-----------------------------------------------------------------------------
(***************************************************************************)
(* Type correctness, with the fit of stages, operations and replies.       *)
(***************************************************************************)

LEMMA InitTyped == Init => TypeOK /\ StagesFit
<1> SUFFICES ASSUME Init PROVE TypeOK /\ StagesFit
  OBVIOUS
<1>1. /\ netbox \in Snapshot /\ DOMAIN netbox \subseteq Ids
      /\ Cardinality(DOMAIN netbox) \in Nat
  <2>1. CASE netbox = Empty
    BY <2>1, EmptyTyped, FS_EmptySet
  <2>2. CASE \E v \in Payloads : netbox = With(Empty, Least(Ids), v)
    <3> DEFINE id == Least(Ids)
    <3>1. id \in Ids
      BY LeastOfIds, ReconcileConstants
    <3>2. PICK v \in Payloads : netbox = With(Empty, id, v)
      BY <2>2
    <3> HIDE DEF id
    <3>3. With(Empty, id, v) \in Snapshot /\ DOMAIN With(Empty, id, v) = {id}
      <4>1. /\ With(Empty, id, v) \in Snapshot
            /\ DOMAIN With(Empty, id, v) = DOMAIN Empty \cup {id}
        BY <3>1, WithTyped, EmptyTyped
      <4> QED
        BY <4>1, EmptyTyped
    <3>4. Cardinality({id}) = 1
      BY FS_Singleton
    <3> QED
      BY <3>1, <3>2, <3>3, <3>4
  <2> QED
    BY <2>1, <2>2 DEF Init
<1>2. PICK j \in Jobs : op = [t \in Tasks |-> j[t].op] /\ want = [t \in Tasks |-> j[t].want]
  BY DEF Init
<1>3. op \in [Tasks -> Operations] /\ want \in [Tasks -> Payloads]
  <2>1. j \in [Tasks -> [op : Operations, want : Payloads]]
    BY ReconcileConstants
  <2> QED
    BY <1>2, <2>1
<1>4. reply \in [Tasks -> Reply] /\ \A t \in Tasks : reply[t].kind = "none"
  <2>1. NoReply \in Reply
    BY EmptyTyped DEF NoReply, Reply
  <2> QED
    BY <2>1, NoReplyIs DEF Init
<1>5. TypeOK
  <2>1. /\ unique \in BOOLEAN /\ DOMAIN netbox \subseteq used /\ used \subseteq Ids
        /\ cache \in [Queries -> Snapshot \cup {None}]
    BY <1>1 DEF Init
  <2>2. /\ pc \in [Tasks -> Stages] /\ target \in [Tasks -> Ids \cup {None}]
        /\ result \in [Tasks -> Result \cup {None}]
    BY DEF Init, Stages
  <2>3. /\ attempt \in [Tasks -> 0..MaxRetries] /\ round \in [Tasks -> 0..RefetchRounds]
        /\ faults \in Nat /\ landed \in [Tasks -> Nat]
        /\ edits \in [{"create", "change", "delete"} -> Nat]
    BY ReconcileConstants DEF Init
  <2>4. overlap \in BOOLEAN /\ blind \in [Tasks -> Nat] /\ veiled \subseteq Queries
    BY DEF Init
  <2>5. hidden \subseteq Ids /\ delays \in Nat
    <3>1. hidden \in {{}, DOMAIN netbox} /\ delays = Cardinality(hidden)
      BY DEF Init
    <3> QED
      BY <1>1, <3>1, FS_EmptySet
  <2> QED
    BY <1>1, <1>3, <1>4, <2>1, <2>2, <2>3, <2>4, <2>5 DEF TypeOK
<1>6. StagesFit
  BY <1>4 DEF Init, StagesFit, GetStages, PostStages, BatchStages
<1> QED
  BY <1>5, <1>6

LEMMA FitStep ==
    ASSUME TypeOK, StagesFit, [Next]_vars
    PROVE  TypeOK' /\ StagesFit'
<1> USE DEF StagesFit, GetStages, PostStages, PatchStages, BatchStages, Reconciles
<1>1. ASSUME NEW t \in Tasks, Start(t)
      PROVE  TypeOK' /\ StagesFit'
  BY <1>1, StartEffect DEF Keeps
<1>2. ASSUME NEW t \in Tasks, Hit(t) \/ Listed(t)
      PROVE  TypeOK' /\ StagesFit'
  <2>1. /\ TypeOK' /\ Keeps(t) /\ op' = op
        /\ \E records \in Snapshot : TakesList(t, records)
    BY <1>2, ReadEffect
  <2>2. PICK records \in Snapshot : TakesList(t, records)
    BY <2>1
  <2> QED
    BY <2>1, <2>2 DEF Keeps, TakesList
<1>3. ASSUME NEW t \in Tasks, Ask(t)
      PROVE  TypeOK' /\ StagesFit'
  BY <1>3, AskEffect DEF Keeps
<1>4. ASSUME NEW t \in Tasks, AskFails(t)
      PROVE  TypeOK' /\ StagesFit'
  BY <1>4, AskFailsEffect DEF Keeps
<1>5. ASSUME NEW t \in Tasks, Post(t)
      PROVE  TypeOK' /\ StagesFit'
  <2>1. /\ TypeOK' /\ Keeps(t) /\ pc[t] \in PostStages /\ UNCHANGED <<op, pc>>
        /\ \/ reply'[t].kind = "duplicate"
           \/ reply'[t].kind = "created" /\ \E id \in Ids : DOMAIN reply'[t].records = {id}
    BY <1>5, PostEffect
  <2> QED
    BY <2>1 DEF Keeps
<1>6. ASSUME NEW t \in Tasks, Created(t)
      PROVE  TypeOK' /\ StagesFit'
  BY <1>6, CreatedEffect DEF Keeps
<1>7. ASSUME NEW t \in Tasks, Duplicate(t)
      PROVE  TypeOK' /\ StagesFit'
  BY <1>7, DuplicateEffect DEF Keeps
<1>8. ASSUME NEW t \in Tasks, \E text \in Texts : PostNotSent(t, text) \/ PostAnswerLost(t, text)
      PROVE  TypeOK' /\ StagesFit'
  BY <1>8, PostFailsEffect DEF Keeps
<1>9. ASSUME NEW t \in Tasks, Patch(t) \/ PatchFails(t) \/ BulkPatch(t) \/ BulkPatchFails(t)
      PROVE  TypeOK' /\ StagesFit'
  BY <1>9, PatchEffect DEF Keeps
<1>10. ASSUME NEW t \in Tasks, BatchRefused(t)
       PROVE  TypeOK' /\ StagesFit'
  BY <1>10, RefusedEffect DEF Keeps
<1>11. CASE Expire \/ \E i \in Ids : Appear(i)
  BY <1>11, ExpireEffect
<1>12. CASE OthersCreate \/ OthersChange \/ OthersDelete
  BY <1>12, OthersEffect
<1>13. CASE UNCHANGED vars
  BY <1>13 DEF vars, server, input, progress, history, TypeOK
<1> QED
  BY <1>1, <1>2, <1>3, <1>4, <1>5, <1>6, <1>7, <1>8, <1>9, <1>10, <1>11, <1>12, <1>13
     DEF Next, Step, Fail

\* Every reachable state has the types of the code's values, and what is on its way to a
\* task fits the request it has sent.
THEOREM TypeCorrect == Spec => [](TypeOK /\ StagesFit)
<1>1. TypeOK /\ StagesFit /\ [Next]_vars => TypeOK' /\ StagesFit'
  BY FitStep
<1> QED
  BY InitTyped, <1>1, PTL DEF Spec

-----------------------------------------------------------------------------
(***************************************************************************)
(* Racing creates converge.                                                *)
(***************************************************************************)

\* A list that was left incomplete stays on record.
LEMMA VeiledStep ==
    ASSUME TypeOK, StagesFit, [Next]_vars
    PROVE  veiled \subseteq veiled'
<1>1. ASSUME NEW t \in Tasks, Step(t) \/ Fail(t)
      PROVE  veiled \subseteq veiled'
  <2>1. CASE Ask(t)
    BY <2>1, AskEffect
  <2>2. CASE ~Ask(t)
    BY <1>1, <2>2 DEF Step, Fail, history, Start, Hit, Listed, AskFails, Post, Created, Duplicate,
       PostNotSent, PostAnswerLost, PostFailed, Patch, PatchFails, BulkPatch, BulkPatchFails,
       BatchRefused
  <2> QED
    BY <2>1, <2>2
<1>2. CASE \/ Expire \/ (\E i \in Ids : Appear(i)) \/ OthersCreate \/ OthersChange \/ OthersDelete
           \/ UNCHANGED vars
  BY <1>2, ExpireEffect, OthersEffect DEF vars, history
<1> QED
  BY <1>1, <1>2 DEF Next

LEMMA KnownInit == Init => NothingLost /\ AtMostOne
<1> SUFFICES ASSUME Init PROVE NothingLost /\ AtMostOne
  OBVIOUS
<1>1. \A i, j \in DOMAIN netbox : i = j
  <2>1. CASE netbox = Empty
    BY <2>1, EmptyTyped
  <2>2. CASE \E v \in Payloads : netbox = With(Empty, Least(Ids), v)
    BY <2>2, EmptyTyped DEF With
  <2> QED
    BY <2>1, <2>2 DEF Init
<1>2. \A t \in Tasks : reply[t].kind = "none" /\ reply[t].records = Empty /\ pc[t] = "idle"
  BY NoReplyIs DEF Init
<1>3. \A q \in Queries : cache[q] = None
  BY DEF Init
<1> QED
  BY <1>1, <1>2, <1>3, EmptyTyped DEF NothingLost, AtMostOne, PatchStages, Queries

\* The constraint holds after every step, and only a delete takes a record away.
LEMMA RecordsStep ==
    ASSUME TypeOK, StagesFit, AtMostOne, [Next]_vars
    PROVE  /\ AtMostOne' /\ (NoDeletes' => NoDeletes /\ DOMAIN netbox \subseteq DOMAIN netbox')
           /\ UNCHANGED <<unique, op, want>>
<1> USE DEF AtMostOne, NoDeletes
<1>1. ASSUME NEW t \in Tasks, Start(t) \/ Ask(t) \/ AskFails(t) \/ Created(t) \/ Duplicate(t)
      PROVE  UNCHANGED <<unique, op, want, netbox, edits>>
  BY <1>1, StartEffect, AskEffect, AskFailsEffect, CreatedEffect, DuplicateEffect
<1>2. ASSUME NEW t \in Tasks, \/ Hit(t) \/ Listed(t) \/ BatchRefused(t)
                              \/ \E text \in Texts : PostNotSent(t, text) \/ PostAnswerLost(t, text)
      PROVE  UNCHANGED <<unique, op, want, netbox, edits>>
  BY <1>2, ReadEffect, PostFailsEffect, RefusedEffect
<1>3. ASSUME NEW t \in Tasks, Patch(t) \/ PatchFails(t) \/ BulkPatch(t) \/ BulkPatchFails(t)
      PROVE  DOMAIN netbox' = DOMAIN netbox /\ UNCHANGED <<unique, op, want, edits>>
  BY <1>3, PatchEffect
<1>4. ASSUME NEW t \in Tasks, Post(t)
      PROVE  /\ UNCHANGED <<unique, op, want, edits>>
             /\ \/ DOMAIN netbox' = DOMAIN netbox
                \/ /\ unique => DOMAIN netbox = {}
                   /\ \E id \in Ids : DOMAIN netbox' = DOMAIN netbox \cup {id}
  BY <1>4, PostEffect
<1>5. CASE Expire \/ \E i \in Ids : Appear(i)
  BY <1>5, ExpireEffect
<1>6. CASE OthersCreate \/ OthersChange \/ OthersDelete
  <2>1. edits["delete"] \in Nat /\ edits'["delete"] \in Nat
    BY <1>6, OthersEffect DEF TypeOK
  <2>2. /\ edits["delete"] <= edits'["delete"] /\ UNCHANGED <<unique, op, want>>
        /\ \/ edits'["delete"] = edits["delete"] + 1 /\ DOMAIN netbox' \subseteq DOMAIN netbox
           \/ DOMAIN netbox' = DOMAIN netbox
           \/ /\ unique => DOMAIN netbox = {}
              /\ \E id \in Ids : DOMAIN netbox' = DOMAIN netbox \cup {id}
    BY <1>6, OthersEffect DEF EditKinds
  <2>3. edits'["delete"] = 0 => edits["delete"] = 0 /\ edits'["delete"] # edits["delete"] + 1
    BY <2>1, <2>2
  <2>4. CASE edits'["delete"] = edits["delete"] + 1 /\ DOMAIN netbox' \subseteq DOMAIN netbox
    BY <2>2, <2>3, <2>4
  <2>5. CASE DOMAIN netbox' = DOMAIN netbox
    BY <2>2, <2>3, <2>5
  <2>6. CASE /\ unique => DOMAIN netbox = {}
             /\ \E id \in Ids : DOMAIN netbox' = DOMAIN netbox \cup {id}
    BY <2>2, <2>3, <2>6
  <2> QED
    BY <2>2, <2>4, <2>5, <2>6
<1>7. CASE UNCHANGED vars
  BY <1>7 DEF vars, server, input, history
<1> QED
  BY <1>1, <1>2, <1>3, <1>4, <1>5, <1>6, <1>7 DEF Next, Step, Fail

\* What a task or the cache knows of stays known to NetBox.
LEMMA KnownStep ==
    ASSUME TypeOK, StagesFit, AtMostOne, NothingLost, [Next]_vars
    PROVE  NothingLost'
<1> SUFFICES ASSUME NoDeletes' PROVE NothingLost'
  BY DEF NothingLost
<1>0. NoDeletes /\ DOMAIN netbox \subseteq DOMAIN netbox' /\ veiled \subseteq veiled'
  BY RecordsStep, VeiledStep
<1> DEFINE Cached == /\ \A q \in Queries : cache[q] # None => DOMAIN cache[q] \subseteq DOMAIN netbox
                     /\ cache["scan"] # None => DOMAIN cache["scan"] # {} \/ "scan" \in veiled
           Known(t) ==
              /\ DOMAIN reply[t].records \subseteq DOMAIN netbox
              /\ pc[t] \in PatchStages => target[t] \in DOMAIN netbox
              /\ reply[t].kind = "duplicate" \/ pc[t] \in {"refind", "rescan"} => DOMAIN netbox # {}
              /\ pc[t] = "rescan" /\ reply[t].kind = "list" =>
                    DOMAIN reply[t].records # {} \/ "scan" \in veiled
              /\ pc[t] = "done" => Returned(t)
<1> USE DEF GetStages, PostStages, PatchStages, BatchStages
<1>a. Cached /\ \A t \in Tasks : Known(t)
  BY <1>0 DEF NothingLost
<1>b. ASSUME \A q \in Queries : cache'[q] \in {None, cache[q]}
      PROVE  Cached'
  BY <1>0, <1>a, <1>b DEF Queries
<1>c. ASSUME NEW t \in Tasks, Keeps(t)
      PROVE  \A u \in Tasks \ {t} : Known(u)'
  BY <1>0, <1>a, <1>c DEF Keeps, Returned
<1>d. ASSUME NEW t \in Tasks, Keeps(t), Cached', Known(t)'
      PROVE  NothingLost'
  BY <1>c, <1>d DEF NothingLost
<1>e. DOMAIN Empty = {}
  BY EmptyTyped
<1>1. ASSUME NEW t \in Tasks, Start(t)
      PROVE  NothingLost'
  BY <1>0, <1>1, <1>a, <1>b, <1>d, StartEffect
<1>2. ASSUME NEW t \in Tasks, Hit(t) \/ Listed(t)
      PROVE  NothingLost'
  <2>1. Keeps(t) /\ UNCHANGED netbox /\ \E records \in Snapshot : TakesList(t, records)
    BY <1>2, ReadEffect
  <2>2. PICK records \in Snapshot : TakesList(t, records)
    BY <2>1
  <2>3. /\ DOMAIN records \subseteq DOMAIN netbox
        /\ pc[t] = "rescan" => DOMAIN records # {} \/ "scan" \in veiled
    <3>1. CASE records = cache[QueryOf(t)]
      <4>1. records # None /\ QueryOf(t) \in Queries
        BY ReconcileConstants, QueryTyped
      <4> QED
        BY <1>a, <3>1, <4>1 DEF QueryOf
    <3>2. CASE records = reply[t].records /\ reply[t].kind = "list"
      BY <1>a, <3>2
    <3> QED
      BY <2>2, <3>1, <3>2 DEF TakesList
  <2>4. Cached'
    <3>1. \A q \in Queries : cache'[q] # None => DOMAIN cache'[q] \subseteq DOMAIN netbox
      BY <1>a, <2>2, <2>3 DEF TakesList
    <3>2. QueryOf(t) = "scan" => pc[t] = "rescan"
      BY DEF QueryOf
    <3>3. cache'["scan"] # None => DOMAIN cache'["scan"] # {} \/ "scan" \in veiled
      BY <1>a, <2>2, <2>3, <3>2 DEF TakesList, Queries
    <3> QED
      BY <1>0, <2>1, <3>1, <3>3
  <2>5. pc'[t] = "done" => Returned(t)'
    <3>1. ASSUME pc'[t] = "done", DOMAIN records # {}
          PROVE  result'[t].id \in DOMAIN netbox
      BY <2>2, <2>3, <3>1 DEF TakesList
    <3>2. ASSUME pc'[t] = "done", DOMAIN records = {}
          PROVE  pc[t] = "rescan" /\ result'[t].id = None
      BY <2>2, <3>2 DEF TakesList
    <3> QED
      BY <1>0, <1>a, <2>1, <2>3, <3>1, <3>2 DEF Returned
  <2>6. Known(t)'
    BY <1>0, <1>a, <1>e, <2>1, <2>2, <2>3, <2>5 DEF TakesList
  <2> QED
    BY <1>d, <2>1, <2>4, <2>6
<1>3. ASSUME NEW t \in Tasks, Ask(t)
      PROVE  NothingLost'
  <2>1. /\ Keeps(t) /\ UNCHANGED <<netbox, cache, pc, target, result>> /\ pc[t] \in GetStages
        /\ reply'[t].kind = "list" /\ DOMAIN reply'[t].records \subseteq DOMAIN netbox
        /\ reply'[t].records = netbox \/ QueryOf(t) \in veiled'
    BY <1>3, AskEffect
  <2>2. pc[t] = "rescan" => QueryOf(t) = "scan"
    BY DEF QueryOf
  <2>3. Known(t)'
    BY <1>0, <1>a, <2>1, <2>2
  <2> QED
    BY <1>b, <1>d, <2>1, <2>3
<1>4. ASSUME NEW t \in Tasks, AskFails(t)
      PROVE  NothingLost'
  BY <1>0, <1>4, <1>a, <1>b, <1>d, AskFailsEffect
<1>5. ASSUME NEW t \in Tasks, Post(t)
      PROVE  NothingLost'
  <2>1. /\ Keeps(t) /\ pc[t] \in PostStages /\ UNCHANGED <<cache, pc, target, result>>
        /\ \/ /\ DOMAIN netbox # {} /\ UNCHANGED netbox
              /\ reply'[t].kind = "duplicate" /\ reply'[t].records = Empty
           \/ /\ reply'[t].kind = "created"
              /\ DOMAIN reply'[t].records \subseteq DOMAIN netbox'
    BY <1>5, PostEffect
  <2>2. Known(t)'
    BY <1>0, <1>a, <1>e, <2>1
  <2> QED
    BY <1>b, <1>d, <2>1, <2>2
<1>6. ASSUME NEW t \in Tasks, Created(t)
      PROVE  NothingLost'
  <2>1. Keeps(t) /\ Known(t)' /\ \A q \in Queries : cache'[q] \in {None, cache[q]}
    BY <1>6, <1>a, <1>e, CreatedEffect DEF Returned
  <2> QED
    BY <1>b, <1>d, <2>1
<1>7. ASSUME NEW t \in Tasks, Duplicate(t)
      PROVE  NothingLost'
  <2>1. Keeps(t) /\ Known(t)' /\ \A q \in Queries : cache'[q] \in {None, cache[q]}
    BY <1>7, <1>a, <1>e, DuplicateEffect
  <2> QED
    BY <1>b, <1>d, <2>1
<1>8. ASSUME NEW t \in Tasks, \E text \in Texts : PostNotSent(t, text) \/ PostAnswerLost(t, text)
      PROVE  NothingLost'
  <2>1. Keeps(t) /\ Known(t)' /\ \A q \in Queries : cache'[q] \in {None, cache[q]}
    BY <1>8, <1>a, <1>e, PostFailsEffect
  <2> QED
    BY <1>b, <1>d, <2>1
<1>9. ASSUME NEW t \in Tasks, Patch(t) \/ PatchFails(t) \/ BulkPatch(t) \/ BulkPatchFails(t)
      PROVE  NothingLost'
  <2>1. Keeps(t) /\ Known(t)' /\ \A q \in Queries : cache'[q] \in {None, cache[q]}
    BY <1>9, <1>a, PatchEffect DEF Returned
  <2> QED
    BY <1>b, <1>d, <2>1
<1>10. ASSUME NEW t \in Tasks, BatchRefused(t)
       PROVE  NothingLost'
  <2>1. Keeps(t) /\ Known(t)' /\ \A q \in Queries : cache'[q] \in {None, cache[q]}
    BY <1>10, <1>a, RefusedEffect
  <2> QED
    BY <1>b, <1>d, <2>1
<1>11. CASE Expire \/ \E i \in Ids : Appear(i)
  <2>1. \A t \in Tasks : Known(t)'
    BY <1>11, <1>a, ExpireEffect DEF Returned
  <2> QED
    BY <1>11, <1>b, <2>1, ExpireEffect DEF NothingLost
<1>12. CASE OthersCreate \/ OthersChange \/ OthersDelete
  <2>1. \A t \in Tasks : Known(t)'
    BY <1>0, <1>12, <1>a, OthersEffect DEF Returned
  <2> QED
    BY <1>12, <1>b, <2>1, OthersEffect DEF NothingLost
<1>13. CASE UNCHANGED vars
  BY <1>13 DEF vars, server, progress, history, NothingLost, NoDeletes, Returned
<1> QED
  BY <1>1, <1>2, <1>3, <1>4, <1>5, <1>6, <1>7, <1>8, <1>9, <1>10, <1>11, <1>12, <1>13
     DEF Next, Step, Fail

\* With a uniqueness constraint and no deletes, every task of a race that succeeds returns
\* the one record of NetBox, or its payload without an id after a scan that NetBox answered
\* without that record (rest_create_async, rest_ensure_async, rest_reconcile_async and
\* rest_bulk_reconcile_async, with stale caches, late lists and lost answers).
THEOREM RacesConverge == Spec => []Converge
<1> DEFINE IInv == TypeOK /\ StagesFit /\ AtMostOne /\ NothingLost
<1>1. Init => IInv
  BY InitTyped, KnownInit
<1>2. IInv /\ [Next]_vars => IInv'
  BY FitStep, RecordsStep, KnownStep
<1>3. IInv => Converge
  <2> SUFFICES ASSUME IInv, unique, NoDeletes, NEW t \in Tasks, pc[t] = "done"
               PROVE  IF result[t].id = None THEN DOMAIN netbox # {} /\ "scan" \in veiled
                                             ELSE DOMAIN netbox = {result[t].id}
    BY DEF Converge, NoDeletes
  <2>1. Returned(t) /\ \A i, j \in DOMAIN netbox : i = j
    BY DEF NothingLost, AtMostOne
  <2>2. None \notin DOMAIN netbox
    BY ReconcileConstants, SnapshotIs DEF TypeOK
  <2>3. CASE result[t].id \in DOMAIN netbox
    BY <2>1, <2>2, <2>3
  <2>4. CASE result[t].id = None /\ DOMAIN netbox # {} /\ "scan" \in veiled
    BY <2>4
  <2> QED
    BY <2>1, <2>3, <2>4 DEF Returned
<1> QED
  BY <1>1, <1>2, <1>3, PTL DEF Spec

-----------------------------------------------------------------------------
(***************************************************************************)
(* A POST that landed is sent again only unprotected.                      *)
(***************************************************************************)

\* A task does not get its protection back.
LEMMA ProtectedBefore ==
    ASSUME TypeOK, StagesFit, AtMostOne, [Next]_vars, NEW t \in Tasks, Protected(t)'
    PROVE  Protected(t)
BY RecordsStep DEF Protected

LEMMA LandsStep ==
    ASSUME TypeOK, StagesFit, AtMostOne, NothingLost, LandsKnown, [Next]_vars
    PROVE  LandsKnown'
<1> DEFINE Known(t) ==
              /\ NoDeletes /\ landed[t] # 0 => DOMAIN netbox # {}
              /\ Protected(t) =>
                    /\ landed[t] <= 1 + blind[t]
                    /\ pc[t] \in {"idle", "list"} \cup PostStages /\ reply[t].kind # "created" =>
                          landed[t] <= blind[t]
                    /\ pc[t] = "find" /\ op[t] # "bulk" => landed[t] <= blind[t]
                    /\ pc[t] \in {"find", "relook"} /\ reply[t].kind = "list"
                          /\ DOMAIN reply[t].records = {} => landed[t] <= blind[t]
<1> USE DEF GetStages, PostStages, PatchStages, BatchStages, Reconciles
<1>a. \A t \in Tasks : Known(t)
  BY DEF LandsKnown
<1>b. NoDeletes' => NoDeletes /\ DOMAIN netbox \subseteq DOMAIN netbox'
  BY RecordsStep
<1>c. op' = op
  BY RecordsStep
<1>d. ASSUME NEW t \in Tasks, Keeps(t), Known(t)'
      PROVE  LandsKnown'
  <2>1. ASSUME NEW u \in Tasks, u # t
        PROVE  Known(u)'
    <3>1. /\ pc'[u] = pc[u] /\ reply'[u] = reply[u] /\ landed'[u] = landed[u]
          /\ blind'[u] = blind[u]
      BY <1>d, <2>1 DEF Keeps
    <3>2. Protected(u)' => Protected(u)
      BY ProtectedBefore
    <3> QED
      BY <1>a, <1>b, <1>c, <3>1, <3>2
  <2> QED
    BY <1>d, <2>1 DEF LandsKnown
<1>e. ASSUME NEW t \in Tasks, landed'[t] = landed[t]
      PROVE  NoDeletes' /\ landed'[t] # 0 => DOMAIN netbox' # {}
  BY <1>a, <1>b, <1>e
<1>f. \A t \in Tasks : landed[t] \in Nat /\ blind[t] \in Nat
  BY DEF TypeOK
<1>g. \A t \in Tasks : Protected(t)' => Protected(t)
  BY ProtectedBefore
<1>1. ASSUME NEW t \in Tasks, Start(t)
      PROVE  LandsKnown'
  <2>1. Keeps(t) /\ UNCHANGED <<reply, landed, blind>> /\ pc[t] = "idle"
    BY <1>1, StartEffect
  <2>2. reply[t].kind # "created"
    BY <2>1 DEF StagesFit
  <2>3. Protected(t)' => landed[t] <= blind[t]
    BY <1>a, <1>g, <2>1, <2>2
  <2>4. Known(t)'
    BY <1>e, <1>f, <2>1, <2>3
  <2> QED
    BY <1>d, <2>1, <2>4
<1>2. ASSUME NEW t \in Tasks, Hit(t) \/ Listed(t)
      PROVE  LandsKnown'
  <2>1. Keeps(t) /\ UNCHANGED landed /\ \E records \in Snapshot : TakesList(t, records)
    BY <1>2, ReadEffect
  <2>2. PICK records \in Snapshot : TakesList(t, records)
    BY <2>1
  <2>3. blind'[t] \in {blind[t], blind[t] + 1}
    BY <2>2 DEF TakesList
  <2>4. reply'[t].kind = "none" /\ pc'[t] # "find"
    BY <2>2 DEF TakesList
  <2>5. ASSUME Protected(t)', pc'[t] \in {"idle", "list"} \cup PostStages
        PROVE  landed[t] <= blind'[t]
    <3>1. \/ pc[t] = "list"
          \/ pc[t] \in {"find", "relook"} /\ DOMAIN records = {}
      BY <2>2, <2>5 DEF TakesList
    <3>2. CASE pc[t] = "list" \/ (pc[t] = "find" /\ op[t] # "bulk")
      <4>1. landed[t] <= blind[t]
        BY <1>a, <1>g, <2>5, <3>2 DEF StagesFit
      <4> QED
        BY <1>f, <2>3, <4>1
    <3>3. CASE BeforeSecondPost(t) /\ DOMAIN records = {}
      <4>1. CASE records = cache[QueryOf(t)] /\ blind'[t] = blind[t] + 1
        <5>1. landed[t] <= 1 + blind[t]
          BY <1>a, <1>g, <2>5
        <5> QED
          BY <1>f, <4>1, <5>1
      <4>2. CASE records = reply[t].records /\ reply[t].kind = "list" /\ blind'[t] = blind[t]
        BY <1>a, <1>g, <2>5, <3>3, <4>2 DEF BeforeSecondPost
      <4> QED
        BY <2>2, <3>3, <4>1, <4>2 DEF TakesList
    <3> QED
      BY <3>1, <3>2, <3>3 DEF BeforeSecondPost
  <2>6. Protected(t)' => landed[t] <= 1 + blind'[t]
    <3>1. Protected(t)' => landed[t] <= 1 + blind[t]
      BY <1>a, <1>g
    <3> QED
      BY <1>f, <2>3, <3>1
  <2>7. Known(t)'
    BY <1>e, <2>1, <2>4, <2>5, <2>6
  <2> QED
    BY <1>d, <2>1, <2>7
<1>3. ASSUME NEW t \in Tasks, Ask(t)
      PROVE  LandsKnown'
  <2>1. /\ Keeps(t) /\ UNCHANGED <<pc, landed, netbox, edits>> /\ reply[t].kind = "none"
        /\ pc[t] \in GetStages /\ reply'[t].kind = "list"
        /\ blind'[t] = IF BeforeSecondPost(t) /\ DOMAIN reply'[t].records = {} /\ DOMAIN netbox # {}
                       THEN blind[t] + 1 ELSE blind[t]
    BY <1>3, AskEffect
  <2>2. ASSUME Protected(t)'
        PROVE  landed[t] <= 1 + blind'[t]
    <3>1. landed[t] <= 1 + blind[t]
      BY <1>a, <1>g, <2>2
    <3> QED
      BY <1>f, <2>1, <3>1
  <2>3. ASSUME Protected(t)', \/ pc[t] = "list"
                              \/ pc[t] = "find" /\ op[t] # "bulk"
        PROVE  landed[t] <= blind'[t]
    <3>1. landed[t] <= blind[t]
      BY <1>a, <1>g, <2>1, <2>3
    <3> QED
      BY <1>f, <2>1, <3>1
  <2>4. ASSUME Protected(t)', BeforeSecondPost(t), DOMAIN reply'[t].records = {}
        PROVE  landed[t] <= blind'[t]
    <3>1. CASE DOMAIN netbox # {}
      <4>1. landed[t] <= 1 + blind[t]
        BY <1>a, <1>g, <2>4
      <4> QED
        BY <1>f, <2>1, <2>4, <3>1, <4>1
    <3>2. CASE DOMAIN netbox = {}
      <4>1. op[t] \notin {"reconcile", "bulk_only"}
        BY <2>4 DEF BeforeSecondPost, StagesFit
      <4>2. NoDeletes
        BY <1>g, <2>4, <4>1 DEF Protected
      <4>3. landed[t] = 0
        BY <1>a, <3>2, <4>2
      <4> QED
        BY <1>f, <2>1, <4>3
    <3> QED
      BY <3>1, <3>2
  <2>5. Known(t)'
    BY <1>c, <1>e, <2>1, <2>2, <2>3, <2>4 DEF BeforeSecondPost
  <2> QED
    BY <1>d, <2>1, <2>5
<1>4. ASSUME NEW t \in Tasks, AskFails(t)
      PROVE  LandsKnown'
  <2>1. /\ Keeps(t) /\ UNCHANGED <<reply, landed>> /\ reply[t].kind = "none"
        /\ pc'[t] = IF pc[t] = "relook" THEN "post" ELSE "error"
        /\ blind'[t] = IF pc[t] = "relook" THEN blind[t] + 1 ELSE blind[t]
    BY <1>4, AskFailsEffect
  <2>2. Protected(t)' => landed[t] <= 1 + blind[t]
    BY <1>a, <1>g
  <2>3. Known(t)'
    BY <1>e, <1>f, <2>1, <2>2
  <2> QED
    BY <1>d, <2>1, <2>3
<1>5. ASSUME NEW t \in Tasks, Post(t)
      PROVE  LandsKnown'
  <2>1. /\ Keeps(t) /\ UNCHANGED <<pc, blind>> /\ reply[t].kind = "none" /\ pc[t] \in PostStages
        /\ \/ UNCHANGED landed /\ reply'[t].kind = "duplicate"
           \/ landed'[t] = landed[t] + 1 /\ reply'[t].kind = "created" /\ DOMAIN netbox' # {}
    BY <1>5, PostEffect
  <2>2. Protected(t)' => landed[t] <= blind[t]
    BY <1>a, <1>g, <2>1
  <2>3. CASE UNCHANGED landed /\ reply'[t].kind = "duplicate"
    <3>1. Known(t)'
      BY <1>e, <1>f, <2>1, <2>2, <2>3
    <3> QED
      BY <1>d, <2>1, <3>1
  <2>4. CASE landed'[t] = landed[t] + 1 /\ reply'[t].kind = "created" /\ DOMAIN netbox' # {}
    <3>1. Known(t)'
      BY <1>f, <2>1, <2>2, <2>4
    <3> QED
      BY <1>d, <2>1, <3>1
  <2> QED
    BY <2>1, <2>3, <2>4
<1>6. ASSUME NEW t \in Tasks, Keeps(t), UNCHANGED landed, blind'[t] \in {blind[t], blind[t] + 1},
             pc'[t] \in {"done", "error", "refind", "patch", "bulkpatch"}
      PROVE  LandsKnown'
  <2>1. Protected(t)' => landed[t] <= 1 + blind[t]
    BY <1>a, <1>g
  <2>2. Known(t)'
    BY <1>e, <1>f, <1>6, <2>1
  <2> QED
    BY <1>d, <1>6, <2>2
<1>7. ASSUME NEW t \in Tasks, Keeps(t), UNCHANGED landed, blind'[t] \in {blind[t], blind[t] + 1},
             reply'[t].kind = "none",
             \/ op[t] = "bulk" /\ pc'[t] = "find"
             \/ pc'[t] = "relook"
             \/ /\ pc'[t] = pc[t] /\ pc[t] \in PostStages
                /\ reply[t].kind = "none" \/ blind'[t] = blind[t] + 1
      PROVE  LandsKnown'
  <2>1. Protected(t)' => landed[t] <= 1 + blind[t]
    BY <1>a, <1>g
  <2>2. ASSUME Protected(t)', pc'[t] = pc[t], pc[t] \in PostStages,
               reply[t].kind = "none" \/ blind'[t] = blind[t] + 1
        PROVE  landed[t] <= blind'[t]
    <3>1. CASE reply[t].kind = "none"
      <4>1. landed[t] <= blind[t]
        BY <1>a, <1>g, <2>2, <3>1
      <4> QED
        BY <1>f, <1>7, <4>1
    <3>2. CASE blind'[t] = blind[t] + 1
      BY <1>f, <2>1, <2>2, <3>2
    <3> QED
      BY <2>2, <3>1, <3>2
  <2>3. Known(t)'
    BY <1>c, <1>e, <1>f, <1>7, <2>1, <2>2
  <2> QED
    BY <1>d, <1>7, <2>3
<1>8. ASSUME NEW t \in Tasks, Created(t)
      PROVE  LandsKnown'
  BY <1>6, <1>8, CreatedEffect
<1>9. ASSUME NEW t \in Tasks, Duplicate(t)
      PROVE  LandsKnown'
  BY <1>6, <1>7, <1>9, DuplicateEffect
<1>10. ASSUME NEW t \in Tasks, \E text \in Texts : PostNotSent(t, text) \/ PostAnswerLost(t, text)
       PROVE  LandsKnown'
  BY <1>6, <1>7, <1>10, PostFailsEffect
<1>11. ASSUME NEW t \in Tasks, Patch(t) \/ PatchFails(t) \/ BulkPatch(t) \/ BulkPatchFails(t)
       PROVE  LandsKnown'
  BY <1>6, <1>11, PatchEffect
<1>12. ASSUME NEW t \in Tasks, BatchRefused(t)
       PROVE  LandsKnown'
  BY <1>6, <1>7, <1>12, RefusedEffect
<1>13. CASE \/ Expire \/ (\E i \in Ids : Appear(i))
            \/ OthersCreate \/ OthersChange \/ OthersDelete \/ UNCHANGED vars
  <2>1. UNCHANGED <<pc, reply, landed, blind>>
    BY <1>13, ExpireEffect, OthersEffect DEF vars, history
  <2>2. ASSUME NEW t \in Tasks PROVE Known(t)'
    BY <1>a, <1>c, <1>e, <1>g, <2>1
  <2> QED
    BY <2>2 DEF LandsKnown
<1> QED
  BY <1>1, <1>2, <1>3, <1>4, <1>5, <1>8, <1>9, <1>10, <1>11, <1>12, <1>13 DEF Next, Step, Fail

\* A task creates one record, and one more for every POST that it repeated unprotected: a
\* create without a lookup because the text of the error had the words of a refused
\* connection (is_safe_retry), one with a lookup because that failed, or was answered
\* without the record by the GET cache or by a late list, while nobody deletes.
THEOREM PostsLandOnce == Spec => []LandsOnce
<1> DEFINE IInv == TypeOK /\ StagesFit /\ AtMostOne /\ NothingLost /\ LandsKnown
<1>1. Init => IInv
  <2>1. Init => LandsKnown
    BY NoReplyIs DEF Init, LandsKnown, PostStages
  <2> QED
    BY <2>1, InitTyped, KnownInit
<1>2. IInv /\ [Next]_vars => IInv'
  BY FitStep, RecordsStep, KnownStep, LandsStep
<1>3. IInv => LandsOnce
  BY DEF LandsKnown, Protected, NoDeletes, LandsOnce
<1> QED
  BY <1>1, <1>2, <1>3, PTL DEF Spec

-----------------------------------------------------------------------------
(***************************************************************************)
(* Reconciles with one payload reach it.                                   *)
(***************************************************************************)

\* Whoever works with one payload worked with one payload before, and nobody else edited.
LEMMA OnePayloadBefore ==
    ASSUME TypeOK, StagesFit, AtMostOne, [Next]_vars, OnePayload'
    PROVE  /\ OnePayload /\ NoDeletes /\ UNCHANGED <<op, want>>
           /\ ~(OthersCreate \/ OthersChange \/ OthersDelete)
<1>1. UNCHANGED <<op, want>>
  BY RecordsStep
<1>2. DOMAIN edits = EditKinds /\ edits \in [EditKinds -> Nat]
  BY DEF TypeOK, EditKinds
<1>3. CASE OthersCreate \/ OthersChange \/ OthersDelete
  <2>1. PICK k \in EditKinds : edits'[k] = edits[k] + 1 /\ DOMAIN edits' = EditKinds
    BY <1>3, OthersEffect
  <2>2. edits'[k] = 0
    BY <2>1 DEF OnePayload
  <2> QED
    BY <1>2, <2>1, <2>2
<1>4. CASE ~(OthersCreate \/ OthersChange \/ OthersDelete)
  <2>1. UNCHANGED edits
    BY <1>4 DEF Next, Step, Fail, vars, history, Start, Hit, Ask, Listed, AskFails, Post, Created,
       Duplicate, PostNotSent, PostAnswerLost, PostFailed, Patch, PatchFails, BulkPatch,
       BulkPatchFails, BatchRefused, Expire, Appear
  <2> QED
    BY <1>1, <1>2, <1>4, <2>1 DEF OnePayload, NoDeletes, Reconciles, EditKinds
<1> QED
  BY <1>3, <1>4

LEMMA PayloadStep ==
    ASSUME TypeOK, StagesFit, AtMostOne, NothingLost, NothingLost', PayloadStays, [Next]_vars
    PROVE  PayloadStays'
<1> SUFFICES ASSUME OnePayload' PROVE PayloadStays'
  BY DEF PayloadStays
<1>0. /\ OnePayload /\ NoDeletes /\ UNCHANGED <<op, want>>
      /\ ~(OthersCreate \/ OthersChange \/ OthersDelete)
  BY OnePayloadBefore
<1> DEFINE Cached(t) == \A q \in Queries : cache[q] # None => Current(cache[q], t)
           Known(t) ==
              /\ Current(reply[t].records, t)
              /\ reply[t].kind = "created" => \A i \in DOMAIN reply[t].records : netbox[i] = want[t]
              /\ pc[t] = "done" /\ result[t].id # None => netbox[result[t].id] = want[t]
           Stays == \A i \in DOMAIN netbox, t \in Tasks :
                       i \in DOMAIN netbox' /\ (netbox[i] = want[t] => netbox'[i] = want[t])
<1> USE DEF GetStages, PostStages, PatchStages, BatchStages
<1>a. \A t \in Tasks : Cached(t) /\ Known(t)
  BY <1>0 DEF PayloadStays
<1>b. /\ \A q \in Queries : cache[q] # None => DOMAIN cache[q] \subseteq DOMAIN netbox
      /\ \A t \in Tasks : /\ DOMAIN reply[t].records \subseteq DOMAIN netbox
                          /\ pc[t] = "done" /\ result[t].id # None =>
                                result[t].id \in DOMAIN netbox
  BY <1>0 DEF NothingLost, Returned
<1>c. \A t, u \in Tasks : want[t] = want[u] /\ Reconciles(t)
  BY <1>0 DEF OnePayload
<1>d. ASSUME Stays, NEW u \in Tasks, NEW records, DOMAIN records \subseteq DOMAIN netbox,
             Current(records, u)
      PROVE  \A i \in DOMAIN records : records[i] = want[u] => netbox'[i] = want[u]
  BY <1>d DEF Current
<1>e. ASSUME Stays, \A q \in Queries : cache'[q] \in {None, cache[q]}
      PROVE  \A u \in Tasks : Cached(u)'
  BY <1>0, <1>a, <1>b, <1>d, <1>e DEF Current
<1>f. ASSUME Stays, NEW t \in Tasks, Keeps(t)
      PROVE  \A u \in Tasks \ {t} : Known(u)'
  BY <1>0, <1>a, <1>b, <1>f DEF Current, Keeps
<1>g. ASSUME Stays, NEW t \in Tasks, Keeps(t), \A u \in Tasks : Cached(u)', Known(t)'
      PROVE  PayloadStays'
  BY <1>f, <1>g DEF PayloadStays
<1>h. ASSUME netbox' = netbox PROVE Stays
  BY <1>h
<1>i. DOMAIN Empty = {}
  BY EmptyTyped
<1>1. ASSUME NEW t \in Tasks, Start(t) \/ AskFails(t) \/ BatchRefused(t)
      PROVE  PayloadStays'
  <2>1. /\ Keeps(t) /\ UNCHANGED <<netbox, cache, reply>> /\ pc'[t] # "done"
    BY <1>1, StartEffect, AskFailsEffect, RefusedEffect
  <2>2. Known(t)'
    BY <1>0, <1>a, <2>1 DEF Current
  <2> QED
    BY <1>e, <1>g, <1>h, <2>1, <2>2
<1>2. ASSUME NEW t \in Tasks, Hit(t) \/ Listed(t)
      PROVE  PayloadStays'
  <2>1. Keeps(t) /\ UNCHANGED netbox /\ \E records \in Snapshot : TakesList(t, records)
    BY <1>2, ReadEffect
  <2>2. PICK records \in Snapshot : TakesList(t, records)
    BY <2>1
  <2>3. Stays
    BY <1>h, <2>1
  <2>4. \A u \in Tasks : Current(records, u)
    <3>1. CASE records = cache[QueryOf(t)]
      <4>1. records # None /\ QueryOf(t) \in Queries
        BY ReconcileConstants, QueryTyped
      <4> QED
        BY <1>a, <3>1, <4>1
    <3>2. CASE records = reply[t].records /\ reply[t].kind = "list"
      BY <1>0, <1>a, <1>c, <3>2 DEF Current
    <3> QED
      BY <2>2, <3>1, <3>2 DEF TakesList
  <2>5. ASSUME NEW u \in Tasks PROVE Cached(u)'
    <3>1. \A q \in Queries : cache'[q] # None => cache'[q] = cache[q] \/ cache'[q] = records
      BY <2>2 DEF TakesList
    <3>2. \A q \in Queries : cache'[q] # None => Current(cache'[q], u)
      BY <1>a, <2>4, <3>1
    <3> QED
      BY <1>0, <2>1, <3>2 DEF Current
  <2>6. pc'[t] = "done" /\ result'[t].id # None => netbox[result'[t].id] = want[t]
    <3>1. pc'[t] = "done" /\ result'[t].id # None =>
             result'[t].id \in DOMAIN records /\ records[result'[t].id] = want[t]
      BY <1>c, <2>2 DEF TakesList
    <3> QED
      BY <2>4, <3>1 DEF Current
  <2>7. reply'[t].kind = "none" /\ reply'[t].records = Empty
    BY <2>2 DEF TakesList
  <2>8. Known(t)'
    BY <1>0, <1>i, <2>1, <2>6, <2>7 DEF Current
  <2> QED
    BY <1>g, <2>1, <2>3, <2>5, <2>8
<1>3. ASSUME NEW t \in Tasks, Ask(t)
      PROVE  PayloadStays'
  <2>1. /\ Keeps(t) /\ UNCHANGED <<netbox, cache, pc, result>> /\ pc[t] \in GetStages
        /\ reply'[t].kind = "list"
        /\ \A i \in DOMAIN reply'[t].records : reply'[t].records[i] = netbox[i]
    BY <1>3, AskEffect
  <2>2. Known(t)'
    BY <1>0, <2>1 DEF Current
  <2> QED
    BY <1>e, <1>g, <1>h, <2>1, <2>2
<1>4. ASSUME NEW t \in Tasks, Post(t)
      PROVE  PayloadStays'
  <2>1. /\ Keeps(t) /\ UNCHANGED <<cache, pc, result>> /\ pc[t] \in PostStages
        /\ \/ /\ UNCHANGED netbox /\ reply'[t].kind = "duplicate" /\ reply'[t].records = Empty
           \/ /\ reply'[t].kind = "created"
              /\ \E id \in Ids :
                    /\ DOMAIN netbox' = DOMAIN netbox \cup {id} /\ netbox'[id] = want[t]
                    /\ \A j \in DOMAIN netbox : netbox'[j] = netbox[j]
                    /\ DOMAIN reply'[t].records = {id}
    BY <1>4, PostEffect
  <2>2. Stays
    BY <2>1
  <2>3. Known(t)'
    BY <1>0, <1>i, <2>1 DEF Current
  <2> QED
    BY <1>e, <1>g, <2>1, <2>2, <2>3
<1>5. ASSUME NEW t \in Tasks, Created(t)
      PROVE  PayloadStays'
  <2>1. /\ Keeps(t) /\ UNCHANGED netbox /\ reply[t].kind = "created" /\ pc'[t] = "done"
        /\ result'[t].id \in DOMAIN reply[t].records
        /\ reply'[t].kind = "none" /\ reply'[t].records = Empty
        /\ \A q \in Queries : cache'[q] = None
    BY <1>5, CreatedEffect
  <2>2. Known(t)'
    BY <1>0, <1>a, <1>i, <2>1 DEF Current
  <2> QED
    BY <1>e, <1>g, <1>h, <2>1, <2>2
<1>6. ASSUME NEW t \in Tasks,
             \/ Duplicate(t) \/ \E text \in Texts : PostNotSent(t, text) \/ PostAnswerLost(t, text)
      PROVE  PayloadStays'
  <2>1. /\ Keeps(t) /\ UNCHANGED netbox /\ pc'[t] # "done"
        /\ reply'[t].kind = "none" /\ reply'[t].records = Empty
        /\ \A q \in Queries : cache'[q] \in {None, cache[q]}
    BY <1>6, DuplicateEffect, PostFailsEffect
  <2>2. Known(t)'
    BY <1>0, <1>i, <2>1 DEF Current
  <2> QED
    BY <1>e, <1>g, <1>h, <2>1, <2>2
<1>7. ASSUME NEW t \in Tasks, Patch(t) \/ PatchFails(t) \/ BulkPatch(t) \/ BulkPatchFails(t)
      PROVE  PayloadStays'
  <2>1. /\ Keeps(t) /\ DOMAIN netbox' = DOMAIN netbox /\ UNCHANGED reply
        /\ \A j \in DOMAIN netbox :
              netbox'[j] = netbox[j] \/ (j = target[t] /\ netbox'[j] = want[t])
        /\ \A q \in Queries : cache'[q] \in {None, cache[q]}
        /\ pc'[t] = "done" => netbox'[result'[t].id] = want[t]
    BY <1>7, PatchEffect
  <2>2. Stays
    BY <1>c, <2>1
  <2>3. Known(t)'
    BY <1>0, <1>a, <1>b, <2>1, <2>2 DEF Current
  <2> QED
    BY <1>e, <1>g, <2>1, <2>2, <2>3
<1>8. CASE Expire \/ (\E i \in Ids : Appear(i)) \/ UNCHANGED vars
  <2>1. /\ UNCHANGED <<netbox, reply, pc, result>>
        /\ \A q \in Queries : cache'[q] \in {None, cache[q]}
    BY <1>8, ExpireEffect DEF vars, server
  <2>2. \A u \in Tasks : Cached(u)' /\ Known(u)'
    BY <1>0, <1>a, <1>e, <1>h, <2>1 DEF Current
  <2> QED
    BY <2>2 DEF PayloadStays
<1> QED
  BY <1>0, <1>1, <1>2, <1>3, <1>4, <1>5, <1>6, <1>7, <1>8 DEF Next, Step, Fail

\* When only reconciles with one payload touch the object, and all succeed, every record
\* they return holds that payload: rest_reconcile_async and rest_bulk_reconcile_async settle
\* on no stale list.
THEOREM ReconcilesReachDesired == Spec => []ReachesDesired
<1> DEFINE IInv == TypeOK /\ StagesFit /\ AtMostOne /\ NothingLost /\ PayloadStays
<1>1. Init => IInv
  <2>1. Init => PayloadStays
    BY NoReplyIs, EmptyTyped DEF Init, PayloadStays, Current
  <2> QED
    BY <2>1, InitTyped, KnownInit
<1>2. IInv /\ [Next]_vars => IInv'
  BY FitStep, RecordsStep, KnownStep, PayloadStep
<1>3. IInv => ReachesDesired
  <2> SUFFICES ASSUME IInv, \A k \in DOMAIN edits : edits[k] = 0,
                      \A t, u \in Tasks : Reconciles(t) /\ want[t] = want[u] /\ pc[t] = "done",
                      NEW t \in Tasks
               PROVE  result[t].id # None =>
                         result[t].id \in DOMAIN netbox /\ netbox[result[t].id] = want[t]
    BY DEF ReachesDesired
  <2>1. OnePayload /\ NoDeletes
    BY DEF OnePayload, NoDeletes, TypeOK
  <2> QED
    BY <2>1 DEF NothingLost, PayloadStays, Returned
<1> QED
  BY <1>1, <1>2, <1>3, PTL DEF Spec

-----------------------------------------------------------------------------
(***************************************************************************)
(* Without a constraint, a second record needs a reason.                   *)
(***************************************************************************)

\* Once something has disturbed the tasks, that stays on record.
LEMMA UndisturbedBefore ==
    ASSUME TypeOK, StagesFit, [Next]_vars, Undisturbed'
    PROVE  Undisturbed /\ ~\E t \in Tasks : Fail(t)
<1> USE DEF Undisturbed
<1>0. faults \in Nat /\ veiled \subseteq veiled'
  BY VeiledStep DEF TypeOK
<1>1. ASSUME NEW t \in Tasks, Fail(t)
      PROVE  FALSE
  <2>1. faults' = faults + 1
    BY <1>1 DEF Fail, Fault, AskFails, PostAnswerLost, PostNotSent, PostFailed, PatchFails,
       BulkPatchFails, BatchRefused
  <2> QED
    BY <1>0, <2>1
<1>2. ASSUME NEW t \in Tasks, Step(t)
      PROVE  op' = op /\ faults' = faults /\ edits' = edits /\ (overlap => overlap')
  <2>1. op' = op /\ faults' = faults /\ edits' = edits
    BY <1>2 DEF Step, history, input, Start, Hit, Ask, Listed, Post, Created, Duplicate, Patch,
       BulkPatch
  <2>2. CASE Start(t)
    BY <2>1, <2>2 DEF Start
  <2>3. CASE ~Start(t)
    <3>1. overlap' = overlap
      BY <1>2, <2>3 DEF Step, history, Hit, Ask, Listed, Post, Created, Duplicate, Patch, BulkPatch
    <3> QED
      BY <2>1, <3>1
  <2> QED
    BY <2>2, <2>3
<1>3. CASE OthersCreate \/ OthersChange \/ OthersDelete
  <2>1. edits["create"] \in Nat /\ edits'["create"] \in Nat /\ edits["create"] <= edits'["create"]
    BY <1>3, OthersEffect DEF TypeOK, EditKinds
  <2>2. UNCHANGED <<op, faults, veiled, overlap>>
    BY <1>3, OthersEffect
  <2>3. edits["create"] = 0
    BY <2>1
  <2> QED
    BY <1>0, <1>1, <2>2, <2>3
<1>4. CASE Expire \/ (\E i \in Ids : Appear(i)) \/ UNCHANGED vars
  BY <1>0, <1>1, <1>4 DEF Expire, Appear, vars, history, input
<1> QED
  BY <1>0, <1>1, <1>2, <1>3, <1>4 DEF Next

LEMMA EmptyStep ==
    ASSUME TypeOK, StagesFit, StagesFit', EmptyIsTrue, [Next]_vars
    PROVE  EmptyIsTrue'
<1> SUFFICES ASSUME Undisturbed' PROVE EmptyIsTrue'
  BY DEF EmptyIsTrue
<1>0. Undisturbed /\ ~\E t \in Tasks : Fail(t)
  BY UndisturbedBefore
<1> DEFINE One == \A i, j \in DOMAIN netbox : i = j
           Acts(t) ==
              /\ pc[t] \in PostStages /\ reply[t].kind # "created" => DOMAIN netbox = {}
              /\ reply[t].kind = "list" /\ DOMAIN reply[t].records = {} => DOMAIN netbox = {}
           Cached == \A q \in Queries : cache[q] # None /\ DOMAIN cache[q] = {} => DOMAIN netbox = {}
           Pending == \E t \in Tasks : reply[t].kind = "created"
<1> USE DEF GetStages, PostStages, PatchStages, BatchStages
<1>a. /\ \A t, u \in Running : t = u
      /\ One /\ (\A t \in Tasks : Acts(t)) /\ (~Pending => Cached)
  BY <1>0 DEF EmptyIsTrue
<1>b. ASSUME NEW t \in Running, NEW u \in Tasks, u # t
      PROVE  u \notin Running
  BY <1>a, <1>b
<1>c. ASSUME NEW u \in Tasks, u \notin Running
      PROVE  pc[u] \in {"idle", "done", "error"} /\ reply[u].kind \notin {"list", "created", "duplicate"}
  BY <1>c DEF Running, Ended, StagesFit
<1>d. ASSUME NEW t \in Tasks, Keeps(t), \A u \in Tasks \ {t} : u \notin Running,
             One', Acts(t)', ~Pending' => Cached'
      PROVE  EmptyIsTrue'
  <2>1. ASSUME NEW u \in Tasks, u # t
        PROVE  u \notin Running' /\ Acts(u)'
    <3>1. pc'[u] = pc[u] /\ reply'[u] = reply[u] /\ u \notin Running
      BY <1>d, <2>1 DEF Keeps
    <3>2. pc[u] \in {"idle", "done", "error"} /\ reply[u].kind \notin {"list", "created", "duplicate"}
      BY <1>c, <3>1
    <3> QED
      BY <3>1, <3>2 DEF Running, Ended
  <2>2. \A u, v \in Running' : u = v
    BY <2>1 DEF Running
  <2>3. \A u \in Tasks : Acts(u)'
    BY <1>d, <2>1
  <2> QED
    BY <1>d, <2>2, <2>3 DEF EmptyIsTrue, Running
<1>e. ASSUME \A q \in Queries : cache'[q] \in {None, cache[q]},
             Cached, DOMAIN netbox' \subseteq DOMAIN netbox
      PROVE  Cached'
  BY <1>e
<1>1. ASSUME NEW t \in Tasks, Start(t)
      PROVE  EmptyIsTrue'
  <2>1. /\ Keeps(t) /\ pc[t] = "idle" /\ UNCHANGED <<netbox, cache, reply, op>>
        /\ op[t] # "create" => pc'[t] \in {"find", "list"}
        /\ overlap' = (overlap \/ \E u \in Tasks \ {t} : pc[u] \notin {"idle"} \cup Ended)
    BY <1>1, StartEffect
  <2>2. \A u \in Tasks \ {t} : u \notin Running
    BY <2>1 DEF Undisturbed, Running
  <2>3. reply[t].kind \notin {"list", "created", "duplicate"} /\ t \notin Running
    BY <2>1 DEF StagesFit, Running
  <2>4. Acts(t)'
    BY <1>0, <2>1, <2>3 DEF Undisturbed
  <2>5. ~Pending
    BY <1>c, <2>2, <2>3
  <2> QED
    BY <1>a, <1>d, <2>1, <2>2, <2>4, <2>5
<1>2. ASSUME NEW t \in Tasks, pc[t] \notin {"idle"} \cup Ended
      PROVE  /\ \A u \in Tasks \ {t} : u \notin Running
             /\ \A u \in Tasks \ {t} : reply[u].kind # "created"
  <2>1. t \in Running
    BY <1>2 DEF Running
  <2> QED
    BY <1>b, <1>c, <2>1
<1>3. ASSUME NEW t \in Tasks, Hit(t) \/ Listed(t)
      PROVE  EmptyIsTrue'
  <2>1. Keeps(t) /\ UNCHANGED netbox /\ \E records \in Snapshot : TakesList(t, records)
    BY <1>3, ReadEffect
  <2>2. PICK records \in Snapshot : TakesList(t, records)
    BY <2>1
  <2>3. pc[t] \in GetStages /\ reply'[t].kind = "none"
    BY <2>2 DEF TakesList
  <2>4. /\ \A u \in Tasks \ {t} : u \notin Running
        /\ \A u \in Tasks \ {t} : reply[u].kind # "created"
    BY <1>2, <2>3 DEF Ended
  <2>5. Cached
    <3>1. reply[t].kind # "created"
      BY <2>3 DEF StagesFit
    <3> QED
      BY <1>a, <2>4, <3>1
  <2>6. DOMAIN records = {} => DOMAIN netbox = {}
    <3>1. CASE records = cache[QueryOf(t)]
      <4>1. records # None /\ QueryOf(t) \in Queries
        BY ReconcileConstants, QueryTyped
      <4> QED
        BY <2>5, <3>1, <4>1
    <3>2. CASE records = reply[t].records /\ reply[t].kind = "list"
      BY <1>a, <3>2
    <3> QED
      BY <2>2, <3>1, <3>2 DEF TakesList
  <2>7. Cached'
    BY <2>1, <2>2, <2>5, <2>6 DEF TakesList
  <2>8. pc'[t] \in PostStages => DOMAIN records = {}
    BY <2>2 DEF TakesList
  <2>9. Acts(t)'
    BY <2>1, <2>3, <2>6, <2>8
  <2> QED
    BY <1>a, <1>d, <2>1, <2>4, <2>7, <2>9
<1>4. ASSUME NEW t \in Tasks, Ask(t)
      PROVE  EmptyIsTrue'
  <2>1. /\ Keeps(t) /\ UNCHANGED <<netbox, cache, pc>> /\ pc[t] \in GetStages
        /\ reply[t].kind = "none" /\ (reply'[t].records = netbox \/ veiled' # {})
    BY <1>4, AskEffect
  <2>2. /\ \A u \in Tasks \ {t} : u \notin Running
        /\ \A u \in Tasks \ {t} : reply[u].kind # "created"
    BY <1>2, <2>1 DEF Ended
  <2>3. Cached'
    BY <1>a, <2>1, <2>2
  <2>4. Acts(t)'
    BY <2>1 DEF Undisturbed
  <2> QED
    BY <1>a, <1>d, <2>1, <2>2, <2>3, <2>4
<1>5. ASSUME NEW t \in Tasks, Post(t)
      PROVE  EmptyIsTrue'
  <2>1. /\ Keeps(t) /\ pc[t] \in PostStages /\ reply[t].kind = "none"
        /\ \/ DOMAIN netbox # {}
           \/ /\ reply'[t].kind = "created"
              /\ \E id \in Ids : DOMAIN netbox' = DOMAIN netbox \cup {id}
    BY <1>5, PostEffect
  <2>2. DOMAIN netbox = {}
    BY <1>a, <2>1
  <2>3. /\ \A u \in Tasks \ {t} : u \notin Running
    BY <1>2, <2>1 DEF Ended
  <2>4. One' /\ Acts(t)' /\ Pending'
    BY <2>1, <2>2
  <2> QED
    BY <1>d, <2>1, <2>3, <2>4
<1>6. ASSUME NEW t \in Tasks, Created(t)
      PROVE  EmptyIsTrue'
  <2>1. /\ Keeps(t) /\ UNCHANGED netbox /\ pc[t] \in PostStages /\ pc'[t] = "done"
        /\ reply'[t].kind = "none" /\ \A q \in Queries : cache'[q] = None
    BY <1>6, CreatedEffect
  <2>2. /\ \A u \in Tasks \ {t} : u \notin Running
    BY <1>2, <2>1 DEF Ended
  <2>3. One' /\ Acts(t)' /\ Cached'
    BY <1>a, <2>1
  <2> QED
    BY <1>d, <2>1, <2>2, <2>3
<1>7. ASSUME NEW t \in Tasks, Duplicate(t)
      PROVE  EmptyIsTrue'
  <2>1. /\ Keeps(t) /\ UNCHANGED netbox /\ pc'[t] \in {"find", "refind", "error"}
        /\ reply[t].kind = "duplicate" /\ reply'[t].kind = "none"
        /\ \A q \in Queries : cache'[q] \in {None, cache[q]}
    BY <1>7, DuplicateEffect
  <2>2. pc[t] \in PostStages
    BY <2>1 DEF StagesFit
  <2>3. /\ \A u \in Tasks \ {t} : u \notin Running
        /\ \A u \in Tasks \ {t} : reply[u].kind # "created"
    BY <1>2, <2>2 DEF Ended
  <2>4. Cached
    BY <1>a, <2>1, <2>3
  <2>5. One' /\ Acts(t)' /\ Cached'
    BY <1>a, <1>e, <2>1, <2>4
  <2> QED
    BY <1>d, <2>1, <2>3, <2>5
<1>8. ASSUME NEW t \in Tasks, Patch(t) \/ BulkPatch(t)
      PROVE  EmptyIsTrue'
  <2>1. /\ Keeps(t) /\ DOMAIN netbox' = DOMAIN netbox /\ UNCHANGED reply /\ pc[t] \in PatchStages
        /\ pc'[t] \in {"done", "error", "patch", "bulkpatch"}
        /\ \A q \in Queries : cache'[q] \in {None, cache[q]}
    BY <1>8, PatchEffect
  <2>2. reply[t].kind \notin {"list", "created", "duplicate"}
    BY <2>1 DEF StagesFit
  <2>3. /\ \A u \in Tasks \ {t} : u \notin Running
        /\ \A u \in Tasks \ {t} : reply[u].kind # "created"
    BY <1>2, <2>1 DEF Ended
  <2>4. Cached
    BY <1>a, <2>2, <2>3
  <2>5. One' /\ Acts(t)' /\ Cached'
    BY <1>a, <1>e, <2>1, <2>2, <2>4
  <2> QED
    BY <1>d, <2>1, <2>3, <2>5
<1>9. ASSUME UNCHANGED <<pc, reply>>, DOMAIN netbox' \subseteq DOMAIN netbox,
             \A q \in Queries : cache'[q] \in {None, cache[q]}
      PROVE  EmptyIsTrue'
  <2>1. One' /\ (\A t \in Tasks : Acts(t)') /\ (~Pending' => Cached')
    BY <1>a, <1>e, <1>9
  <2>2. Running' = Running
    BY <1>9 DEF Running
  <2> QED
    BY <1>a, <2>1, <2>2 DEF EmptyIsTrue
<1>10. CASE OthersCreate \/ OthersChange \/ OthersDelete
  <2>1. edits["create"] = 0 /\ edits'["create"] = 0
    BY <1>0 DEF Undisturbed
  <2>2. DOMAIN netbox' \subseteq DOMAIN netbox /\ UNCHANGED <<pc, reply, cache>>
    BY <1>10, <2>1, OthersEffect
  <2> QED
    BY <1>9, <2>2
<1>11. CASE Expire \/ \E i \in Ids : Appear(i)
  BY <1>9, <1>11, ExpireEffect
<1>12. CASE UNCHANGED vars
  BY <1>9, <1>12 DEF vars, server
<1> QED
  BY <1>0, <1>1, <1>3, <1>4, <1>5, <1>6, <1>7, <1>8, <1>10, <1>11, <1>12 DEF Next, Step

\* Tasks that run one after the other, and that all look before they create, leave one
\* record as long as no list leaves one out, whatever the GET cache holds: a write drops
\* the lists cached before it.
THEOREM DuplicatesHaveReasons == Spec => []NoNeedlessDuplicate
<1> DEFINE IInv == TypeOK /\ StagesFit /\ EmptyIsTrue
<1>1. Init => IInv
  <2> SUFFICES ASSUME Init PROVE EmptyIsTrue
    BY InitTyped
  <2>1. \A i, j \in DOMAIN netbox : i = j
    <3>1. CASE netbox = Empty
      BY <3>1, EmptyTyped
    <3>2. CASE \E v \in Payloads : netbox = With(Empty, Least(Ids), v)
      BY <3>2, EmptyTyped DEF With
    <3> QED
      BY <3>1, <3>2 DEF Init
  <2>2. \A t \in Tasks : pc[t] = "idle" /\ reply[t].kind = "none"
    BY NoReplyIs DEF Init
  <2>3. \A q \in Queries : cache[q] = None
    BY DEF Init
  <2> QED
    BY <2>1, <2>2, <2>3 DEF EmptyIsTrue, Running, PostStages
<1>2. IInv /\ [Next]_vars => IInv'
  BY FitStep, EmptyStep
<1>3. IInv => NoNeedlessDuplicate
  <2> SUFFICES ASSUME IInv, Undisturbed
               PROVE  Cardinality(DOMAIN netbox) <= 1
    BY DEF NoNeedlessDuplicate, Undisturbed
  <2>1. \A i, j \in DOMAIN netbox : i = j
    BY DEF EmptyIsTrue
  <2>2. CASE DOMAIN netbox = {}
    BY <2>2, FS_EmptySet
  <2>3. CASE DOMAIN netbox # {}
    <3>1. PICK i : DOMAIN netbox = {i}
      BY <2>1, <2>3
    <3>2. Cardinality({i}) = 1
      BY FS_Singleton
    <3> QED
      BY <3>1, <3>2
  <2> QED
    BY <2>2, <2>3
<1> QED
  BY <1>1, <1>2, <1>3, PTL DEF Spec
=============================================================================

------------------------------- MODULE VmSync -------------------------------
(***************************************************************************)
(* The virtual machines of a full update: _run_full_update_vm_batch of     *)
(* sync_vm.py, the reconciliation queue, the sync-state sidecars and the   *)
(* orphan sweep.  A run lists the guests of Proxmox, fetches and prepares  *)
(* them, takes a snapshot of NetBox, finds the record of each guest        *)
(* through its sidecar row, resolves the names, dispatches the operations  *)
(* concurrently, stamps each synchronised record with the run and with the *)
(* guest's identity, and after the other stages deletes the records that   *)
(* carry another run's stamp.  Several runs may be active.                 *)
(*                                                                         *)
(* The setting custom_fields_enabled is off, its default: the sidecar rows *)
(* are the only identity.  All guests have the same name in Proxmox and    *)
(* belong to one NetBox cluster, so a name in NetBox is the number of its  *)
(* suffix: 1 for "gateway", 2 for "gateway (2)".  Operators edit nothing.  *)
(* The GET cache (60 s) holds a list of rows within a run, but the lists   *)
(* of an earlier run have expired, and a row whose write fails is not      *)
(* written.                                                                *)
(*                                                                         *)
(* External: Proxmox; NetBox, which keeps the names of a cluster unique,   *)
(* never reuses an id and deletes a record's sidecar row with the record.  *)
(***************************************************************************)
EXTENDS Naturals, FiniteSets

CONSTANTS
    LastVm,     \* the guests are the VMIDs 1..LastVm
    Run,        \* the full updates
    MaxId,      \* bound: records ever created
    MaxActive,  \* bound: full updates at a time
    MaxFaults,  \* bound: requests that fail, runs that are broken off
    None

VM == 1..LastVm
Ids == 1..MaxId
Names == 1..(MaxId + LastVm)

ASSUME VmSyncConstants ==
    /\ LastVm \in Nat \ {0} /\ MaxId \in Nat \ {0}
    /\ MaxActive \in Nat /\ MaxFaults \in Nat
    /\ None \notin VM \cup Ids \cup Run

VARIABLES
    name,       \* NetBox: id -> the record's name, 0 if there is no such record
    origin,     \* history: id -> the guest it was created for
    row,        \* NetBox: id -> its sidecar row, the identity and the last run
    nextId,     \* NetBox: the id of the next record
    pc,         \* run -> its stage
    listed,     \* history: run -> the guests that Proxmox listed
    op,         \* run -> guest -> how far its operation is
    target,     \* run -> guest -> the record found for it
    want,       \* run -> guest -> the name of its desired payload
    snap,       \* run -> id -> the record's name in the snapshot
    absent,     \* run -> the guests for which Hydrate read an empty list of rows
    cand,       \* run -> candidates of the sweep
    swept,      \* history: run -> the records it deleted, with their identities
    faults,     \* history: requests that failed
    overlapped  \* history: two runs were active at the same time

netbox == <<name, origin, row, nextId>>
batch == <<op, target, want, snap, absent>>
sweep == <<cand, swept>>
vars == <<netbox, pc, batch, sweep, faults, overlapped, listed>>

Row == [vm : VM \cup {None}, run : Run \cup {None}]
NoRow == [vm |-> None, run |-> None]
Ended == {"done", "aborted"}
Stage == {"idle", "snapshot", "hydrate", "dispatch", "stamp", "scan", "check", "delete"}
             \cup Ended
Queued == {"get", "create", "post", "update"}
OpState == {"none", "fetched", "known", "resolved", "stamped", "synced", "failed"} \cup Queued

TypeOK ==
    /\ name \in [Ids -> Names \cup {0}] /\ origin \in [Ids -> VM \cup {None}]
    /\ row \in [Ids -> Row] /\ nextId \in 1..(MaxId + 1)
    /\ pc \in [Run -> Stage]
    /\ op \in [Run -> [VM -> OpState]]
    /\ target \in [Run -> [VM -> Ids \cup {None}]]
    /\ want \in [Run -> [VM -> Names \cup {0}]]
    /\ snap \in [Run -> [Ids -> Names \cup {0}]]
    /\ absent \in [Run -> SUBSET VM]
    /\ cand \in [Run -> SUBSET Ids]
    /\ swept \in [Run -> SUBSET (Ids \X (VM \cup {None}))]
    /\ faults \in 0..MaxFaults /\ overlapped \in BOOLEAN
    /\ listed \in [Run -> SUBSET VM]

Init ==
    /\ name = [i \in Ids |-> 0] /\ origin = [i \in Ids |-> None]
    /\ row = [i \in Ids |-> NoRow] /\ nextId = 1
    /\ pc = [r \in Run |-> "idle"]
    /\ op = [r \in Run |-> [v \in VM |-> "none"]]
    /\ target = [r \in Run |-> [v \in VM |-> None]]
    /\ want = [r \in Run |-> [v \in VM |-> 0]]
    /\ snap = [r \in Run |-> [i \in Ids |-> 0]]
    /\ absent = [r \in Run |-> {}]
    /\ cand = [r \in Run |-> {}] /\ swept = [r \in Run |-> {}]
    /\ faults = 0 /\ overlapped = FALSE /\ listed = [r \in Run |-> {}]

Active == {r \in Run : pc[r] \notin Ended \cup {"idle"}}
Exists(i) == name[i] # 0
Taken(n, i) == \E j \in Ids \ {i} : name[j] = n

\* A request fails, or its answer is lost: one of the bounded number of faults.
Fault == faults < MaxFaults /\ faults' = faults + 1
NoFault == UNCHANGED faults
Goto(r, p) == pc' = [pc EXCEPT ![r] = p]
SetOp(r, v, s) == op' = [op EXCEPT ![r][v] = s]

-----------------------------------------------------------------------------
\* The batch: fetch, snapshot, identities, names, queue.

\* Mutant: a guest whose configuration could not be fetched is forgotten.
StartForgetful(r) ==
    /\ pc[r] = "idle" /\ Cardinality(Active) < MaxActive
    /\ \E found \in SUBSET VM : \E prepared \in SUBSET found :
          /\ listed' = [listed EXCEPT ![r] = found]
          /\ op' = [op EXCEPT ![r] = [v \in VM |->
                        IF v \in prepared THEN "fetched" ELSE "none"]]
          /\ Goto(r, IF prepared = {} THEN "scan" ELSE "snapshot")
    /\ overlapped' = (overlapped \/ Active # {})
    /\ UNCHANGED <<netbox, target, want, snap, absent, sweep, faults>>

\* The run lists the guests, fetches their configurations and prepares them; a guest for
\* which that fails is counted as failed.
Start(r) ==
    /\ pc[r] = "idle" /\ Cardinality(Active) < MaxActive
    /\ \E found \in SUBSET VM : \E prepared \in SUBSET found :
          /\ listed' = [listed EXCEPT ![r] = found]
          /\ op' = [op EXCEPT ![r] = [v \in VM |->
                        IF v \in prepared THEN "fetched"
                        ELSE IF v \in found THEN "failed" ELSE "none"]]
          /\ Goto(r, IF prepared = {} THEN "scan" ELSE "snapshot")
    /\ overlapped' = (overlapped \/ Active # {})
    /\ UNCHANGED <<netbox, target, want, snap, absent, sweep, faults>>

\* _load_netbox_virtual_machine_snapshot, past the GET cache.
Snapshot(r) ==
    /\ pc[r] = "snapshot"
    /\ snap' = [snap EXCEPT ![r] = name]
    /\ Goto(r, "hydrate")
    /\ UNCHANGED <<netbox, op, target, want, absent, sweep, faults, overlapped, listed>>

\* The records whose sidecar row names the guest.
Bound(v) == {i \in Ids : row[i].vm = v}

\* Mutant: the record that has the guest's name is the guest's.
HydrateByName(r, v) ==
    /\ pc[r] = "hydrate" /\ op[r][v] = "fetched"
    /\ \E i \in Ids \cup {None} :
          /\ IF i = None THEN \A j \in Ids : snap[r][j] # 1 ELSE snap[r][i] = 1
          /\ target' = [target EXCEPT ![r][v] = i]
    /\ SetOp(r, v, "known")
    /\ UNCHANGED <<netbox, pc, want, snap, absent, sweep, faults, overlapped, listed>>

\* _hydrate_vm_snapshot_with_sidecar_identity for one guest: a unique row gives the record,
\* which joins the snapshot.  No row, several rows or a failed read leave the guest without.
Hydrate(r, v) ==
    /\ pc[r] = "hydrate" /\ op[r][v] = "fetched"
    /\ SetOp(r, v, "known")
    /\ \/ \E i \in Ids :
             /\ Bound(v) = {i}
             /\ target' = [target EXCEPT ![r][v] = i]
             /\ snap' = [snap EXCEPT ![r][i] = IF @ = 0 THEN name[i] ELSE @]
             /\ NoFault /\ UNCHANGED absent
       \/ /\ Bound(v) = {} /\ NoFault
          /\ absent' = [absent EXCEPT ![r] = @ \cup {v}]
          /\ UNCHANGED <<target, snap>>
       \/ /\ (Cardinality(Bound(v)) > 1 /\ NoFault) \/ Fault
          /\ UNCHANGED <<target, snap, absent>>
    /\ UNCHANGED <<netbox, pc, want, sweep, overlapped, listed>>

\* _pick_suffix: the first free number.
PickSuffix(used) == CHOOSE n \in Names : n \notin used /\ \A m \in 1..(n - 1) : m \in used

Known(r) == {v \in VM : op[r][v] = "known"}

\* The names of the snapshot that no record of the batch has.
OtherNames(r) ==
    {snap[r][i] : i \in Ids} \ {snap[r][target[r][v]] : v \in {w \in Known(r) : target[r][w] # None}}

\* Mutant: the names given to the guests before are not avoided.
ResolvedAlike(r, f) ==
    \A v \in VM : f[v] = IF v \in Known(r) THEN PickSuffix(OtherNames(r)) ELSE 0

\* The name pre-pass takes the guests by VMID.
Resolved(r, f) ==
    \A v \in VM :
        f[v] = IF v \in Known(r)
               THEN PickSuffix(OtherNames(r) \cup {f[w] : w \in Known(r) \cap 1..(v - 1)})
               ELSE 0

\* build_vm_operation_queue: without a record CREATE, with another name UPDATE, else GET.
Classify(r, v, n) ==
    CASE v \notin Known(r) -> op[r][v]
      [] v \in Known(r) /\ target[r][v] = None -> "create"
      [] v \in Known(r) /\ target[r][v] # None ->
             IF snap[r][target[r][v]] # n THEN "update" ELSE "get"

BuildQueue(r) ==
    /\ pc[r] = "hydrate" /\ \A v \in VM : op[r][v] # "fetched"
    /\ \E f \in [VM -> Names \cup {0}] :
          /\ Resolved(r, f)
          /\ want' = [want EXCEPT ![r] = f]
          /\ op' = [op EXCEPT ![r] = [v \in VM |-> Classify(r, v, f[v])]]
    /\ Goto(r, "dispatch")
    /\ UNCHANGED <<netbox, target, snap, absent, sweep, faults, overlapped, listed>>

-----------------------------------------------------------------------------
\* _dispatch_vm_operation_queue: the operations of a run interleave.

Step(r, v, s) == pc[r] = "dispatch" /\ op[r][v] = s

\* GET: the record of the snapshot.  An update of other fields is refused if the record
\* is gone, and may fail.
Keep(r, v) ==
    /\ Step(r, v, "get")
    /\ \/ SetOp(r, v, "resolved") /\ NoFault
       \/ SetOp(r, v, "failed") /\ (Fault \/ (~Exists(target[r][v]) /\ NoFault))
    /\ UNCHANGED <<netbox, pc, target, want, snap, absent, sweep, overlapped, listed>>

\* Mutant: an identity that cannot be read is taken for absent.
ResolveHopeful(r, v) ==
    /\ Step(r, v, "create")
    /\ \/ /\ (Bound(v) = {} /\ NoFault) \/ Fault
          /\ SetOp(r, v, "post") /\ UNCHANGED target
       \/ \E i \in Ids :
             /\ Bound(v) = {i} /\ NoFault
             /\ target' = [target EXCEPT ![r][v] = i]
             /\ SetOp(r, v, "update")
       \/ /\ Cardinality(Bound(v)) > 1 /\ NoFault
          /\ SetOp(r, v, "failed") /\ UNCHANGED target
    /\ UNCHANGED <<netbox, pc, want, snap, absent, sweep, overlapped, listed>>

\* CREATE looks the identity up once more, with the query of Hydrate, whose empty list the
\* GET cache may still hold.  It creates only a guest that is verifiably absent, and fails
\* if several rows name it or the rows cannot be read.
ResolveCreate(r, v) ==
    /\ Step(r, v, "create")
    /\ \/ /\ Bound(v) = {} \/ v \in absent[r]
          /\ NoFault
          /\ SetOp(r, v, "post") /\ UNCHANGED target
       \/ \E i \in Ids :
             /\ Bound(v) = {i} /\ NoFault
             /\ target' = [target EXCEPT ![r][v] = i]
             /\ SetOp(r, v, "update")
       \/ /\ (Cardinality(Bound(v)) > 1 /\ NoFault) \/ Fault
          /\ SetOp(r, v, "failed") /\ UNCHANGED target
    /\ UNCHANGED <<netbox, pc, want, snap, absent, sweep, overlapped, listed>>

Insert(v, n) ==
    /\ name' = [name EXCEPT ![nextId] = n]
    /\ origin' = [origin EXCEPT ![nextId] = v]
    /\ nextId' = nextId + 1 /\ UNCHANGED row

\* rest_create_async.  NetBox refuses a name that is taken.  When the answer is lost, the
\* lookup by custom fields finds nothing and the repeated POST meets the name.
Post(r, v) ==
    /\ Step(r, v, "post") /\ nextId <= MaxId
    /\ \/ /\ ~Taken(want[r][v], 0) /\ NoFault
          /\ Insert(v, want[r][v])
          /\ target' = [target EXCEPT ![r][v] = nextId] /\ SetOp(r, v, "resolved")
       \/ /\ ~Taken(want[r][v], 0) /\ Fault
          /\ Insert(v, want[r][v])
          /\ SetOp(r, v, "failed") /\ UNCHANGED target
       \/ /\ (Taken(want[r][v], 0) /\ NoFault) \/ Fault
          /\ SetOp(r, v, "failed") /\ UNCHANGED <<netbox, target>>
    /\ UNCHANGED <<pc, want, snap, absent, sweep, overlapped, listed>>

Renamed(i, n) == name' = [name EXCEPT ![i] = n]

\* UPDATE, or the reconcile of a record that CREATE has found: a PATCH, which NetBox
\* refuses if the record is gone or the name is another record's.
Update(r, v) ==
    /\ Step(r, v, "update")
    /\ LET i == target[r][v] IN
       \/ /\ Exists(i) /\ ~Taken(want[r][v], i)
          /\ Renamed(i, want[r][v])
          /\ (SetOp(r, v, "resolved") /\ NoFault) \/ (SetOp(r, v, "failed") /\ Fault)
       \/ /\ ((~Exists(i) \/ Taken(want[r][v], i)) /\ NoFault) \/ Fault
          /\ SetOp(r, v, "failed") /\ UNCHANGED name
    /\ UNCHANGED <<origin, row, nextId, pc, target, want, snap, absent, sweep, overlapped, listed>>

\* asyncio.gather has all the operations.
Gathered(r) ==
    /\ pc[r] = "dispatch" /\ \A v \in VM : op[r][v] \notin Queued
    /\ Goto(r, "stamp")
    /\ UNCHANGED <<netbox, batch, sweep, faults, overlapped, listed>>

-----------------------------------------------------------------------------
\* Stamps: one guest after the other, each with two best-effort writes to its row.

InTurn(r) == pc[r] = "stamp" /\ \A v \in VM : op[r][v] # "stamped"

\* stamp_vm_last_run_id
Stamp(r, v) ==
    /\ InTurn(r) /\ op[r][v] = "resolved"
    /\ SetOp(r, v, "stamped")
    /\ \/ Exists(target[r][v]) /\ NoFault /\ row' = [row EXCEPT ![target[r][v]].run = r]
       \/ ((~Exists(target[r][v]) /\ NoFault) \/ Fault) /\ UNCHANGED row
    /\ UNCHANGED <<name, origin, nextId, pc, target, want, snap, absent, sweep, overlapped, listed>>

\* write_virtual_machine_sync_state
Identify(r, v) ==
    /\ pc[r] = "stamp" /\ op[r][v] = "stamped"
    /\ SetOp(r, v, "synced")
    /\ \/ Exists(target[r][v]) /\ NoFault /\ row' = [row EXCEPT ![target[r][v]].vm = v]
       \/ ((~Exists(target[r][v]) /\ NoFault) \/ Fault) /\ UNCHANGED row
    /\ UNCHANGED <<name, origin, nextId, pc, target, want, snap, absent, sweep, overlapped, listed>>

EndBatch(r) ==
    /\ InTurn(r) /\ \A v \in VM : op[r][v] # "resolved"
    /\ Goto(r, "scan")
    /\ UNCHANGED <<netbox, batch, sweep, faults, overlapped, listed>>

-----------------------------------------------------------------------------
\* The orphan sweep.

\* delete_orphans is off.
NoSweep(r) ==
    /\ pc[r] = "scan"
    /\ Goto(r, "done")
    /\ UNCHANGED <<netbox, batch, sweep, faults, overlapped, listed>>

Stale(r) == {i \in Ids : row[i] # NoRow /\ row[i].run # r}

\* find_orphan_vms: the rows with another stamp whose record can be read.  If the rows
\* cannot be read, no record is a candidate.
Scan(r) ==
    /\ pc[r] = "scan"
    /\ \E found \in SUBSET Stale(r) :
          /\ cand' = [cand EXCEPT ![r] = found]
          /\ (found = Stale(r) /\ NoFault) \/ (found # Stale(r) /\ Fault)
    /\ Goto(r, "check")
    /\ UNCHANGED <<netbox, batch, swept, overlapped, listed>>

\* extract_touched_vm_ids
Touched(r) == {target[r][v] : v \in {w \in VM : op[r][w] = "synced"}}

\* Mutant: the candidates are trusted.
CheckNothing(r) ==
    /\ pc[r] = "check"
    /\ Goto(r, "delete")
    /\ UNCHANGED <<netbox, batch, sweep, faults, overlapped, listed>>

\* _abort_for_touched_candidates; a dry run only reports the candidates.
Check(r) ==
    /\ pc[r] = "check"
    /\ IF cand[r] \cap Touched(r) # {} THEN Goto(r, "aborted")
       ELSE Goto(r, "delete") \/ Goto(r, "done")
    /\ UNCHANGED <<netbox, batch, sweep, faults, overlapped, listed>>

Removed(r, i) ==
    /\ name' = [name EXCEPT ![i] = 0]
    /\ row' = [row EXCEPT ![i] = NoRow]
    /\ swept' = [swept EXCEPT ![r] = @ \cup {<<i, row[i].vm>>}]

\* delete_orphan_vms, one candidate: a record that is gone is skipped; any other error ends
\* the sweep, also when the deletion took place.
Delete(r, i) ==
    /\ pc[r] = "delete" /\ i \in cand[r]
    /\ cand' = [cand EXCEPT ![r] = @ \ {i}]
    /\ \/ Exists(i) /\ Removed(r, i) /\ ((NoFault /\ UNCHANGED pc) \/ (Fault /\ Goto(r, "aborted")))
       \/ ~Exists(i) /\ NoFault /\ UNCHANGED <<name, row, swept, pc>>
       \/ Fault /\ Goto(r, "aborted") /\ UNCHANGED <<name, row, swept>>
    /\ UNCHANGED <<origin, nextId, batch, overlapped, listed>>

EndSweep(r) ==
    /\ pc[r] = "delete" /\ cand[r] = {}
    /\ Goto(r, "done")
    /\ UNCHANGED <<netbox, batch, sweep, faults, overlapped, listed>>

\* The snapshot or another stage fails, the process stops.
Abort(r) ==
    /\ r \in Active /\ Fault
    /\ Goto(r, "aborted")
    /\ UNCHANGED <<netbox, batch, sweep, overlapped, listed>>

-----------------------------------------------------------------------------
Next ==
    \E r \in Run :
        \/ Start(r) \/ Snapshot(r) \/ BuildQueue(r) \/ Gathered(r) \/ EndBatch(r)
        \/ NoSweep(r) \/ Scan(r) \/ Check(r) \/ EndSweep(r) \/ Abort(r)
        \/ \E v \in VM :
              \/ Hydrate(r, v) \/ Keep(r, v) \/ ResolveCreate(r, v) \/ Post(r, v)
              \/ Update(r, v) \/ Stamp(r, v) \/ Identify(r, v)
        \/ \E i \in Ids : Delete(r, i)

Spec == Init /\ [][Next]_vars

-----------------------------------------------------------------------------
\* The sweep never deletes a record its own run has synchronised, whatever stamps were
\* lost or overwritten by another run in the meantime.
SweepSparesSynced ==
    \A r \in Run : \A d \in swept[r] : d[1] \notin Touched(r)

\* No run ever binds a record to another guest than the one it was created for.
BoundToItsGuest ==
    \A i \in Ids : row[i].vm \in {None, origin[i]}

\* Runs that do not overlap never bind two records to one guest, whatever requests fail
\* and wherever a run is broken off: no guest becomes ambiguous.
IdentityUnique ==
    ~overlapped => \A v \in VM : Cardinality(Bound(v)) <= 1

\* A run that was alone deletes the record of a guest only if Proxmox did not list the
\* guest, or the run counted it as failed.
SweepExplained ==
    ~overlapped => \A r \in Run : \A d \in swept[r] :
        d[2] \in listed[r] => op[r][d[2]] = "failed"

\* The names of a batch let its records coexist: in a run that is alone and meets no
\* fault, NetBox refuses a guest the name it was given only if the record of another guest
\* of the batch held that name in the snapshot, so that the two operations may come in the
\* wrong order; never because two guests of the batch were given one name, or because a
\* record outside the batch has it (sync_vm.py 720-869).
NamesCoexist ==
    ~overlapped /\ faults = 0 => \A r \in Run : pc[r] = "stamp" =>
        \A v \in VM : want[r][v] # 0 /\ op[r][v] = "failed" =>
            \E w \in VM \ {v} :
                target[r][w] # None /\ snap[r][target[r][w]] = want[r][v]
=============================================================================

---------------------------- MODULE VmSyncProofs ----------------------------
(***************************************************************************)
(* Proofs about VmSync, for any number of guests, records and runs, active *)
(* at the same time or not, and for any requests that fail; then, for runs *)
(* that do not overlap, that guests stay unambiguous, that every deletion  *)
(* of a sweep has a reason, and that the names of a batch coexist.         *)
(***************************************************************************)
EXTENDS VmSync, FiniteSetTheorems, TLAPS

\* A run has a record for every guest whose operation is past finding one.
HasTarget ==
    \A r \in Run : \A v \in VM :
        op[r][v] \in {"get", "update", "resolved", "stamped", "synced"} => target[r][v] # None

\* Ids that NetBox has not given out have neither a record nor a row.
FreshIds ==
    \A i \in Ids : i >= nextId => row[i] = NoRow

\* A run never holds another guest's record for a guest.
TargetsMatch ==
    \A r \in Run : \A v \in VM :
        target[r][v] # None => target[r][v] < nextId /\ origin[target[r][v]] = v

\* A sweep that deletes has been compared with what its run synchronised, and nothing has
\* been deleted before.
SweepChecked ==
    \A r \in Run :
        /\ pc[r] = "delete" => cand[r] \cap Touched(r) = {}
        /\ swept[r] # {} => pc[r] \in {"delete", "done", "aborted"}

BindingInv == TypeOK /\ HasTarget /\ FreshIds /\ TargetsMatch /\ BoundToItsGuest

-----------------------------------------------------------------------------
\* What an update of one entry of a table of tables gives.
LEMMA EntryTyped ==
    ASSUME NEW R, NEW V, NEW S, NEW f \in [R -> [V -> S]],
           NEW r \in R, NEW v \in V, NEW s \in S
    PROVE  /\ [f EXCEPT ![r][v] = s] \in [R -> [V -> S]]
           /\ \A q \in R : \A w \in V :
                 [f EXCEPT ![r][v] = s][q][w] = IF q = r /\ w = v THEN s ELSE f[q][w]
OBVIOUS

\* A fault is counted within its bound.
LEMMA FaultsTyped ==
    ASSUME TypeOK, Fault \/ NoFault
    PROVE  faults' \in 0..MaxFaults
BY VmSyncConstants DEF TypeOK, Fault, NoFault

\* Where a run and an operation may go.
LEMMA GotoTyped ==
    ASSUME TypeOK, NEW r \in Run, NEW p \in Stage, Goto(r, p)
    PROVE  /\ pc' \in [Run -> Stage]
           /\ \A q \in Run : pc'[q] = IF q = r THEN p ELSE pc[q]
BY DEF TypeOK, Goto

LEMMA OpTyped ==
    ASSUME TypeOK, NEW r \in Run, NEW v \in VM, NEW s \in OpState, SetOp(r, v, s)
    PROVE  /\ op' \in [Run -> [VM -> OpState]]
           /\ \A q \in Run : \A w \in VM :
                 op'[q][w] = IF q = r /\ w = v THEN s ELSE op[q][w]
<1>1. op \in [Run -> [VM -> OpState]]
  BY DEF TypeOK
<1>2. op' = [op EXCEPT ![r][v] = s]
  BY DEF SetOp
<1> QED
  BY <1>1, <1>2, EntryTyped

\* A run that takes a record for a guest.
LEMMA TargetTyped ==
    ASSUME TypeOK, NEW r \in Run, NEW v \in VM, NEW i \in Ids,
           target' = [target EXCEPT ![r][v] = i]
    PROVE  /\ target' \in [Run -> [VM -> Ids \cup {None}]]
           /\ \A q \in Run : \A w \in VM :
                 target'[q][w] = IF q = r /\ w = v THEN i ELSE target[q][w]
BY EntryTyped DEF TypeOK

\* The two writes to a row.
LEMMA RowTyped ==
    ASSUME NEW x \in Row
    PROVE  /\ \A r \in Run : [x EXCEPT !.run = r] \in Row /\ [x EXCEPT !.run = r].vm = x.vm
           /\ \A v \in VM : [x EXCEPT !.vm = v] \in Row /\ [x EXCEPT !.vm = v].vm = v
BY DEF Row

LEMMA StampTyped ==
    ASSUME TypeOK, NEW r \in Run, NEW i \in Ids, row' = [row EXCEPT ![i].run = r]
    PROVE  /\ row' \in [Ids -> Row]
           /\ \A j \in Ids : row'[j].vm = row[j].vm /\ (j # i => row'[j] = row[j])
<1>1. [row[i] EXCEPT !.run = r] \in Row /\ [row[i] EXCEPT !.run = r].vm = row[i].vm
  <2>1. row[i] \in Row
    BY DEF TypeOK
  <2> QED
    BY <2>1, RowTyped
<1>2. row' = [row EXCEPT ![i] = [row[i] EXCEPT !.run = r]] /\ row \in [Ids -> Row]
  BY DEF TypeOK
<1>3. row' \in [Ids -> Row] /\ row'[i] = [row[i] EXCEPT !.run = r]
  BY <1>1, <1>2
<1>4. \A j \in Ids : j # i => row'[j] = row[j]
  BY <1>2
<1>5. row'[i].vm = row[i].vm
  BY <1>1, <1>3
<1> QED
  BY <1>3, <1>4, <1>5

LEMMA IdentifyTyped ==
    ASSUME TypeOK, NEW v \in VM, NEW i \in Ids, row' = [row EXCEPT ![i].vm = v]
    PROVE  /\ row' \in [Ids -> Row]
           /\ row'[i].vm = v /\ \A j \in Ids : j # i => row'[j] = row[j]
<1>1. [row[i] EXCEPT !.vm = v] \in Row /\ [row[i] EXCEPT !.vm = v].vm = v
  <2>1. row[i] \in Row
    BY DEF TypeOK
  <2> QED
    BY <2>1, RowTyped
<1>2. row' = [row EXCEPT ![i] = [row[i] EXCEPT !.vm = v]] /\ row \in [Ids -> Row]
  BY DEF TypeOK
<1>3. row' \in [Ids -> Row] /\ row'[i] = [row[i] EXCEPT !.vm = v]
  BY <1>1, <1>2
<1>4. \A j \in Ids : j # i => row'[j] = row[j]
  BY <1>2
<1> QED
  BY <1>1, <1>3, <1>4

\* The types are kept by every step of a run.
LEMMA TypeStep ==
    TypeOK /\ [Next]_vars => TypeOK'
<1> SUFFICES ASSUME TypeOK, [Next]_vars PROVE TypeOK'
  OBVIOUS
<1> USE DEF netbox, batch, sweep
<1>1. CASE UNCHANGED vars
  BY <1>1 DEF vars, TypeOK
<1>2. ASSUME NEW r \in Run, Start(r) PROVE TypeOK'
  BY <1>2 DEF Start, Active, TypeOK, Goto, Stage, OpState
<1>3. ASSUME NEW r \in Run, Snapshot(r) PROVE TypeOK'
  BY <1>3 DEF Snapshot, TypeOK, Goto, Stage
<1>4. ASSUME NEW r \in Run, BuildQueue(r) PROVE TypeOK'
  <2>1. PICK f \in [VM -> Names \cup {0}] :
          /\ want' = [want EXCEPT ![r] = f]
          /\ op' = [op EXCEPT ![r] = [v \in VM |-> Classify(r, v, f[v])]]
    BY <1>4 DEF BuildQueue
  <2>2. \A v \in VM : Classify(r, v, f[v]) \in OpState
    BY DEF Classify, TypeOK, OpState, Queued
  <2> QED
    BY <1>4, <2>1, <2>2 DEF BuildQueue, TypeOK, Goto, Stage
<1>5. ASSUME NEW r \in Run, Gathered(r) \/ EndBatch(r) \/ NoSweep(r) \/ Check(r) \/ EndSweep(r)
      PROVE TypeOK'
  BY <1>5 DEF Gathered, EndBatch, NoSweep, Check, EndSweep, TypeOK, Goto, Stage, Ended
<1>6. ASSUME NEW r \in Run, Abort(r) PROVE TypeOK'
  BY <1>6, FaultsTyped DEF Abort, TypeOK, Goto, Stage, Ended
<1>7. ASSUME NEW r \in Run, Scan(r) PROVE TypeOK'
  BY <1>7, FaultsTyped DEF Scan, Stale, TypeOK, Goto, Stage
<1>8. ASSUME NEW r \in Run, NEW v \in VM, Hydrate(r, v) PROVE TypeOK'
  <2>1. op' \in [Run -> [VM -> OpState]]
    BY <1>8, OpTyped DEF Hydrate, OpState
  <2>2. faults' \in 0..MaxFaults
    BY <1>8, FaultsTyped DEF Hydrate
  <2>3. target' \in [Run -> [VM -> Ids \cup {None}]] /\ snap' \in [Run -> [Ids -> Names \cup {0}]]
    <3>1. ASSUME NEW i \in Ids, target' = [target EXCEPT ![r][v] = i],
                 snap' = [snap EXCEPT ![r][i] = IF @ = 0 THEN name[i] ELSE @]
          PROVE <2>3!1 /\ <2>3!2
      BY <3>1, TargetTyped DEF TypeOK
    <3> QED
      BY <1>8, <3>1 DEF Hydrate, TypeOK
  <2>4. absent' \in [Run -> SUBSET VM]
    BY <1>8 DEF Hydrate, TypeOK
  <2> QED
    BY <1>8, <2>1, <2>2, <2>3, <2>4 DEF Hydrate, TypeOK
<1>9. ASSUME NEW r \in Run, NEW v \in VM, Keep(r, v) PROVE TypeOK'
  <2>1. op' \in [Run -> [VM -> OpState]]
    BY <1>9, OpTyped DEF Keep, OpState
  <2>2. faults' \in 0..MaxFaults
    BY <1>9, FaultsTyped DEF Keep
  <2> QED
    BY <1>9, <2>1, <2>2 DEF Keep, TypeOK
<1>10. ASSUME NEW r \in Run, NEW v \in VM, ResolveCreate(r, v) PROVE TypeOK'
  <2>1. op' \in [Run -> [VM -> OpState]]
    BY <1>10, OpTyped DEF ResolveCreate, OpState, Queued
  <2>2. faults' \in 0..MaxFaults
    BY <1>10, FaultsTyped DEF ResolveCreate
  <2>3. target' \in [Run -> [VM -> Ids \cup {None}]]
    BY <1>10, TargetTyped DEF ResolveCreate, TypeOK
  <2> QED
    BY <1>10, <2>1, <2>2, <2>3 DEF ResolveCreate, TypeOK
<1>11. ASSUME NEW r \in Run, NEW v \in VM, Post(r, v) PROVE TypeOK'
  <2>1. op' \in [Run -> [VM -> OpState]]
    BY <1>11, OpTyped DEF Post, OpState
  <2>2. faults' \in 0..MaxFaults
    BY <1>11, FaultsTyped DEF Post
  <2>3. nextId \in Ids
    BY <1>11, VmSyncConstants DEF Post, TypeOK, Ids
  <2>4. target' \in [Run -> [VM -> Ids \cup {None}]]
    BY <1>11, <2>3, TargetTyped DEF Post, TypeOK
  <2>5. want[r][v] \in Names \cup {0}
    BY DEF TypeOK
  <2>6. nextId + 1 \in 1..(MaxId + 1)
    BY <2>3, VmSyncConstants DEF Ids
  <2>7. /\ name' \in [Ids -> Names \cup {0}] /\ origin' \in [Ids -> VM \cup {None}]
        /\ row' \in [Ids -> Row] /\ nextId' \in 1..(MaxId + 1)
    BY <1>11, <2>5, <2>6 DEF Post, Insert, TypeOK
  <2> QED
    BY <1>11, <2>1, <2>2, <2>4, <2>7 DEF Post, TypeOK
<1>12. ASSUME NEW r \in Run, NEW v \in VM, Update(r, v) PROVE TypeOK'
  <2>1. op' \in [Run -> [VM -> OpState]]
    BY <1>12, OpTyped DEF Update, OpState
  <2>2. faults' \in 0..MaxFaults
    BY <1>12, FaultsTyped DEF Update
  <2>3. want[r][v] \in Names \cup {0}
    BY DEF TypeOK
  <2>4. name' \in [Ids -> Names \cup {0}]
    BY <1>12, <2>3 DEF Update, Renamed, TypeOK
  <2> QED
    BY <1>12, <2>1, <2>2, <2>4 DEF Update, TypeOK
<1>13. ASSUME NEW r \in Run, NEW v \in VM, Stamp(r, v) \/ Identify(r, v) PROVE TypeOK'
  <2>1. op' \in [Run -> [VM -> OpState]]
    BY <1>13, OpTyped DEF Stamp, Identify, OpState
  <2>2. faults' \in 0..MaxFaults
    BY <1>13, FaultsTyped DEF Stamp, Identify
  <2>3. row' \in [Ids -> Row]
    BY <1>13, StampTyped, IdentifyTyped DEF Stamp, Identify, TypeOK
  <2> QED
    BY <1>13, <2>1, <2>2, <2>3 DEF Stamp, Identify, TypeOK
<1>14. ASSUME NEW r \in Run, NEW i \in Ids, Delete(r, i) PROVE TypeOK'
  <2>1. pc' \in [Run -> Stage]
    BY <1>14 DEF Delete, TypeOK, Goto, Stage, Ended
  <2>2. faults' \in 0..MaxFaults
    BY <1>14, FaultsTyped DEF Delete
  <2>3. row[i].vm \in VM \cup {None}
    BY DEF TypeOK, Row
  <2>4. swept' \in [Run -> SUBSET (Ids \X (VM \cup {None}))]
    BY <1>14, <2>3 DEF Delete, Removed, TypeOK
  <2>5. NoRow \in Row
    BY DEF NoRow, Row
  <2>6. name' \in [Ids -> Names \cup {0}]
    BY <1>14 DEF Delete, Removed, TypeOK
  <2>7. row' \in [Ids -> Row]
    BY <1>14, <2>5 DEF Delete, Removed, TypeOK
  <2> QED
    BY <1>14, <2>1, <2>2, <2>4, <2>6, <2>7 DEF Delete, TypeOK
<1> QED
  BY <1>1, <1>2, <1>3, <1>4, <1>5, <1>6, <1>7, <1>8, <1>9, <1>10, <1>11, <1>12, <1>13, <1>14 DEF Next

-----------------------------------------------------------------------------
\* The records of a run stay those of its guests, and so do the identities in the rows.
LEMMA BindingStep ==
    BindingInv /\ [Next]_vars => BindingInv'
<1> SUFFICES ASSUME BindingInv, [Next]_vars PROVE BindingInv'
  OBVIOUS
<1> USE DEF netbox, batch, sweep
<1>0. TypeOK /\ TypeOK'
  BY TypeStep DEF BindingInv
<1>a. ASSUME UNCHANGED <<origin, row, nextId, target>>, HasTarget' PROVE BindingInv'
  BY <1>0, <1>a DEF BindingInv, FreshIds, TargetsMatch, BoundToItsGuest
<1>b. ASSUME UNCHANGED <<origin, row, nextId, target, op>> PROVE BindingInv'
  BY <1>a, <1>b DEF BindingInv, HasTarget
<1>1. CASE UNCHANGED vars
  BY <1>1, <1>b DEF vars
<1>2. ASSUME NEW r \in Run, Start(r) PROVE BindingInv'
  <2>1. \A q \in Run : \A w \in VM :
          op'[q][w] = op[q][w] \/ op'[q][w] \in {"fetched", "failed", "none"}
    BY <1>0, <1>2 DEF Start, TypeOK
  <2>2. UNCHANGED <<origin, row, nextId, target>>
    BY <1>2 DEF Start
  <2> QED
    BY <1>a, <2>1, <2>2 DEF BindingInv, HasTarget
<1>3. ASSUME NEW r \in Run, Snapshot(r) PROVE BindingInv'
  BY <1>3, <1>b DEF Snapshot
<1>4. ASSUME NEW r \in Run, BuildQueue(r) PROVE BindingInv'
  <2>1. PICK f \in [VM -> Names \cup {0}] :
          op' = [op EXCEPT ![r] = [v \in VM |-> Classify(r, v, f[v])]]
    BY <1>4 DEF BuildQueue
  <2>2. \A v \in VM : \/ Classify(r, v, f[v]) = op[r][v]
                      \/ Classify(r, v, f[v]) = "create"
                      \/ target[r][v] # None
    BY DEF Classify
  <2>3. \A q \in Run : \A w \in VM :
          op'[q][w] = IF q = r THEN Classify(r, w, f[w]) ELSE op[q][w]
    BY <1>0, <2>1 DEF TypeOK
  <2>4. UNCHANGED <<origin, row, nextId, target>>
    BY <1>4 DEF BuildQueue
  <2>5. HasTarget'
    BY <2>2, <2>3, <2>4 DEF BindingInv, HasTarget
  <2> QED
    BY <1>a, <2>4, <2>5
<1>5. ASSUME NEW r \in Run, Gathered(r) \/ EndBatch(r) \/ NoSweep(r) \/ Scan(r) \/ Check(r)
               \/ EndSweep(r) \/ Abort(r)
      PROVE BindingInv'
  BY <1>5, <1>b DEF Gathered, EndBatch, NoSweep, Scan, Check, EndSweep, Abort
<1>c. ASSUME NEW r \in Run, NEW v \in VM, NEW i \in Ids, Bound(v) = {i}
      PROVE  origin[i] = v /\ i < nextId
  <2>1. row[i].vm = v
    BY <1>c DEF Bound
  <2>2. row[i] # NoRow /\ v # None
    BY <2>1, VmSyncConstants DEF NoRow
  <2> QED
    BY <1>0, <2>1, <2>2 DEF BindingInv, BoundToItsGuest, FreshIds, TypeOK, Ids
<1>d. ASSUME NEW r \in Run, NEW v \in VM, NEW i \in Ids, NEW s \in OpState,
             Bound(v) = {i}, target' = [target EXCEPT ![r][v] = i], SetOp(r, v, s),
             UNCHANGED <<origin, row, nextId>>
      PROVE  BindingInv'
  <2>1. origin[i] = v /\ i < nextId
    BY <1>c, <1>d
  <2>2. \A q \in Run : \A w \in VM :
          target'[q][w] = IF q = r /\ w = v THEN i ELSE target[q][w]
    BY <1>0, <1>d, TargetTyped
  <2>3. \A q \in Run : \A w \in VM :
          op'[q][w] = IF q = r /\ w = v THEN s ELSE op[q][w]
    BY <1>0, <1>d, OpTyped
  <2>4. i # None
    BY VmSyncConstants
  <2>5. HasTarget'
    BY <2>2, <2>3, <2>4 DEF BindingInv, HasTarget
  <2>6. TargetsMatch'
    BY <1>d, <2>1, <2>2 DEF BindingInv, TargetsMatch
  <2> QED
    BY <1>0, <1>d, <2>5, <2>6 DEF BindingInv, FreshIds, BoundToItsGuest
<1>e. ASSUME NEW r \in Run, NEW v \in VM, NEW s \in OpState, SetOp(r, v, s),
             s \notin {"get", "update", "resolved", "stamped", "synced"} \/ target[r][v] # None,
             UNCHANGED <<origin, row, nextId, target>>
      PROVE  BindingInv'
  <2>1. \A q \in Run : \A w \in VM :
          op'[q][w] = IF q = r /\ w = v THEN s ELSE op[q][w]
    BY <1>0, <1>e, OpTyped
  <2>2. HasTarget'
    BY <1>e, <2>1 DEF BindingInv, HasTarget
  <2> QED
    BY <1>a, <1>e, <2>2
<1>6. ASSUME NEW r \in Run, NEW v \in VM, Hydrate(r, v) PROVE BindingInv'
  BY <1>6, <1>d, <1>e DEF Hydrate, OpState
<1>7. ASSUME NEW r \in Run, NEW v \in VM, Keep(r, v) PROVE BindingInv'
  <2>1. target[r][v] # None
    BY <1>7 DEF Keep, Step, BindingInv, HasTarget
  <2> QED
    BY <1>7, <1>e, <2>1 DEF Keep, OpState
<1>8. ASSUME NEW r \in Run, NEW v \in VM, ResolveCreate(r, v) PROVE BindingInv'
  BY <1>8, <1>d, <1>e DEF ResolveCreate, OpState, Queued
<1>9. ASSUME NEW r \in Run, NEW v \in VM, Post(r, v) PROVE BindingInv'
  <2>1. nextId \in Ids /\ nextId # None
    BY <1>0, <1>9, VmSyncConstants DEF Post, TypeOK, Ids
  <2>2. ASSUME Insert(v, want[r][v]), NEW s \in {"resolved", "failed"}, SetOp(r, v, s),
               \/ target' = [target EXCEPT ![r][v] = nextId]
               \/ s = "failed" /\ UNCHANGED target
        PROVE  BindingInv'
    <3>1. origin' = [origin EXCEPT ![nextId] = v] /\ nextId' = nextId + 1 /\ row' = row
      BY <2>2 DEF Insert
    <3>2. \A q \in Run : \A w \in VM :
            target'[q][w] = target[q][w] \/ (q = r /\ w = v /\ target'[q][w] = nextId)
      BY <1>0, <2>1, <2>2, TargetTyped
    <3>3. \A q \in Run : \A w \in VM :
            op'[q][w] = IF q = r /\ w = v THEN s ELSE op[q][w]
      BY <1>0, <2>2, OpTyped DEF OpState
    <3>4. s # "failed" => target'[r][v] = nextId
      BY <1>0, <2>1, <2>2, TargetTyped
    <3>5. HasTarget'
      BY <2>1, <2>2, <3>2, <3>3, <3>4 DEF BindingInv, HasTarget
    <3>6. \A i \in Ids : origin'[i] = IF i = nextId THEN v ELSE origin[i]
      BY <1>0, <3>1 DEF TypeOK
    <3>7. TargetsMatch'
      <4> SUFFICES ASSUME NEW q \in Run, NEW w \in VM, target'[q][w] # None
                   PROVE  target'[q][w] < nextId' /\ origin'[target'[q][w]] = w
        BY DEF TargetsMatch
      <4>1. target'[q][w] \in Ids
        BY <1>0 DEF TypeOK
      <4>2. CASE target'[q][w] = target[q][w]
        BY <1>0, <3>1, <3>6, <4>1, <4>2 DEF BindingInv, TargetsMatch, TypeOK, Ids
      <4>3. CASE q = r /\ w = v /\ target'[q][w] = nextId
        BY <1>0, <2>1, <3>1, <3>6, <4>3 DEF TypeOK, Ids
      <4> QED
        BY <3>2, <4>2, <4>3
    <3>8. FreshIds'
      BY <1>0, <3>1 DEF BindingInv, FreshIds, TypeOK, Ids
    <3>9. BoundToItsGuest'
      <4>1. row[nextId].vm = None
        BY <1>0, <2>1 DEF BindingInv, FreshIds, NoRow, TypeOK, Ids
      <4> QED
        BY <3>1, <3>6, <4>1 DEF BindingInv, BoundToItsGuest
    <3> QED
      BY <1>0, <3>5, <3>7, <3>8, <3>9 DEF BindingInv
  <2> QED
    BY <1>9, <1>e, <2>2 DEF Post, OpState
<1>10. ASSUME NEW r \in Run, NEW v \in VM, Update(r, v) PROVE BindingInv'
  <2>1. target[r][v] # None
    BY <1>10 DEF Update, Step, BindingInv, HasTarget
  <2> QED
    BY <1>10, <1>e, <2>1 DEF Update, OpState
<1>f. ASSUME NEW r \in Run, NEW v \in VM, NEW s \in {"stamped", "synced"}, SetOp(r, v, s),
             target[r][v] # None, UNCHANGED <<origin, nextId, target>>,
             \/ row' = [row EXCEPT ![target[r][v]].run = r]
             \/ row' = [row EXCEPT ![target[r][v]].vm = v]
             \/ UNCHANGED row
      PROVE  BindingInv'
  <2> DEFINE i == target[r][v]
  <2>1. i \in Ids /\ i < nextId /\ origin[i] = v
    BY <1>0, <1>f DEF BindingInv, TargetsMatch, TypeOK
  <2>2. \A q \in Run : \A w \in VM :
          op'[q][w] = IF q = r /\ w = v THEN s ELSE op[q][w]
    BY <1>0, <1>f, OpTyped DEF OpState
  <2>3. HasTarget'
    BY <1>f, <2>2 DEF BindingInv, HasTarget
  <2>4. /\ \A j \in Ids : j # i => row'[j] = row[j]
        /\ row'[i].vm \in {row[i].vm, v}
    BY <1>0, <1>f, <2>1, StampTyped, IdentifyTyped
  <2>5. BoundToItsGuest'
    BY <1>f, <2>1, <2>4 DEF BindingInv, BoundToItsGuest
  <2>6. FreshIds'
    BY <1>0, <1>f, <2>1, <2>4 DEF BindingInv, FreshIds, TypeOK, Ids
  <2>7. TargetsMatch'
    BY <1>f DEF BindingInv, TargetsMatch
  <2> QED
    BY <1>0, <2>3, <2>5, <2>6, <2>7 DEF BindingInv
<1>11. ASSUME NEW r \in Run, NEW v \in VM, Stamp(r, v) \/ Identify(r, v) PROVE BindingInv'
  <2>1. target[r][v] # None
    BY <1>11 DEF Stamp, Identify, BindingInv, HasTarget
  <2> QED
    BY <1>11, <1>f, <2>1 DEF Stamp, Identify
<1>12. ASSUME NEW r \in Run, NEW i \in Ids, Delete(r, i) PROVE BindingInv'
  <2>1. \A j \in Ids : row'[j] = row[j] \/ row'[j] = NoRow
    BY <1>0, <1>12 DEF Delete, Removed, TypeOK
  <2>2. UNCHANGED <<origin, nextId, target, op>>
    BY <1>12 DEF Delete
  <2>3. NoRow.vm = None
    BY DEF NoRow
  <2> QED
    BY <1>0, <2>1, <2>2, <2>3 DEF BindingInv, HasTarget, TargetsMatch, FreshIds, BoundToItsGuest
<1> QED
  BY <1>1, <1>2, <1>3, <1>4, <1>5, <1>6, <1>7, <1>8, <1>9, <1>10, <1>11, <1>12 DEF Next

LEMMA InitTyped == Init => TypeOK
<1> SUFFICES ASSUME Init PROVE TypeOK
  OBVIOUS
<1>1. NoRow \in Row
  BY DEF NoRow, Row
<1>2. 1 \in 1..(MaxId + 1) /\ 0 \in 0..MaxFaults
  BY VmSyncConstants
<1>3. "idle" \in Stage /\ "none" \in OpState
  BY DEF Stage, OpState
<1> QED
  BY <1>1, <1>2, <1>3 DEF Init, TypeOK

\* Type correctness of NetBox, the runs and their sweeps.
THEOREM TypeCorrect == Spec => []TypeOK
BY InitTyped, TypeStep, PTL DEF Spec

\* No run ever binds a record to another guest, however runs overlap and requests fail:
\* identities are found only through rows, and a row is written for the guest its record
\* was created for.
THEOREM RecordsKeepTheirGuest == Spec => []BoundToItsGuest
<1>1. Init => BindingInv
  BY InitTyped DEF Init, BindingInv, HasTarget, FreshIds, TargetsMatch, BoundToItsGuest, NoRow
<1>2. BindingInv => BoundToItsGuest
  BY DEF BindingInv
<1> QED
  BY <1>1, <1>2, BindingStep, PTL DEF Spec
-----------------------------------------------------------------------------
\* The sweep.

SweepInv == TypeOK /\ SweepChecked /\ SweepSparesSynced

\* Once a run sweeps, what it has synchronised does not change, and the candidates have
\* been compared with it.
LEMMA SweepStep ==
    SweepInv /\ [Next]_vars => SweepInv'
<1> SUFFICES ASSUME SweepInv, [Next]_vars PROVE SweepInv'
  OBVIOUS
<1> USE DEF netbox, batch, sweep
<1>0. TypeOK /\ TypeOK'
  BY TypeStep DEF SweepInv
<1>a. ASSUME NEW r \in Run, pc[r] \notin {"delete", "done", "aborted"},
             pc'[r] # "delete", UNCHANGED swept,
             \A q \in Run : q # r => /\ pc'[q] = pc[q] /\ op'[q] = op[q]
                                    /\ target'[q] = target[q] /\ cand'[q] = cand[q]
      PROVE  SweepInv'
  <2>1. \A q \in Run : q # r => Touched(q)' = Touched(q)
    BY <1>a DEF Touched
  <2>2. swept[r] = {}
    BY <1>a DEF SweepInv, SweepChecked
  <2>3. SweepChecked'
    BY <1>a, <2>1, <2>2 DEF SweepInv, SweepChecked
  <2>4. SweepSparesSynced'
    BY <1>a, <2>1, <2>2 DEF SweepInv, SweepSparesSynced
  <2> QED
    BY <1>0, <2>3, <2>4 DEF SweepInv
<1>b. ASSUME UNCHANGED <<op, target>> PROVE \A q \in Run : Touched(q)' = Touched(q)
  BY <1>b DEF Touched
<1>1. CASE UNCHANGED vars
  BY <1>0, <1>1, <1>b DEF vars, SweepInv, SweepChecked, SweepSparesSynced
<1>2. ASSUME NEW r \in Run, Start(r) PROVE SweepInv'
  BY <1>0, <1>2, <1>a DEF Start, Goto, TypeOK
<1>3. ASSUME NEW r \in Run, Snapshot(r) \/ BuildQueue(r) \/ Gathered(r) \/ EndBatch(r)
               \/ NoSweep(r) \/ Scan(r)
      PROVE SweepInv'
  <2>1. pc[r] \in {"snapshot", "hydrate", "dispatch", "stamp", "scan"} /\ UNCHANGED swept
    BY <1>3 DEF Snapshot, BuildQueue, Gathered, EndBatch, NoSweep, Scan, InTurn
  <2>2. pc'[r] # "delete" /\ \A q \in Run : q # r => pc'[q] = pc[q]
    BY <1>0, <1>3 DEF Snapshot, BuildQueue, Gathered, EndBatch, NoSweep, Scan, Goto, TypeOK
  <2>3. \A q \in Run : q # r => /\ op'[q] = op[q] /\ target'[q] = target[q]
                                /\ cand'[q] = cand[q]
    BY <1>0, <1>3 DEF Snapshot, BuildQueue, Gathered, EndBatch, NoSweep, Scan, TypeOK
  <2> QED
    BY <1>a, <2>1, <2>2, <2>3
<1>4. ASSUME NEW r \in Run, NEW v \in VM,
             Hydrate(r, v) \/ Keep(r, v) \/ ResolveCreate(r, v) \/ Post(r, v) \/ Update(r, v)
               \/ Stamp(r, v) \/ Identify(r, v)
      PROVE SweepInv'
  <2>1. pc[r] \in {"hydrate", "dispatch", "stamp"} /\ UNCHANGED <<pc, cand, swept>>
    BY <1>4 DEF Hydrate, Keep, ResolveCreate, Post, Update, Stamp, Identify, Step, InTurn
  <2>2. \A q \in Run : q # r => op'[q] = op[q]
    BY <1>0, <1>4 DEF Hydrate, Keep, ResolveCreate, Post, Update, Stamp, Identify, SetOp, TypeOK
  <2>3. \A q \in Run : q # r => target'[q] = target[q]
    BY <1>0, <1>4 DEF Hydrate, Keep, ResolveCreate, Post, Update, Stamp, Identify, TypeOK
  <2> QED
    BY <1>a, <2>1, <2>2, <2>3
<1>5. ASSUME NEW r \in Run, Check(r) PROVE SweepInv'
  <2>1. \A q \in Run : Touched(q)' = Touched(q)
    BY <1>5, <1>b DEF Check
  <2>2. UNCHANGED <<cand, swept>> /\ \A q \in Run : q # r => pc'[q] = pc[q]
    BY <1>0, <1>5 DEF Check, Goto, TypeOK
  <2>3. pc[r] = "check" /\ (pc'[r] = "delete" => cand[r] \cap Touched(r) = {})
    BY <1>0, <1>5 DEF Check, Goto, TypeOK
  <2> QED
    BY <1>0, <2>1, <2>2, <2>3 DEF SweepInv, SweepChecked, SweepSparesSynced
<1>6. ASSUME NEW r \in Run, EndSweep(r) \/ Abort(r) PROVE SweepInv'
  <2>1. \A q \in Run : Touched(q)' = Touched(q)
    BY <1>6, <1>b DEF EndSweep, Abort
  <2>2. /\ UNCHANGED <<cand, swept>> /\ pc'[r] \in {"done", "aborted"}
        /\ \A q \in Run : q # r => pc'[q] = pc[q]
    BY <1>0, <1>6 DEF EndSweep, Abort, Goto, TypeOK
  <2> QED
    BY <1>0, <2>1, <2>2 DEF SweepInv, SweepChecked, SweepSparesSynced
<1>7. ASSUME NEW r \in Run, NEW i \in Ids, Delete(r, i) PROVE SweepInv'
  <2>1. \A q \in Run : Touched(q)' = Touched(q)
    BY <1>7, <1>b DEF Delete
  <2>2. /\ pc[r] = "delete" /\ i \in cand[r] /\ pc'[r] \in {"delete", "aborted"}
        /\ \A q \in Run : q # r => pc'[q] = pc[q]
    BY <1>0, <1>7 DEF Delete, Goto, TypeOK
  <2>3. \A q \in Run : cand'[q] \subseteq cand[q]
    BY <1>0, <1>7 DEF Delete, TypeOK
  <2>4. /\ \A q \in Run : q # r => swept'[q] = swept[q]
        /\ \A d \in swept'[r] : d \in swept[r] \/ d[1] = i
    BY <1>0, <1>7 DEF Delete, Removed, TypeOK
  <2>5. i \notin Touched(r)
    BY <2>2 DEF SweepInv, SweepChecked
  <2>6. SweepChecked'
    BY <2>1, <2>2, <2>3, <2>4 DEF SweepInv, SweepChecked
  <2>7. SweepSparesSynced'
    BY <2>1, <2>4, <2>5 DEF SweepInv, SweepSparesSynced
  <2> QED
    BY <1>0, <2>6, <2>7 DEF SweepInv
<1> QED
  BY <1>1, <1>2, <1>3, <1>4, <1>5, <1>6, <1>7 DEF Next

\* No sweep deletes a record that its own run has synchronised, whatever stamps are lost
\* or overwritten by other runs: the comparison with the run's results protects them.
THEOREM OwnRecordsAreSafe == Spec => []SweepSparesSynced
<1>1. Init => SweepInv
  BY InitTyped DEF Init, SweepInv, SweepChecked, SweepSparesSynced, Touched
<1>2. SweepInv => SweepSparesSynced
  BY DEF SweepInv
<1> QED
  BY <1>1, <1>2, SweepStep, PTL DEF Spec
-----------------------------------------------------------------------------
(***************************************************************************)
(* Runs that do not overlap.                                               *)
(***************************************************************************)

\* How far the operations are at each stage of a run, that every guest Proxmox listed has
\* one, and that no guest is absent whose rows have not been read.
StagesMatch ==
    \A r \in Run : \A v \in VM :
        /\ pc[r] = "idle" => op[r][v] = "none" /\ target[r][v] = None
        /\ pc[r] = "snapshot" => op[r][v] \in {"none", "fetched", "failed"} /\ target[r][v] = None
        /\ pc[r] = "hydrate" => op[r][v] \in {"none", "fetched", "known", "failed"}
        /\ pc[r] = "dispatch" => op[r][v] \in {"none", "resolved", "failed"} \cup Queued
        /\ pc[r] = "stamp" => op[r][v] \in {"none", "resolved", "stamped", "synced", "failed"}
        /\ pc[r] \in {"scan", "check", "delete"} => op[r][v] \in {"none", "synced", "failed"}
        /\ pc[r] \notin Ended \cup {"idle"} /\ v \in listed[r] => op[r][v] # "none"
        /\ op[r][v] \in {"none", "fetched"} => v \notin absent[r]

OneActive == \A r, q \in Active : r = q

\* A guest that the run is about to create, or that it read as absent and has not created.
HeldAbsent(r, v) ==
    op[r][v] = "post" \/ (v \in absent[r] /\ op[r][v] \in {"known", "create"})

\* What a run that is alone knows of a guest stays true: the record it holds is the only
\* one bound to the guest, and a guest it holds to be absent is bound to none.
KnowsGuest ==
    \A r \in Run : pc[r] \notin Ended => \A v \in VM :
        /\ target[r][v] # None => Bound(v) \subseteq {target[r][v]}
        /\ HeldAbsent(r, v) => Bound(v) = {}

RowsUnique == \A v \in VM : \A i, j \in Bound(v) : i = j

AloneInv == ~overlapped => OneActive /\ KnowsGuest /\ RowsUnique

\* The steps of one run.
StepOf(r) ==
    \/ Start(r) \/ Snapshot(r) \/ BuildQueue(r) \/ Gathered(r) \/ EndBatch(r)
    \/ NoSweep(r) \/ Scan(r) \/ Check(r) \/ EndSweep(r) \/ Abort(r)
    \/ \E v \in VM :
          \/ Hydrate(r, v) \/ Keep(r, v) \/ ResolveCreate(r, v) \/ Post(r, v)
          \/ Update(r, v) \/ Stamp(r, v) \/ Identify(r, v)
    \/ \E i \in Ids : Delete(r, i)

\* Every step is one of them.
LEMMA StepOfARun ==
    ASSUME Next
    PROVE  \E r \in Run : StepOf(r)
BY DEF Next, StepOf

\* A run's state is its own, and only Start makes it active.
LEMMA StepFrame ==
    ASSUME TypeOK, NEW r \in Run, StepOf(r)
    PROVE  /\ \A q \in Run : q # r =>
                 /\ pc'[q] = pc[q] /\ op'[q] = op[q] /\ target'[q] = target[q]
                 /\ want'[q] = want[q] /\ snap'[q] = snap[q] /\ absent'[q] = absent[q]
                 /\ cand'[q] = cand[q] /\ swept'[q] = swept[q] /\ listed'[q] = listed[q]
           /\ pc[r] \notin Ended
           /\ Start(r) \/ (pc[r] # "idle" /\ UNCHANGED <<overlapped, listed>>)
<1> USE DEF netbox, batch, sweep
<1> DEFINE Kept(f, g) == \A q \in Run : q # r => f[q] = g[q]
           Frame == /\ Kept(pc', pc) /\ Kept(op', op) /\ Kept(target', target)
                    /\ Kept(want', want) /\ Kept(snap', snap) /\ Kept(absent', absent)
                    /\ Kept(cand', cand) /\ Kept(swept', swept) /\ Kept(listed', listed)
                    /\ pc[r] \notin Ended
                    /\ Start(r) \/ (pc[r] # "idle" /\ UNCHANGED <<overlapped, listed>>)
<1>1. CASE Start(r)
  BY <1>1 DEF Start, Goto, TypeOK, Ended
<1>2. CASE \/ Snapshot(r) \/ Gathered(r) \/ EndBatch(r) \/ NoSweep(r) \/ Check(r)
           \/ EndSweep(r) \/ Abort(r)
  BY <1>2 DEF Snapshot, Gathered, EndBatch, NoSweep, Check, EndSweep, Abort, Active, InTurn,
              Goto, TypeOK, Ended
<1>3. CASE BuildQueue(r)
  BY <1>3 DEF BuildQueue, Goto, TypeOK, Ended
<1>4. CASE Scan(r)
  BY <1>4 DEF Scan, Goto, TypeOK, Ended
<1>a. ASSUME NEW v \in VM, NEW s, SetOp(r, v, s)
      PROVE  Kept(op', op)
  BY <1>a DEF SetOp, TypeOK
<1>b. ASSUME NEW v \in VM, NEW i, target' = [target EXCEPT ![r][v] = i]
      PROVE  Kept(target', target)
  BY <1>b DEF TypeOK
<1>5. ASSUME NEW v \in VM, Hydrate(r, v)
      PROVE  Frame
  <2>1. Kept(op', op) /\ Kept(target', target)
    BY <1>5, <1>a, <1>b DEF Hydrate
  <2>2. Kept(snap', snap) /\ Kept(absent', absent)
    BY <1>5 DEF Hydrate, TypeOK
  <2> QED
    BY <1>5, <2>1, <2>2 DEF Hydrate, Ended
<1>6. ASSUME NEW v \in VM,
             Keep(r, v) \/ ResolveCreate(r, v) \/ Post(r, v) \/ Update(r, v)
      PROVE  Frame
  <2>1. Kept(op', op)
    BY <1>6, <1>a DEF Keep, ResolveCreate, Post, Update
  <2>2. Kept(target', target)
    BY <1>6, <1>b DEF Keep, ResolveCreate, Post, Update
  <2>3. /\ pc[r] = "dispatch"
        /\ UNCHANGED <<pc, want, snap, absent, cand, swept, listed, overlapped>>
    BY <1>6 DEF Keep, ResolveCreate, Post, Update, Step
  <2> QED
    BY <2>1, <2>2, <2>3 DEF Ended
<1>7. ASSUME NEW v \in VM, Stamp(r, v) \/ Identify(r, v)
      PROVE  Frame
  <2>1. Kept(op', op)
    BY <1>7, <1>a DEF Stamp, Identify
  <2> QED
    BY <1>7, <2>1 DEF Stamp, Identify, InTurn, Ended
<1>8. ASSUME NEW i \in Ids, Delete(r, i)
      PROVE  Frame
  BY <1>8 DEF Delete, Removed, Goto, TypeOK, Ended
<1>9. Frame
  BY <1>1, <1>2, <1>3, <1>4, <1>5, <1>6, <1>7, <1>8 DEF StepOf
<1> QED
  BY <1>9

\* What a step does to the run that takes it.
LEMMA StageStep ==
    ASSUME TypeOK, StagesMatch, NEW r \in Run, StepOf(r)
    PROVE  StagesMatch'
<1> USE DEF netbox, batch, sweep
<1>0. \A q \in Run : q # r =>
          /\ pc'[q] = pc[q] /\ op'[q] = op[q] /\ target'[q] = target[q]
          /\ listed'[q] = listed[q] /\ absent'[q] = absent[q]
  BY StepFrame
<1> DEFINE Matches(q, v) ==
        /\ pc[q] = "idle" => op[q][v] = "none" /\ target[q][v] = None
        /\ pc[q] = "snapshot" => op[q][v] \in {"none", "fetched", "failed"} /\ target[q][v] = None
        /\ pc[q] = "hydrate" => op[q][v] \in {"none", "fetched", "known", "failed"}
        /\ pc[q] = "dispatch" => op[q][v] \in {"none", "resolved", "failed"} \cup Queued
        /\ pc[q] = "stamp" => op[q][v] \in {"none", "resolved", "stamped", "synced", "failed"}
        /\ pc[q] \in {"scan", "check", "delete"} => op[q][v] \in {"none", "synced", "failed"}
        /\ pc[q] \notin Ended \cup {"idle"} /\ v \in listed[q] => op[q][v] # "none"
        /\ op[q][v] \in {"none", "fetched"} => v \notin absent[q]
<1>a. ASSUME \A v \in VM : Matches(r, v)'
      PROVE  StagesMatch'
  BY <1>0, <1>a DEF StagesMatch
<1>1. CASE Start(r)
  BY <1>1, <1>a DEF Start, Goto, TypeOK, Ended, StagesMatch
<1>2. CASE Snapshot(r) \/ NoSweep(r) \/ Scan(r) \/ Check(r) \/ EndSweep(r) \/ Abort(r)
  <2>1. UNCHANGED <<op, target, listed, absent>>
    BY <1>2 DEF Snapshot, NoSweep, Scan, Check, EndSweep, Abort
  <2>2. \/ pc[r] = "snapshot" /\ pc'[r] = "hydrate"
        \/ pc[r] = "scan" /\ pc'[r] = "check"
        \/ pc[r] = "check" /\ pc'[r] = "delete"
        \/ pc'[r] \in Ended
    BY <1>2 DEF Snapshot, NoSweep, Scan, Check, EndSweep, Abort, Goto, TypeOK, Ended
  <2> QED
    BY <1>a, <2>1, <2>2 DEF StagesMatch, Ended
<1>3. CASE Gathered(r) \/ EndBatch(r)
  <2>1. UNCHANGED <<op, target, listed, absent>>
    BY <1>3 DEF Gathered, EndBatch
  <2>2. \/ pc[r] = "dispatch" /\ pc'[r] = "stamp" /\ \A v \in VM : op[r][v] \notin Queued
        \/ /\ pc[r] = "stamp" /\ pc'[r] = "scan"
           /\ \A v \in VM : op[r][v] \notin {"stamped", "resolved"}
    BY <1>3 DEF Gathered, EndBatch, InTurn, Goto, TypeOK
  <2> QED
    BY <1>a, <2>1, <2>2 DEF StagesMatch, Ended
<1>4. CASE BuildQueue(r)
  <2>1. PICK f \in [VM -> Names \cup {0}] :
          op' = [op EXCEPT ![r] = [v \in VM |-> Classify(r, v, f[v])]]
    BY <1>4 DEF BuildQueue
  <2>2. \A v \in VM : op'[r][v] = Classify(r, v, f[v])
    BY <2>1 DEF TypeOK
  <2>3. \A v \in VM : \/ op'[r][v] = op[r][v] /\ op[r][v] # "known"
                      \/ op'[r][v] \in Queued
    BY <2>2 DEF Classify, Known, Queued
  <2>4. /\ pc[r] = "hydrate" /\ pc'[r] = "dispatch" /\ UNCHANGED <<target, listed, absent>>
        /\ \A v \in VM : op[r][v] # "fetched"
    BY <1>4 DEF BuildQueue, Goto, TypeOK
  <2> QED
    BY <1>a, <2>3, <2>4 DEF StagesMatch, Ended, Queued
<1>b. ASSUME NEW v \in VM, NEW s \in OpState, SetOp(r, v, s), UNCHANGED <<pc, listed>>,
             absent'[r] \subseteq absent[r] \cup {v},
             \/ pc[r] = "hydrate" /\ s = "known"
             \/ pc[r] = "dispatch" /\ s \in {"resolved", "failed"} \cup Queued
             \/ pc[r] = "stamp" /\ s \in {"stamped", "synced"}
      PROVE  StagesMatch'
  <2>1. \A w \in VM : op'[r][w] = IF w = v THEN s ELSE op[r][w]
    BY <1>b, OpTyped
  <2> QED
    BY <1>a, <1>b, <2>1 DEF StagesMatch, Ended, Queued
<1>5. ASSUME NEW v \in VM,
             \/ Hydrate(r, v) \/ Keep(r, v) \/ ResolveCreate(r, v) \/ Post(r, v)
             \/ Update(r, v) \/ Stamp(r, v) \/ Identify(r, v)
      PROVE  StagesMatch'
  <2>1. PICK s \in OpState :
          /\ SetOp(r, v, s) /\ UNCHANGED <<pc, listed>> /\ absent'[r] \subseteq absent[r] \cup {v}
          /\ \/ pc[r] = "hydrate" /\ s = "known"
             \/ pc[r] = "dispatch" /\ s \in {"resolved", "failed"} \cup Queued
             \/ pc[r] = "stamp" /\ s \in {"stamped", "synced"}
    <3>1. CASE Hydrate(r, v)
      BY <3>1 DEF Hydrate, OpState, TypeOK
    <3>2. CASE Keep(r, v) \/ ResolveCreate(r, v)
      BY <3>2 DEF Keep, ResolveCreate, Step, OpState, Queued
    <3>3. CASE Post(r, v) \/ Update(r, v)
      BY <3>3 DEF Post, Update, Step, OpState, Queued
    <3>4. CASE Stamp(r, v) \/ Identify(r, v)
      BY <3>4 DEF Stamp, Identify, InTurn, OpState
    <3> QED
      BY <1>5, <3>1, <3>2, <3>3, <3>4
  <2> QED
    BY <1>b, <2>1
<1>6. ASSUME NEW i \in Ids, Delete(r, i)
      PROVE  StagesMatch'
  <2>1. /\ UNCHANGED <<op, target, listed, absent>> /\ pc[r] = "delete"
        /\ pc'[r] = pc[r] \/ pc'[r] = "aborted"
    BY <1>6 DEF Delete, Goto, TypeOK
  <2> QED
    BY <1>a, <2>1 DEF StagesMatch, Ended
<1> QED
  BY <1>1, <1>2, <1>3, <1>4, <1>5, <1>6 DEF StepOf

\* A run that steps while no runs overlap is the only active one.
LEMMA AloneStep ==
    ASSUME TypeOK, AloneInv, NEW r \in Run, StepOf(r), ~overlapped'
    PROVE  /\ ~overlapped
           /\ \A q \in Run : q # r => q \notin Active /\ q \notin Active'
           /\ OneActive'
<1>0. \A q \in Run : q # r => pc'[q] = pc[q]
  BY StepFrame
<1>1. ~overlapped
  BY StepFrame DEF Start
<1>2. \A q \in Run : q # r => q \notin Active
  <2>1. CASE Start(r)
    BY <2>1 DEF Start
  <2>2. CASE pc[r] # "idle"
    <3>1. r \in Active
      BY <2>2, StepFrame DEF Active
    <3> QED
      BY <1>1, <3>1 DEF AloneInv, OneActive, Active
  <2> QED
    BY <2>1, <2>2, StepFrame
<1>3. \A q \in Run : q # r => q \notin Active'
  BY <1>0, <1>2 DEF Active
<1>4. OneActive'
  BY <1>3 DEF OneActive, Active
<1> QED
  BY <1>1, <1>2, <1>3, <1>4

\* A step changes the records bound to a guest and what its run knows of the guest
\* together.
LEMMA GuestStep ==
    ASSUME TypeOK, HasTarget, StagesMatch, AloneInv, NEW r \in Run, StepOf(r), ~overlapped',
           NEW v \in VM
    PROVE  \/ /\ Bound(v)' \subseteq Bound(v)
              /\ target'[r][v] = target[r][v] \/ Bound(v) \subseteq {target'[r][v]}
              /\ HeldAbsent(r, v)' => HeldAbsent(r, v) \/ Bound(v) = {}
           \/ /\ Bound(v)' \subseteq {target'[r][v]}
              /\ target'[r][v] # None /\ ~HeldAbsent(r, v)'
<1> USE DEF netbox, batch, sweep
<1> DEFINE Learns == /\ Bound(v)' \subseteq Bound(v)
                     /\ target'[r][v] = target[r][v] \/ Bound(v) \subseteq {target'[r][v]}
                     /\ HeldAbsent(r, v)' => HeldAbsent(r, v) \/ Bound(v) = {}
           Binds == /\ Bound(v)' \subseteq {target'[r][v]}
                    /\ target'[r][v] # None /\ ~HeldAbsent(r, v)'
<1>0. KnowsGuest
  BY AloneStep DEF AloneInv
<1>a. UNCHANGED row => Bound(v)' = Bound(v)
  BY DEF Bound
<1>1. CASE Start(r)
  <2>1. ~HeldAbsent(r, v)' /\ UNCHANGED <<row, target>>
    BY <1>1 DEF Start, TypeOK, HeldAbsent
  <2> QED
    BY <1>a, <2>1
<1>2. CASE \/ Snapshot(r) \/ Gathered(r) \/ EndBatch(r) \/ NoSweep(r) \/ Scan(r) \/ Check(r)
           \/ EndSweep(r) \/ Abort(r)
  <2>1. UNCHANGED <<op, absent, row, target>>
    BY <1>2 DEF Snapshot, Gathered, EndBatch, NoSweep, Scan, Check, EndSweep, Abort
  <2> QED
    BY <1>a, <2>1 DEF HeldAbsent
<1>3. CASE BuildQueue(r)
  <2>1. PICK f \in [VM -> Names \cup {0}] :
          op' = [op EXCEPT ![r] = [w \in VM |-> Classify(r, w, f[w])]]
    BY <1>3 DEF BuildQueue
  <2>2. op'[r][v] = op[r][v] \/ (op[r][v] = "known" /\ op'[r][v] # "post")
    BY <2>1 DEF TypeOK, Classify, Known
  <2>3. UNCHANGED <<row, target, absent>>
    BY <1>3 DEF BuildQueue
  <2> QED
    BY <1>a, <2>2, <2>3 DEF HeldAbsent
<1>b. ASSUME NEW w \in VM, NEW s \in OpState, SetOp(r, w, s)
      PROVE  op'[r][v] = IF w = v THEN s ELSE op[r][v]
  BY <1>b, OpTyped
<1>c. ASSUME NEW w \in VM, NEW i \in Ids, target' = [target EXCEPT ![r][w] = i]
      PROVE  target'[r][v] = IF w = v THEN i ELSE target[r][v]
  BY <1>c, TargetTyped
<1>4. ASSUME NEW w \in VM, Hydrate(r, w)
      PROVE  Learns
  <2>1. UNCHANGED row /\ op'[r][v] = (IF w = v THEN "known" ELSE op[r][v])
    BY <1>4, <1>b DEF Hydrate, OpState
  <2>2. target'[r][v] = target[r][v] \/ Bound(v) = {target'[r][v]}
    BY <1>4, <1>c DEF Hydrate
  <2>3. absent'[r] = absent[r] \/ (absent'[r] = absent[r] \cup {w} /\ Bound(w) = {})
    BY <1>4 DEF Hydrate, TypeOK
  <2>4. w = v => v \notin absent[r]
    BY <1>4 DEF Hydrate, StagesMatch
  <2> QED
    BY <1>a, <2>1, <2>2, <2>3, <2>4 DEF HeldAbsent
<1>5. ASSUME NEW w \in VM, ResolveCreate(r, w)
      PROVE  Learns
  <2>1. UNCHANGED <<row, absent>> /\ op[r][w] = "create"
    BY <1>5 DEF ResolveCreate, Step
  <2>2. \/ op'[r][v] = op[r][v]
        \/ op'[r][v] \in {"update", "failed"}
        \/ w = v /\ (Bound(v) = {} \/ v \in absent[r])
    BY <1>5, <1>b DEF ResolveCreate, OpState, Queued
  <2>3. target'[r][v] = target[r][v] \/ Bound(v) = {target'[r][v]}
    BY <1>5, <1>c DEF ResolveCreate
  <2> QED
    BY <1>a, <2>1, <2>2, <2>3 DEF HeldAbsent
<1>6. ASSUME NEW w \in VM, Keep(r, w) \/ Update(r, w) \/ Stamp(r, w)
      PROVE  Learns
  <2>1. /\ UNCHANGED <<target, absent>>
        /\ op'[r][v] = op[r][v] \/ op'[r][v] \in {"resolved", "failed", "stamped"}
    BY <1>6, <1>b DEF Keep, Update, Stamp, OpState
  <2>2. target[r][w] \in Ids \/ ~Stamp(r, w)
    BY DEF Stamp, HasTarget, TypeOK
  <2>3. \A j \in Ids : row'[j].vm = row[j].vm
    BY <1>6, <2>2, StampTyped DEF Keep, Update, Stamp
  <2>4. Bound(v)' = Bound(v)
    BY <2>3 DEF Bound
  <2> QED
    BY <2>1, <2>4 DEF HeldAbsent
<1>7. ASSUME NEW w \in VM, Post(r, w)
      PROVE  Learns
  <2>1. op[r][w] = "post" /\ Bound(w) = {}
    BY <1>0, <1>7 DEF Post, Step, KnowsGuest, HeldAbsent, Ended
  <2>2. /\ UNCHANGED <<row, absent>>
        /\ op'[r][v] = op[r][v] \/ op'[r][v] \in {"resolved", "failed"}
    BY <1>7, <1>b DEF Post, Insert, OpState
  <2>3. nextId \in Ids
    BY <1>7, VmSyncConstants DEF Post, TypeOK, Ids
  <2>4. target'[r][v] = target[r][v] \/ v = w
    BY <1>7, <1>c, <2>3 DEF Post
  <2> QED
    BY <1>a, <2>1, <2>2, <2>4 DEF HeldAbsent
<1>8. ASSUME NEW w \in VM, Identify(r, w)
      PROVE  Learns \/ Binds
  <2>1. UNCHANGED <<target, absent>> /\ (op'[r][v] = op[r][v] \/ op'[r][v] = "synced")
    BY <1>8, <1>b DEF Identify, OpState
  <2>2. target[r][w] \in Ids /\ target[r][w] # None
    BY <1>8, VmSyncConstants DEF Identify, HasTarget, TypeOK
  <2>3. Bound(w) \subseteq {target[r][w]}
    BY <1>0, <1>8, <2>2 DEF Identify, KnowsGuest, Ended
  <2>4. CASE UNCHANGED row
    BY <1>a, <2>1, <2>4 DEF HeldAbsent
  <2>5. CASE row' = [row EXCEPT ![target[r][w]].vm = w]
    <3>1. /\ row'[target[r][w]].vm = w
          /\ \A j \in Ids : j # target[r][w] => row'[j] = row[j]
      BY <2>2, <2>5, IdentifyTyped
    <3>2. CASE v = w
      <4>1. op'[r][v] = "synced"
        BY <1>8, <1>b, <3>2 DEF Identify, OpState
      <4>2. Bound(v)' \subseteq {target[r][v]}
        BY <2>3, <3>1, <3>2 DEF Bound
      <4> QED
        BY <2>1, <2>2, <3>2, <4>1, <4>2 DEF HeldAbsent
    <3>3. CASE v # w
      <4>1. Bound(v)' \subseteq Bound(v)
        BY <3>1, <3>3 DEF Bound
      <4> QED
        BY <2>1, <4>1 DEF HeldAbsent
    <3> QED
      BY <3>2, <3>3
  <2> QED
    BY <1>8, <2>4, <2>5 DEF Identify
<1>9. ASSUME NEW i \in Ids, Delete(r, i)
      PROVE  Learns
  <2>1. \A j \in Ids : row'[j] = row[j] \/ row'[j] = NoRow
    BY <1>9 DEF Delete, Removed, TypeOK
  <2>2. NoRow.vm # v
    BY VmSyncConstants DEF NoRow
  <2>3. Bound(v)' \subseteq Bound(v)
    BY <2>1, <2>2 DEF Bound
  <2> QED
    BY <1>9, <2>3 DEF Delete, HeldAbsent
<1> QED
  BY <1>1, <1>2, <1>3, <1>4, <1>5, <1>6, <1>7, <1>8, <1>9 DEF StepOf

\* So a run that is alone keeps the rows unique, and knows them.
LEMMA AloneKept ==
    ASSUME TypeOK, HasTarget, StagesMatch, AloneInv, NEW r \in Run, StepOf(r)
    PROVE  AloneInv'
<1> SUFFICES ASSUME ~overlapped'
             PROVE  OneActive' /\ KnowsGuest' /\ RowsUnique'
  BY DEF AloneInv
<1>0. TypeOK' /\ StagesMatch'
  BY TypeStep, StageStep DEF Next, StepOf
<1>1. KnowsGuest /\ RowsUnique /\ OneActive'
  BY AloneStep DEF AloneInv
<1>2. pc[r] \notin Ended
  BY StepFrame
<1>3. \A v \in VM :
        \/ /\ Bound(v)' \subseteq Bound(v)
           /\ target'[r][v] = target[r][v] \/ Bound(v) \subseteq {target'[r][v]}
           /\ HeldAbsent(r, v)' => HeldAbsent(r, v) \/ Bound(v) = {}
        \/ /\ Bound(v)' \subseteq {target'[r][v]}
           /\ target'[r][v] # None /\ ~HeldAbsent(r, v)'
  BY GuestStep
<1>4. RowsUnique'
  BY <1>1, <1>3 DEF RowsUnique
<1>5. KnowsGuest'
  <2> SUFFICES ASSUME NEW q \in Run, pc'[q] \notin Ended, NEW v \in VM
               PROVE  /\ target'[q][v] # None => Bound(v)' \subseteq {target'[q][v]}
                      /\ HeldAbsent(q, v)' => Bound(v)' = {}
    BY DEF KnowsGuest
  <2>1. CASE q = r
    <3>1. /\ target[r][v] # None => Bound(v) \subseteq {target[r][v]}
          /\ HeldAbsent(r, v) => Bound(v) = {}
      BY <1>1, <1>2 DEF KnowsGuest
    <3> QED
      BY <1>3, <2>1, <3>1
  <2>2. CASE q # r
    <3>1. pc'[q] = "idle"
      BY <2>2, AloneStep DEF Active
    <3>2. op'[q][v] = "none" /\ target'[q][v] = None
      BY <1>0, <3>1 DEF StagesMatch
    <3> QED
      BY <3>2 DEF HeldAbsent
  <2> QED
    BY <2>1, <2>2
<1> QED
  BY <1>1, <1>4, <1>5

\* The inductive invariant of runs that do not overlap.
LEMMA AloneInvariant == Spec => [](BindingInv /\ StagesMatch /\ AloneInv)
<1>1. Init => BindingInv /\ StagesMatch /\ AloneInv
  <2> SUFFICES ASSUME Init PROVE BindingInv /\ StagesMatch /\ AloneInv
    OBVIOUS
  <2>1. BindingInv
    BY InitTyped DEF Init, BindingInv, HasTarget, FreshIds, TargetsMatch, BoundToItsGuest, NoRow
  <2>2. StagesMatch
    BY DEF Init, StagesMatch, Ended
  <2>3. \A v \in VM : Bound(v) = {}
    BY VmSyncConstants DEF Init, Bound, NoRow
  <2>4. AloneInv
    BY <2>3 DEF Init, AloneInv, OneActive, Active, KnowsGuest, RowsUnique
  <2> QED
    BY <2>1, <2>2, <2>4
<1>2. BindingInv /\ StagesMatch /\ AloneInv /\ [Next]_vars
        => (BindingInv /\ StagesMatch /\ AloneInv)'
  <2> SUFFICES ASSUME BindingInv, StagesMatch, AloneInv, [Next]_vars
               PROVE  BindingInv' /\ StagesMatch' /\ AloneInv'
    OBVIOUS
  <2>1. BindingInv'
    BY BindingStep
  <2>2. CASE UNCHANGED vars
    BY <2>1, <2>2 DEF vars, netbox, batch, sweep, StagesMatch, AloneInv, OneActive, Active,
                      KnowsGuest, HeldAbsent, RowsUnique, Bound
  <2>3. CASE Next
    <3>1. PICK r \in Run : StepOf(r)
      BY <2>3, StepOfARun
    <3> QED
      BY <2>1, <3>1, StageStep, AloneKept DEF BindingInv
  <2> QED
    BY <2>2, <2>3
<1> QED
  BY <1>1, <1>2, PTL DEF Spec

\* Runs that do not overlap never bind two records to one guest, whatever fails and
\* wherever they are broken off: a run creates a guest's record only when no row names
\* the guest, and binds the record it created or the one the row named.
THEOREM GuestsStayUnambiguous == Spec => []IdentityUnique
<1>1. ASSUME RowsUnique, NEW v \in VM
      PROVE  Cardinality(Bound(v)) <= 1
  <2>1. CASE Bound(v) = {}
    BY <2>1, FS_EmptySet
  <2>2. CASE Bound(v) # {}
    <3>1. PICK i : i \in Bound(v)
      BY <2>2
    <3>2. Bound(v) = {i}
      BY <1>1, <3>1 DEF RowsUnique
    <3> QED
      BY <3>2, FS_Singleton
  <2> QED
    BY <2>1, <2>2
<1>2. AloneInv => IdentityUnique
  BY <1>1 DEF AloneInv, IdentityUnique
<1> QED
  BY <1>2, AloneInvariant, PTL

\* What a run that is alone sweeps: the records of guests it does not know of, or that it
\* counted as failed.
LEMMA ExplainedStep ==
    ASSUME BindingInv, StagesMatch, AloneInv, SweepInv, SweepExplained,
           NEW r \in Run, StepOf(r)
    PROVE  SweepExplained'
<1> SUFFICES ASSUME ~overlapped', NEW q \in Run, NEW d \in swept'[q], d[2] \in listed'[q]
             PROVE  op'[q][d[2]] = "failed"
  BY DEF SweepExplained
<1> USE DEF netbox, batch, sweep
<1>0. TypeOK /\ HasTarget /\ ~overlapped /\ KnowsGuest
  BY AloneStep DEF BindingInv, AloneInv
<1>1. CASE q # r
  BY <1>0, <1>1, StepFrame DEF SweepExplained
<1>2. CASE q = r /\ \E i \in Ids : Delete(r, i)
  <2>1. PICK i \in Ids : Delete(r, i)
    BY <1>2
  <2>2. /\ pc[r] = "delete" /\ i \in cand[r] /\ UNCHANGED <<op, target, listed>>
        /\ d \in swept[r] \/ d = <<i, row[i].vm>>
    BY <1>0, <1>2, <2>1 DEF Delete, Removed, TypeOK
  <2>3. CASE d \in swept[r]
    BY <1>0, <1>2, <2>2, <2>3 DEF SweepExplained
  <2>4. CASE d = <<i, row[i].vm>>
    <3> DEFINE v == row[i].vm
    <3>1. v \in listed[r] /\ v \in VM /\ i \in Bound(v)
      BY <1>0, <1>2, <2>2, <2>4 DEF TypeOK, Bound
    <3>2. op[r][v] \in {"synced", "failed"}
      BY <2>2, <3>1 DEF StagesMatch, Ended
    <3>3. op[r][v] # "synced"
      <4> SUFFICES ASSUME op[r][v] = "synced" PROVE FALSE
        OBVIOUS
      <4>1. target[r][v] # None
        BY <1>0, <3>1 DEF HasTarget
      <4>2. i = target[r][v]
        BY <1>0, <2>2, <3>1, <4>1 DEF KnowsGuest, Ended
      <4>3. i \in Touched(r)
        BY <3>1, <4>2 DEF Touched
      <4> QED
        BY <2>2, <4>3 DEF SweepInv, SweepChecked
    <3> QED
      BY <1>2, <2>2, <2>4, <3>2, <3>3
  <2> QED
    BY <2>2, <2>3, <2>4
<1>3. CASE q = r /\ ~\E i \in Ids : Delete(r, i)
  <2>1. swept'[r] = swept[r] /\ swept[r] # {}
    BY <1>0, <1>3 DEF StepOf, Start, Snapshot, BuildQueue, Gathered, EndBatch, NoSweep, Scan, Check,
                      EndSweep, Abort, Hydrate, Keep, ResolveCreate, Post, Update, Stamp, Identify
  <2>2. pc[r] \in {"delete", "done", "aborted"}
    BY <2>1 DEF SweepInv, SweepChecked
  <2>3. UNCHANGED <<op, listed>>
    BY <1>3, <2>2 DEF StepOf, Start, Snapshot, BuildQueue, Gathered, EndBatch, NoSweep, Scan, Check,
                      EndSweep, Abort, Hydrate, Keep, ResolveCreate, Post, Update, Stamp, Identify,
                      Step, InTurn
  <2> QED
    BY <1>0, <1>3, <2>1, <2>3 DEF SweepExplained
<1> QED
  BY <1>1, <1>2, <1>3

\* A run that was alone deletes the record of a guest Proxmox listed only if it counted the
\* guest as failed: a guest it synchronised holds the only record bound to it, and the
\* sweep was compared with those.
THEOREM SweepIsExplained == Spec => []SweepExplained
<1>1. Init => SweepInv /\ SweepExplained
  BY InitTyped DEF Init, SweepInv, SweepChecked, SweepSparesSynced, SweepExplained, Touched
<1>2. BindingInv /\ StagesMatch /\ AloneInv /\ SweepInv /\ SweepExplained /\ [Next]_vars
        => SweepExplained'
  <2> SUFFICES ASSUME BindingInv, StagesMatch, AloneInv, SweepInv, SweepExplained, [Next]_vars
               PROVE  SweepExplained'
    OBVIOUS
  <2>1. CASE UNCHANGED vars
    BY <2>1 DEF vars, netbox, batch, sweep, SweepExplained
  <2>2. CASE Next
    BY <2>2, StepOfARun, ExplainedStep
  <2> QED
    BY <2>1, <2>2
<1> QED
  BY <1>1, <1>2, AloneInvariant, SweepStep, PTL DEF Spec

-----------------------------------------------------------------------------
(***************************************************************************)
(* The names of a batch.                                                   *)
(***************************************************************************)

\* NetBox's names are unique, and a row belongs to a record.
NamesUnique == \A i, j \in Ids : name[i] # 0 /\ name[i] = name[j] => i = j
RowsOfRecords ==
    \A i \in Ids : (row[i] # NoRow => name[i] # 0) /\ (i >= nextId => name[i] = 0)

\* A queued operation has a name; one that creates has no record.
QueueNamed ==
    \A r \in Run : \A v \in VM :
        /\ pc[r] = "dispatch" /\ op[r][v] \in Queued => want[r][v] # 0
        /\ pc[r] = "dispatch" /\ op[r][v] \in {"create", "post"} => target[r][v] = None

\* The record of another guest of the batch had the guest's name in the snapshot.
HeldByOther(r, v) ==
    \E w \in VM \ {v} : target[r][w] # None /\ snap[r][target[r][w]] = want[r][v]

\* A run that is alone and meets no fault works on the snapshot it took: its records exist,
\* its guests want different names, and a name that one of them wants is another record's
\* only if that is the record of a guest of the batch which had it in the snapshot.
QuietRun(r) ==
    /\ pc[r] = "hydrate" => snap[r] = name
    /\ pc[r] \in {"hydrate", "dispatch"} =>
          \A v \in VM : target[r][v] # None => name[target[r][v]] # 0
    /\ pc[r] = "dispatch" =>
          \A v \in VM : want[r][v] # 0 =>
              /\ \A w \in VM : want[r][w] = want[r][v] => w = v
              /\ \A j \in Ids : name[j] = want[r][v] /\ j # target[r][v] => HeldByOther(r, v)
    /\ pc[r] \in {"dispatch", "stamp"} =>
          \A v \in VM : want[r][v] # 0 /\ op[r][v] = "failed" => HeldByOther(r, v)

QuietInv == ~overlapped /\ faults = 0 => \A r \in Run : QuietRun(r)

\* A set of numbers has a least one: of the intervals below its members, one is minimal.
LEMMA LeastNumber ==
    ASSUME NEW S \in SUBSET Nat, S # {}
    PROVE  \E n \in S : \A m \in S : n <= m
<1> DEFINE Below == {1..n : n \in S}
<1>1. IsWellFoundedOn(StrictSubsetOrdering(Nat), FiniteSubsetsOf(Nat))
  BY FS_StrictSubsetOrderingWellFounded
<1>2. Below \subseteq FiniteSubsetsOf(Nat) /\ Below # {}
  <2>1. \A n \in S : IsFiniteSet(1..n) /\ 1..n \subseteq Nat
    BY FS_Interval
  <2> QED
    BY <2>1 DEF FiniteSubsetsOf
<1> HIDE DEF Below
<1>3. PICK b \in Below : \A c \in Below : <<c, b>> \notin StrictSubsetOrdering(Nat)
  BY <1>1, <1>2, WFMin
<1>4. PICK n \in S : b = 1..n
  BY DEF Below
<1>5. ASSUME NEW m \in S, m < n
      PROVE  FALSE
  <2>1. 1..m \subseteq 1..n /\ n \in 1..n /\ n \notin 1..m
    BY <1>5
  <2>2. <<1..m, 1..n>> \in StrictSubsetOrdering(Nat)
    BY <2>1 DEF StrictSubsetOrdering
  <2> QED
    BY <1>3, <1>4, <2>2 DEF Below
<1> QED
  BY <1>5

\* _pick_suffix returns a free number if there is one.
LEMMA SuffixIsFree ==
    ASSUME NEW used, \E n \in Names : n \notin used
    PROVE  PickSuffix(used) \in Names /\ PickSuffix(used) \notin used
<1> DEFINE free == {n \in Names : n \notin used}
<1>1. Names \subseteq Nat /\ \A n \in Names : n # 0
  BY VmSyncConstants DEF Names
<1>2. PICK n \in free : \A m \in free : n <= m
  <2>1. free \in SUBSET Nat /\ free # {}
    BY <1>1
  <2> HIDE DEF free
  <2> QED
    BY <2>1, LeastNumber
<1>3. \A m \in 1..(n - 1) : m \in used
  BY <1>1, <1>2, VmSyncConstants DEF Names
<1> QED
  BY <1>2, <1>3 DEF PickSuffix

\* The values of a function on a finite set are no more than its arguments.
LEMMA FewValues ==
    ASSUME NEW S, IsFiniteSet(S), NEW T, NEW f \in [S -> T], \A y \in T : \E x \in S : f[x] = y
    PROVE  IsFiniteSet(T) /\ Cardinality(T) <= Cardinality(S)
<1>1. f \in Surjection(S, T)
  BY DEF Surjection
<1> QED
  BY <1>1, FS_Surjection

\* There are more names than records and guests, so that every guest of a batch gets one,
\* which no record outside the batch has.
LEMMA NamesSuffice ==
    ASSUME TypeOK, NEW r \in Run, NEW f \in [VM -> Names \cup {0}], Resolved(r, f),
           NEW v \in VM, v \in Known(r)
    PROVE  /\ f[v] # 0 /\ f[v] \notin OtherNames(r)
           /\ \A w \in Known(r) : w < v => f[w] # f[v]
<1> DEFINE others == {snap[r][i] : i \in Ids}
           before == Known(r) \cap 1..(v - 1)
           earlier == {f[w] : w \in before}
           used == OtherNames(r) \cup earlier
<1>1. f[v] = PickSuffix(used)
  BY DEF Resolved
<1>2. IsFiniteSet(others) /\ Cardinality(others) <= MaxId
  <2>1. IsFiniteSet(Ids) /\ Cardinality(Ids) = MaxId
    BY FS_Interval, VmSyncConstants DEF Ids
  <2>2. snap[r] \in [Ids -> others] /\ \A y \in others : \E i \in Ids : snap[r][i] = y
    BY DEF TypeOK
  <2> HIDE DEF others
  <2>3. IsFiniteSet(others) /\ Cardinality(others) <= Cardinality(Ids)
    BY <2>1, <2>2, FewValues
  <2> QED
    BY <2>1, <2>3
<1>3. IsFiniteSet(earlier) /\ Cardinality(earlier) <= LastVm - 1
  <2>1. IsFiniteSet(1..(v - 1)) /\ Cardinality(1..(v - 1)) = v - 1 /\ v - 1 <= LastVm - 1
    BY FS_Interval, VmSyncConstants DEF VM
  <2>2. IsFiniteSet(before) /\ Cardinality(before) <= v - 1
    <3>1. before \in SUBSET (1..(v - 1))
      OBVIOUS
    <3> HIDE DEF before
    <3>2. IsFiniteSet(before) /\ Cardinality(before) <= Cardinality(1..(v - 1))
      BY <2>1, <3>1, FS_Subset
    <3> QED
      BY <2>1, <3>2
  <2>3. IsFiniteSet(earlier) /\ Cardinality(earlier) <= Cardinality(before)
    <3> DEFINE g == [w \in before |-> f[w]]
    <3>1. g \in [before -> earlier] /\ \A y \in earlier : \E w \in before : g[w] = y
      OBVIOUS
    <3> HIDE DEF g, before, earlier
    <3> QED
      BY <2>2, <3>1, FewValues
  <2>4. Cardinality(before) \in Nat /\ Cardinality(earlier) \in Nat
    BY <2>2, <2>3, FS_CardinalityType
  <2> HIDE DEF before, earlier
  <2> QED
    BY <2>1, <2>2, <2>3, <2>4, VmSyncConstants DEF VM
<1>4. IsFiniteSet(others \cup earlier) /\ Cardinality(others \cup earlier) < MaxId + LastVm
  <2> HIDE DEF others, earlier
  <2>1. /\ IsFiniteSet(others \cup earlier) /\ IsFiniteSet(others \cap earlier)
        /\ Cardinality(others \cup earlier)
             = Cardinality(others) + Cardinality(earlier) - Cardinality(others \cap earlier)
    BY <1>2, <1>3, FS_Union, FS_Intersection
  <2>2. /\ Cardinality(others) \in Nat /\ Cardinality(earlier) \in Nat
        /\ Cardinality(others \cap earlier) \in Nat
    BY <1>2, <1>3, <2>1, FS_CardinalityType
  <2> QED
    BY <1>2, <1>3, <2>1, <2>2, VmSyncConstants
<1>5. \E n \in Names : n \notin used
  <2> SUFFICES ASSUME Names \subseteq used PROVE FALSE
    OBVIOUS
  <2>1. Names \subseteq others \cup earlier
    BY DEF OtherNames
  <2>2. IsFiniteSet(Names) /\ Cardinality(Names) = MaxId + LastVm
    BY FS_Interval, VmSyncConstants DEF Names
  <2>3. Cardinality(Names) <= Cardinality(others \cup earlier)
    <3> HIDE DEF others, earlier
    <3> QED
      BY <1>4, <2>1, FS_Subset
  <2>4. Cardinality(others \cup earlier) \in Nat
    BY <1>4, FS_CardinalityType
  <2> HIDE DEF others, earlier
  <2> QED
    BY <1>4, <2>2, <2>3, <2>4, VmSyncConstants
<1>6. f[v] \in Names /\ f[v] \notin used
  BY <1>1, <1>5, SuffixIsFree
<1>7. \A w \in Known(r) : w < v => w \in before
  BY DEF Known, VM
<1> QED
  BY <1>6, <1>7, VmSyncConstants DEF Names

\* NetBox keeps names unique, and no run writes a row without a record or takes the name
\* of a record away.
LEMMA NetBoxStep ==
    ASSUME BindingInv, NamesUnique, RowsOfRecords, QueueNamed, NEW r \in Run, StepOf(r)
    PROVE  NamesUnique' /\ RowsOfRecords'
<1> USE DEF netbox, batch, sweep
<1>0. TypeOK /\ TypeOK' /\ HasTarget /\ FreshIds
  BY TypeStep DEF BindingInv, Next, StepOf
<1>a. ASSUME UNCHANGED <<name, row, nextId>>
      PROVE  NamesUnique' /\ RowsOfRecords'
  BY <1>a DEF NamesUnique, RowsOfRecords
<1>1. CASE \/ Start(r) \/ Snapshot(r) \/ BuildQueue(r) \/ Gathered(r) \/ EndBatch(r)
           \/ NoSweep(r) \/ Scan(r) \/ Check(r) \/ EndSweep(r) \/ Abort(r)
  BY <1>1, <1>a DEF Start, Snapshot, BuildQueue, Gathered, EndBatch, NoSweep, Scan, Check, EndSweep,
                    Abort
<1>2. ASSUME NEW v \in VM, Hydrate(r, v) \/ Keep(r, v) \/ ResolveCreate(r, v)
      PROVE  NamesUnique' /\ RowsOfRecords'
  BY <1>2, <1>a DEF Hydrate, Keep, ResolveCreate
<1>3. ASSUME NEW v \in VM, Post(r, v)
      PROVE  NamesUnique' /\ RowsOfRecords'
  <2>1. CASE UNCHANGED netbox
    BY <1>a, <2>1
  <2>2. CASE Insert(v, want[r][v]) /\ ~Taken(want[r][v], 0)
    <3>1. nextId \in Ids /\ row[nextId] = NoRow /\ row' = row /\ nextId' = nextId + 1
      BY <1>0, <1>3, <2>2, VmSyncConstants DEF Post, TypeOK, Ids, FreshIds, Insert
    <3>2. \A j \in Ids : name[j] # want[r][v]
      BY <2>2, VmSyncConstants DEF Taken, Ids
    <3>3. \A j \in Ids : name'[j] = IF j = nextId THEN want[r][v] ELSE name[j]
      BY <1>0, <2>2 DEF Insert, TypeOK
    <3>4. NamesUnique'
      BY <3>2, <3>3 DEF NamesUnique
    <3>5. RowsOfRecords'
      BY <1>0, <3>1, <3>3, VmSyncConstants DEF RowsOfRecords, Ids, TypeOK
    <3> QED
      BY <3>4, <3>5
  <2> QED
    BY <1>3, <2>1, <2>2 DEF Post
<1>4. ASSUME NEW v \in VM, Update(r, v)
      PROVE  NamesUnique' /\ RowsOfRecords'
  <2> DEFINE i == target[r][v]
  <2>1. UNCHANGED <<row, nextId>> /\ want[r][v] # 0 /\ i \in Ids
    BY <1>0, <1>4 DEF Update, Step, QueueNamed, Queued, HasTarget, TypeOK
  <2>2. CASE UNCHANGED name
    BY <1>a, <2>1, <2>2
  <2>3. CASE Exists(i) /\ ~Taken(want[r][v], i) /\ Renamed(i, want[r][v])
    <3>1. \A j \in Ids : name'[j] = IF j = i THEN want[r][v] ELSE name[j]
      BY <1>0, <2>3 DEF Renamed, TypeOK
    <3>2. \A j \in Ids : j # i => name[j] # want[r][v]
      BY <2>3 DEF Taken
    <3>3. NamesUnique'
      BY <3>1, <3>2 DEF NamesUnique
    <3>4. RowsOfRecords'
      BY <2>1, <2>3, <3>1 DEF RowsOfRecords, Exists
    <3> QED
      BY <3>3, <3>4
  <2> QED
    BY <1>4, <2>2, <2>3 DEF Update
<1>5. ASSUME NEW v \in VM, Stamp(r, v) \/ Identify(r, v)
      PROVE  NamesUnique' /\ RowsOfRecords'
  <2>1. target[r][v] \in Ids /\ UNCHANGED <<name, nextId>>
    BY <1>0, <1>5 DEF Stamp, Identify, HasTarget, TypeOK
  <2>2. CASE UNCHANGED row
    BY <1>a, <2>1, <2>2
  <2>3. CASE Exists(target[r][v]) /\ \A j \in Ids : j # target[r][v] => row'[j] = row[j]
    BY <2>1, <2>3 DEF NamesUnique, RowsOfRecords, Exists
  <2> QED
    BY <1>0, <1>5, <2>1, <2>2, <2>3, StampTyped, IdentifyTyped DEF Stamp, Identify
<1>6. ASSUME NEW i \in Ids, Delete(r, i)
      PROVE  NamesUnique' /\ RowsOfRecords'
  <2>1. CASE UNCHANGED <<name, row>>
    BY <1>6, <1>a, <2>1 DEF Delete
  <2>2. CASE Removed(r, i)
    <3>1. \A j \in Ids : /\ name'[j] = IF j = i THEN 0 ELSE name[j]
                         /\ row'[j] = IF j = i THEN NoRow ELSE row[j]
      BY <1>0, <2>2 DEF Removed, TypeOK
    <3> QED
      BY <1>6, <3>1 DEF NamesUnique, RowsOfRecords, Delete
  <2> QED
    BY <1>6, <2>1, <2>2 DEF Delete
<1> QED
  BY <1>1, <1>2, <1>3, <1>4, <1>5, <1>6 DEF StepOf

\* The operations that BuildQueue queues, with their names.
LEMMA QueueBuilt ==
    ASSUME TypeOK, StagesMatch, NEW r \in Run, BuildQueue(r)
    PROVE  \A v \in VM :
              /\ op'[r][v] \in Queued => v \in Known(r)
              /\ op'[r][v] = "failed" => v \notin Known(r)
              /\ op'[r][v] \in {"create", "post"} => target[r][v] = None
              /\ v \in Known(r) => want'[r][v] # 0
              /\ v \notin Known(r) => want'[r][v] = 0
              /\ want'[r][v] # 0 => want'[r][v] \notin OtherNames(r)
              /\ \A w \in VM : want'[r][v] # 0 /\ want'[r][w] = want'[r][v] => w = v
<1>1. PICK f \in [VM -> Names \cup {0}] :
        /\ Resolved(r, f)
        /\ want' = [want EXCEPT ![r] = f]
        /\ op' = [op EXCEPT ![r] = [v \in VM |-> Classify(r, v, f[v])]]
  BY DEF BuildQueue
<1>2. \A v \in VM : want'[r][v] = f[v] /\ op'[r][v] = Classify(r, v, f[v])
  BY <1>1 DEF TypeOK
<1>3. pc[r] = "hydrate" /\ \A v \in VM : v \notin Known(r) => op[r][v] \in {"none", "failed"}
  BY DEF BuildQueue, StagesMatch, Known
<1>4. \A v \in VM : v \in Known(r) => f[v] # 0 /\ f[v] \notin OtherNames(r)
  BY <1>1, NamesSuffice
<1>5. \A v \in VM : v \notin Known(r) => f[v] = 0
  BY <1>1 DEF Resolved
<1>7. ASSUME NEW v \in VM, NEW w \in VM, f[v] # 0, f[w] = f[v]
      PROVE  w = v
  <2>1. v \in Known(r) /\ w \in Known(r)
    BY <1>5, <1>7
  <2>2. ~(w < v) /\ ~(v < w)
    BY <1>1, <1>7, <2>1, NamesSuffice
  <2> QED
    BY <2>2 DEF VM
<1>6. ASSUME NEW v \in VM
      PROVE  /\ op'[r][v] \in Queued => v \in Known(r)
             /\ op'[r][v] = "failed" => v \notin Known(r)
             /\ op'[r][v] \in {"create", "post"} => target[r][v] = None
  <2>1. CASE v \notin Known(r)
    BY <1>2, <1>3, <2>1 DEF Classify, Queued
  <2>2. CASE v \in Known(r)
    BY <1>2, <2>2 DEF Classify
  <2> QED
    BY <2>1, <2>2
<1> QED
  BY <1>2, <1>4, <1>5, <1>6, <1>7

LEMMA QueueStep ==
    ASSUME TypeOK, StagesMatch, QueueNamed, NEW r \in Run, StepOf(r)
    PROVE  QueueNamed'
<1> USE DEF netbox, batch, sweep
<1>0. \A q \in Run : q # r =>
          pc'[q] = pc[q] /\ op'[q] = op[q] /\ target'[q] = target[q] /\ want'[q] = want[q]
  BY StepFrame
<1>a. ASSUME \A v \in VM : pc'[r] = "dispatch" =>
                /\ op'[r][v] \in Queued => want'[r][v] # 0
                /\ op'[r][v] \in {"create", "post"} => target'[r][v] = None
      PROVE  QueueNamed'
  BY <1>0, <1>a DEF QueueNamed
<1>1. CASE BuildQueue(r)
  <2>1. UNCHANGED target
    BY <1>1 DEF BuildQueue
  <2> QED
    BY <1>1, <1>a, <2>1, QueueBuilt
<1>2. ASSUME pc'[r] # "dispatch"
      PROVE  QueueNamed'
  BY <1>2, <1>a
<1>3. ASSUME NEW v \in VM, Keep(r, v) \/ ResolveCreate(r, v) \/ Post(r, v) \/ Update(r, v)
      PROVE  QueueNamed'
  <2>1. UNCHANGED want /\ op[r][v] \in Queued /\ pc[r] = "dispatch"
    BY <1>3 DEF Keep, ResolveCreate, Post, Update, Step, Queued
  <2>2. PICK s \in OpState : SetOp(r, v, s) /\ (s \in {"create", "post"} =>
             s = "post" /\ op[r][v] = "create" /\ UNCHANGED target)
    BY <1>3 DEF Keep, ResolveCreate, Post, Update, Step, OpState, Queued
  <2>3. \A w \in VM : op'[r][w] = IF w = v THEN s ELSE op[r][w]
    BY <2>2, OpTyped
  <2>4. \A w \in VM : w # v => target'[r][w] = target[r][w]
    BY <1>3 DEF Keep, ResolveCreate, Post, Update, TypeOK
  <2> QED
    BY <1>a, <2>1, <2>2, <2>3, <2>4 DEF QueueNamed
<1>4. pc'[r] # "dispatch" \/ BuildQueue(r)
        \/ \E v \in VM : Keep(r, v) \/ ResolveCreate(r, v) \/ Post(r, v) \/ Update(r, v)
  <2>1. CASE \/ Start(r) \/ Snapshot(r) \/ Gathered(r) \/ EndBatch(r) \/ NoSweep(r)
             \/ Scan(r) \/ Check(r) \/ EndSweep(r) \/ Abort(r)
    BY <2>1 DEF Start, Snapshot, Gathered, EndBatch, NoSweep, Scan, Check, EndSweep, Abort,
                Goto, TypeOK
  <2>2. ASSUME NEW v \in VM, Hydrate(r, v) \/ Stamp(r, v) \/ Identify(r, v)
        PROVE  pc'[r] # "dispatch"
    BY <2>2 DEF Hydrate, Stamp, Identify, InTurn
  <2>3. ASSUME NEW i \in Ids, Delete(r, i)
        PROVE  pc'[r] # "dispatch"
    BY <2>3 DEF Delete, Goto, TypeOK
  <2> QED
    BY <2>1, <2>2, <2>3 DEF StepOf
<1> QED
  BY <1>1, <1>2, <1>3, <1>4

\* What the snapshot said of the records of the batch stays as it is.
LEMMA HolderKept ==
    ASSUME NEW r \in Run, NEW v \in VM, HeldByOther(r, v), want'[r] = want[r], snap'[r] = snap[r],
           \A w \in VM : target[r][w] # None => target'[r][w] = target[r][w]
    PROVE  HeldByOther(r, v)'
BY DEF HeldByOther

\* A run that is alone and meets no fault keeps to what its snapshot showed.
LEMMA QuietStep ==
    ASSUME BindingInv, StagesMatch, AloneInv, NamesUnique, RowsOfRecords, QueueNamed,
           NEW r \in Run, StepOf(r), QuietRun(r), ~overlapped', faults = 0, faults' = 0
    PROVE  QuietRun(r)'
<1> USE DEF netbox, batch, sweep
<1>0. /\ TypeOK /\ TypeOK' /\ HasTarget /\ FreshIds /\ ~overlapped /\ KnowsGuest /\ RowsUnique
      /\ ~Fault
  BY AloneStep, TypeStep DEF BindingInv, AloneInv, Next, StepOf, Fault
<1>a. ASSUME pc'[r] \notin {"hydrate", "dispatch", "stamp"}
      PROVE  QuietRun(r)'
  BY <1>a DEF QuietRun
<1>1. CASE \/ Start(r) \/ EndBatch(r) \/ NoSweep(r) \/ Scan(r) \/ Check(r) \/ EndSweep(r)
           \/ Abort(r)
  <2>1. pc'[r] \notin {"hydrate", "dispatch", "stamp"}
    BY <1>0, <1>1 DEF Start, EndBatch, NoSweep, Scan, Check, EndSweep, Abort, Goto, TypeOK
  <2> QED
    BY <1>a, <2>1
<1>2. ASSUME NEW i \in Ids, Delete(r, i)
      PROVE  QuietRun(r)'
  <2>1. pc'[r] \notin {"hydrate", "dispatch", "stamp"}
    BY <1>0, <1>2 DEF Delete, Goto, TypeOK
  <2> QED
    BY <1>a, <2>1
<1>3. CASE Snapshot(r)
  <2>1. /\ pc[r] = "snapshot" /\ pc'[r] = "hydrate" /\ snap'[r] = name
        /\ UNCHANGED <<name, target>>
    BY <1>0, <1>3 DEF Snapshot, Goto, TypeOK
  <2>2. \A v \in VM : target[r][v] = None
    BY <2>1 DEF StagesMatch
  <2> QED
    BY <2>1, <2>2 DEF QuietRun
<1>4. ASSUME NEW v \in VM, Hydrate(r, v)
      PROVE  QuietRun(r)'
  <2>1. pc[r] = "hydrate" /\ UNCHANGED <<name, pc>> /\ snap[r] = name
    BY <1>4 DEF Hydrate, QuietRun
  <2>2. CASE UNCHANGED <<target, snap>>
    BY <2>1, <2>2 DEF QuietRun
  <2>3. ASSUME NEW i \in Ids, Bound(v) = {i}, target' = [target EXCEPT ![r][v] = i],
               snap' = [snap EXCEPT ![r][i] = IF @ = 0 THEN name[i] ELSE @]
        PROVE  QuietRun(r)'
    <3>1. name[i] # 0
      <4>1. row[i].vm = v
        BY <2>3 DEF Bound
      <4>2. row[i] # NoRow
        BY <4>1, VmSyncConstants DEF NoRow
      <4> QED
        BY <4>2 DEF RowsOfRecords
    <3>2. snap'[r] = name
      <4>1. snap[r][i] = name[i] /\ name \in [Ids -> Names \cup {0}]
        BY <1>0, <2>1 DEF TypeOK
      <4>2. snap'[r] = [snap[r] EXCEPT ![i] = IF snap[r][i] = 0 THEN name[i] ELSE snap[r][i]]
        BY <1>0, <2>3 DEF TypeOK
      <4> QED
        BY <2>1, <4>1, <4>2
    <3>3. \A w \in VM : target'[r][w] = IF w = v THEN i ELSE target[r][w]
      BY <1>0, <2>3, TargetTyped
    <3> QED
      BY <2>1, <3>1, <3>2, <3>3 DEF QuietRun
  <2> QED
    BY <1>0, <1>4, <2>2, <2>3 DEF Hydrate
<1>5. CASE BuildQueue(r)
  <2>1. /\ pc[r] = "hydrate" /\ pc'[r] = "dispatch" /\ UNCHANGED <<name, target, snap>>
        /\ snap[r] = name
    BY <1>0, <1>5 DEF BuildQueue, Goto, TypeOK, QuietRun
  <2>a. \A v \in VM :
          /\ op'[r][v] \in Queued => v \in Known(r)
          /\ op'[r][v] = "failed" => v \notin Known(r)
          /\ op'[r][v] \in {"create", "post"} => target[r][v] = None
          /\ v \in Known(r) => want'[r][v] # 0
          /\ v \notin Known(r) => want'[r][v] = 0
          /\ want'[r][v] # 0 => want'[r][v] \notin OtherNames(r)
          /\ \A w \in VM : want'[r][v] # 0 /\ want'[r][w] = want'[r][v] => w = v
    BY <1>0, <1>5, QueueBuilt
  <2>2. \A v \in VM :
          /\ op'[r][v] = "failed" => want'[r][v] = 0
          /\ v \in Known(r) => want'[r][v] # 0
          /\ want'[r][v] # 0 => want'[r][v] \notin OtherNames(r)
    BY <2>a
  <2>3. ASSUME NEW v \in VM, want'[r][v] # 0, NEW j \in Ids, name[j] = want'[r][v],
               j # target[r][v]
        PROVE  HeldByOther(r, v)'
    <3>1. snap[r][j] \notin OtherNames(r)
      BY <2>1, <2>2, <2>3
    <3>2. snap[r][j] \in {snap[r][target[r][w]] : w \in {u \in Known(r) : target[r][u] # None}}
      BY <3>1 DEF OtherNames
    <3>3. PICK w \in Known(r) : target[r][w] # None /\ snap[r][j] = snap[r][target[r][w]]
      BY <3>2
    <3>4. w \in VM /\ target[r][w] \in Ids
      BY <1>0, <3>3 DEF Known, TypeOK
    <3>5. w # v
      BY <2>1, <2>3, <3>3, <3>4 DEF NamesUnique
    <3>6. /\ target'[r][w] # None /\ w \in VM \ {v}
          /\ snap'[r][target'[r][w]] = want'[r][v]
      BY <2>1, <2>3, <3>3, <3>4, <3>5
    <3> QED
      BY <3>6 DEF HeldByOther
  <2>4. \A v \in VM : target'[r][v] # None => name'[target'[r][v]] # 0
    BY <2>1 DEF QuietRun
  <2>5. \A v \in VM : want'[r][v] # 0 =>
            /\ \A w \in VM : want'[r][w] = want'[r][v] => w = v
            /\ \A j \in Ids : name'[j] = want'[r][v] /\ j # target'[r][v] => HeldByOther(r, v)'
    BY <2>1, <2>a, <2>3
  <2>6. \A v \in VM : want'[r][v] # 0 /\ op'[r][v] = "failed" => HeldByOther(r, v)'
    BY <2>2
  <2> QED
    BY <2>1, <2>4, <2>5, <2>6 DEF QuietRun
<1>b. ASSUME UNCHANGED <<want, target, snap>>
      PROVE  \A v \in VM : HeldByOther(r, v)' = HeldByOther(r, v)
  BY <1>b DEF HeldByOther
<1>6. CASE Gathered(r)
  <2>1. pc[r] = "dispatch" /\ pc'[r] = "stamp" /\ UNCHANGED <<op, want, target, snap>>
    BY <1>0, <1>6 DEF Gathered, Goto, TypeOK
  <2> QED
    BY <1>b, <2>1 DEF QuietRun
<1>7. ASSUME NEW v \in VM, Stamp(r, v) \/ Identify(r, v)
      PROVE  QuietRun(r)'
  <2>1. pc[r] = "stamp" /\ UNCHANGED <<pc, want, target, snap>>
    BY <1>7 DEF Stamp, Identify, InTurn
  <2>2. \A w \in VM : op'[r][w] = op[r][w] \/ op'[r][w] # "failed"
    BY <1>0, <1>7, OpTyped DEF Stamp, Identify, OpState
  <2> QED
    BY <1>b, <2>1, <2>2 DEF QuietRun
<1>c. ASSUME NEW v \in VM, NEW s \in OpState, pc[r] = "dispatch", op[r][v] \in Queued,
             SetOp(r, v, s), UNCHANGED <<pc, want, snap>>,
             \A w \in VM : w # v => target'[r][w] = target[r][w],
             target'[r][v] = target[r][v] \/ (target[r][v] = None /\ target'[r][v] # None),
             target'[r][v] # None => name'[target'[r][v]] # 0,
             \A j \in Ids : name'[j] = name[j] \/ (j = target'[r][v] /\ name'[j] = want[r][v]),
             s = "failed" => HeldByOther(r, v)
      PROVE  QuietRun(r)'
  <2>1. want[r][v] # 0
    BY <1>c DEF QueueNamed
  <2>2. \A w \in VM : op'[r][w] = IF w = v THEN s ELSE op[r][w]
    BY <1>0, <1>c, OpTyped
  <2>3. \A w \in VM : HeldByOther(r, w) => HeldByOther(r, w)'
    BY <1>c, HolderKept
  <2>5. ASSUME NEW w \in VM, target'[r][w] # None
        PROVE  name'[target'[r][w]] # 0
    <3>1. CASE w = v
      BY <1>c, <2>5, <3>1
    <3>2. CASE w # v
      <4>1. target[r][w] # None /\ target[r][w] \in Ids /\ target'[r][w] = target[r][w]
        BY <1>0, <1>c, <2>5, <3>2 DEF TypeOK
      <4>2. name[target[r][w]] # 0
        BY <1>c, <4>1 DEF QuietRun
      <4>3. CASE target[r][w] = target'[r][v]
        BY <1>c, <4>1, <4>3
      <4> QED
        BY <1>c, <4>1, <4>2, <4>3
    <3> QED
      BY <3>1, <3>2
  <2>6. ASSUME NEW w \in VM, want[r][w] # 0, NEW j \in Ids, name'[j] = want[r][w],
               j # target'[r][w]
        PROVE  HeldByOther(r, w)'
    <3>1. name'[j] = name[j]
      BY <1>c, <2>1, <2>6 DEF QuietRun
    <3>2. j # target[r][w]
      BY <1>c, <2>6, VmSyncConstants
    <3>3. HeldByOther(r, w)
      BY <1>c, <2>6, <3>1, <3>2 DEF QuietRun
    <3> QED
      BY <2>3, <3>3
  <2>7. ASSUME NEW w \in VM, want[r][w] # 0, op'[r][w] = "failed"
        PROVE  HeldByOther(r, w)'
    BY <1>c, <2>2, <2>3, <2>7 DEF QuietRun
  <2> QED
    BY <1>c, <2>5, <2>6, <2>7 DEF QuietRun
<1>d. ASSUME NEW v \in VM, pc[r] = "dispatch", op[r][v] \in Queued, NEW j \in Ids,
             name[j] = want[r][v], j # target[r][v]
      PROVE  HeldByOther(r, v)
  BY <1>d DEF QuietRun, QueueNamed
<1>e. ASSUME NEW v \in VM, NEW s \in OpState, Step(r, v, "get") \/ Step(r, v, "create"),
             SetOp(r, v, s), s # "failed", UNCHANGED <<pc, want, snap, name, target>>
      PROVE  QuietRun(r)'
  <2>1. pc[r] = "dispatch" /\ op[r][v] \in Queued
    BY <1>e DEF Step, Queued
  <2>2. target[r][v] # None => name[target[r][v]] # 0
    BY <2>1 DEF QuietRun
  <2> QED
    BY <1>c, <1>e, <2>1, <2>2
<1>8. ASSUME NEW v \in VM, Keep(r, v)
      PROVE  QuietRun(r)'
  <2>1. Exists(target[r][v])
    BY <1>0, <1>8 DEF Keep, Step, HasTarget, QuietRun, Exists
  <2> QED
    BY <1>0, <1>8, <1>e, <2>1 DEF Keep, OpState
<1>9. ASSUME NEW v \in VM, ResolveCreate(r, v)
      PROVE  QuietRun(r)'
  <2>1. /\ pc[r] = "dispatch" /\ op[r][v] = "create" /\ op[r][v] \in Queued
        /\ UNCHANGED <<pc, want, snap, name>> /\ target[r][v] = None
    BY <1>9 DEF ResolveCreate, Step, Queued, QueueNamed
  <2>2. CASE SetOp(r, v, "post") /\ UNCHANGED target
    BY <1>9, <1>e, <2>1, <2>2 DEF ResolveCreate, OpState, Queued
  <2>3. ASSUME NEW i \in Ids, Bound(v) = {i}, target' = [target EXCEPT ![r][v] = i],
               SetOp(r, v, "update")
        PROVE  QuietRun(r)'
    <3>1. name[i] # 0 /\ i # None
      <4>1. row[i].vm = v
        BY <2>3 DEF Bound
      <4>2. row[i] # NoRow
        BY <4>1, VmSyncConstants DEF NoRow
      <4> QED
        BY <4>2, VmSyncConstants DEF RowsOfRecords
    <3>2. \A w \in VM : target'[r][w] = IF w = v THEN i ELSE target[r][w]
      BY <1>0, <2>3, TargetTyped
    <3>3. "update" \in OpState
      BY DEF OpState, Queued
    <3> QED
      BY <1>c, <2>1, <2>3, <3>1, <3>2, <3>3
  <2>4. ~(Cardinality(Bound(v)) > 1)
    <3>1. CASE Bound(v) = {}
      BY <3>1, FS_EmptySet
    <3>2. ASSUME NEW i, i \in Bound(v)
          PROVE  Cardinality(Bound(v)) = 1
      <4>1. Bound(v) = {i}
        BY <1>0, <3>2 DEF RowsUnique
      <4> QED
        BY <4>1, FS_Singleton
    <3> QED
      BY <3>1, <3>2
  <2> QED
    BY <1>0, <1>9, <2>2, <2>3, <2>4 DEF ResolveCreate
<1>10. ASSUME NEW v \in VM, Post(r, v)
       PROVE  QuietRun(r)'
  <2>1. /\ pc[r] = "dispatch" /\ op[r][v] = "post" /\ op[r][v] \in Queued
        /\ UNCHANGED <<pc, want, snap>> /\ target[r][v] = None /\ want[r][v] # 0
    BY <1>10 DEF Post, Step, Queued, QueueNamed
  <2>2. nextId \in Ids /\ nextId # None
    BY <1>0, <1>10, VmSyncConstants DEF Post, TypeOK, Ids
  <2>3. CASE /\ Insert(v, want[r][v]) /\ target' = [target EXCEPT ![r][v] = nextId]
             /\ SetOp(r, v, "resolved")
    <3>1. \A w \in VM : target'[r][w] = IF w = v THEN nextId ELSE target[r][w]
      BY <1>0, <2>2, <2>3, TargetTyped
    <3>2. \A j \in Ids : name'[j] = IF j = nextId THEN want[r][v] ELSE name[j]
      BY <1>0, <2>3 DEF Insert, TypeOK
    <3>3. "resolved" \in OpState
      BY DEF OpState
    <3> QED
      BY <1>c, <2>1, <2>2, <2>3, <3>1, <3>2, <3>3
  <2>4. CASE Taken(want[r][v], 0) /\ SetOp(r, v, "failed") /\ UNCHANGED <<netbox, target>>
    <3>1. PICK j \in Ids : name[j] = want[r][v]
      BY <2>4 DEF Taken
    <3>2. j # None
      BY VmSyncConstants
    <3>3. HeldByOther(r, v)
      BY <1>d, <2>1, <3>1, <3>2
    <3>4. "failed" \in OpState
      BY DEF OpState
    <3> QED
      BY <1>c, <2>1, <2>4, <3>3, <3>4
  <2> QED
    BY <1>0, <1>10, <2>3, <2>4 DEF Post
<1>11. ASSUME NEW v \in VM, Update(r, v)
       PROVE  QuietRun(r)'
  <2> DEFINE i == target[r][v]
  <2>1. /\ pc[r] = "dispatch" /\ op[r][v] = "update" /\ op[r][v] \in Queued
        /\ UNCHANGED <<pc, want, target, snap>> /\ want[r][v] # 0
    BY <1>11 DEF Update, Step, Queued, QueueNamed
  <2>2. i # None /\ i \in Ids /\ Exists(i)
    BY <1>0, <2>1 DEF HasTarget, TypeOK, QuietRun, Exists
  <2>3. CASE Renamed(i, want[r][v]) /\ SetOp(r, v, "resolved")
    <3>1. \A j \in Ids : name'[j] = IF j = i THEN want[r][v] ELSE name[j]
      BY <1>0, <2>3 DEF Renamed, TypeOK
    <3>2. "resolved" \in OpState
      BY DEF OpState
    <3> QED
      BY <1>c, <2>1, <2>2, <2>3, <3>1, <3>2
  <2>4. CASE Taken(want[r][v], i) /\ SetOp(r, v, "failed") /\ UNCHANGED name
    <3>1. PICK j \in Ids \ {i} : name[j] = want[r][v]
      BY <2>4 DEF Taken
    <3>2. HeldByOther(r, v)
      BY <1>d, <2>1, <3>1
    <3>3. "failed" \in OpState /\ name[i] # 0
      BY <2>2 DEF OpState, Exists
    <3> QED
      BY <1>c, <2>1, <2>4, <3>2, <3>3
  <2> QED
    BY <1>0, <1>11, <2>2, <2>3, <2>4 DEF Update
<1> QED
  BY <1>1, <1>2, <1>3, <1>4, <1>5, <1>6, <1>7, <1>8, <1>9, <1>10, <1>11 DEF StepOf

\* The inductive invariant of the names.
NamesInv == NamesUnique /\ RowsOfRecords /\ QueueNamed /\ QuietInv

\* A step counts at most one fault.
LEMMA CountsFaults ==
    ASSUME TypeOK, NEW r \in Run, StepOf(r)
    PROVE  faults \in Nat /\ (faults' = faults \/ faults' = faults + 1)
<1> USE DEF netbox, batch, sweep
<1>0. faults \in Nat
  BY VmSyncConstants DEF TypeOK
<1>1. CASE \/ Start(r) \/ Snapshot(r) \/ BuildQueue(r) \/ Gathered(r) \/ EndBatch(r)
           \/ NoSweep(r) \/ Scan(r) \/ Check(r) \/ EndSweep(r) \/ Abort(r)
  BY <1>0, <1>1 DEF Start, Snapshot, BuildQueue, Gathered, EndBatch, NoSweep, Scan, Check, EndSweep,
                    Abort, Fault, NoFault
<1>2. ASSUME NEW v \in VM,
             \/ Hydrate(r, v) \/ Keep(r, v) \/ ResolveCreate(r, v) \/ Post(r, v)
             \/ Update(r, v) \/ Stamp(r, v) \/ Identify(r, v)
      PROVE  Fault \/ NoFault
  BY <1>2 DEF Hydrate, Keep, ResolveCreate, Post, Update, Stamp, Identify
<1>3. ASSUME NEW i \in Ids, Delete(r, i)
      PROVE  Fault \/ NoFault
  BY <1>3 DEF Delete
<1>4. Fault \/ NoFault => faults' = faults \/ faults' = faults + 1
  BY DEF Fault, NoFault
<1> QED
  BY <1>0, <1>1, <1>2, <1>3, <1>4 DEF StepOf

\* Every step keeps the invariant.
LEMMA NamesStep ==
    ASSUME BindingInv, StagesMatch, AloneInv, NamesInv, [Next]_vars
    PROVE  NamesInv'
<1>1. CASE UNCHANGED vars
  <2>1. \A r \in Run : QuietRun(r)' = QuietRun(r)
    BY <1>1 DEF vars, netbox, batch, sweep, QuietRun, HeldByOther
  <2> QED
    BY <1>1, <2>1 DEF vars, netbox, batch, sweep, NamesInv, NamesUnique, RowsOfRecords, QueueNamed,
                      QuietInv
<1>2. CASE Next
  <2>1. PICK r \in Run : StepOf(r)
    BY <1>2, StepOfARun
  <2>2. NamesUnique' /\ RowsOfRecords' /\ QueueNamed'
    BY <2>1, NetBoxStep, QueueStep DEF BindingInv, NamesInv
  <2>3. ASSUME ~overlapped', faults' = 0, NEW q \in Run
        PROVE  QuietRun(q)'
    <3>1. faults = 0
      <4>1. faults \in Nat /\ (faults' = faults \/ faults' = faults + 1)
        BY <2>1, CountsFaults DEF BindingInv
      <4> QED
        BY <2>3, <4>1
    <3>2. CASE q = r
      <4>1. ~overlapped
        BY <2>1, <2>3, AloneStep DEF BindingInv
      <4>2. QuietRun(r)
        BY <3>1, <4>1 DEF NamesInv, QuietInv
      <4> QED
        BY <2>1, <2>3, <3>1, <3>2, <4>2, QuietStep DEF NamesInv
    <3>3. CASE q # r
      <4>1. q \notin Active'
        BY <2>1, <2>3, <3>3, AloneStep DEF BindingInv
      <4>2. pc'[q] \notin {"hydrate", "dispatch", "stamp"}
        BY <4>1 DEF Active, Ended
      <4> QED
        BY <4>2 DEF QuietRun
    <3> QED
      BY <3>2, <3>3
  <2> QED
    BY <2>2, <2>3 DEF NamesInv, QuietInv
<1> QED
  BY <1>1, <1>2

\* In a run that is alone and meets no fault NetBox refuses a guest's name only if the
\* record of another guest of the batch had that name in the snapshot: the name pre-pass
\* gives every guest another name and avoids the names of all records outside the batch,
\* and while the batch runs nobody takes a new one.
THEOREM BatchNamesCoexist == Spec => []NamesCoexist
<1>1. Init => NamesInv
  BY VmSyncConstants DEF Init, NamesInv, NamesUnique, RowsOfRecords, QueueNamed, QuietInv, QuietRun, HeldByOther
<1>2. NamesInv => NamesCoexist
  BY DEF NamesInv, QuietInv, QuietRun, HeldByOther, NamesCoexist
<1>3. BindingInv /\ StagesMatch /\ AloneInv /\ NamesInv /\ [Next]_vars => NamesInv'
  BY NamesStep
<1> QED
  BY <1>1, <1>2, <1>3, AloneInvariant, PTL DEF Spec
=============================================================================

----------------------- MODULE DeletionRequestsProofs -----------------------
(***************************************************************************)
(* Proofs about DeletionRequests: type correctness, and what holds however *)
(* the requests interleave and wherever they are aborted; and, when they   *)
(* do not overlap, that a request destroys at most once.                   *)
(***************************************************************************)
EXTENDS DeletionRequests, TLAPS

\* Where a handler stands in the code tells what it has learnt: an execution
\* past its gate loaded an approved row, so an approval had been committed,
\* and an outcome of success comes from an answer of Proxmox.
Dispatching == {"session", "destroy", "log_ok", "log_error", "commit_outcome"}

HandlerKnows(r) ==
    /\ pc[r] = "idle" <=> verb[r] = None
    /\ loaded[r] = "approved" => granted
    /\ pc[r] \in {"commit", "refresh"} => goal[r] = Target(verb[r])
    /\ pc[r] \in {"commit", "refresh"} /\ verb[r] = "execute" => granted
    /\ pc[r] = "refresh" /\ verb[r] = "approve" => granted
    /\ pc[r] = "refuse" => goal[r] \in {"blocked", "failed"}
    /\ pc[r] = "journal" => verb[r] # "execute" /\ (verb[r] = "approve" => granted)
    /\ pc[r] \in Dispatching => verb[r] = "execute" /\ granted
    /\ pc[r] = "log_ok" => accepted
    /\ pc[r] = "commit_outcome" =>
          goal[r] = "failed" \/ (goal[r] = "succeeded" /\ accepted)

SharedInv ==
    /\ row = "approved" => granted
    /\ DestroyWasApproved
    /\ OutcomeIsTrue

Inv ==
    /\ TypeOK
    /\ SharedInv
    /\ \A r \in Reqs : HandlerKnows(r)

\* The initial state of a pending record satisfies the invariant.
LEMMA InitInv == Init => Inv
<1> SUFFICES ASSUME Init PROVE Inv
  OBVIOUS
<1>1. TypeOK
  BY DeletionConstants DEF Init, TypeOK, States, PCs
<1>2. SharedInv
  BY DEF Init, SharedInv, DestroyWasApproved, OutcomeIsTrue
<1>3. ASSUME NEW r \in Reqs  PROVE HandlerKnows(r)
  <2>1. pc[r] = "idle" /\ verb[r] = None /\ loaded[r] = None /\ "approved" # None
    BY DeletionConstants DEF Init, States
  <2> QED
    BY <2>1 DEF HandlerKnows, Dispatching
<1> QED
  BY <1>1, <1>2, <1>3 DEF Inv

\* Every action of a handler, an aborted one included, and of the endpoint
\* keeps the types.
LEMMA TypeStep == TypeOK /\ (\A r \in Reqs : HandlerKnows(r)) /\ [Next]_vars => TypeOK'
<1> SUFFICES ASSUME TypeOK, \A r \in Reqs : HandlerKnows(r), [Next]_vars
             PROVE  TypeOK'
  OBVIOUS
<1> USE DeletionConstants
<1>1. CASE UNCHANGED vars
  BY <1>1 DEF TypeOK, vars, handlers
<1>2. CASE SetWrites
  BY <1>2 DEF TypeOK, SetWrites, handlers
<1>3. ASSUME NEW r \in Reqs, Issue(r)  PROVE TypeOK'
  BY <1>3 DEF TypeOK, Issue, Goto, PCs
<1>4. ASSUME NEW r \in Reqs, Load(r)  PROVE TypeOK'
  BY <1>4 DEF TypeOK, Load, Goto, PCs
<1>5. ASSUME NEW r \in Reqs, Gate(r)  PROVE TypeOK'
  <2>1. Target(verb[r]) \in States
    BY <1>5 DEF TypeOK, Gate, HandlerKnows, Target, States, Verbs
  <2> QED
    BY <1>5, <2>1 DEF TypeOK, Gate, Goto, Assign, PCs, States
<1>6. ASSUME NEW r \in Reqs, Refuse(r)  PROVE TypeOK'
  BY <1>6 DEF TypeOK, Refuse, WriteJournal, End, Goto, PCs, HandlerKnows
<1>7. ASSUME NEW r \in Reqs, Commit(r)  PROVE TypeOK'
  <2>1. goal[r] \in States
    BY <1>7 DEF TypeOK, Commit, HandlerKnows, Target, States, Verbs
  <2> QED
    BY <1>7, <2>1 DEF TypeOK, Commit, Goto, PCs
<1>8. ASSUME NEW r \in Reqs, Refresh(r)  PROVE TypeOK'
  BY <1>8 DEF TypeOK, Refresh, Goto, PCs
<1>9. ASSUME NEW r \in Reqs, Journal(r)  PROVE TypeOK'
  BY <1>9 DEF TypeOK, Journal, WriteJournal, End, Goto, PCs, HandlerKnows
<1>10. ASSUME NEW r \in Reqs, OpenSession(r)  PROVE TypeOK'
  BY <1>10 DEF TypeOK, OpenSession, Goto, PCs
<1>11. ASSUME NEW r \in Reqs, Destroy(r)  PROVE TypeOK'
  BY <1>11 DEF TypeOK, Destroy, Goto, PCs
<1>12. ASSUME NEW r \in Reqs, LogError(r)  PROVE TypeOK'
  BY <1>12 DEF TypeOK, LogError, WriteJournal, Assign, Goto, PCs, States, HandlerKnows, Dispatching, Verbs
<1>13. ASSUME NEW r \in Reqs, LogOk(r)  PROVE TypeOK'
  BY <1>13 DEF TypeOK, LogOk, WriteJournal, Assign, Goto, PCs, States, HandlerKnows, Dispatching, Verbs
<1>14. ASSUME NEW r \in Reqs, CommitOutcome(r)  PROVE TypeOK'
  BY <1>14 DEF TypeOK, CommitOutcome, End, Goto, PCs, States, HandlerKnows
<1>15. ASSUME NEW r \in Reqs, Abort(r)  PROVE TypeOK'
  BY <1>15 DEF TypeOK, Abort, End, Goto, PCs
<1> QED
  BY <1>1, <1>2, <1>3, <1>4, <1>5, <1>6, <1>7, <1>8, <1>9, <1>10, <1>11, <1>12, <1>13,
     <1>14, <1>15 DEF Next

\* A handler that does not move keeps what it knows: approvals and answers of
\* Proxmox are never taken back.
LEMMA OthersKnow ==
    ASSUME NEW s \in Reqs, HandlerKnows(s),
           pc'[s] = pc[s], verb'[s] = verb[s], loaded'[s] = loaded[s], goal'[s] = goal[s],
           granted => granted', accepted => accepted'
    PROVE  HandlerKnows(s)'
BY DEF HandlerKnows, Target

\* A handler that is over knows nothing.
LEMMA EndKnows ==
    ASSUME TypeOK, NEW r \in Reqs, End(r)
    PROVE  HandlerKnows(r)'
<1>1. pc'[r] = "idle" /\ verb'[r] = None /\ loaded'[r] = None /\ "approved" # None
  BY DeletionConstants DEF TypeOK, End, Goto, States
<1> QED
  BY <1>1 DEF HandlerKnows, Dispatching

\* One step of a handler or of the endpoint preserves the invariant.
LEMMA InvStep == Inv /\ [Next]_vars => Inv'
<1> SUFFICES ASSUME Inv, [Next]_vars
             PROVE  SharedInv' /\ \A s \in Reqs : HandlerKnows(s)'
  BY TypeStep DEF Inv
<1> USE DeletionConstants
<1> DEFINE Kept == SharedInv' /\ \A s \in Reqs : HandlerKnows(s)'
<1>0. TypeOK /\ SharedInv /\ \A s \in Reqs : HandlerKnows(s)
  BY DEF Inv
<1>1. CASE UNCHANGED vars \/ SetWrites
  <2>1. SharedInv'
    BY <1>0, <1>1 DEF vars, handlers, SetWrites, SharedInv, DestroyWasApproved, OutcomeIsTrue
  <2>2. ASSUME NEW s \in Reqs  PROVE HandlerKnows(s)'
    BY <1>0, <1>1, OthersKnow DEF vars, handlers, SetWrites
  <2> QED
    BY <2>1, <2>2
<1>2. ASSUME NEW r \in Reqs,
             Issue(r) \/ Load(r) \/ Gate(r) \/ Refresh(r) \/ OpenSession(r) \/ Destroy(r)
                \/ LogError(r) \/ LogOk(r) \/ Commit(r)
      PROVE  Kept
  <2>1. ASSUME NEW s \in Reqs, s # r  PROVE HandlerKnows(s)'
    <3>1. /\ pc'[s] = pc[s] /\ verb'[s] = verb[s] /\ loaded'[s] = loaded[s] /\ goal'[s] = goal[s]
          /\ granted => granted'
          /\ accepted => accepted'
      BY <1>0, <1>2, <2>1
         DEF TypeOK, Issue, Load, Gate, Refresh, OpenSession, Destroy, LogError, LogOk, Commit,
             Goto, Assign
    <3> QED
      BY <1>0, <3>1, OthersKnow
  <2>2. HandlerKnows(r)
    BY <1>0
  <2>3. CASE Issue(r)
    <3>1. SharedInv'
      BY <1>0, <2>3 DEF Issue, SharedInv, DestroyWasApproved, OutcomeIsTrue
    <3>2. PICK v \in Verbs : verb' = [verb EXCEPT ![r] = v]
      BY <2>3 DEF Issue
    <3>3. pc'[r] = "load" /\ verb'[r] # None
      BY <1>0, <2>3, <3>2 DEF Issue, Goto, TypeOK
    <3>4. loaded' = loaded /\ granted' = granted
      BY <2>3 DEF Issue
    <3>5. HandlerKnows(r)'
      BY <2>2, <3>3, <3>4 DEF HandlerKnows, Dispatching
    <3> QED
      BY <2>1, <3>1, <3>5
  <2>4. CASE Load(r)
    BY <1>0, <2>1, <2>2, <2>4
       DEF TypeOK, Load, Goto, HandlerKnows, Dispatching, Target,
           SharedInv, DestroyWasApproved, OutcomeIsTrue
  <2>5. CASE Gate(r)
    <3>1. SharedInv'
      BY <1>0, <2>5 DEF Gate, SharedInv, DestroyWasApproved, OutcomeIsTrue
    <3>2. pc'[r] = "commit" \/ pc'[r] = "refuse"
      BY <1>0, <2>5 DEF Gate, Goto, TypeOK
    <3>3. verb'[r] = verb[r] /\ loaded'[r] = loaded[r] /\ granted' = granted /\ verb[r] # None
      BY <2>2, <2>5 DEF Gate, HandlerKnows
    <3>4. pc'[r] = "commit" => goal'[r] = Target(verb[r]) /\ Permitted(verb[r], loaded[r])
      BY <1>0, <2>5 DEF Gate, Goto, Assign, TypeOK
    <3>5. pc'[r] = "refuse" => goal'[r] \in {"blocked", "failed"}
      BY <1>0, <2>5 DEF Gate, Goto, Assign, TypeOK
    <3>6. HandlerKnows(r)'
      BY <2>2, <3>2, <3>3, <3>4, <3>5 DEF HandlerKnows, Permitted, Target, Dispatching
    <3> QED
      BY <2>1, <3>1, <3>6
  <2>6. CASE Refresh(r)
    <3>1. SharedInv'
      BY <1>0, <2>6 DEF Refresh, SharedInv, DestroyWasApproved, OutcomeIsTrue
    <3>2. verb'[r] = verb[r] /\ goal' = goal /\ granted' = granted /\ pc[r] = "refresh"
      BY <2>6 DEF Refresh
    <3>3. loaded'[r] = row
      BY <1>0, <2>6 DEF Refresh, TypeOK
    <3>4. pc'[r] = IF verb[r] = "execute" THEN "session" ELSE "journal"
      BY <1>0, <2>6 DEF Refresh, Goto, TypeOK
    <3>5. verb[r] # None /\ (verb[r] = "execute" => granted) /\ goal[r] = Target(verb[r])
      BY <2>2, <3>2 DEF HandlerKnows
    <3>6. row = "approved" => granted
      BY <1>0 DEF SharedInv
    <3>7. ~(verb[r] = "approve") \/ granted
      BY <2>2, <3>2 DEF HandlerKnows
    <3>8. HandlerKnows(r)'
      <4>1. CASE verb[r] = "execute"
        BY <3>2, <3>3, <3>4, <3>5, <3>6, <4>1 DEF HandlerKnows, Dispatching
      <4>2. CASE verb[r] # "execute"
        BY <3>2, <3>3, <3>4, <3>5, <3>6, <3>7, <4>2 DEF HandlerKnows, Dispatching
      <4> QED
        BY <4>1, <4>2
    <3> QED
      BY <2>1, <3>1, <3>8
  <2>7. CASE OpenSession(r)
    BY <1>0, <2>1, <2>2, <2>7
       DEF TypeOK, OpenSession, Goto, HandlerKnows, Dispatching, Target,
           SharedInv, DestroyWasApproved, OutcomeIsTrue
  <2>8. CASE Destroy(r)
    BY <1>0, <2>1, <2>2, <2>8
       DEF TypeOK, Destroy, Goto, HandlerKnows, Dispatching, Target,
           SharedInv, DestroyWasApproved, OutcomeIsTrue
  <2>9. CASE LogError(r)
    BY <1>0, <2>1, <2>2, <2>9
       DEF TypeOK, LogError, WriteJournal, Goto, Assign, HandlerKnows, Dispatching, Target,
           SharedInv, DestroyWasApproved, OutcomeIsTrue
  <2>10. CASE LogOk(r)
    BY <1>0, <2>1, <2>2, <2>10
       DEF TypeOK, LogOk, WriteJournal, Goto, Assign, HandlerKnows, Dispatching, Target,
           SharedInv, DestroyWasApproved, OutcomeIsTrue
  <2>11. CASE Commit(r)
    <3>1. /\ pc[r] = "commit" /\ verb' = verb /\ goal' = goal
          /\ granted' = (granted \/ verb[r] = "approve")
          /\ UNCHANGED <<journal, accepted, sent>>
      BY <2>11 DEF Commit
    <3>2. pc'[r] = "refresh" /\ loaded'[r] = goal[r]
      BY <1>0, <2>11 DEF Commit, Goto, TypeOK
    <3>3. /\ verb[r] \in Verbs /\ goal[r] = Target(verb[r])
          /\ verb[r] = "execute" => granted
      BY <1>0, <2>2, <3>1 DEF HandlerKnows, TypeOK
    <3>4. goal[r] # "succeeded" /\ (goal[r] = "approved" => verb[r] = "approve")
      BY <3>3 DEF Target, Verbs
    <3>5. row' = goal[r] \/ row' = row
      BY <2>11 DEF Commit
    <3>6. SharedInv'
      BY <1>0, <3>1, <3>4, <3>5 DEF SharedInv, DestroyWasApproved, OutcomeIsTrue
    <3>7. HandlerKnows(r)'
      <4>1. verb[r] # None
        BY <3>3
      <4> QED
        BY <3>1, <3>2, <3>3, <3>4, <4>1 DEF HandlerKnows, Dispatching, Target
    <3> QED
      BY <2>1, <3>6, <3>7
  <2> QED
    BY <1>2, <2>3, <2>4, <2>5, <2>6, <2>7, <2>8, <2>9, <2>10, <2>11
<1>3. ASSUME NEW r \in Reqs,
             Refuse(r) \/ Journal(r) \/ CommitOutcome(r) \/ Abort(r)
      PROVE  Kept
  <2>1. End(r) /\ granted' = granted /\ sent' = sent /\ (accepted => accepted')
    <3>1. CASE Abort(r)
      BY <3>1 DEF Abort
    <3>2. CASE Refuse(r) \/ Journal(r) \/ CommitOutcome(r)
      BY <3>2 DEF Refuse, Journal, CommitOutcome
    <3> QED
      BY <1>3, <3>1, <3>2
  <2>2. ASSUME NEW s \in Reqs  PROVE HandlerKnows(s)'
    <3>1. CASE s = r
      BY <1>0, <2>1, <3>1, EndKnows
    <3>2. CASE s # r
      <4>1. pc'[s] = pc[s] /\ verb'[s] = verb[s] /\ loaded'[s] = loaded[s] /\ goal'[s] = goal[s]
        BY <1>0, <2>1, <3>2 DEF TypeOK, End, Goto
      <4> QED
        BY <1>0, <2>1, <4>1, OthersKnow
    <3> QED
      BY <3>1, <3>2
  <2>3. HandlerKnows(r)
    BY <1>0
  <2>4. SharedInv'
    <3>1. CASE Refuse(r)
      <4>1. row' = row /\ goal[r] # "succeeded"
        BY <2>3, <3>1 DEF Refuse, HandlerKnows
      <4>2. \A v \in Verbs : <<v, "succeeded">> \in journal' => <<v, "succeeded">> \in journal
        BY <3>1, <4>1 DEF Refuse, WriteJournal
      <4> QED
        BY <1>0, <2>1, <4>1, <4>2 DEF SharedInv, DestroyWasApproved, OutcomeIsTrue, Verbs
    <3>2. CASE Journal(r)
      <4>1. row' = row
        BY <3>2 DEF Journal
      <4>2. verb[r] # "execute" /\ (verb[r] = "approve" => granted)
        BY <2>3, <3>2 DEF Journal, HandlerKnows
      <4>3. journal' = journal \/ journal' = journal \cup {<<verb[r], "succeeded">>}
        BY <3>2 DEF Journal, WriteJournal
      <4> QED
        BY <1>0, <2>1, <4>1, <4>2, <4>3 DEF SharedInv, DestroyWasApproved, OutcomeIsTrue
    <3>3. CASE CommitOutcome(r)
      <4>1. journal' = journal /\ (row' = goal[r] \/ row' = row)
        BY <3>3 DEF CommitOutcome
      <4>2. goal[r] = "failed" \/ (goal[r] = "succeeded" /\ accepted)
        BY <2>3, <3>3 DEF CommitOutcome, HandlerKnows
      <4> QED
        BY <1>0, <2>1, <4>1, <4>2 DEF SharedInv, DestroyWasApproved, OutcomeIsTrue
    <3>4. CASE Abort(r)
      <4>1. row' = row /\ journal' = journal
        BY <3>4 DEF Abort
      <4> QED
        BY <1>0, <2>1, <4>1 DEF SharedInv, DestroyWasApproved, OutcomeIsTrue
    <3> QED
      BY <1>3, <3>1, <3>2, <3>3, <3>4
  <2> QED
    BY <2>2, <2>4
<1> QED
  BY <1>1, <1>2, <1>3 DEF Next

\* Type correctness.
THEOREM TypeCorrect == Spec => []TypeOK
<1>1. Inv => TypeOK
  BY DEF Inv
<1> QED
  BY <1>1, InitInv, InvStep, PTL DEF Spec

\* However the requests interleave, a DELETE of the VM was preceded by a
\* committed approval (the state tests of approve and execute).
THEOREM ApprovalFirst == Spec => []DestroyWasApproved
<1>1. Inv => DestroyWasApproved
  BY DEF Inv, SharedInv
<1> QED
  BY <1>1, InitInv, InvStep, PTL DEF Spec

\* However the requests interleave, recorded successes happened.
THEOREM RecordsAreTrue == Spec => []OutcomeIsTrue
<1>1. Inv => OutcomeIsTrue
  BY DEF Inv, SharedInv
<1> QED
  BY <1>1, InitInv, InvStep, PTL DEF Spec

-----------------------------------------------------------------------------
(* Requests that do not overlap.                                           *)

\* A handler that runs alone knows the row, and an execution that is past its
\* commit is the first one.
AloneKnows(r) ==
    /\ pc[r] \in {"gate", "commit"} => loaded[r] = row
    /\ pc[r] = "commit" => Permitted(verb[r], row)
    /\ pc[r] = "refresh" /\ verb[r] = "execute" => row = "executing" /\ sent = 0
    /\ pc[r] = "session" => sent = 0
    /\ pc[r] \in Dispatching => row = "executing"

SequentialInv ==
    ~overlap =>
        /\ \A r, s \in Reqs : pc[r] # "idle" /\ pc[s] # "idle" => r = s
        /\ sent <= 1
        /\ sent # 0 => row \notin {"pending", "approved"}
        /\ \A r \in Reqs : AloneKnows(r)

\* A row that has left "pending" and "approved" never returns to them, and a
\* DELETE is sent only by the execution that took it out of "approved".
LEMMA SequentialStep == Inv /\ SequentialInv /\ [Next]_vars => SequentialInv'
<1> SUFFICES ASSUME Inv, SequentialInv, [Next]_vars, ~overlap'
             PROVE  /\ \A r, s \in Reqs : pc'[r] # "idle" /\ pc'[s] # "idle" => r = s
                    /\ sent' <= 1
                    /\ sent' # 0 => row' \notin {"pending", "approved"}
                    /\ \A r \in Reqs : AloneKnows(r)'
  BY DEF SequentialInv
<1> USE DeletionConstants
<1>0. TypeOK /\ \A s \in Reqs : HandlerKnows(s)
  BY DEF Inv
<1>1. ~overlap
  BY DEF Next, vars, handlers, Issue, Load, Gate, Refuse, Commit, Refresh, Journal, OpenSession, Destroy,
         LogError, LogOk, CommitOutcome, Abort, SetWrites
<1>2. /\ \A r, s \in Reqs : pc[r] # "idle" /\ pc[s] # "idle" => r = s
      /\ sent \in {0, 1}
      /\ sent # 0 => row \notin {"pending", "approved"}
      /\ \A r \in Reqs : AloneKnows(r)
  BY <1>0, <1>1 DEF SequentialInv, TypeOK
<1>3. CASE UNCHANGED vars \/ SetWrites
  <2>1. UNCHANGED <<pc, verb, loaded, row, sent>>
    BY <1>3 DEF vars, handlers, SetWrites
  <2> QED
    BY <1>2, <2>1 DEF AloneKnows
<1>4. ASSUME NEW r \in Reqs, \A s \in Reqs \ {r} : pc[s] = "idle" /\ pc'[s] = pc[s],
             sent' \in {0, 1}, sent' # 0 => row' \notin {"pending", "approved"},
             AloneKnows(r)'
      PROVE  /\ \A s, t \in Reqs : pc'[s] # "idle" /\ pc'[t] # "idle" => s = t
             /\ sent' <= 1
             /\ sent' # 0 => row' \notin {"pending", "approved"}
             /\ \A s \in Reqs : AloneKnows(s)'
  <2>1. ASSUME NEW s \in Reqs, s # r  PROVE AloneKnows(s)'
    BY <1>4, <2>1 DEF AloneKnows, Dispatching
  <2> QED
    BY <1>4, <2>1
<1>5. ASSUME NEW r \in Reqs,
             \/ Issue(r) \/ Load(r) \/ Gate(r) \/ Refuse(r) \/ Commit(r) \/ Refresh(r)
             \/ Journal(r) \/ OpenSession(r) \/ Destroy(r) \/ LogError(r) \/ LogOk(r)
             \/ CommitOutcome(r) \/ Abort(r)
      PROVE  /\ \A s \in Reqs \ {r} : pc[s] = "idle" /\ pc'[s] = pc[s]
             /\ sent' \in {0, 1}
             /\ sent' # 0 => row' \notin {"pending", "approved"}
             /\ AloneKnows(r)'
  <2>1. \A s \in Reqs \ {r} : pc[s] = "idle"
    <3>1. CASE Issue(r)
      BY <3>1 DEF Issue
    <3>2. CASE ~Issue(r)
      <4>1. pc[r] # "idle"
        BY <1>5, <3>2 DEF Load, Gate, Refuse, Commit, Refresh, Journal, OpenSession, Destroy,
              LogError, LogOk, CommitOutcome, Abort
      <4> QED
        BY <4>1, <1>2
    <3> QED
      BY <3>1, <3>2
  <2>2. \A s \in Reqs \ {r} : pc'[s] = pc[s]
    BY <1>0, <1>5 DEF TypeOK, Issue, Load, Gate, Refuse, Commit, Refresh, Journal, OpenSession, Destroy,
          LogError, LogOk, CommitOutcome, Abort, End, Goto
  <2>3. HandlerKnows(r) /\ AloneKnows(r)
    BY <1>0, <1>2
  <2>4. CASE Issue(r) \/ Refuse(r) \/ Journal(r) \/ Abort(r)
    <3>1. UNCHANGED <<row, sent>>
      BY <2>4 DEF Issue, Refuse, Journal, Abort
    <3>2. pc'[r] \in {"load", "idle"}
      BY <1>0, <2>4 DEF TypeOK, Issue, Refuse, Journal, Abort, End, Goto
    <3> QED
      BY <1>2, <2>1, <2>2, <3>1, <3>2 DEF AloneKnows, Dispatching
  <2>5. CASE Load(r) \/ Gate(r)
    <3>1. UNCHANGED <<row, sent, verb>>
      BY <2>5 DEF Load, Gate
    <3>2. \/ pc'[r] = "gate" /\ loaded'[r] = row
          \/ pc'[r] = "refuse"
          \/ pc'[r] = "commit" /\ loaded' = loaded /\ loaded[r] = row /\ Permitted(verb[r], loaded[r])
      BY <1>0, <2>3, <2>5 DEF TypeOK, Load, Gate, Goto, AloneKnows
    <3> QED
      BY <1>2, <2>1, <2>2, <3>1, <3>2 DEF AloneKnows, Dispatching
  <2>6. CASE Commit(r)
    <3>1. /\ pc[r] = "commit" /\ pc'[r] = "refresh" /\ UNCHANGED <<sent, verb>>
          /\ row' = IF goal[r] # row THEN goal[r] ELSE row
      BY <1>0, <2>3, <2>6 DEF TypeOK, Commit, Goto, AloneKnows
    <3>2. /\ verb[r] \in Verbs /\ goal[r] = Target(verb[r]) /\ Permitted(verb[r], row)
      BY <1>0, <2>3, <3>1 DEF HandlerKnows, AloneKnows, TypeOK
    <3>3. row' = Target(verb[r])
      BY <3>1, <3>2
    <3>4. sent # 0 => verb[r] = "reject"
      BY <1>2, <3>2 DEF Permitted
    <3>5. /\ verb[r] = "reject" => row' = "rejected"
          /\ verb[r] = "execute" => row' = "executing"
      BY <3>3 DEF Target
    <3> QED
      BY <1>2, <2>1, <2>2, <3>1, <3>4, <3>5 DEF AloneKnows, Dispatching
  <2>7. CASE Refresh(r)
    <3>1. /\ pc[r] = "refresh" /\ UNCHANGED <<row, sent, verb>>
          /\ pc'[r] = IF verb[r] = "execute" THEN "session" ELSE "journal"
      BY <1>0, <2>7 DEF TypeOK, Refresh, Goto
    <3> QED
      BY <1>2, <2>1, <2>2, <2>3, <3>1 DEF AloneKnows, Dispatching
  <2>8. CASE OpenSession(r)
    <3>1. /\ pc[r] = "session" /\ row' = row /\ pc'[r] \in {"destroy", "log_error"}
          /\ sent' = sent + 1 \/ sent' = sent
      BY <1>0, <2>8 DEF TypeOK, OpenSession, Goto
    <3>2. sent = 0 /\ row = "executing"
      BY <2>3, <3>1 DEF AloneKnows, Dispatching
    <3> QED
      BY <2>1, <2>2, <3>1, <3>2 DEF AloneKnows, Dispatching
  <2>9. CASE Destroy(r) \/ LogError(r) \/ LogOk(r)
    <3>1. /\ pc[r] \in Dispatching /\ pc'[r] \in {"log_ok", "log_error", "commit_outcome"}
          /\ UNCHANGED <<row, sent>>
      BY <1>0, <2>9 DEF TypeOK, Destroy, LogError, LogOk, Goto, Dispatching
    <3> QED
      BY <1>2, <2>1, <2>2, <2>3, <3>1 DEF AloneKnows, Dispatching
  <2>10. CASE CommitOutcome(r)
    <3>1. /\ pc[r] = "commit_outcome" /\ pc'[r] = "idle" /\ sent' = sent
          /\ row' \in {goal[r], row}
      BY <1>0, <2>10 DEF TypeOK, CommitOutcome, End, Goto
    <3>2. goal[r] \in {"failed", "succeeded"} /\ row = "executing"
      BY <2>3, <3>1 DEF HandlerKnows, AloneKnows, Dispatching
    <3> QED
      BY <1>2, <2>1, <2>2, <3>1, <3>2 DEF AloneKnows, Dispatching
  <2> QED
    BY <1>5, <2>4, <2>5, <2>6, <2>7, <2>8, <2>9, <2>10
<1> QED
  BY <1>3, <1>4, <1>5 DEF Next

\* Requests that do not overlap destroy the VM at most once, wherever they are
\* aborted and however often they are repeated.
THEOREM OneDestroy == Spec => []AtMostOneDestroy
<1>1. Init => Inv /\ SequentialInv
  BY InitInv DEF Init, SequentialInv, AloneKnows, Dispatching
<1>2. Inv /\ SequentialInv /\ [Next]_vars => Inv' /\ SequentialInv'
  BY InvStep, SequentialStep
<1>3. SequentialInv => AtMostOneDestroy
  BY DEF SequentialInv, AtMostOneDestroy
<1> QED
  BY <1>1, <1>2, <1>3, PTL DEF Spec
=============================================================================

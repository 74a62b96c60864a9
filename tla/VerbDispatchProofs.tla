------------------------ MODULE VerbDispatchProofs ------------------------
(***************************************************************************)
(* For every number of requests, keys and journal entries:                 *)
(*   - every step of VerbDispatch is a step of IdempotencyCache or leaves  *)
(*     it alone, so the cache's proved invariant holds here (Simulation);  *)
(*   - DispatchInv is inductive, and at most one Proxmox call is made for  *)
(*     a key while its response is cached: VerbDispatch implements         *)
(*     DispatchWindow;                                                     *)
(*   - AuditInv is inductive beside it: requests and cached responses know *)
(*     the journal entry they are about, which is why the journal, the     *)
(*     cache and what clients are told agree, whatever fails in between.   *)
(***************************************************************************)
EXTENDS VerbDispatch, TLAPS

CP == INSTANCE IdempotencyCacheProofs WITH Clients <- Reqs, Keys <- CacheKeys, Bodies <- Body

-----------------------------------------------------------------------------
(* The cache.                                                              *)

\* The assumptions of IdempotencyCache hold in this instance.
LEMMA CacheClientsFinite == CP!IsFiniteSet(Reqs)
  BY ReqsFinite DEF IsFiniteSet, CP!IsFiniteSet

\* The cache's assumption on None holds for the dispatcher's instance of it.
LEMMA CacheNoneIsFresh == None \notin Reqs \cup Flights \cup CacheKeys \cup CP!Entry \cup CP!Local
  BY NoneIsNothing DEF CP!Entry, CP!Local

\* A step of the cache keeps the invariant proved for the cache alone.
LEMMA CacheInvKept == CP!CacheInv /\ [CP!CacheNext]_(CP!cacheVars) => CP!CacheInv'
  BY CacheClientsFinite, CacheNoneIsFresh, CP!CacheInvStep

\* The cache's invariant holds in its initial states.
LEMMA CacheInitInv == CP!CacheInit => CP!CacheInv
  BY CacheClientsFinite, CacheNoneIsFresh, CP!InitCacheInv

\* The two instances of the module have the same definitions.
LEMMA SameNext == Cache!CacheNext <=> CP!CacheNext
  BY DEF Cache!CacheNext, Cache!ClientStep, Cache!EnterSingleFlight, Cache!Unreferenced,
         Cache!AcquireFlightLock, Cache!CancelWait, Cache!GetEntry, Cache!Store,
         Cache!ReleaseFlightLock, Cache!ReleaseSingleFlight, Cache!ExpireEntry,
         Cache!ProcessRestart, Cache!Holds, Cache!Prune, Cache!Put,
         CP!CacheNext, CP!ClientStep, CP!EnterSingleFlight, CP!Unreferenced,
         CP!AcquireFlightLock, CP!CancelWait, CP!GetEntry, CP!Store,
         CP!ReleaseFlightLock, CP!ReleaseSingleFlight, CP!ExpireEntry,
         CP!ProcessRestart, CP!Holds, CP!Prune, CP!Put

\* The cache's two instances (the composition's and the proofs') have one type.
LEMMA SameType == Cache!TypeOK <=> CP!TypeOK
  BY DEF Cache!TypeOK, CP!TypeOK, Cache!Entry, CP!Entry, Cache!Local, CP!Local

\* They have the same initial states.
LEMMA SameInit == Cache!CacheInit <=> CP!CacheInit
  BY DEF Cache!CacheInit, CP!CacheInit

\* Mutual exclusion, as the dispatcher's proofs use it.
LEMMA OneInSection ==
    ASSUME CP!CacheInv, NEW r \in Reqs, NEW q \in Reqs, Cache!Holds(r), Cache!Holds(q),
           mine[r].key = mine[q].key
    PROVE  r = q
  BY DEF CP!CacheInv, CP!FlightIsCurrent, Cache!Holds

-----------------------------------------------------------------------------
(* Types of the parts.                                                     *)

\* The results that the dispatch table names are results of the model.
LEMMA PlanTypes ==
    ASSUME NEW v \in Verbs
    PROVE  /\ Plan[v].ok \in Results
           /\ Plan[v].err \in Results
           /\ Plan[v].noop \in Results \cup {"none"}
  BY VerbsKnown
     DEF Plan, Results, DispatchStart, DispatchStop, DispatchReboot, DispatchDelete,
         DispatchSnapshot, DispatchBackup, DispatchDeleteSnapshot, DispatchMigrate,
         MigrateCancel

\* The body of an audited answer is well typed.
LEMMA AuditBodyType ==
    ASSUME NEW j \in JournalIds, NEW result \in Results, NEW f \in BOOLEAN
    PROVE  AuditBody(j, result, f) \in Body
  BY DEF AuditBody, Body

\* What DispatchInv says of a request that audits.
LEMMA AuditingTypes ==
    ASSUME TypeOK, EntriesExist, NEW r \in Reqs, pc[r] \in Auditing \cup Retrying,
           NEW f \in BOOLEAN
    PROVE  /\ entry[r] \in JournalIds
           /\ outcome[r] \in Results
           /\ AuditBody(entry[r], outcome[r], f) \in Body
  BY AuditBodyType DEF TypeOK, EntriesExist, Auditing, Retrying, Working

\* The parts of the call of an active request are well typed.
LEMMA CallTypes ==
    ASSUME TypeOK, PcMatchesLock, NEW r \in Reqs, pc[r] # "idle"
    PROVE  /\ call[r] \in Call /\ call[r] # None
           /\ call[r].verb \in Verbs
           /\ Keyed(r) => call[r].key \in IdemKeys /\ CacheKey(r) \in CacheKeys
  BY DEF TypeOK, PcMatchesLock, Call, Keyed, CacheKey, CacheKeys

\* A store is a step of the cache.
LEMMA StoreStep ==
    ASSUME NEW r \in Reqs, NEW p \in BOOLEAN, NEW b \in Body, StoreResponse(r, p, b)
    PROVE  [Cache!CacheNext]_cacheVars
  BY DEF StoreResponse, Cache!CacheNext, Cache!ClientStep, cacheVars

-----------------------------------------------------------------------------
(* Simulation: every step of the dispatcher is a step of the cache.        *)

\* The first half of an audit stores a pending response.
LEMMA StartAuditStep ==
    ASSUME TypeOK, EntriesExist, NEW r \in Reqs, pc[r] \in Working, NEW result \in Results,
           StartAudit(r, result)
    PROVE  [Cache!CacheNext]_cacheVars
  <1>1. entry[r] \in JournalIds
    BY DEF TypeOK, EntriesExist
  <1>2. AuditBody(entry[r], result, FALSE) \in Body
    BY <1>1, AuditBodyType
  <1> QED BY <1>2, StoreStep DEF StartAudit

\* Every step of the dispatcher is a step of the cache or leaves it alone.
LEMMA Simulation ==
    ASSUME TypeOK, PcMatchesLock, EntriesExist, [Next]_vars
    PROVE  [Cache!CacheNext]_cacheVars
  <1>1. ASSUME NEW r \in Reqs, Issue(r) \/ Refuse(r) \/ RetryPatch(r) \/ Resolve(r)
                  \/ WriteaheadCreated(r) \/ WriteaheadFailed(r) \/ CheckPassed(r)
                  \/ StopAccepted(r) \/ UnexpectedError(r) \/ CancelledPatch(r)
                  \/ BestEffortPatch(r) \/ CancelledRetry(r) \/ BestEffortRetry(r) \/ Finish(r)
        PROVE  [Cache!CacheNext]_cacheVars
    <2>1. CASE RetryPatch(r)
      <3>1. PICK f \in BOOLEAN : StoreResponse(r, ~f, AuditBody(entry[r], outcome[r], f))
        BY <2>1 DEF RetryPatch
      <3>2. AuditBody(entry[r], outcome[r], f) \in Body
        BY <2>1, AuditingTypes DEF RetryPatch, Retrying
      <3> QED BY <3>1, <3>2, StoreStep
    <2>2. CASE ~RetryPatch(r)
      <3>1. UNCHANGED cacheVars
        BY <1>1, <2>2 DEF Issue, Refuse, Resolve, WriteaheadCreated, WriteaheadFailed,
              CheckPassed, StopAccepted, UnexpectedError, CancelledPatch, BestEffortPatch,
              CancelledRetry, BestEffortRetry, Finish
      <3> QED BY <3>1
    <2> QED BY <2>1, <2>2
  <1>2. ASSUME NEW r \in Reqs, Admit(r) \/ Acquire(r) \/ Lookup(r) \/ Exit(r) \/ Cleanup(r) \/ Cancel(r)
        PROVE  [Cache!CacheNext]_cacheVars
    <2>1. CASE Admit(r)
      <3>1. Keyed(r) => CacheKey(r) \in CacheKeys
        BY <2>1, CallTypes DEF Admit
      <3> QED BY <2>1, <3>1 DEF Admit, Cache!CacheNext, Cache!ClientStep
    <2>2. CASE Acquire(r) \/ Lookup(r)
      BY <2>2 DEF Acquire, Lookup, Cache!CacheNext, Cache!ClientStep
    <2>3. CASE Exit(r) \/ Cleanup(r)
      BY <2>3 DEF Exit, Cleanup, Cache!CacheNext, Cache!ClientStep
    <2>4. CASE Cancel(r)
      BY <2>4 DEF Cancel, Cache!CacheNext, Cache!ClientStep
    <2> QED BY <1>2, <2>1, <2>2, <2>3, <2>4
  <1>3. ASSUME NEW r \in Reqs, CheckNoop(r) \/ CallAccepted(r) \/ ProxmoxError(r)
        PROVE  [Cache!CacheNext]_cacheVars
    <2>1. pc[r] \in Working /\ pc[r] # "idle"
      BY <1>3 DEF CheckNoop, CallAccepted, ProxmoxError, Working
    <2>2. call[r].verb \in Verbs
      BY <2>1, CallTypes
    <2>3. PICK result \in Results : StartAudit(r, result)
      BY <1>3, <2>2, PlanTypes DEF CheckNoop, CallAccepted, ProxmoxError
    <2> QED BY <2>1, <2>3, StartAuditStep
  <1>4. ASSUME NEW r \in Reqs, Patch(r) \/ FinalizePatch(r)
        PROVE  [Cache!CacheNext]_cacheVars
    <2>1. PICK f \in BOOLEAN : StoreResponse(r, ~f, AuditBody(entry[r], outcome[r], f))
      BY <1>4 DEF Patch, FinalizePatch
    <2>2. AuditBody(entry[r], outcome[r], f) \in Body
      BY <1>4, AuditingTypes DEF Patch, FinalizePatch, Auditing
    <2> QED BY <2>1, <2>2, StoreStep
  <1>5. ASSUME NEW r \in Reqs, Finalize(r)
        PROVE  [Cache!CacheNext]_cacheVars
    <2>1. AuditBody(entry[r], outcome[r], FALSE) \in Body
      BY <1>5, AuditingTypes DEF Finalize, Auditing
    <2> QED BY <1>5, <2>1, StoreStep DEF Finalize
  <1>6. ASSUME NEW k \in CacheKeys, Expire(k)
        PROVE  [Cache!CacheNext]_cacheVars
    BY <1>6 DEF Expire, Cache!CacheNext
  <1>7. CASE Restart
    BY <1>7 DEF Restart, Cache!CacheNext
  <1>8. CASE UNCHANGED vars
    BY <1>8 DEF vars
  <1> QED BY <1>1, <1>2, <1>3, <1>4, <1>5, <1>6, <1>7, <1>8 DEF Next, Progress

-----------------------------------------------------------------------------
(* Type correctness.                                                       *)

RestTypeOK ==
    /\ pc \in [Reqs -> PCs]
    /\ call \in [Reqs -> Call \cup {None}]
    /\ entry \in [Reqs -> JournalIds \cup {None}]
    /\ terminal \in [Reqs -> BOOLEAN]
    /\ outcome \in [Reqs -> Results \cup {"none"}]
    /\ guarded \in [Reqs -> BOOLEAN]
    /\ resp \in [Reqs -> Response \cup {None}]
    /\ journal \in [JournalIds -> Record \cup {None}]
    /\ sent \in [JournalIds -> {"no", "sent", "accepted"}]
    /\ calls \in [CacheKeys -> Nat]
    /\ fault \in [JournalIds -> {"none", "patch", "lost"}]

\* A PATCH of an existing entry keeps the types of the journal.
LEMMA PatchTypes ==
    ASSUME RestTypeOK, NEW r \in Reqs, NEW j \in JournalIds, journal[j] # None,
           NEW result \in Results, PatchAcked(j, result) \/ PatchFailed(r, j, result)
    PROVE  /\ journal' \in [JournalIds -> Record \cup {None}]
           /\ fault' \in [JournalIds -> {"none", "patch", "lost"}]
           /\ \A i \in JournalIds : journal[i] # None => journal'[i] # None
  <1>1. journal[j] \in Record
    BY DEF RestTypeOK
  <1>2. [journal[j] EXCEPT !.result = result] \in Record
    BY <1>1 DEF Record
  <1>3. journal' = journal \/ journal' = [journal EXCEPT ![j] = [@ EXCEPT !.result = result]]
    BY DEF PatchAcked, PatchFailed
  <1>4. journal' \in [JournalIds -> Record \cup {None}]
    BY <1>2, <1>3 DEF RestTypeOK
  <1>5. fault' \in [JournalIds -> {"none", "patch", "lost"}]
    BY DEF PatchAcked, PatchFailed, RestTypeOK
  <1>6. None \notin Record
    BY NoneIsNothing
  <1>7. \A i \in JournalIds : journal[i] # None => journal'[i] # None
    BY <1>2, <1>3, <1>6 DEF RestTypeOK
  <1> QED BY <1>4, <1>5, <1>7

\* Every step keeps the types of the dispatcher's own variables.
LEMMA RestTypeStep ==
    ASSUME TypeOK, PcMatchesLock, EntriesExist, [Next]_vars
    PROVE  RestTypeOK'
  <1>t. RestTypeOK
    BY DEF TypeOK, RestTypeOK
  <1>r. Raised \in Response /\ \A b \in Body : Audited(b) \in Response
    BY DEF Raised, Audited, Response
  <1>1. ASSUME NEW r \in Reqs, Issue(r) PROVE RestTypeOK'
    BY <1>1, <1>t DEF Issue, Goto, RestTypeOK, PCs, Call, worldVars
  <1>2. ASSUME NEW r \in Reqs, Refuse(r) \/ Admit(r) \/ Acquire(r) \/ Resolve(r) \/ Cleanup(r)
        PROVE  RestTypeOK'
    BY <1>2, <1>t DEF Refuse, Admit, Acquire, Resolve, Cleanup, Goto, Respond, RestTypeOK, PCs,
                      Response, reqVars, worldVars
  <1>3. ASSUME NEW r \in Reqs, Lookup(r) PROVE RestTypeOK'
    <2>1. CacheKey(r) \in CacheKeys
      BY <1>3, CallTypes DEF Lookup, PcMatchesLock
    <2>2. entries'[CacheKey(r)] # None => entries'[CacheKey(r)].body \in Body
      BY <1>3, <2>1 DEF Lookup, Cache!GetEntry, Cache!Prune, TypeOK, Cache!TypeOK, Cache!Entry
    <2>3. entries'[CacheKey(r)] # None =>
             /\ entries'[CacheKey(r)].body.entry \in JournalIds
             /\ entries'[CacheKey(r)].body.result \in Results
      BY <2>2 DEF Body
    <2> QED BY <1>3, <1>t, <1>r, <2>2, <2>3 DEF Lookup, Goto, Respond, RestTypeOK, PCs, worldVars
  <1>4. ASSUME NEW r \in Reqs, RetryPatch(r) \/ Patch(r) \/ FinalizePatch(r)
               \/ CancelledPatch(r) \/ BestEffortPatch(r) \/ CancelledRetry(r) \/ BestEffortRetry(r)
        PROVE  RestTypeOK'
    <2>1. pc[r] \in Auditing \cup Retrying /\ pc[r] \in Working \cup Retrying
      BY <1>4 DEF RetryPatch, Patch, FinalizePatch, CancelledPatch, BestEffortPatch,
                  CancelledRetry, BestEffortRetry, Auditing, Retrying, Working
    <2>2. /\ entry[r] \in JournalIds /\ outcome[r] \in Results
          /\ \A f \in BOOLEAN : AuditBody(entry[r], outcome[r], f) \in Body
      BY <2>1, AuditingTypes
    <2>3. journal[entry[r]] # None
      BY <2>1 DEF EntriesExist
    <2>4. "interrupted" \in Results
      BY DEF Results
    <2>5. \E result \in Results :
             PatchAcked(entry[r], result) \/ PatchFailed(r, entry[r], result)
      BY <1>4, <2>2, <2>4 DEF RetryPatch, Patch, FinalizePatch, CancelledPatch,
                  BestEffortPatch, CancelledRetry, BestEffortRetry
    <2>6. /\ journal' \in [JournalIds -> Record \cup {None}]
          /\ fault' \in [JournalIds -> {"none", "patch", "lost"}]
      BY <2>2, <2>3, <2>5, <1>t, PatchTypes
    <2>7. UNCHANGED <<call, entry, guarded, sent, calls>>
      BY <1>4 DEF RetryPatch, Patch, FinalizePatch, CancelledPatch, BestEffortPatch,
                  CancelledRetry, BestEffortRetry, reqVars
    <2>8. /\ pc' \in [Reqs -> PCs]
          /\ terminal' \in [Reqs -> BOOLEAN]
          /\ outcome' \in [Reqs -> Results \cup {"none"}]
          /\ resp' \in [Reqs -> Response \cup {None}]
      <3>1. CASE RetryPatch(r) \/ Patch(r) \/ FinalizePatch(r)
        BY <3>1, <1>t, <1>r, <2>2 DEF RetryPatch, Patch, FinalizePatch, Respond, Goto, PCs,
              RestTypeOK, reqVars
      <3>2. CASE CancelledPatch(r) \/ BestEffortPatch(r)
        BY <3>2, <1>t, <1>r, <2>4 DEF CancelledPatch, BestEffortPatch, Reraise, StartFinalize,
              Respond, Goto, PCs, RestTypeOK
      <3>3. CASE CancelledRetry(r) \/ BestEffortRetry(r)
        BY <3>3, <1>t, <1>r DEF CancelledRetry, BestEffortRetry, Respond, Goto, PCs,
              RestTypeOK, reqVars
      <3> QED BY <1>4, <3>1, <3>2, <3>3
    <2> QED BY <2>6, <2>7, <2>8, <1>t DEF RestTypeOK
  <1>5. ASSUME NEW r \in Reqs, WriteaheadCreated(r) \/ WriteaheadFailed(r) PROVE RestTypeOK'
    <2>1. call[r].verb \in Verbs /\ (Keyed(r) => CacheKey(r) \in CacheKeys)
      BY <1>5, CallTypes DEF WriteaheadCreated, WriteaheadFailed
    <2>2. [verb |-> call[r].verb, result |-> "in_progress"] \in Record
      BY <2>1 DEF Record
    <2>3. CASE WriteaheadCreated(r)
      BY <2>1, <2>2, <2>3, <1>t DEF WriteaheadCreated, AfterWriteahead, IssueCall, StartFinalize,
            Goto, PCs, Results, RestTypeOK
    <2>4. CASE WriteaheadFailed(r)
      BY <2>2, <2>4, <1>t DEF WriteaheadFailed, Respond, Raised, Goto, PCs, Response,
            RestTypeOK, reqVars
    <2> QED BY <1>5, <2>3, <2>4
  <1>6. ASSUME NEW r \in Reqs, CheckPassed(r) PROVE RestTypeOK'
    <2>1. Keyed(r) => CacheKey(r) \in CacheKeys
      BY <1>6, CallTypes DEF CheckPassed
    <2>2. sent' \in [JournalIds -> {"no", "sent", "accepted"}]
      BY <1>6, <1>t DEF CheckPassed, IssueCall, RestTypeOK
    <2>3. calls' \in [CacheKeys -> Nat]
      BY <1>6, <2>1, <1>t DEF CheckPassed, IssueCall, RestTypeOK
    <2>4. pc' \in [Reqs -> PCs]
      BY <1>6, <1>t DEF CheckPassed, Goto, PCs, RestTypeOK
    <2> QED BY <1>6, <2>2, <2>3, <2>4, <1>t DEF CheckPassed, RestTypeOK, reqVars
  <1>7. ASSUME NEW r \in Reqs, CheckNoop(r) \/ CallAccepted(r) \/ ProxmoxError(r)
        PROVE  RestTypeOK'
    <2>1. call[r].verb \in Verbs
      BY <1>7, CallTypes DEF CheckNoop, CallAccepted, ProxmoxError
    <2>2. CASE CheckNoop(r)
      BY <2>1, <2>2, <1>t, PlanTypes DEF CheckNoop, StartAudit, Goto, PCs, RestTypeOK, worldVars
    <2>3. CASE CallAccepted(r)
      BY <2>1, <2>3, <1>t, PlanTypes DEF CallAccepted, StartAudit, Goto, PCs, RestTypeOK
    <2>4. CASE ProxmoxError(r)
      <3>1. guarded' \in [Reqs -> BOOLEAN]
        BY <2>4, <1>t DEF ProxmoxError, RestTypeOK
      <3>2. /\ outcome' \in [Reqs -> Results \cup {"none"}]
            /\ pc' \in [Reqs -> PCs]
        BY <2>1, <2>4, <1>t, PlanTypes DEF ProxmoxError, StartAudit, Goto, PCs, RestTypeOK
      <3> QED BY <2>4, <3>1, <3>2, <1>t DEF ProxmoxError, RestTypeOK, worldVars
    <2> QED BY <1>7, <2>2, <2>3, <2>4
  <1>8. ASSUME NEW r \in Reqs, StopAccepted(r) \/ UnexpectedError(r) \/ Finalize(r)
               \/ Exit(r) \/ Finish(r)
        PROVE  RestTypeOK'
    BY <1>8, <1>t, <1>r DEF StopAccepted, UnexpectedError, Finalize, Exit, Finish, StartFinalize,
          Respond, Goto, PCs, Results, RestTypeOK, reqVars, worldVars
  <1>9. ASSUME NEW r \in Reqs, Cancel(r) PROVE RestTypeOK'
    BY <1>9, <1>t, <1>r DEF Cancel, Shielded, StartFinalize, Respond, Goto, PCs, Results,
          RestTypeOK, reqVars, worldVars
  <1>10. ASSUME NEW k \in CacheKeys, Expire(k) PROVE RestTypeOK'
    BY <1>10, <1>t DEF Expire, RestTypeOK, reqVars
  <1>11. CASE Restart
    BY <1>11, <1>t DEF Restart, RestTypeOK, PCs
  <1>12. CASE UNCHANGED vars
    BY <1>12, <1>t DEF vars, reqVars, worldVars, RestTypeOK
  <1> QED BY <1>1, <1>2, <1>3, <1>4, <1>5, <1>6, <1>7, <1>8, <1>9, <1>10, <1>11, <1>12
             DEF Next, Progress

-----------------------------------------------------------------------------
(* Where a request stands and what it has of the cache.                    *)

\* A step inside the section of a key does not touch the locks.
LEMMA StayInSection ==
    ASSUME TypeOK, PcMatchesLock, NEW r \in Reqs, UNCHANGED <<call, owner, waiting, mine>>,
           pc[r] \in Section, NEW label \in Section, Goto(r, label),
           label \in {"lookup"} \cup Retrying => Keyed(r)
    PROVE  PcMatchesLock'
  <1>1. pc' = [pc EXCEPT ![r] = label] /\ pc \in [Reqs -> PCs]
    BY DEF Goto, TypeOK
  <1>2. ASSUME NEW q \in Reqs PROVE pc'[q] = IF q = r THEN label ELSE pc[q]
    BY <1>1
  <1> QED BY <1>2 DEF PcMatchesLock, Section, Retrying, BeforeCall, Calling, Auditing, Keyed,
                      CacheKey, Cache!Holds

\* The steps inside the section are such steps.
LEMMA SectionSteps ==
    ASSUME TypeOK, PcMatchesLock, NEW r \in Reqs,
           \/ Lookup(r) \/ RetryPatch(r) \/ Resolve(r) \/ WriteaheadCreated(r)
           \/ WriteaheadFailed(r) \/ CheckPassed(r) \/ CheckNoop(r) \/ StopAccepted(r)
           \/ CallAccepted(r) \/ ProxmoxError(r) \/ UnexpectedError(r) \/ Patch(r)
           \/ CancelledPatch(r) \/ BestEffortPatch(r) \/ CancelledRetry(r)
           \/ BestEffortRetry(r) \/ Finalize(r) \/ FinalizePatch(r)
           \/ (Cancel(r) /\ pc[r] \notin {"gate", "acquire", "cleanup"})
    PROVE  PcMatchesLock'
  <1>1. UNCHANGED call
    BY DEF Lookup, RetryPatch, Resolve, WriteaheadCreated, WriteaheadFailed, CheckPassed,
           CheckNoop, StopAccepted, CallAccepted, ProxmoxError, UnexpectedError, Patch,
           CancelledPatch, BestEffortPatch, CancelledRetry, BestEffortRetry, Finalize,
           FinalizePatch, Cancel, reqVars
  <1>2. UNCHANGED <<owner, waiting, mine>>
    BY DEF Lookup, RetryPatch, Resolve, WriteaheadCreated, WriteaheadFailed, CheckPassed,
           CheckNoop, StopAccepted, CallAccepted, ProxmoxError, UnexpectedError, Patch,
           CancelledPatch, BestEffortPatch, CancelledRetry, BestEffortRetry, Finalize,
           FinalizePatch, Cancel, StartAudit, StoreResponse, cacheVars, Cache!GetEntry,
           Cache!Store
  <1>3. pc[r] \in Section
    BY DEF Lookup, RetryPatch, Resolve, WriteaheadCreated, WriteaheadFailed, CheckPassed,
           CheckNoop, StopAccepted, CallAccepted, ProxmoxError, UnexpectedError, Patch,
           CancelledPatch, BestEffortPatch, CancelledRetry, BestEffortRetry, Finalize,
           FinalizePatch, Cancel, Shielded, Section, Retrying, BeforeCall, Calling, Auditing
  <1>4. CASE Lookup(r)
    <2>1. Keyed(r)
      BY <1>4 DEF Lookup, PcMatchesLock
    <2>2. PICK label \in {"resolve", "exit", "retry"} : Goto(r, label)
      BY <1>4 DEF Lookup, Respond
    <2> QED BY <1>1, <1>2, <1>3, <2>1, <2>2, StayInSection DEF Section, Retrying, BeforeCall
  <1>5. CASE Resolve(r) \/ WriteaheadCreated(r) \/ WriteaheadFailed(r) \/ CheckPassed(r)
             \/ CheckNoop(r) \/ StopAccepted(r) \/ CallAccepted(r) \/ ProxmoxError(r)
             \/ UnexpectedError(r)
    <2>1. PICK label \in {"writeahead", "check", "dispatch", "stopping", "patch", "finalize",
                          "exit"} : Goto(r, label)
      BY <1>5 DEF Resolve, WriteaheadCreated, WriteaheadFailed, CheckPassed, CheckNoop,
            StopAccepted, CallAccepted, ProxmoxError, UnexpectedError, StartAudit,
            StartFinalize, AfterWriteahead, Respond
    <2> QED BY <1>1, <1>2, <1>3, <2>1, StayInSection
               DEF Section, Retrying, BeforeCall, Calling, Auditing
  <1>6. CASE RetryPatch(r) \/ Patch(r) \/ CancelledPatch(r) \/ BestEffortPatch(r)
             \/ CancelledRetry(r) \/ BestEffortRetry(r) \/ Finalize(r) \/ FinalizePatch(r)
    <2>1. PICK label \in {"patch_be", "retry_be", "finalize", "finalize_patch", "exit"} :
             Goto(r, label) /\ (label = "retry_be" => pc[r] = "retry_c")
      BY <1>6 DEF RetryPatch, Patch, CancelledPatch, BestEffortPatch, CancelledRetry,
            BestEffortRetry, Finalize, FinalizePatch, Reraise, StartFinalize, Respond
    <2>2. label = "retry_be" => Keyed(r)
      BY <2>1 DEF PcMatchesLock, Retrying
    <2> QED BY <1>1, <1>2, <1>3, <2>1, <2>2, StayInSection
               DEF Section, Retrying, BeforeCall, Calling, Auditing
  <1>7. CASE Cancel(r) /\ pc[r] \notin {"gate", "acquire", "cleanup"}
    <2>1. PICK label \in {"writeahead_c", "patch_c", "retry_c", "finalize", "exit"} :
             Goto(r, label) /\ (label = "retry_c" => pc[r] = "retry")
      BY <1>7 DEF Cancel, Shielded, StartFinalize, Respond
    <2>2. label = "retry_c" => Keyed(r)
      BY <2>1 DEF PcMatchesLock, Retrying
    <2> QED BY <1>1, <1>2, <1>3, <2>1, <2>2, StayInSection
               DEF Section, Retrying, BeforeCall, Calling, Auditing
  <1> QED BY <1>4, <1>5, <1>6, <1>7

\* Entering, waiting, leaving and the environment.
LEMMA LockSteps ==
    ASSUME TypeOK, PcMatchesLock, CP!CacheInv, [Next]_vars
    PROVE  PcMatchesLock'
  <1>p. pc \in [Reqs -> PCs] /\ call \in [Reqs -> Call \cup {None}]
        /\ mine \in [Reqs -> Cache!Local \cup {None}] /\ owner \in [Flights -> Reqs \cup {None}]
    BY DEF TypeOK, Cache!TypeOK
  <1>n. None \notin Reqs /\ None \notin Call /\ None \notin Cache!Local
    BY NoneIsNothing DEF Cache!Local
  <1>1. ASSUME NEW r \in Reqs, Issue(r) PROVE PcMatchesLock'
    BY <1>1, <1>p, <1>n DEF Issue, Goto, PcMatchesLock, cacheVars, Section, Retrying, BeforeCall,
          Calling, Auditing, Keyed, CacheKey, Cache!Holds, Call
  <1>2. ASSUME NEW r \in Reqs, Refuse(r) PROVE PcMatchesLock'
    BY <1>2, <1>p DEF Refuse, Goto, PcMatchesLock, cacheVars, reqVars, Section, Retrying, BeforeCall,
          Calling, Auditing, Keyed, CacheKey, Cache!Holds
  <1>3. ASSUME NEW r \in Reqs, Admit(r) PROVE PcMatchesLock'
    <2>1. CASE ~Keyed(r)
      BY <1>3, <2>1, <1>p DEF Admit, Goto, PcMatchesLock, cacheVars, reqVars, Section, Retrying,
            BeforeCall, Calling, Auditing, Keyed, CacheKey, Cache!Holds
    <2>2. CASE Keyed(r)
      <3>1. UNCHANGED call /\ Goto(r, "acquire") /\ Cache!EnterSingleFlight(r, CacheKey(r))
            /\ pc[r] = "gate"
        BY <1>3, <2>2 DEF Admit, reqVars
      <3>2. CacheKey(r) \in CacheKeys
        BY <2>2, <3>1, CallTypes
      <3>3. \E f \in Flights : mine' = [mine EXCEPT ![r] = [key |-> CacheKey(r), flight |-> f]]
        BY <3>1, <3>2 DEF Cache!EnterSingleFlight, TypeOK, Cache!TypeOK
      <3>4. mine'[r] # None /\ mine'[r].key = CacheKey(r)
        BY <3>2, <3>3, <1>p, <1>n DEF Cache!Local
      <3>5. \A q \in Reqs \ {r} : mine'[q] = mine[q]
        BY <3>3, <1>p
      <3>6. \A q \in Reqs \ {r} : Cache!Holds(q)' <=> Cache!Holds(q)
        BY <3>1, <3>5, <1>p DEF Cache!EnterSingleFlight, Cache!Unreferenced, Cache!Holds, Cache!Local
      <3>7. waiting' = waiting \cup {r}
        BY <3>1 DEF Cache!EnterSingleFlight
      <3>8. \A q \in Reqs : pc'[q] = IF q = r THEN "acquire" ELSE pc[q]
        BY <3>1, <1>p DEF Goto
      <3> QED BY <2>2, <3>1, <3>4, <3>5, <3>6, <3>7, <3>8
                 DEF PcMatchesLock, Section, Retrying, BeforeCall, Calling, Auditing, Keyed, CacheKey
    <2> QED BY <2>1, <2>2
  <1>4. ASSUME NEW r \in Reqs, Acquire(r) PROVE PcMatchesLock'
    <2>1. /\ pc[r] = "acquire" /\ Goto(r, "lookup") /\ UNCHANGED <<call, mine>>
          /\ owner[mine[r].flight] = None
          /\ owner' = [owner EXCEPT ![mine[r].flight] = r] /\ waiting' = waiting \ {r}
      BY <1>4 DEF Acquire, Cache!AcquireFlightLock, reqVars
    <2>2. Keyed(r) /\ mine[r] # None
      BY <2>1 DEF PcMatchesLock
    <2>3. mine[r].flight \in Flights
      BY <2>2, <1>p DEF Cache!Local
    <2>4. Cache!Holds(r)'
      BY <2>1, <2>2, <2>3, <1>p DEF Cache!Holds
    <2>5. \A q \in Reqs \ {r} : Cache!Holds(q)' <=> Cache!Holds(q)
      BY <2>1, <2>3, <1>p, <1>n DEF Cache!Holds, Cache!Local
    <2>6. \A q \in Reqs : pc'[q] = IF q = r THEN "lookup" ELSE pc[q]
      BY <2>1, <1>p DEF Goto
    <2> QED BY <2>1, <2>2, <2>4, <2>5, <2>6 DEF PcMatchesLock, Section, Retrying, BeforeCall,
               Calling, Auditing, Keyed, CacheKey
  <1>5. ASSUME NEW r \in Reqs, Exit(r) PROVE PcMatchesLock'
    <2>1. CASE ~Keyed(r)
      BY <1>5, <2>1, <1>p DEF Exit, Goto, PcMatchesLock, cacheVars, Section, Retrying,
            BeforeCall, Calling, Auditing, Keyed, CacheKey, Cache!Holds
    <2>2. CASE Keyed(r)
      <3>1. /\ pc[r] = "exit" /\ Goto(r, "cleanup") /\ UNCHANGED <<call, mine, waiting>>
            /\ Cache!Holds(r) /\ owner' = [owner EXCEPT ![mine[r].flight] = None]
        BY <1>5, <2>2 DEF Exit, Cache!ReleaseFlightLock
      <3>2. mine[r].flight \in Flights
        BY <3>1, <1>p DEF Cache!Local, Cache!Holds
      <3>3. ~Cache!Holds(r)'
        BY <3>1, <3>2, <1>p, <1>n DEF Cache!Holds
      <3>4. \A q \in Reqs \ {r} : Cache!Holds(q)' <=> Cache!Holds(q)
        BY <3>1, <3>2, <1>p, <1>n DEF Cache!Holds, Cache!Local
      <3>5. \A q \in Reqs : pc'[q] = IF q = r THEN "cleanup" ELSE pc[q]
        BY <3>1, <1>p DEF Goto
      <3> QED BY <2>2, <3>1, <3>3, <3>4, <3>5 DEF PcMatchesLock, Section, Retrying, BeforeCall,
                 Calling, Auditing, Keyed, CacheKey
    <2> QED BY <2>1, <2>2
  <1>6. ASSUME NEW r \in Reqs, Cleanup(r) PROVE PcMatchesLock'
    <2>1. /\ pc[r] = "cleanup" /\ Goto(r, "done") /\ UNCHANGED <<call, owner, waiting>>
          /\ mine' = [mine EXCEPT ![r] = None]
      BY <1>6 DEF Cleanup, Cache!ReleaseSingleFlight, reqVars
    <2>2. \A q \in Reqs \ {r} : mine'[q] = mine[q] /\ (Cache!Holds(q)' <=> Cache!Holds(q))
      BY <2>1, <1>p DEF Cache!Holds
    <2>3. mine'[r] = None
      BY <2>1, <1>p
    <2>4. \A q \in Reqs : pc'[q] = IF q = r THEN "done" ELSE pc[q]
      BY <2>1, <1>p DEF Goto
    <2> QED BY <2>1, <2>2, <2>3, <2>4 DEF PcMatchesLock, Section, Retrying, BeforeCall,
               Calling, Auditing, Keyed, CacheKey
  <1>7. ASSUME NEW r \in Reqs, Finish(r) PROVE PcMatchesLock'
    BY <1>7, <1>p DEF Finish, Goto, PcMatchesLock, cacheVars, Section, Retrying, BeforeCall,
          Calling, Auditing, Keyed, CacheKey, Cache!Holds
  <1>8. ASSUME NEW r \in Reqs, Cancel(r), pc[r] = "gate" \/ pc[r] = "cleanup" PROVE PcMatchesLock'
    <2>1. UNCHANGED <<call, owner, waiting, mine>>
      BY <1>8 DEF Cancel, cacheVars, reqVars, Shielded
    <2>2. UNCHANGED pc \/ (pc[r] = "gate" /\ Goto(r, "done"))
      BY <1>8 DEF Cancel, Shielded
    <2> QED BY <2>1, <2>2, <1>p DEF Goto, PcMatchesLock, Section, Retrying,
          BeforeCall, Calling, Auditing, Keyed, CacheKey, Cache!Holds
  <1>9. ASSUME NEW r \in Reqs, Cancel(r), pc[r] = "acquire" PROVE PcMatchesLock'
    <2>1. /\ r \in waiting /\ waiting' = waiting \ {r} /\ UNCHANGED <<owner, mine, call>>
          /\ Goto(r, "cleanup")
      BY <1>9 DEF Cancel, Cache!CancelWait, reqVars, Shielded
    <2>2. ~Cache!Holds(r)
      BY <2>1 DEF CP!CacheInv, CP!WaiterHasFlight, Cache!Holds
    <2>3. \A q \in Reqs : Cache!Holds(q)' <=> Cache!Holds(q)
      BY <2>1 DEF Cache!Holds
    <2>4. \A q \in Reqs : pc'[q] = IF q = r THEN "cleanup" ELSE pc[q]
      BY <2>1, <1>p DEF Goto
    <2> QED BY <1>9, <2>1, <2>2, <2>3, <2>4 DEF PcMatchesLock, Section, Retrying, BeforeCall,
               Calling, Auditing, Keyed, CacheKey
  <1>10. ASSUME NEW k \in CacheKeys, Expire(k) PROVE PcMatchesLock'
    BY <1>10 DEF Expire, Cache!ExpireEntry, PcMatchesLock, reqVars, Keyed, CacheKey, Cache!Holds
  <1>11. CASE Restart
    BY <1>11 DEF Restart, Cache!ProcessRestart, PcMatchesLock, Keyed, CacheKey, Cache!Holds,
          Section, Retrying, BeforeCall, Calling, Auditing
  <1>12. CASE UNCHANGED vars
    BY <1>12 DEF vars, cacheVars, reqVars, PcMatchesLock, Keyed, CacheKey, Cache!Holds
  <1> QED BY <1>1, <1>2, <1>3, <1>4, <1>5, <1>6, <1>7, <1>8, <1>9, <1>10, <1>11, <1>12,
             SectionSteps DEF Next, Progress

-----------------------------------------------------------------------------
(* The journal entries the code refers to exist.                           *)

\* No step removes a journal entry.
LEMMA JournalKept ==
    ASSUME TypeOK, PcMatchesLock, EntriesExist, [Next]_vars
    PROVE  \A j \in JournalIds : journal[j] # None => journal'[j] # None
  <1>t. RestTypeOK
    BY DEF TypeOK, RestTypeOK
  <1>1. ASSUME NEW r \in Reqs, RetryPatch(r) \/ Patch(r) \/ FinalizePatch(r)
               \/ CancelledPatch(r) \/ BestEffortPatch(r) \/ CancelledRetry(r) \/ BestEffortRetry(r)
        PROVE  \A j \in JournalIds : journal[j] # None => journal'[j] # None
    <2>1. pc[r] \in Auditing \cup Retrying /\ pc[r] \in Working \cup Retrying
      BY <1>1 DEF RetryPatch, Patch, FinalizePatch, CancelledPatch, BestEffortPatch,
                  CancelledRetry, BestEffortRetry, Auditing, Retrying, Working
    <2>2. entry[r] \in JournalIds /\ outcome[r] \in Results /\ journal[entry[r]] # None
      BY <2>1, AuditingTypes DEF EntriesExist
    <2>3. \E result \in Results :
             PatchAcked(entry[r], result) \/ PatchFailed(r, entry[r], result)
      BY <1>1, <2>2 DEF RetryPatch, Patch, FinalizePatch, CancelledPatch,
                  BestEffortPatch, CancelledRetry, BestEffortRetry, Results
    <2> QED BY <2>2, <2>3, <1>t, PatchTypes
  <1>2. ASSUME NEW r \in Reqs, WriteaheadCreated(r) \/ WriteaheadFailed(r)
        PROVE  \A j \in JournalIds : journal[j] # None => journal'[j] # None
    <2>1. journal' = journal \/ \E j \in JournalIds : journal[j] = None /\
             journal' = [journal EXCEPT ![j] = [verb |-> call[r].verb, result |-> "in_progress"]]
      BY <1>2 DEF WriteaheadCreated, WriteaheadFailed
    <2> QED BY <2>1, <1>t DEF RestTypeOK
  <1>3. ASSUME NEW r \in Reqs, Issue(r) \/ Acquire(r) \/ Refuse(r) \/ Admit(r) \/ Lookup(r)
               \/ Resolve(r) \/ CheckPassed(r) \/ CheckNoop(r) \/ StopAccepted(r)
               \/ CallAccepted(r) \/ ProxmoxError(r) \/ UnexpectedError(r) \/ Finalize(r)
               \/ Exit(r) \/ Cleanup(r) \/ Finish(r) \/ Cancel(r)
        PROVE  UNCHANGED journal
    BY <1>3 DEF Issue, Acquire, Refuse, Admit, Lookup, Resolve, CheckPassed, CheckNoop,
          StopAccepted, CallAccepted, ProxmoxError, UnexpectedError, Finalize, Exit, Cleanup,
          Finish, Cancel, worldVars
  <1>4. ASSUME NEW k \in CacheKeys, Expire(k) PROVE UNCHANGED journal
    BY <1>4 DEF Expire
  <1>5. CASE Restart \/ UNCHANGED vars
    BY <1>5 DEF Restart, vars, worldVars
  <1> QED BY <1>1, <1>2, <1>3, <1>4, <1>5 DEF Next, Progress

\* A stored response refers to an entry the request knows.
LEMMA StoredEntryExists ==
    ASSUME TypeOK, PcMatchesLock, EntriesExist, NEW r \in Reqs, NEW p \in BOOLEAN,
           NEW b \in Body, b.entry = entry[r], journal[entry[r]] # None, StoreResponse(r, p, b),
           NEW k \in CacheKeys, entries'[k] # None
    PROVE  journal[entries'[k].body.entry] # None
  <1>1. CASE ~Keyed(r)
    BY <1>1 DEF StoreResponse, cacheVars, EntriesExist
  <1>2. CASE Keyed(r)
    <2>1. entries' = entries \/ entries' = [entries EXCEPT ![mine[r].key] =
                                   [pending |-> p, expired |-> FALSE, body |-> b]]
      BY <1>2 DEF StoreResponse, Cache!Store, Cache!Put
    <2> QED BY <2>1 DEF EntriesExist, TypeOK, Cache!TypeOK
  <1> QED BY <1>1, <1>2

\* A response of the cache in the next state is one of this state, or it is
\* about the entry of a request.
LEMMA CachedEntriesExist ==
    ASSUME TypeOK, PcMatchesLock, EntriesExist, [Next]_vars,
           NEW k \in CacheKeys, entries'[k] # None
    PROVE  journal[entries'[k].body.entry] # None
  <1>1. ASSUME NEW r \in Reqs, RetryPatch(r) \/ Patch(r) \/ FinalizePatch(r)
        PROVE  journal[entries'[k].body.entry] # None
    <2>1. pc[r] \in Auditing \cup Retrying /\ pc[r] \in Working \cup Retrying
      BY <1>1 DEF RetryPatch, Patch, FinalizePatch, Auditing, Retrying, Working
    <2>2. PICK f \in BOOLEAN : StoreResponse(r, ~f, AuditBody(entry[r], outcome[r], f))
      BY <1>1 DEF RetryPatch, Patch, FinalizePatch
    <2>3. AuditBody(entry[r], outcome[r], f) \in Body
      BY <2>1, AuditingTypes
    <2>4. AuditBody(entry[r], outcome[r], f).entry = entry[r] /\ journal[entry[r]] # None
      BY <2>1 DEF AuditBody, EntriesExist
    <2> QED BY <2>2, <2>3, <2>4, StoredEntryExists
  <1>2. ASSUME NEW r \in Reqs, CheckNoop(r) \/ CallAccepted(r) \/ ProxmoxError(r)
        PROVE  journal[entries'[k].body.entry] # None
    <2>1. pc[r] \in Working /\ pc[r] # "idle"
      BY <1>2 DEF CheckNoop, CallAccepted, ProxmoxError, Working
    <2>2. call[r].verb \in Verbs
      BY <2>1, CallTypes
    <2>3. PICK result \in Results : StartAudit(r, result)
      BY <1>2, <2>2, PlanTypes DEF CheckNoop, CallAccepted, ProxmoxError
    <2>4. entry[r] \in JournalIds /\ journal[entry[r]] # None
      BY <2>1 DEF TypeOK, EntriesExist
    <2>5. AuditBody(entry[r], result, FALSE) \in Body
      BY <2>4, AuditBodyType
    <2>6. AuditBody(entry[r], result, FALSE).entry = entry[r]
      BY DEF AuditBody
    <2> QED BY <2>3, <2>4, <2>5, <2>6, StoredEntryExists DEF StartAudit
  <1>3. ASSUME NEW r \in Reqs, Finalize(r)
        PROVE  journal[entries'[k].body.entry] # None
    <2>1. pc[r] \in Auditing /\ pc[r] \in Working
      BY <1>3 DEF Finalize, Auditing, Working
    <2>2. AuditBody(entry[r], outcome[r], FALSE) \in Body
      BY <2>1, AuditingTypes
    <2>3. AuditBody(entry[r], outcome[r], FALSE).entry = entry[r] /\ journal[entry[r]] # None
      BY <2>1 DEF AuditBody, EntriesExist
    <2>4. CASE StoreResponse(r, TRUE, AuditBody(entry[r], outcome[r], FALSE))
      BY <2>2, <2>3, <2>4, StoredEntryExists
    <2>5. CASE UNCHANGED cacheVars
      BY <2>5 DEF cacheVars, EntriesExist
    <2> QED BY <1>3, <2>4, <2>5 DEF Finalize
  <1>4. ASSUME NEW r \in Reqs, Admit(r) \/ Lookup(r)
        PROVE  journal[entries'[k].body.entry] # None
    <2>1. entries' = entries \/ entries' = Cache!Prune(entries)
      BY <1>4 DEF Admit, Lookup, Cache!EnterSingleFlight, Cache!GetEntry, cacheVars
    <2> QED BY <2>1 DEF Cache!Prune, EntriesExist
  <1>5. ASSUME NEW r \in Reqs, Issue(r) \/ Acquire(r) \/ Refuse(r) \/ Resolve(r)
               \/ WriteaheadCreated(r) \/ WriteaheadFailed(r) \/ CheckPassed(r)
               \/ StopAccepted(r) \/ UnexpectedError(r) \/ CancelledPatch(r) \/ BestEffortPatch(r)
               \/ CancelledRetry(r) \/ BestEffortRetry(r) \/ Exit(r) \/ Cleanup(r) \/ Finish(r)
               \/ Cancel(r)
        PROVE  UNCHANGED entries
    BY <1>5 DEF Issue, Acquire, Refuse, Resolve, WriteaheadCreated, WriteaheadFailed, CheckPassed,
          StopAccepted, UnexpectedError, CancelledPatch, BestEffortPatch, CancelledRetry,
          BestEffortRetry, Exit, Cleanup, Finish, Cancel, cacheVars, Cache!AcquireFlightLock,
          Cache!ReleaseFlightLock, Cache!ReleaseSingleFlight, Cache!CancelWait
  <1>6. ASSUME NEW l \in CacheKeys, Expire(l) PROVE journal[entries'[k].body.entry] # None
    <2>1. entries[k] # None /\ entries'[k].body = entries[k].body
      BY <1>6 DEF Expire, Cache!ExpireEntry, TypeOK, Cache!TypeOK, Cache!Entry
    <2> QED BY <2>1 DEF EntriesExist
  <1>7. CASE Restart
    BY <1>7 DEF Restart, Cache!ProcessRestart
  <1>8. CASE UNCHANGED vars
    BY <1>8 DEF vars, cacheVars, EntriesExist
  <1>9. ASSUME UNCHANGED entries PROVE journal[entries'[k].body.entry] # None
    BY <1>9 DEF EntriesExist
  <1> QED BY <1>1, <1>2, <1>3, <1>4, <1>5, <1>6, <1>7, <1>8, <1>9 DEF Next, Progress

\* The parts of EntriesExist that are about one request.
EntryOf(r) ==
    /\ pc[r] \in Working \cup Retrying => entry[r] # None /\ journal[entry[r]] # None
    /\ pc[r] \in Auditing \cup Retrying => outcome[r] # "none"

\* Every step keeps the journal entries that the code refers to.
LEMMA EntriesExistStep ==
    ASSUME TypeOK, PcMatchesLock, EntriesExist, TypeOK', [Next]_vars
    PROVE  EntriesExist'
  <1>t. RestTypeOK
    BY DEF TypeOK, RestTypeOK
  <1>e. \A r \in Reqs : EntryOf(r)
    BY DEF EntriesExist, EntryOf
  <1>j. \A j \in JournalIds : journal[j] # None => journal'[j] # None
    BY JournalKept
  <1>k. \A k \in CacheKeys : entries'[k] # None => journal'[entries'[k].body.entry] # None
    <2> TAKE k \in CacheKeys
    <2> HAVE entries'[k] # None
    <2>1. entries'[k].body.entry \in JournalIds
      BY DEF TypeOK, Cache!TypeOK, Cache!Entry, Body
    <2> QED BY <2>1, <1>j, CachedEntriesExist
  <1>n. None \notin JournalIds
    BY NoneIsNothing
  \* A request that does not move keeps what it has.
  <1>o. ASSUME NEW q \in Reqs, pc'[q] = pc[q], entry'[q] = entry[q], outcome'[q] = outcome[q]
        PROVE  EntryOf(q)'
    BY <1>o, <1>e, <1>j, <1>t DEF EntryOf, RestTypeOK
  <1>1. ASSUME NEW r \in Reqs, Issue(r) \/ Refuse(r) \/ Admit(r) \/ Acquire(r) \/ Resolve(r)
               \/ WriteaheadFailed(r) \/ Exit(r) \/ Cleanup(r) \/ Finish(r)
        PROVE  \A q \in Reqs : EntryOf(q)'
    <2>1. ASSUME NEW q \in Reqs, q # r PROVE EntryOf(q)'
      <3>1. pc'[q] = pc[q] /\ entry'[q] = entry[q] /\ outcome'[q] = outcome[q]
        BY <1>1, <2>1, <1>t DEF Issue, Refuse, Admit, Acquire, Resolve, WriteaheadFailed, Exit,
              Cleanup, Finish, Goto, Respond, reqVars, RestTypeOK
      <3> QED BY <3>1, <1>o
    <2>2. pc'[r] \in {"idle", "gate", "acquire", "lookup", "resolve", "writeahead", "exit",
                      "cleanup", "done"}
      BY <1>1, <1>t DEF Issue, Refuse, Admit, Acquire, Resolve, WriteaheadFailed, Exit,
            Cleanup, Finish, Goto, Respond, RestTypeOK
    <2> QED BY <2>1, <2>2 DEF EntryOf, Working, Retrying, Auditing
  <1>2. ASSUME NEW r \in Reqs, Lookup(r) PROVE \A q \in Reqs : EntryOf(q)'
    <2>1. ASSUME NEW q \in Reqs, q # r PROVE EntryOf(q)'
      <3>1. pc'[q] = pc[q] /\ entry'[q] = entry[q] /\ outcome'[q] = outcome[q]
        BY <1>2, <2>1, <1>t DEF Lookup, Goto, Respond, RestTypeOK
      <3> QED BY <3>1, <1>o
    <2>2. CacheKey(r) \in CacheKeys
      BY <1>2, CallTypes DEF Lookup, PcMatchesLock
    <2>3. CASE pc'[r] # "retry"
      <3>1. pc'[r] \in {"resolve", "exit"}
        BY <1>2, <2>3, <1>t DEF Lookup, Goto, Respond, RestTypeOK
      <3> QED BY <2>1, <3>1 DEF EntryOf, Working, Retrying, Auditing
    <2>4. CASE pc'[r] = "retry"
      <3> DEFINE e == entries'[CacheKey(r)]
      <3>1. /\ e # None
            /\ entry' = [entry EXCEPT ![r] = e.body.entry]
            /\ outcome' = [outcome EXCEPT ![r] = e.body.result]
        BY <1>2, <2>4, <1>t DEF Lookup, Goto, Respond, RestTypeOK
      <3>2. e.body.entry \in JournalIds /\ e.body.result \in Results
        BY <2>2, <3>1 DEF TypeOK, Cache!TypeOK, Cache!Entry, Body
      <3>3. journal'[e.body.entry] # None
        BY <2>2, <3>1, <1>k
      <3>4. entry'[r] # None /\ journal'[entry'[r]] # None /\ outcome'[r] # "none"
        BY <3>1, <3>2, <3>3, <1>n, <1>t DEF RestTypeOK, Results
      <3> QED BY <2>1, <2>4, <3>4 DEF EntryOf
    <2> QED BY <2>3, <2>4
  <1>3. ASSUME NEW r \in Reqs, WriteaheadCreated(r) PROVE \A q \in Reqs : EntryOf(q)'
    <2>1. PICK j \in JournalIds :
             /\ journal' = [journal EXCEPT ![j] = [verb |-> call[r].verb, result |-> "in_progress"]]
             /\ entry' = [entry EXCEPT ![r] = j]
      BY <1>3 DEF WriteaheadCreated
    <2>2. \/ pc' \in {[pc EXCEPT ![r] = "dispatch"], [pc EXCEPT ![r] = "check"]} /\ outcome' = outcome
          \/ pc' = [pc EXCEPT ![r] = "finalize"] /\ outcome' = [outcome EXCEPT ![r] = "interrupted"]
      BY <1>3 DEF WriteaheadCreated, StartFinalize, Goto, AfterWriteahead
    <2>3. ASSUME NEW q \in Reqs, q # r PROVE EntryOf(q)'
      BY <2>1, <2>2, <2>3, <1>o, <1>t DEF RestTypeOK
    <2>4. call[r].verb \in Verbs
      BY <1>3, CallTypes DEF WriteaheadCreated
    <2>5. [verb |-> call[r].verb, result |-> "in_progress"] # None
      BY <2>4, NoneIsNothing DEF Record
    <2>6. entry'[r] # None /\ journal'[entry'[r]] # None
      BY <2>1, <2>5, <1>n, <1>t DEF RestTypeOK
    <2>7. pc'[r] \in {"dispatch", "check"} \/ (pc'[r] = "finalize" /\ outcome'[r] # "none")
      BY <2>2, <1>t DEF RestTypeOK
    <2> QED BY <2>3, <2>6, <2>7 DEF EntryOf, Working, Retrying, Auditing
  <1>4. ASSUME NEW r \in Reqs, CheckPassed(r) \/ CheckNoop(r) \/ StopAccepted(r) \/ CallAccepted(r)
               \/ ProxmoxError(r) \/ UnexpectedError(r)
        PROVE  \A q \in Reqs : EntryOf(q)'
    <2>1. pc[r] \in {"check", "stopping", "dispatch"} /\ UNCHANGED entry
      BY <1>4 DEF CheckPassed, CheckNoop, StopAccepted, CallAccepted, ProxmoxError,
                  UnexpectedError, reqVars
    <2>2. call[r].verb \in Verbs
      BY <2>1, CallTypes
    <2>3. PICK label \in {"dispatch", "stopping", "patch", "finalize"} :
             /\ pc' = [pc EXCEPT ![r] = label]
             /\ \/ label \notin Auditing /\ outcome' = outcome
                \/ \E result \in Results : outcome' = [outcome EXCEPT ![r] = result]
      <3>1. CASE CheckPassed(r) \/ StopAccepted(r)
        BY <3>1 DEF CheckPassed, StopAccepted, Goto, reqVars, Auditing
      <3>2. CASE UnexpectedError(r)
        BY <3>2 DEF UnexpectedError, StartFinalize, Goto, Results
      <3>3. CASE CheckNoop(r) \/ CallAccepted(r) \/ ProxmoxError(r)
        BY <3>3, <2>2, PlanTypes DEF CheckNoop, CallAccepted, ProxmoxError, StartAudit, Goto
      <3> QED BY <1>4, <3>1, <3>2, <3>3
    <2>4. ASSUME NEW q \in Reqs, q # r PROVE EntryOf(q)'
      BY <2>1, <2>3, <2>4, <1>o, <1>t DEF RestTypeOK
    <2>5. entry'[r] # None /\ journal'[entry'[r]] # None
      BY <2>1, <1>e, <1>j, <1>t DEF EntryOf, Working, RestTypeOK
    <2>6. pc'[r] = label /\ (label \in Auditing => outcome'[r] # "none")
      BY <2>3, <1>t DEF RestTypeOK, Results
    <2> QED BY <2>4, <2>5, <2>6 DEF EntryOf, Retrying
  <1>5. ASSUME NEW r \in Reqs, RetryPatch(r) \/ Patch(r) \/ CancelledPatch(r) \/ BestEffortPatch(r)
               \/ CancelledRetry(r) \/ BestEffortRetry(r) \/ Finalize(r) \/ FinalizePatch(r)
        PROVE  \A q \in Reqs : EntryOf(q)'
    <2>1. pc[r] \in Auditing \cup Retrying /\ pc[r] \in Working \cup Retrying /\ UNCHANGED entry
      BY <1>5 DEF RetryPatch, Patch, FinalizePatch, CancelledPatch, BestEffortPatch, Finalize,
                  CancelledRetry, BestEffortRetry, Auditing, Retrying, Working, reqVars
    <2>2. outcome' = outcome \/ outcome' = [outcome EXCEPT ![r] = "interrupted"]
      BY <1>5 DEF RetryPatch, Patch, FinalizePatch, CancelledPatch, BestEffortPatch, Finalize,
                  CancelledRetry, BestEffortRetry, Reraise, StartFinalize, reqVars
    <2>3. PICK label : pc' = [pc EXCEPT ![r] = label]
      BY <1>5 DEF RetryPatch, Patch, FinalizePatch, CancelledPatch, BestEffortPatch, Finalize,
                  CancelledRetry, BestEffortRetry, Reraise, StartFinalize, Respond, Goto
    <2>4. ASSUME NEW q \in Reqs, q # r PROVE EntryOf(q)'
      BY <2>1, <2>2, <2>3, <2>4, <1>o, <1>t DEF RestTypeOK
    <2>5. entry'[r] # None /\ journal'[entry'[r]] # None /\ outcome'[r] # "none"
      BY <2>1, <2>2, <1>e, <1>j, <1>t DEF EntryOf, RestTypeOK
    <2> QED BY <2>4, <2>5 DEF EntryOf
  <1>6. ASSUME NEW r \in Reqs, Cancel(r) PROVE \A q \in Reqs : EntryOf(q)'
    <2>1. UNCHANGED entry /\ (outcome' = outcome \/ outcome' = [outcome EXCEPT ![r] = "interrupted"])
      BY <1>6 DEF Cancel, StartFinalize, reqVars
    <2>2. PICK label : pc' = [pc EXCEPT ![r] = label] \/ pc' = pc
      BY <1>6 DEF Cancel, StartFinalize, Respond, Goto
    <2>3. ASSUME NEW q \in Reqs, q # r PROVE EntryOf(q)'
      BY <2>1, <2>2, <2>3, <1>o, <1>t DEF RestTypeOK
    <2>4. CASE pc[r] \in {"gate", "acquire", "resolve", "writeahead", "cleanup"}
      <3>1. pc'[r] \in {"done", "cleanup", "exit", "writeahead_c"}
        BY <1>6, <2>4, <1>t DEF Cancel, Shielded, Respond, Goto, RestTypeOK
      <3> QED BY <2>3, <3>1 DEF EntryOf, Working, Retrying, Auditing
    <2>5. CASE pc[r] \in {"check", "stopping", "dispatch"}
      <3>1. outcome' = [outcome EXCEPT ![r] = "interrupted"]
        BY <1>6, <2>5 DEF Cancel, Shielded, StartFinalize
      <3>2. entry'[r] # None /\ journal'[entry'[r]] # None /\ outcome'[r] # "none"
        BY <2>1, <2>5, <3>1, <1>e, <1>j, <1>t DEF EntryOf, Working, RestTypeOK
      <3> QED BY <2>3, <3>2 DEF EntryOf
    <2>6. CASE pc[r] \in {"patch", "retry"}
      <3>1. entry'[r] # None /\ journal'[entry'[r]] # None /\ outcome'[r] # "none"
        BY <2>1, <2>6, <1>e, <1>j, <1>t DEF EntryOf, Working, Retrying, Auditing, RestTypeOK
      <3> QED BY <2>3, <3>1 DEF EntryOf
    <2>7. pc[r] \in {"gate", "acquire", "resolve", "writeahead", "cleanup", "check", "stopping",
                     "dispatch", "patch", "retry"}
      BY <1>6 DEF Cancel, Shielded
    <2> QED BY <2>4, <2>5, <2>6, <2>7
  <1>7. ASSUME NEW k \in CacheKeys, Expire(k) PROVE \A q \in Reqs : EntryOf(q)'
    BY <1>7, <1>o DEF Expire, reqVars
  <1>8. CASE Restart
    <2>1. \A q \in Reqs : EntryOf(q)'
      BY <1>8 DEF Restart, EntryOf, Working, Retrying, Auditing
    <2> QED BY <2>1, <1>k DEF EntriesExist, EntryOf
  <1>9. CASE UNCHANGED vars
    <2>1. \A q \in Reqs : EntryOf(q)'
      BY <1>9, <1>o DEF vars, reqVars
    <2> QED BY <2>1, <1>k DEF EntriesExist, EntryOf
  <1>10. ASSUME \A q \in Reqs : EntryOf(q)' PROVE EntriesExist'
    BY <1>10, <1>k DEF EntriesExist, EntryOf
  <1> QED BY <1>1, <1>2, <1>3, <1>4, <1>5, <1>6, <1>7, <1>8, <1>9, <1>10 DEF Next, Progress

-----------------------------------------------------------------------------
(* Calls of the current window are covered.                                *)

\* Two requests of one key are never in its section together.
LEMMA Alone ==
    ASSUME TypeOK, PcMatchesLock, CP!CacheInv, NEW r \in Reqs, NEW q \in Reqs,
           pc[r] \in Section, pc[q] \in Section, Keyed(r), Keyed(q), CacheKey(r) = CacheKey(q)
    PROVE  r = q
  <1>1. Cache!Holds(r) /\ Cache!Holds(q)
    BY DEF PcMatchesLock
  <1>2. mine[r].key = mine[q].key
    BY <1>1 DEF PcMatchesLock, Cache!Holds
  <1> QED BY <1>1, <1>2, OneInSection

\* A request that covers a call, or depends on the window, is in the section.
LEMMA CoverIsInSection ==
    /\ BeforeCall \cup Calling \cup Auditing \cup Retrying \cup {"finalize"} \subseteq Section
    /\ \A r \in Reqs : AboutToStore(r) => pc[r] \in Section
  BY DEF Section, BeforeCall, Calling, Auditing, Retrying, AboutToStore

\* A step that neither touches the cached responses nor makes a call.
LEMMA QuietStep ==
    ASSUME TypeOK, CallsCovered, NEW r \in Reqs, NEW label \in PCs,
           pc' = [pc EXCEPT ![r] = label],
           UNCHANGED <<entries, calls>>,
           \A q \in Reqs \ {r} : terminal'[q] = terminal[q] /\ call'[q] = call[q],
           Keyed(r) /\ AboutToStore(r) => call' = call /\ AboutToStore(r)',
           WindowOf(r)'
    PROVE  CallsCovered'
  <1>1. \A q \in Reqs : pc'[q] = IF q = r THEN label ELSE pc[q]
    BY DEF TypeOK
  <1>2. ASSUME NEW q \in Reqs, q # r PROVE WindowOf(q)'
    BY <1>1, <1>2 DEF CallsCovered, WindowOf, Keyed, CacheKey
  <1>3. ASSUME NEW k \in CacheKeys, calls'[k] # 0
        PROVE  /\ calls'[k] = 1
               /\ Live(k)' \/ \E q \in Reqs : pc'[q] # "idle" /\ Keyed(q)'
                                    /\ CacheKey(q)' = k /\ AboutToStore(q)'
    <2>1. CASE Live(k)
      BY <1>3, <2>1 DEF Live, CallsCovered, CallCover
    <2>2. CASE ~Live(k)
      <3>1. PICK q \in Reqs : pc[q] # "idle" /\ Keyed(q) /\ CacheKey(q) = k /\ AboutToStore(q)
        BY <1>3, <2>2 DEF CallsCovered, CallCover
      <3>2. call'[q] = call[q] /\ AboutToStore(q)'
        BY <3>1, <1>1 DEF AboutToStore
      <3>3. pc'[q] # "idle" /\ Keyed(q)' /\ CacheKey(q)' = k
        BY <3>1, <3>2 DEF AboutToStore, Calling, Keyed, CacheKey
      <3> QED BY <1>3, <3>2, <3>3 DEF CallsCovered, CallCover
    <2> QED BY <2>1, <2>2
  <1>4. \A k \in CacheKeys : CallCover(k)'
    BY <1>3 DEF CallCover
  <1> QED BY <1>2, <1>4 DEF CallsCovered

\* A store by the request in the section of a key covers the calls of the key.
LEMMA StoreCovers ==
    ASSUME TypeOK, PcMatchesLock, CP!CacheInv, CallsCovered, NEW r \in Reqs,
           pc[r] \in Section, NEW p \in BOOLEAN, NEW b \in Body, StoreResponse(r, p, b),
           Keyed(r) => entries[CacheKey(r)] = None \/ entries[CacheKey(r)].pending,
           NEW label \in {"patch", "finalize_patch", "exit"}, label # "exit" => p,
           pc' = [pc EXCEPT ![r] = label],
           UNCHANGED <<call, calls>>, \A q \in Reqs \ {r} : terminal'[q] = terminal[q]
    PROVE  CallsCovered'
  <1>i. pc[r] # "idle" /\ label \in PCs
    BY DEF Section, Retrying, BeforeCall, Calling, Auditing, PCs
  <1>l. \A q \in Reqs : pc'[q] = IF q = r THEN label ELSE pc[q]
    BY DEF TypeOK
  <1>1. CASE ~Keyed(r)
    <2>1. UNCHANGED entries
      BY <1>1 DEF StoreResponse, cacheVars
    <2>2. WindowOf(r)'
      BY <1>1, <1>l DEF WindowOf, Auditing, Keyed
    <2> QED BY <1>1, <1>i, <2>1, <2>2, QuietStep
  <1>2. CASE Keyed(r)
    <2> DEFINE new == [pending |-> p, expired |-> FALSE, body |-> b]
    <2>1. PICK key \in CacheKeys : key = CacheKey(r)
      BY <1>2, <1>i, CallTypes
    <2>2. mine[r].key = key
      BY <1>2, <2>1 DEF PcMatchesLock, Cache!Holds
    <2>3. entries' = [entries EXCEPT ![key] = new]
      BY <1>2, <2>1, <2>2 DEF StoreResponse, Cache!Store, Cache!Put
    <2>4. entries'[key] = new /\ \A k \in CacheKeys \ {key} : entries'[k] = entries[k]
      BY <2>3 DEF TypeOK, Cache!TypeOK
    <2>5. new \in Cache!Entry
      BY DEF Cache!Entry
    <2>6. new # None
      BY <2>5, NoneIsNothing DEF Cache!Entry
    <2>7. Live(key)' /\ entries'[key].pending = p
      BY <2>4, <2>6 DEF Live
    <2>8. ASSUME NEW k \in CacheKeys PROVE CallCover(k)'
      <3>1. CASE k = key
        BY <2>7, <3>1 DEF CallsCovered, CallCover
      <3>2. CASE k # key
        <4>1. Live(k)' <=> Live(k)
          BY <2>4, <3>2 DEF Live
        <4>2. ASSUME NEW q \in Reqs, pc[q] # "idle", Keyed(q), CacheKey(q) = k, AboutToStore(q)
              PROVE  pc'[q] # "idle" /\ Keyed(q)' /\ CacheKey(q)' = k /\ AboutToStore(q)'
          BY <4>2, <3>2, <2>1, <1>l DEF AboutToStore, Keyed, CacheKey
        <4> QED BY <4>1, <4>2 DEF CallsCovered, CallCover
      <3> QED BY <3>1, <3>2
    <2>9. ASSUME NEW q \in Reqs PROVE WindowOf(q)'
      <3>1. CASE q = r
        BY <2>1, <2>7, <3>1, <1>l DEF WindowOf, Auditing, BeforeCall, Calling, Retrying, Keyed, CacheKey
      <3>2. CASE q # r
        <4>1. pc'[q] = pc[q] /\ terminal'[q] = terminal[q]
          BY <3>2, <1>l
        <4>2. CASE pc[q] \in Section /\ Keyed(q)
          <5>1. CacheKey(q) # key
            BY <3>2, <4>2, <1>2, <2>1, Alone
          <5>2. pc[q] # "idle"
            BY <4>2 DEF Section, Retrying, BeforeCall, Calling, Auditing
          <5>3. CacheKey(q) \in CacheKeys
            BY <4>2, <5>2, CallTypes
          <5>4. entries'[CacheKey(q)] = entries[CacheKey(q)]
            BY <5>1, <5>3, <2>4
          <5> QED BY <4>1, <4>2, <5>4 DEF CallsCovered, WindowOf, Keyed, CacheKey
        <4>3. CASE ~(pc[q] \in Section /\ Keyed(q))
          BY <4>1, <4>3 DEF CallsCovered, WindowOf, Keyed, CacheKey, Section
        <4> QED BY <4>2, <4>3
      <3> QED BY <3>1, <3>2
    <2> QED BY <2>8, <2>9 DEF CallsCovered
  <1> QED BY <1>1, <1>2

\* A call is made only before any other call of the window.
LEMMA CallIsCovered ==
    ASSUME TypeOK, PcMatchesLock, CP!CacheInv, CallsCovered, NEW r \in Reqs,
           pc[r] \in BeforeCall, NEW label \in Calling, pc' = [pc EXCEPT ![r] = label],
           NEW j, IssueCall(r, j), UNCHANGED <<call, entries, terminal>>
    PROVE  CallsCovered'
  <1>l. \A q \in Reqs : pc'[q] = IF q = r THEN label ELSE pc[q]
    BY DEF TypeOK
  <1>i. pc[r] # "idle" /\ pc[r] \in Section
    BY DEF BeforeCall, Section
  <1>w. WindowOf(r)'
      BY <1>l DEF CallsCovered, WindowOf, Keyed, CacheKey, BeforeCall, Calling, Auditing, Retrying
  <1>1. CASE ~Keyed(r)
    <2>1. UNCHANGED calls
      BY <1>1 DEF IssueCall
    <2>2. label \in PCs
      BY DEF Calling, PCs
    <2> QED BY <1>1, <1>w, <2>1, <2>2, QuietStep
  <1>2. CASE Keyed(r)
    <2> DEFINE key == CacheKey(r)
    <2>1. key \in CacheKeys /\ calls[key] = 0
      BY <1>2, <1>i, CallTypes DEF CallsCovered, WindowOf
    <2>2. calls'[key] = 1 /\ \A k \in CacheKeys \ {key} : calls'[k] = calls[k]
      BY <1>2, <2>1 DEF IssueCall, TypeOK
    <2>3. pc'[r] # "idle" /\ Keyed(r)' /\ CacheKey(r)' = key /\ AboutToStore(r)'
      BY <1>2, <1>l DEF AboutToStore, Calling, Keyed, CacheKey
    <2>4. ASSUME NEW k \in CacheKeys PROVE CallCover(k)'
      <3>1. CASE k = key
        BY <2>2, <2>3, <3>1 DEF CallCover
      <3>2. CASE k # key
        <4>1. Live(k)' <=> Live(k)
          BY DEF Live
        <4>2. ASSUME NEW q \in Reqs, pc[q] # "idle", Keyed(q), CacheKey(q) = k, AboutToStore(q)
              PROVE  pc'[q] # "idle" /\ Keyed(q)' /\ CacheKey(q)' = k /\ AboutToStore(q)'
          BY <4>2, <3>2, <1>l DEF AboutToStore, Keyed, CacheKey
        <4> QED BY <2>2, <3>2, <4>1, <4>2 DEF CallsCovered, CallCover
      <3> QED BY <3>1, <3>2
    <2>5. ASSUME NEW q \in Reqs, q # r PROVE WindowOf(q)'
      <3>1. pc'[q] = pc[q]
        BY <2>5, <1>l
      <3>2. CASE pc[q] \in BeforeCall /\ Keyed(q)
        <4>1. pc[q] \in Section /\ pc[q] # "idle"
          BY <3>2 DEF Section, BeforeCall
        <4>2. CacheKey(q) # key /\ CacheKey(q) \in CacheKeys
          BY <2>5, <3>2, <4>1, <1>2, <1>i, Alone, CallTypes
        <4> QED BY <3>1, <4>2, <2>2 DEF CallsCovered, WindowOf, Keyed, CacheKey
      <3>3. CASE ~(pc[q] \in BeforeCall /\ Keyed(q))
        BY <3>1, <3>3 DEF CallsCovered, WindowOf, Keyed, CacheKey
      <3> QED BY <3>2, <3>3
    <2> QED BY <1>w, <2>4, <2>5 DEF CallsCovered
  <1> QED BY <1>1, <1>2

\* Pruning drops no live response.
LEMMA PruneCovers ==
    ASSUME TypeOK, PcMatchesLock, CallsCovered, NEW r \in Reqs, pc[r] \in {"gate", "lookup"}, NEW label \in PCs,
           pc' = [pc EXCEPT ![r] = label], entries' = Cache!Prune(entries),
           UNCHANGED <<call, calls, terminal>>, WindowOf(r)'
    PROVE  CallsCovered'
  <1>l. \A q \in Reqs : pc'[q] = IF q = r THEN label ELSE pc[q]
    BY DEF TypeOK
  <1>1. \A k \in CacheKeys : /\ Live(k) => Live(k)'
                             /\ entries'[k] = entries[k] \/ entries'[k] = None
    BY DEF Cache!Prune, Live
  <1>2. ASSUME NEW k \in CacheKeys PROVE CallCover(k)'
    <2>1. ASSUME NEW q \in Reqs, pc[q] # "idle", Keyed(q), CacheKey(q) = k, AboutToStore(q)
          PROVE  pc'[q] # "idle" /\ Keyed(q)' /\ CacheKey(q)' = k /\ AboutToStore(q)'
      BY <2>1, <1>l DEF AboutToStore, Calling, Keyed, CacheKey
    <2> QED BY <1>1, <2>1 DEF CallsCovered, CallCover
  <1>3. ASSUME NEW q \in Reqs, q # r PROVE WindowOf(q)'
    <2>1. pc'[q] = pc[q]
      BY <1>3, <1>l
    <2>2. CASE pc[q] # "idle" /\ Keyed(q)
      <3>1. CacheKey(q) \in CacheKeys => entries'[CacheKey(q)] \in {None, entries[CacheKey(q)]}
        BY <1>1
      <3>2. CacheKey(q) \in CacheKeys
        BY <2>2, CallTypes
      <3> QED BY <2>1, <2>2, <3>1, <3>2 DEF CallsCovered, WindowOf, Keyed, CacheKey
    <2>3. CASE ~(pc[q] # "idle" /\ Keyed(q))
      BY <2>1, <2>3 DEF CallsCovered, WindowOf, Keyed, CacheKey
    <2> QED BY <2>2, <2>3
  <1> QED BY <1>2, <1>3 DEF CallsCovered

\* Every step keeps the cover of the call made in a window.
LEMMA CallsCoveredStep ==
    ASSUME TypeOK, PcMatchesLock, EntriesExist, CallsCovered, CP!CacheInv, [Next]_vars
    PROVE  CallsCovered'
  <1>t. RestTypeOK
    BY DEF TypeOK, RestTypeOK
  <1>w. \A r \in Reqs : WindowOf(r)
    BY DEF CallsCovered
  <1>1. ASSUME NEW r \in Reqs, Issue(r) \/ Refuse(r) \/ Acquire(r) \/ Resolve(r)
               \/ WriteaheadFailed(r) \/ StopAccepted(r) \/ UnexpectedError(r) \/ Exit(r)
               \/ Cleanup(r) \/ Finish(r) \/ (Admit(r) /\ ~Keyed(r))
               \/ (WriteaheadCreated(r) /\ pc[r] = "writeahead_c")
               \/ (WriteaheadCreated(r) /\ AfterWriteahead(call[r].verb) = "check")
        PROVE  CallsCovered'
    <2>1. PICK label \in PCs : pc' = [pc EXCEPT ![r] = label]
      BY <1>1 DEF Issue, Refuse, Acquire, Resolve, WriteaheadFailed, StopAccepted, UnexpectedError,
            Exit, Cleanup, Finish, Admit, WriteaheadCreated, AfterWriteahead, StartFinalize,
            Respond, Goto, PCs
    <2>2. UNCHANGED <<entries, calls>>
      BY <1>1 DEF Issue, Refuse, Acquire, Resolve, WriteaheadFailed, StopAccepted, UnexpectedError,
            Exit, Cleanup, Finish, Admit, WriteaheadCreated, AfterWriteahead, cacheVars, worldVars,
            Cache!AcquireFlightLock, Cache!ReleaseFlightLock, Cache!ReleaseSingleFlight
    <2>3. \A q \in Reqs \ {r} : terminal'[q] = terminal[q] /\ call'[q] = call[q]
      BY <1>1, <1>t DEF Issue, Refuse, Acquire, Resolve, WriteaheadFailed, StopAccepted,
            UnexpectedError, Exit, Cleanup, Finish, Admit, WriteaheadCreated, reqVars, RestTypeOK
    <2>4. CASE Issue(r) \/ Refuse(r) \/ Acquire(r) \/ Cleanup(r) \/ Finish(r) \/ Exit(r)
      <3>1. pc'[r] \in {"gate", "done", "lookup", "cleanup", "idle"} /\ ~AboutToStore(r)
        BY <2>4, <1>t DEF Issue, Refuse, Acquire, Cleanup, Finish, Exit, Goto, AboutToStore,
              Calling, RestTypeOK
      <3>2. ~terminal'[r]
        BY <2>4, <1>t, <1>w DEF Issue, Refuse, Acquire, Cleanup, Finish, Exit, reqVars,
              RestTypeOK, WindowOf, Auditing
      <3>3. WindowOf(r)'
        BY <3>1, <3>2 DEF WindowOf, BeforeCall, Calling, Auditing, Retrying
      <3> QED BY <2>1, <2>2, <2>3, <3>1, <3>3, QuietStep
    <2>5. CASE Resolve(r) \/ WriteaheadFailed(r) \/ (Admit(r) /\ ~Keyed(r))
               \/ (WriteaheadCreated(r) /\ pc[r] = "writeahead_c")
               \/ (WriteaheadCreated(r) /\ AfterWriteahead(call[r].verb) = "check")
      <3>1. pc'[r] \in {"writeahead", "exit", "resolve", "finalize", "check"} /\ ~AboutToStore(r)
        BY <2>5, <1>t DEF Resolve, WriteaheadFailed, Admit, WriteaheadCreated, StartFinalize, Goto,
              Respond, AboutToStore, Calling, RestTypeOK
      <3>2. ~terminal[r] /\ UNCHANGED <<terminal, call>> /\ pc[r] # "idle"
        BY <2>5, <1>w DEF Resolve, WriteaheadFailed, Admit, WriteaheadCreated, reqVars,
              WindowOf, Auditing
      <3>3. Keyed(r) => pc[r] \in BeforeCall
        BY <2>5 DEF Resolve, WriteaheadFailed, Admit, WriteaheadCreated, BeforeCall
      <3>4. WindowOf(r)'
        BY <3>1, <3>2, <3>3, <2>2, <1>w DEF WindowOf, BeforeCall, Calling, Auditing, Retrying,
              Keyed, CacheKey
      <3> QED BY <2>1, <2>2, <2>3, <3>1, <3>4, QuietStep
    <2>6. CASE StopAccepted(r) \/ UnexpectedError(r)
      <3>1. pc'[r] \in {"dispatch", "finalize"}
        BY <2>6, <1>t DEF StopAccepted, UnexpectedError, StartFinalize, Goto, RestTypeOK
      <3>2. /\ ~terminal[r] /\ UNCHANGED <<terminal, call>> /\ pc[r] # "idle"
            /\ pc[r] \in BeforeCall \cup Calling
        BY <2>6, <1>w DEF StopAccepted, UnexpectedError, reqVars, WindowOf, Auditing, BeforeCall,
              Calling
      <3>3. AboutToStore(r)'
        BY <3>1, <3>2 DEF AboutToStore, Calling
      <3>4. WindowOf(r)'
        BY <3>1, <3>2, <2>2, <1>w DEF WindowOf, BeforeCall, Calling, Auditing, Retrying,
              Keyed, CacheKey
      <3> QED BY <2>1, <2>2, <2>3, <3>2, <3>3, <3>4, QuietStep
    <2> QED BY <1>1, <2>4, <2>5, <2>6
  <1>2. ASSUME NEW r \in Reqs, CancelledPatch(r) \/ BestEffortPatch(r) \/ CancelledRetry(r)
               \/ BestEffortRetry(r) \/ (Finalize(r) /\ terminal[r])
        PROVE  CallsCovered'
    <2>1. PICK label \in {"patch_be", "retry_be", "finalize", "exit"} :
             /\ pc' = [pc EXCEPT ![r] = label]
             /\ label = "retry_be" => terminal' = terminal /\ pc[r] = "retry_c"
      BY <1>2 DEF CancelledPatch, BestEffortPatch, CancelledRetry, BestEffortRetry, Finalize,
            Reraise, StartFinalize, Respond, Goto, reqVars
    <2>2. UNCHANGED <<entries, calls, call>>
      BY <1>2 DEF CancelledPatch, BestEffortPatch, CancelledRetry, BestEffortRetry, Finalize,
            cacheVars, worldVars, reqVars
    <2>3. \A q \in Reqs \ {r} : terminal'[q] = terminal[q]
      BY <1>2, <1>t DEF CancelledPatch, BestEffortPatch, CancelledRetry, BestEffortRetry, Finalize,
            reqVars, RestTypeOK
    <2>4. ~AboutToStore(r) /\ pc[r] \in Auditing \cup Retrying /\ pc[r] # "idle"
      BY <1>2 DEF CancelledPatch, BestEffortPatch, CancelledRetry, BestEffortRetry, Finalize,
            AboutToStore, Calling, Auditing, Retrying
    <2>5. pc'[r] = label
      BY <2>1, <1>t DEF RestTypeOK
    <2>6. WindowOf(r)'
      BY <2>1, <2>2, <2>4, <2>5, <1>w DEF WindowOf, BeforeCall, Calling, Auditing, Retrying,
            Keyed, CacheKey
    <2>7. label \in PCs
      BY DEF PCs
    <2> QED BY <2>1, <2>2, <2>3, <2>4, <2>6, <2>7, QuietStep
  <1>3. ASSUME NEW r \in Reqs, CheckPassed(r)
               \/ (WriteaheadCreated(r) /\ pc[r] = "writeahead"
                      /\ AfterWriteahead(call[r].verb) = "dispatch")
        PROVE  CallsCovered'
    <2>1. pc[r] \in BeforeCall /\ UNCHANGED <<call, entries, terminal>>
      BY <1>3 DEF CheckPassed, WriteaheadCreated, BeforeCall, cacheVars, reqVars
    <2>2. PICK j : IssueCall(r, j)
      BY <1>3 DEF CheckPassed, WriteaheadCreated
    <2>3. PICK label \in Calling : pc' = [pc EXCEPT ![r] = label]
      BY <1>3 DEF CheckPassed, WriteaheadCreated, Calling, Goto
    <2> QED BY <2>1, <2>2, <2>3, CallIsCovered
  <1>4. ASSUME NEW r \in Reqs, CheckNoop(r) \/ CallAccepted(r) \/ ProxmoxError(r)
        PROVE  CallsCovered'
    <2>1. pc[r] \in {"check", "stopping", "dispatch"} /\ UNCHANGED <<call, calls, terminal>>
      BY <1>4 DEF CheckNoop, CallAccepted, ProxmoxError, worldVars
    <2>2. call[r].verb \in Verbs
      BY <2>1, CallTypes
    <2>3. PICK result \in Results : StartAudit(r, result)
      BY <1>4, <2>2, PlanTypes DEF CheckNoop, CallAccepted, ProxmoxError
    <2>4. entry[r] \in JournalIds
      BY <2>1 DEF TypeOK, EntriesExist, Working
    <2>5. AuditBody(entry[r], result, FALSE) \in Body
      BY <2>4, AuditBodyType
    <2>6. Keyed(r) => entries[CacheKey(r)] = None
      BY <2>1, <1>w DEF WindowOf, BeforeCall, Calling
    <2>7. pc[r] \in Section
      BY <2>1 DEF Section, BeforeCall, Calling
    <2> QED BY <2>1, <2>3, <2>5, <2>6, <2>7, StoreCovers DEF StartAudit, Goto
  <1>5. ASSUME NEW r \in Reqs, RetryPatch(r) \/ Patch(r) \/ FinalizePatch(r)
        PROVE  CallsCovered'
    <2>1. pc[r] \in Auditing \cup Retrying /\ pc[r] # "idle" /\ pc[r] \in Section
      BY <1>5 DEF RetryPatch, Patch, FinalizePatch, Auditing, Retrying, Section
    <2>2. PICK f \in BOOLEAN : StoreResponse(r, ~f, AuditBody(entry[r], outcome[r], f))
      BY <1>5 DEF RetryPatch, Patch, FinalizePatch
    <2>3. AuditBody(entry[r], outcome[r], f) \in Body
      BY <2>1, AuditingTypes
    <2>4. Keyed(r) => entries[CacheKey(r)] = None \/ entries[CacheKey(r)].pending
      BY <2>1, <1>w DEF WindowOf
    <2>5. pc' = [pc EXCEPT ![r] = "exit"] /\ UNCHANGED <<call, calls>>
      BY <1>5 DEF RetryPatch, Patch, FinalizePatch, Respond, Goto, reqVars
    <2>6. \A q \in Reqs \ {r} : terminal'[q] = terminal[q]
      BY <1>5, <1>t DEF RetryPatch, Patch, FinalizePatch, reqVars, RestTypeOK
    <2> QED BY <2>1, <2>2, <2>3, <2>4, <2>5, <2>6, StoreCovers
  <1>6. ASSUME NEW r \in Reqs, Finalize(r), ~terminal[r] PROVE CallsCovered'
    <2>1. pc[r] \in Auditing /\ pc[r] # "idle" /\ pc[r] \in Section
      BY <1>6 DEF Finalize, Auditing, Section
    <2>2. StoreResponse(r, TRUE, AuditBody(entry[r], outcome[r], FALSE))
      BY <1>6 DEF Finalize
    <2>3. AuditBody(entry[r], outcome[r], FALSE) \in Body
      BY <2>1, AuditingTypes
    <2>4. Keyed(r) => entries[CacheKey(r)] = None \/ entries[CacheKey(r)].pending
      BY <2>1, <1>w DEF WindowOf
    <2>5. pc' = [pc EXCEPT ![r] = "finalize_patch"] /\ UNCHANGED <<call, calls, terminal>>
      BY <1>6 DEF Finalize, Goto, reqVars, worldVars
    <2> QED BY <2>1, <2>2, <2>3, <2>4, <2>5, StoreCovers
  <1>7. ASSUME NEW r \in Reqs, Admit(r), Keyed(r) PROVE CallsCovered'
    <2>1. /\ pc[r] = "gate" /\ pc' = [pc EXCEPT ![r] = "acquire"]
          /\ entries' = Cache!Prune(entries) /\ UNCHANGED <<call, calls, terminal>>
      BY <1>7 DEF Admit, Goto, Cache!EnterSingleFlight, reqVars, worldVars
    <2>2. pc'[r] = "acquire"
      BY <2>1, <1>t DEF RestTypeOK
    <2>3. WindowOf(r)'
      BY <2>1, <2>2, <1>w DEF WindowOf, BeforeCall, Calling, Auditing, Retrying
    <2>4. "acquire" \in PCs
      BY DEF PCs
    <2> QED BY <2>1, <2>3, <2>4, PruneCovers
  <1>8. ASSUME NEW r \in Reqs, Lookup(r) PROVE CallsCovered'
    <2>1. /\ pc[r] = "lookup" /\ entries' = Cache!Prune(entries)
          /\ UNCHANGED <<call, calls, terminal>>
      BY <1>8 DEF Lookup, Cache!GetEntry, worldVars
    <2>2. Keyed(r) /\ pc[r] # "idle"
      BY <2>1 DEF PcMatchesLock
    <2>3. PICK key \in CacheKeys : key = CacheKey(r)
      BY <2>2, CallTypes
    <2>4. PICK label \in {"resolve", "exit", "retry"} :
             /\ pc' = [pc EXCEPT ![r] = label]
             /\ label = "resolve" => entries'[key] = None
             /\ label = "retry" => entries'[key].pending
      BY <1>8, <2>3 DEF Lookup, Goto, Respond
    <2>5. pc'[r] = label /\ label \in PCs
      BY <2>4, <1>t DEF RestTypeOK, PCs
    <2>6. label = "resolve" => calls[key] = 0
      <3>1. SUFFICES ASSUME label = "resolve", calls[key] # 0 PROVE FALSE
        OBVIOUS
      <3>2. ~Live(key)
        BY <3>1, <2>1, <2>4 DEF Live, Cache!Prune
      <3>3. PICK q \in Reqs : pc[q] # "idle" /\ Keyed(q) /\ CacheKey(q) = key /\ AboutToStore(q)
        BY <3>1, <3>2 DEF CallsCovered, CallCover
      <3>4. pc[r] \in Section /\ pc[q] \in Section
        BY <2>1, <3>3, CoverIsInSection DEF Section
      <3>5. q = r
        BY <3>3, <3>4, <2>2, <2>3, Alone
      <3> QED BY <2>1, <3>3, <3>5 DEF AboutToStore, Calling
    <2>7. CacheKey(r)' = key /\ calls' = calls /\ ~terminal'[r]
      BY <2>1, <2>3, <1>w DEF CacheKey, WindowOf, Auditing
    <2>8. WindowOf(r)'
      BY <2>4, <2>5, <2>6, <2>7 DEF WindowOf, BeforeCall, Calling, Auditing, Retrying
    <2> QED BY <2>1, <2>4, <2>5, <2>8, PruneCovers
  <1>9. ASSUME NEW r \in Reqs, Cancel(r) PROVE CallsCovered'
    <2>1. UNCHANGED <<entries, calls, call, terminal>>
      BY <1>9 DEF Cancel, cacheVars, reqVars, worldVars, Cache!CancelWait
    <2>2. PICK label \in PCs : pc' = [pc EXCEPT ![r] = label] \/ (pc' = pc /\ label = pc[r])
      BY <1>9, <1>t DEF Cancel, StartFinalize, Respond, Goto, Shielded, PCs, RestTypeOK
    <2>3. pc' = [pc EXCEPT ![r] = label]
      BY <2>2, <1>t DEF RestTypeOK
    <2>4. CASE pc[r] \in {"gate", "acquire", "resolve", "writeahead", "cleanup", "patch", "retry"}
      <3>1. (pc'[r] \in {"done", "cleanup", "exit"} /\ pc[r] \notin {"patch", "retry"})
            \/ (pc'[r] = "writeahead_c" /\ pc[r] = "writeahead")
            \/ (pc'[r] = "patch_c" /\ pc[r] = "patch")
            \/ (pc'[r] = "retry_c" /\ pc[r] = "retry")
        BY <1>9, <2>4, <1>t DEF Cancel, Shielded, Respond, Goto, RestTypeOK
      <3>2. ~AboutToStore(r)
        BY <2>4 DEF AboutToStore, Calling
      <3>3. WindowOf(r)'
        <4>1. CASE pc'[r] \in {"done", "cleanup", "exit"} /\ pc[r] \notin {"patch", "retry"}
          BY <2>1, <2>4, <4>1, <1>w DEF WindowOf, BeforeCall, Calling, Auditing, Retrying
        <4>2. CASE pc'[r] = "writeahead_c" /\ pc[r] = "writeahead"
          BY <2>1, <4>2, <1>w DEF WindowOf, BeforeCall, Calling, Auditing, Retrying, Keyed, CacheKey
        <4>3. CASE pc'[r] \in {"patch_c", "retry_c"} /\ pc[r] \in {"patch", "retry"}
                   /\ (pc'[r] = "retry_c" => pc[r] = "retry")
          BY <2>1, <4>3, <1>w DEF WindowOf, BeforeCall, Calling, Auditing, Retrying, Keyed, CacheKey
        <4> QED BY <3>1, <4>1, <4>2, <4>3
      <3> QED BY <2>1, <2>3, <3>2, <3>3, QuietStep
    <2>5. CASE pc[r] \in {"check", "stopping", "dispatch"}
      <3>1. pc'[r] = "finalize"
        BY <1>9, <2>5, <1>t DEF Cancel, Shielded, StartFinalize, Goto, RestTypeOK
      <3>2. ~terminal[r]
        BY <2>5, <1>w DEF WindowOf, Auditing
      <3>3. AboutToStore(r)'
        BY <2>1, <3>1, <3>2 DEF AboutToStore
      <3>4. WindowOf(r)'
        BY <2>1, <2>5, <3>1, <1>w DEF WindowOf, BeforeCall, Calling, Auditing, Retrying, Keyed,
              CacheKey
      <3> QED BY <2>1, <2>3, <3>3, <3>4, QuietStep
    <2>6. pc[r] \in {"gate", "acquire", "resolve", "writeahead", "cleanup", "check", "stopping",
                     "dispatch", "patch", "retry"}
      BY <1>9 DEF Cancel, Shielded
    <2> QED BY <2>4, <2>5, <2>6
  <1>10. ASSUME NEW k \in CacheKeys, Expire(k) PROVE CallsCovered'
    <2>1. /\ entries[k] # None /\ calls' = [calls EXCEPT ![k] = 0]
          /\ entries' = [entries EXCEPT ![k].expired = TRUE]
          /\ UNCHANGED <<pc, call, terminal>>
      BY <1>10 DEF Expire, Cache!ExpireEntry, reqVars
    <2>2. \A l \in CacheKeys \ {k} : entries'[l] = entries[l] /\ calls'[l] = calls[l]
      BY <2>1, <1>t DEF TypeOK, Cache!TypeOK, RestTypeOK
    <2>3. calls'[k] = 0 /\ entries'[k].pending = entries[k].pending
      BY <2>1, <1>t DEF TypeOK, Cache!TypeOK, Cache!Entry, RestTypeOK
    <2>4. ASSUME NEW l \in CacheKeys PROVE CallCover(l)'
      BY <2>1, <2>2, <2>3 DEF CallsCovered, CallCover, Live, AboutToStore, Keyed, CacheKey
    <2>5. ASSUME NEW q \in Reqs PROVE WindowOf(q)'
      <3>1. pc[q] # "idle" /\ Keyed(q) => CacheKey(q) \in CacheKeys
        BY CallTypes
      <3> QED BY <2>1, <2>2, <2>3, <3>1, <1>w DEF WindowOf, Keyed, CacheKey
    <2> QED BY <2>4, <2>5 DEF CallsCovered
  <1>11. CASE Restart
    BY <1>11 DEF Restart, CallsCovered, CallCover, WindowOf
  <1>12. CASE UNCHANGED vars
    BY <1>12 DEF vars, cacheVars, reqVars, worldVars, CallsCovered, CallCover, WindowOf, Live,
          AboutToStore, Keyed, CacheKey
  <1>13. ASSUME NEW r \in Reqs, WriteaheadCreated(r) PROVE CallsCovered'
    <2>1. pc[r] \in {"writeahead", "writeahead_c"}
      BY <1>13 DEF WriteaheadCreated
    <2>2. AfterWriteahead(call[r].verb) \in {"check", "dispatch"}
      BY DEF AfterWriteahead
    <2> QED BY <1>13, <2>1, <2>2, <1>1, <1>3
  <1> QED BY <1>1, <1>2, <1>3, <1>4, <1>5, <1>6, <1>7, <1>8, <1>9, <1>10, <1>11, <1>12, <1>13
             DEF Next, Progress

-----------------------------------------------------------------------------
(* Theorems.                                                               *)

\* The initial state.
LEMMA InitInv == Init => DispatchInv /\ CP!CacheInv
  <1> SUFFICES ASSUME Init PROVE DispatchInv /\ CP!CacheInv
    OBVIOUS
  <1>1. CP!CacheInv
    BY CacheInitInv, SameInit DEF Init
  <1>2. Cache!TypeOK
    BY <1>1, SameType DEF CP!CacheInv
  <1>3. RestTypeOK
    BY DEF Init, RestTypeOK, PCs
  <1>4. TypeOK
    BY <1>2, <1>3 DEF TypeOK, RestTypeOK
  <1>5. PcMatchesLock
    BY DEF Init, Cache!CacheInit, PcMatchesLock, Section, Retrying, BeforeCall, Calling, Auditing,
           Keyed, CacheKey, Cache!Holds
  <1>6. EntriesExist
    BY DEF Init, Cache!CacheInit, EntriesExist, Working, Retrying, Auditing
  <1>7. CallsCovered
    BY DEF Init, CallsCovered, CallCover, WindowOf
  <1> QED BY <1>1, <1>4, <1>5, <1>6, <1>7 DEF DispatchInv

\* The invariant of the dispatcher and of its cache is inductive.
LEMMA InvStep ==
    DispatchInv /\ CP!CacheInv /\ [Next]_vars => DispatchInv' /\ CP!CacheInv'
  <1> SUFFICES ASSUME DispatchInv, CP!CacheInv, [Next]_vars PROVE DispatchInv' /\ CP!CacheInv'
    OBVIOUS
  <1>i. TypeOK /\ PcMatchesLock /\ EntriesExist /\ CallsCovered
    BY DEF DispatchInv
  <1>1. [Cache!CacheNext]_cacheVars
    BY <1>i, Simulation
  <1>2. [CP!CacheNext]_(CP!cacheVars)
    BY <1>1, SameNext DEF cacheVars, CP!cacheVars
  <1>3. CP!CacheInv'
    BY <1>2, CacheInvKept
  <1>4. Cache!TypeOK'
    BY <1>3, SameType DEF CP!CacheInv, Cache!TypeOK, CP!TypeOK, Cache!Entry, CP!Entry,
          Cache!Local, CP!Local
  <1>5. RestTypeOK'
    BY <1>i, RestTypeStep
  <1>6. TypeOK'
    BY <1>4, <1>5 DEF TypeOK, RestTypeOK
  <1>7. PcMatchesLock' /\ EntriesExist' /\ CallsCovered'
    BY <1>i, <1>6, LockSteps, EntriesExistStep, CallsCoveredStep
  <1> QED BY <1>3, <1>6, <1>7 DEF DispatchInv

\* Whatever the requests do, DispatchInv holds: every request has exactly the
\* part of the cache its place in the code asks for, refers only to existing
\* journal entries, and every call of the window is covered.
THEOREM DispatchInvariant == Spec => [](DispatchInv /\ CP!CacheInv)
  BY InitInv, InvStep, PTL DEF Spec

\* The verb dispatcher makes at most one Proxmox call for an Idempotency-Key
\* within the window of its cached response.
THEOREM AtMostOnce == Spec => []AtMostOneCall
  <1>1. DispatchInv => AtMostOneCall
    <2> SUFFICES ASSUME DispatchInv, NEW k \in CacheKeys PROVE calls[k] <= 1
      BY DEF AtMostOneCall
    <2>1. calls[k] \in Nat
      BY DEF DispatchInv, TypeOK
    <2>2. calls[k] # 0 => calls[k] = 1
      BY DEF DispatchInv, CallsCovered, CallCover
    <2> QED BY <2>1, <2>2
  <1> QED BY <1>1, DispatchInvariant, PTL

-----------------------------------------------------------------------------
(* The dispatcher implements DispatchWindow.                               *)

\* What a request's place in the code says of the abstract state.
LEMMA SectionOfOne ==
    ASSUME TypeOK, PcMatchesLock, CP!CacheInv, NEW r \in Reqs, pc[r] \in Section, Keyed(r)
    PROVE  CacheKey(r) \in CacheKeys /\ Inside(CacheKey(r)) = {r}
  <1>1. pc[r] # "idle"
    BY DEF Section, Retrying, BeforeCall, Calling, Auditing
  <1>2. CacheKey(r) \in CacheKeys
    BY <1>1, CallTypes
  <1>3. \A q \in Inside(CacheKey(r)) : q = r
    BY Alone DEF Inside
  <1> QED BY <1>2, <1>3 DEF Inside

\* A step that moves no request in or out of a section, with the same calls and live
\* responses, is a stutter of the abstract specification.
LEMMA WindowStutter ==
    ASSUME NEW r \in Reqs,
           \A q \in Reqs \ {r} : pc'[q] = pc[q] /\ call'[q] = call[q],
           call'[r] = call[r] /\ (pc'[r] \in Section <=> pc[r] \in Section),
           UNCHANGED calls, \A k \in CacheKeys : Live(k)' <=> Live(k)
    PROVE  UNCHANGED Window!windowVars
  <1>1. \A k \in CacheKeys : Inside(k)' = Inside(k)
    BY DEF Inside, Keyed, CacheKey
  <1> QED BY <1>1 DEF Window!windowVars, Holders, LiveKeys

\* A step of a request that stays in its section.
LEMMA StaysInside ==
    ASSUME TypeOK, NEW r \in Reqs,
           \/ Lookup(r) \/ RetryPatch(r) \/ Resolve(r) \/ WriteaheadCreated(r)
           \/ WriteaheadFailed(r) \/ CheckPassed(r) \/ CheckNoop(r) \/ StopAccepted(r)
           \/ CallAccepted(r) \/ ProxmoxError(r) \/ UnexpectedError(r) \/ Patch(r)
           \/ CancelledPatch(r) \/ BestEffortPatch(r) \/ CancelledRetry(r)
           \/ BestEffortRetry(r) \/ Finalize(r) \/ FinalizePatch(r)
           \/ (Cancel(r) /\ pc[r] \notin {"gate", "acquire", "cleanup"})
    PROVE  /\ pc[r] \in Section /\ pc'[r] \in Section /\ UNCHANGED call
           /\ \A q \in Reqs \ {r} : pc'[q] = pc[q]
  <1>1. UNCHANGED call
    BY DEF Lookup, RetryPatch, Resolve, WriteaheadCreated, WriteaheadFailed, CheckPassed,
           CheckNoop, StopAccepted, CallAccepted, ProxmoxError, UnexpectedError, Patch,
           CancelledPatch, BestEffortPatch, CancelledRetry, BestEffortRetry, Finalize,
           FinalizePatch, Cancel, reqVars
  <1>2. pc[r] \in Section
    BY DEF Lookup, RetryPatch, Resolve, WriteaheadCreated, WriteaheadFailed, CheckPassed,
           CheckNoop, StopAccepted, CallAccepted, ProxmoxError, UnexpectedError, Patch,
           CancelledPatch, BestEffortPatch, CancelledRetry, BestEffortRetry, Finalize,
           FinalizePatch, Cancel, Shielded, Section, Retrying, BeforeCall, Calling, Auditing
  <1> DEFINE Labels == {"resolve", "exit", "retry", "writeahead", "check", "dispatch", "stopping",
                        "patch", "patch_be", "retry_be", "finalize", "finalize_patch",
                        "writeahead_c", "patch_c", "retry_c"}
  <1>a. ASSUME Lookup(r)
        PROVE  \E label \in Labels : Goto(r, label)
    <2>1. \E label \in {"resolve", "exit", "retry"} : Goto(r, label)
      BY <1>a DEF Lookup, Respond
    <2> QED BY <2>1
  <1>b. ASSUME Resolve(r) \/ WriteaheadCreated(r) \/ WriteaheadFailed(r) \/ CheckPassed(r)
             \/ CheckNoop(r) \/ StopAccepted(r) \/ CallAccepted(r) \/ ProxmoxError(r)
             \/ UnexpectedError(r)
        PROVE  \E label \in Labels : Goto(r, label)
    <2>1. \E label \in {"writeahead", "check", "dispatch", "stopping", "patch", "finalize",
                        "exit"} : Goto(r, label)
      BY <1>b DEF Resolve, WriteaheadCreated, WriteaheadFailed, CheckPassed, CheckNoop,
            StopAccepted, CallAccepted, ProxmoxError, UnexpectedError, StartAudit,
            StartFinalize, AfterWriteahead, Respond
    <2> QED BY <2>1
  <1>c. ASSUME RetryPatch(r) \/ Patch(r) \/ CancelledPatch(r) \/ BestEffortPatch(r)
             \/ CancelledRetry(r) \/ BestEffortRetry(r) \/ Finalize(r) \/ FinalizePatch(r)
        PROVE  \E label \in Labels : Goto(r, label)
    <2>1. \E label \in {"patch_be", "retry_be", "finalize", "finalize_patch", "exit"} : Goto(r, label)
      BY <1>c DEF RetryPatch, Patch, CancelledPatch, BestEffortPatch, CancelledRetry,
            BestEffortRetry, Finalize, FinalizePatch, Reraise, StartFinalize, Respond
    <2> QED BY <2>1
  <1>d. ASSUME Cancel(r) /\ pc[r] \notin {"gate", "acquire", "cleanup"}
        PROVE  \E label \in Labels : Goto(r, label)
    <2>1. \E label \in {"writeahead_c", "patch_c", "retry_c", "finalize", "exit"} : Goto(r, label)
      BY <1>d DEF Cancel, Shielded, StartFinalize, Respond
    <2> QED BY <2>1
  <1>3. PICK label \in Labels : pc' = [pc EXCEPT ![r] = label]
    BY <1>a, <1>b, <1>c, <1>d DEF Goto
  <1>4. label \in Section
    BY DEF Section, Retrying, BeforeCall, Calling, Auditing
  <1>5. pc \in [Reqs -> PCs]
    BY DEF TypeOK
  <1> QED BY <1>1, <1>2, <1>3, <1>4, <1>5

\* A step inside the section that keeps the calls and the live responses.
LEMMA QuietInside ==
    ASSUME TypeOK, PcMatchesLock, CallsCovered, NEW r \in Reqs,
           \/ Lookup(r) \/ Resolve(r) \/ WriteaheadFailed(r) \/ StopAccepted(r)
           \/ UnexpectedError(r) \/ CancelledPatch(r) \/ BestEffortPatch(r)
           \/ CancelledRetry(r) \/ BestEffortRetry(r) \/ (Finalize(r) /\ terminal[r])
           \/ (Cancel(r) /\ pc[r] \notin {"gate", "acquire", "cleanup"})
           \/ (WriteaheadCreated(r) /\ pc[r] = "writeahead_c")
           \/ (WriteaheadCreated(r) /\ AfterWriteahead(call[r].verb) = "check")
    PROVE  UNCHANGED Window!windowVars
  <1>1. /\ UNCHANGED calls
        /\ entries' = entries \/ entries' = Cache!Prune(entries)
    BY DEF Lookup, Resolve, WriteaheadFailed, StopAccepted, UnexpectedError, CancelledPatch,
           BestEffortPatch, CancelledRetry, BestEffortRetry, Finalize, Cancel, WriteaheadCreated,
           AfterWriteahead, Cache!GetEntry, cacheVars, worldVars
  <1>2. \A k \in CacheKeys : Live(k)' <=> Live(k)
    BY <1>1 DEF Live, Cache!Prune
  <1>3. pc[r] \in Section /\ pc'[r] \in Section /\ UNCHANGED call
        /\ \A q \in Reqs \ {r} : pc'[q] = pc[q]
    BY StaysInside
  <1> QED BY <1>1, <1>2, <1>3, WindowStutter

\* A step inside the section that stores a response is an Answer.
LEMMA StoreAnswers ==
    ASSUME TypeOK, PcMatchesLock, CP!CacheInv, CallsCovered, NEW r \in Reqs,
           pc[r] \in Section, pc'[r] \in Section, UNCHANGED <<call, calls>>,
           \A q \in Reqs \ {r} : pc'[q] = pc[q],
           NEW p \in BOOLEAN, NEW b \in Body, StoreResponse(r, p, b),
           Keyed(r) => entries[CacheKey(r)] = None \/ entries[CacheKey(r)].pending
    PROVE  [Window!WindowNext]_(Window!windowVars)
  <1>1. CASE ~Keyed(r)
    <2>1. \A k \in CacheKeys : Live(k)' <=> Live(k)
      BY <1>1 DEF StoreResponse, cacheVars, Live
    <2> QED BY <2>1, WindowStutter
  <1>2. CASE Keyed(r)
    <2> DEFINE new == [pending |-> p, expired |-> FALSE, body |-> b]
    <2>1. PICK key \in CacheKeys : key = CacheKey(r) /\ Inside(key) = {r}
      BY <1>2, SectionOfOne
    <2>2. mine[r].key = key
      BY <1>2, <2>1 DEF PcMatchesLock, Cache!Holds
    <2>3. entries' = [entries EXCEPT ![key] = new]
      BY <1>2, <2>1, <2>2 DEF StoreResponse, Cache!Store, Cache!Put
    <2>4. entries'[key] = new /\ \A k \in CacheKeys \ {key} : entries'[k] = entries[k]
      BY <2>3 DEF TypeOK, Cache!TypeOK
    <2>5. new \in Cache!Entry
      BY DEF Cache!Entry
    <2>6. new # None
      BY <2>5, NoneIsNothing DEF Cache!Entry
    <2>7. Live(key)' /\ \A k \in CacheKeys \ {key} : Live(k)' <=> Live(k)
      BY <2>4, <2>6 DEF Live
    <2>8. \A k \in CacheKeys : Inside(k)' = Inside(k)
      BY DEF Inside, Keyed, CacheKey
    <2>9. Window!Answer(key)
      BY <2>1, <2>7, <2>8 DEF Window!Answer, Holders, LiveKeys
    <2> QED BY <2>9 DEF Window!WindowNext
  <1> QED BY <1>1, <1>2

\* A Proxmox mutation is a Call: neither a call nor an answer stands.
LEMMA CallOpensWindow ==
    ASSUME TypeOK, PcMatchesLock, CP!CacheInv, CallsCovered, NEW r \in Reqs,
           pc[r] \in BeforeCall, pc'[r] \in Section, UNCHANGED <<call, entries>>,
           \A q \in Reqs \ {r} : pc'[q] = pc[q], NEW j, IssueCall(r, j)
    PROVE  [Window!WindowNext]_(Window!windowVars)
  <1>1. pc[r] \in Section /\ pc[r] # "idle"
    BY DEF Section, BeforeCall
  <1>2. \A k \in CacheKeys : Live(k)' <=> Live(k)
    BY DEF Live
  <1>3. CASE ~Keyed(r)
    BY <1>1, <1>2, <1>3, WindowStutter DEF IssueCall
  <1>4. CASE Keyed(r)
    <2>1. PICK key \in CacheKeys : key = CacheKey(r) /\ Inside(key) = {r}
      BY <1>1, <1>4, SectionOfOne
    <2>2. calls[key] = 0 /\ entries[key] = None
      BY <1>1, <1>4, <2>1 DEF CallsCovered, WindowOf
    <2>3. calls' = [calls EXCEPT ![key] = 1]
      BY <1>4, <2>1, <2>2 DEF IssueCall, TypeOK
    <2>4. \A k \in CacheKeys : Inside(k)' = Inside(k)
      BY <1>1 DEF Inside, Keyed, CacheKey
    <2>5. Window!Call(key)
      BY <1>2, <2>1, <2>2, <2>3, <2>4 DEF Window!Call, Holders, LiveKeys, Live
    <2> QED BY <2>5 DEF Window!WindowNext
  <1> QED BY <1>3, <1>4

\* Every step of the dispatcher is a step of DispatchWindow or a stutter.
LEMMA WindowSimulation ==
    ASSUME DispatchInv, CP!CacheInv, [Next]_vars
    PROVE  [Window!WindowNext]_(Window!windowVars)
  <1>i. TypeOK /\ PcMatchesLock /\ EntriesExist /\ CallsCovered
    BY DEF DispatchInv
  <1>t. pc \in [Reqs -> PCs] /\ call \in [Reqs -> Call \cup {None}]
    BY <1>i DEF TypeOK
  <1>w. \A r \in Reqs : WindowOf(r)
    BY <1>i DEF CallsCovered
  <1>1. ASSUME NEW r \in Reqs,
               \/ Issue(r) \/ Refuse(r) \/ Cleanup(r) \/ Finish(r) \/ (Admit(r) /\ Keyed(r))
               \/ (Cancel(r) /\ pc[r] \in {"gate", "acquire", "cleanup"})
        PROVE  UNCHANGED Window!windowVars
    <2>1. pc[r] \notin Section /\ pc'[r] \notin Section /\ \A q \in Reqs \ {r} : pc'[q] = pc[q]
      BY <1>1, <1>t DEF Issue, Refuse, Cleanup, Finish, Admit, Cancel, Shielded, Respond, Goto, Section,
            Retrying, BeforeCall, Calling, Auditing
    <2>2. \A q \in Reqs \ {r} : call'[q] = call[q]
      BY <1>1, <1>t DEF Issue, Refuse, Cleanup, Finish, Admit, Cancel, reqVars
    <2>3. UNCHANGED calls /\ (entries' = entries \/ entries' = Cache!Prune(entries))
      BY <1>1 DEF Issue, Refuse, Cleanup, Finish, Admit, Cancel, cacheVars, worldVars,
            Cache!EnterSingleFlight, Cache!ReleaseSingleFlight, Cache!CancelWait
    <2>4. \A k \in CacheKeys : Live(k)' <=> Live(k)
      BY <2>3 DEF Live, Cache!Prune
    <2>5. \A k \in CacheKeys : Inside(k)' = Inside(k)
      BY <2>1, <2>2 DEF Inside, Keyed, CacheKey
    <2> QED BY <2>3, <2>4, <2>5 DEF Window!windowVars, Holders, LiveKeys
  <1>2. ASSUME NEW r \in Reqs, Admit(r), ~Keyed(r) PROVE UNCHANGED Window!windowVars
    <2>1. /\ \A q \in Reqs \ {r} : pc'[q] = pc[q]
          /\ UNCHANGED <<call, calls, entries>>
      BY <1>2, <1>t DEF Admit, Goto, reqVars, worldVars, cacheVars
    <2>2. \A k \in CacheKeys : Inside(k)' = Inside(k) /\ (Live(k)' <=> Live(k))
      BY <1>2, <2>1 DEF Inside, Keyed, CacheKey, Live
    <2> QED BY <2>1, <2>2 DEF Window!windowVars, Holders, LiveKeys
  <1>3. ASSUME NEW r \in Reqs, Acquire(r) PROVE [Window!WindowNext]_(Window!windowVars)
    <2>1. /\ pc[r] = "acquire" /\ pc'[r] = "lookup" /\ \A q \in Reqs \ {r} : pc'[q] = pc[q]
          /\ UNCHANGED <<call, calls, entries, mine>>
          /\ owner[mine[r].flight] = None /\ owner' = [owner EXCEPT ![mine[r].flight] = r]
      BY <1>3, <1>t DEF Acquire, Goto, reqVars, worldVars, Cache!AcquireFlightLock
    <2>2. Keyed(r) /\ CacheKey(r) \in CacheKeys
      BY <2>1, <1>i, CallTypes DEF PcMatchesLock
    <2>3. PcMatchesLock' /\ TypeOK' /\ CP!CacheInv'
      BY InvStep DEF DispatchInv
    <2>4. pc'[r] \in Section /\ Keyed(r)' /\ CacheKey(r)' = CacheKey(r)
      BY <2>1, <2>2 DEF Section, Keyed, CacheKey
    <2>5. Inside(CacheKey(r)) = {}
      <3>1. SUFFICES ASSUME NEW q \in Inside(CacheKey(r)) PROVE FALSE
        OBVIOUS
      <3>2. q \in Reqs /\ pc[q] \in Section /\ Keyed(q) /\ CacheKey(q) = CacheKey(r)
        BY DEF Inside
      <3>3. q # r
        BY <2>1, <3>2 DEF Section, Retrying, BeforeCall, Calling, Auditing
      <3>4. pc'[q] \in Section /\ Keyed(q)' /\ CacheKey(q)' = CacheKey(r)'
        BY <2>1, <2>4, <3>2, <3>3 DEF Keyed, CacheKey
      <3>5. Cache!Holds(q)' /\ Cache!Holds(r)' /\ mine'[q].key = mine'[r].key
        BY <2>3, <2>4, <3>2, <3>4 DEF PcMatchesLock, Cache!Holds
      <3>6. mine'[q].flight = mine'[r].flight
        BY <2>3, <3>2, <3>5 DEF CP!CacheInv, CP!FlightIsCurrent, Cache!Holds
      <3>7. owner'[mine'[r].flight] = r /\ owner'[mine'[q].flight] = q
        BY <3>5 DEF Cache!Holds
      <3> QED BY <3>3, <3>6, <3>7
    <2>6. \A k \in CacheKeys : Inside(k)' = IF k = CacheKey(r) THEN {r} ELSE Inside(k)
      BY <2>1, <2>2, <2>4, <2>5 DEF Inside, Keyed, CacheKey, Section, Retrying, BeforeCall, Calling, Auditing
    <2>7. \A k \in CacheKeys : Live(k)' <=> Live(k)
      BY <2>1 DEF Live
    <2>8. PICK key \in CacheKeys : key = CacheKey(r)
      BY <2>2
    <2>9. Window!Admit(key, r)
      BY <2>1, <2>8, <2>5, <2>6, <2>7 DEF Window!Admit, Holders, LiveKeys
    <2> QED BY <2>9 DEF Window!WindowNext
  <1>4. ASSUME NEW r \in Reqs, CheckNoop(r) \/ CallAccepted(r) \/ ProxmoxError(r)
        PROVE  [Window!WindowNext]_(Window!windowVars)
    <2>1. pc[r] \in {"check", "stopping", "dispatch"} /\ UNCHANGED <<call, calls>>
      BY <1>4 DEF CheckNoop, CallAccepted, ProxmoxError, worldVars
    <2>2. call[r].verb \in Verbs
      BY <1>i, <2>1, CallTypes
    <2>3. PICK result \in Results : StartAudit(r, result)
      BY <1>4, <2>2, PlanTypes DEF CheckNoop, CallAccepted, ProxmoxError
    <2>4. AuditBody(entry[r], result, FALSE) \in Body
      BY <1>i, <2>1, AuditBodyType DEF TypeOK, EntriesExist, Working
    <2>5. Keyed(r) => entries[CacheKey(r)] = None
      BY <2>1, <1>w DEF WindowOf, BeforeCall, Calling
    <2>6. pc[r] \in Section /\ pc'[r] \in Section /\ \A q \in Reqs \ {r} : pc'[q] = pc[q]
      BY <1>i, <1>4, StaysInside
    <2>7. StoreResponse(r, TRUE, AuditBody(entry[r], result, FALSE))
      BY <2>3 DEF StartAudit
    <2> QED BY <1>i, <2>1, <2>4, <2>5, <2>6, <2>7, StoreAnswers
  <1>5. ASSUME NEW r \in Reqs, RetryPatch(r) \/ Patch(r) \/ FinalizePatch(r) \/ (Finalize(r) /\ ~terminal[r])
        PROVE  [Window!WindowNext]_(Window!windowVars)
    <2>1. pc[r] \in Auditing \cup Retrying /\ pc[r] # "idle"
      BY <1>5 DEF RetryPatch, Patch, FinalizePatch, Finalize, Auditing, Retrying
    <2>2. PICK f \in BOOLEAN : StoreResponse(r, ~f, AuditBody(entry[r], outcome[r], f))
      BY <1>5 DEF RetryPatch, Patch, FinalizePatch, Finalize
    <2>3. AuditBody(entry[r], outcome[r], f) \in Body
      BY <1>i, <2>1, AuditingTypes
    <2>4. Keyed(r) => entries[CacheKey(r)] = None \/ entries[CacheKey(r)].pending
      BY <2>1, <1>w DEF WindowOf
    <2>5. UNCHANGED <<call, calls>>
      BY <1>5 DEF RetryPatch, Patch, FinalizePatch, Finalize, reqVars, worldVars
    <2>6. pc[r] \in Section /\ pc'[r] \in Section /\ \A q \in Reqs \ {r} : pc'[q] = pc[q]
      BY <1>i, <1>5, StaysInside
    <2> QED BY <1>i, <2>2, <2>3, <2>4, <2>5, <2>6, StoreAnswers
  <1>6. ASSUME NEW r \in Reqs, CheckPassed(r)
               \/ (WriteaheadCreated(r) /\ pc[r] = "writeahead"
                      /\ AfterWriteahead(call[r].verb) = "dispatch")
        PROVE  [Window!WindowNext]_(Window!windowVars)
    <2>1. pc[r] \in BeforeCall /\ UNCHANGED <<call, entries>>
      BY <1>6 DEF CheckPassed, WriteaheadCreated, BeforeCall, cacheVars, reqVars
    <2>2. PICK j : IssueCall(r, j)
      BY <1>6 DEF CheckPassed, WriteaheadCreated
    <2>3. pc'[r] \in Section /\ \A q \in Reqs \ {r} : pc'[q] = pc[q]
      BY <1>i, <1>6, StaysInside
    <2> QED BY <1>i, <2>1, <2>2, <2>3, CallOpensWindow
  <1>7. ASSUME NEW r \in Reqs, Exit(r) PROVE [Window!WindowNext]_(Window!windowVars)
    <2>1. /\ pc[r] = "exit" /\ pc'[r] \in {"cleanup", "done"} /\ \A q \in Reqs \ {r} : pc'[q] = pc[q]
          /\ UNCHANGED <<call, calls, entries>>
      BY <1>7, <1>t DEF Exit, Goto, worldVars, cacheVars, Cache!ReleaseFlightLock
    <2>2. pc'[r] \notin Section /\ pc[r] \in Section
      BY <2>1 DEF Section, Retrying, BeforeCall, Calling, Auditing
    <2>3. \A k \in CacheKeys : Live(k)' <=> Live(k)
      BY <2>1 DEF Live
    <2>4. CASE ~Keyed(r)
      <3>1. \A k \in CacheKeys : Inside(k)' = Inside(k)
        BY <2>1, <2>4 DEF Inside, Keyed, CacheKey
      <3> QED BY <2>1, <2>3, <3>1 DEF Window!windowVars, Holders, LiveKeys
    <2>5. CASE Keyed(r)
      <3>1. PICK key \in CacheKeys : key = CacheKey(r) /\ Inside(key) = {r}
        BY <1>i, <2>2, <2>5, SectionOfOne
      <3>2. calls[key] = 0 \/ Live(key)
        <4>1. SUFFICES ASSUME calls[key] # 0, ~Live(key) PROVE FALSE
          OBVIOUS
        <4>2. PICK q \in Reqs : pc[q] # "idle" /\ Keyed(q) /\ CacheKey(q) = key /\ AboutToStore(q)
          BY <1>i, <4>1 DEF CallsCovered, CallCover
        <4>3. q \in Inside(key)
          BY <4>2, CoverIsInSection DEF Inside
        <4> QED BY <2>1, <3>1, <4>2, <4>3 DEF AboutToStore, Calling
      <3>3. \A k \in CacheKeys : Inside(k)' = IF k = key THEN {} ELSE Inside(k)
        BY <2>1, <2>2, <3>1 DEF Inside, Keyed, CacheKey
      <3>4. Window!Leave(key)
        BY <2>1, <2>3, <3>1, <3>2, <3>3 DEF Window!Leave, Holders, LiveKeys
      <3> QED BY <3>4 DEF Window!WindowNext
    <2> QED BY <2>4, <2>5
  <1>8. ASSUME NEW k \in CacheKeys, Expire(k) PROVE [Window!WindowNext]_(Window!windowVars)
    <2>1. /\ entries[k] # None /\ ~entries[k].expired /\ calls' = [calls EXCEPT ![k] = 0]
          /\ entries' = [entries EXCEPT ![k].expired = TRUE] /\ UNCHANGED <<pc, call>>
      BY <1>8 DEF Expire, Cache!ExpireEntry, reqVars
    <2>2. entries \in [CacheKeys -> Cache!Entry \cup {None}]
      BY <1>i DEF TypeOK, Cache!TypeOK
    <2>3. entries'[k].expired = TRUE /\ \A l \in CacheKeys \ {k} : entries'[l] = entries[l]
      BY <2>1, <2>2 DEF Cache!Entry
    <2>4. Live(k) /\ ~Live(k)' /\ \A l \in CacheKeys \ {k} : Live(l)' <=> Live(l)
      BY <2>1, <2>3 DEF Live
    <2>5. \A l \in CacheKeys : Inside(l)' = Inside(l)
      BY <2>1 DEF Inside, Keyed, CacheKey
    <2>6. Window!Expire(k)
      BY <2>1, <2>4, <2>5 DEF Window!Expire, Holders, LiveKeys
    <2> QED BY <2>6 DEF Window!WindowNext
  <1>9. CASE Restart
    <2>1. pc' = [r \in Reqs |-> "idle"] /\ calls' = [k \in CacheKeys |-> 0]
          /\ entries' = [k \in CacheKeys |-> None]
      BY <1>9 DEF Restart, Cache!ProcessRestart
    <2>2. \A k \in CacheKeys : Inside(k)' = {} /\ ~Live(k)'
      BY <2>1 DEF Inside, Live, Section, Retrying, BeforeCall, Calling, Auditing
    <2>3. Window!Crash
      BY <2>1, <2>2 DEF Window!Crash, Holders, LiveKeys
    <2> QED BY <2>3 DEF Window!WindowNext
  <1>10. CASE UNCHANGED vars
    <2>1. UNCHANGED <<pc, call, calls, entries>>
      BY <1>10 DEF vars, cacheVars, reqVars, worldVars
    <2>2. \A k \in CacheKeys : Inside(k)' = Inside(k) /\ (Live(k)' <=> Live(k))
      BY <2>1 DEF Inside, Keyed, CacheKey, Live
    <2> QED BY <2>1, <2>2 DEF Window!windowVars, Holders, LiveKeys
  <1>11. ASSUME NEW r \in Reqs, WriteaheadCreated(r) PROVE [Window!WindowNext]_(Window!windowVars)
    <2>1. /\ pc[r] \in {"writeahead", "writeahead_c"}
          /\ AfterWriteahead(call[r].verb) \in {"check", "dispatch"}
      BY <1>11 DEF WriteaheadCreated, AfterWriteahead
    <2> QED BY <1>i, <1>11, <2>1, <1>6, QuietInside
  <1> QED BY <1>i, <1>1, <1>2, <1>3, <1>4, <1>5, <1>6, <1>7, <1>8, <1>9, <1>10, <1>11, QuietInside
             DEF Next, Progress

\* The dispatcher keeps the promise of the Idempotency-Key for every number of requests,
\* keys and journal entries: one request of a key at a time, a Proxmox call only when
\* neither a call nor a cached answer stands, and no way out of a call, failed or
\* cancelled, before an answer stands for it (proxmox_actions.py, idempotency.py).
THEOREM KeyOpensOneWindow == Spec => OneCallPerWindow
  <1>1. Init => Window!WindowInit
    BY DEF Init, Cache!CacheInit, Window!WindowInit, Section, Retrying, BeforeCall, Calling,
           Auditing, Holders, Inside, LiveKeys, Live
  <1>2. DispatchInv /\ CP!CacheInv /\ [Next]_vars => [Window!WindowNext]_(Window!windowVars)
    BY WindowSimulation
  <1> QED BY <1>1, <1>2, DispatchInvariant, PTL DEF Spec, OneCallPerWindow, Window!WindowSpec

-----------------------------------------------------------------------------
(* The journal: AuditInv is kept by every step.  The steps are sorted into *)
(* a few shapes (leaving an entry, working on it, writing it, taking one   *)
(* over, making one) and each shape is shown to keep AuditInv.             *)

\* A step of request r leaves the other requests alone.
Others(r) ==
    \A q \in Reqs \ {r} :
        /\ pc'[q] = pc[q] /\ call'[q] = call[q] /\ entry'[q] = entry[q]
        /\ terminal'[q] = terminal[q] /\ outcome'[q] = outcome[q] /\ resp'[q] = resp[q]

\* The invariants a step may rely on.
Known == DispatchInv /\ CP!CacheInv /\ AuditInv

\* A cached response of the next state is the one of this state, or the one
\* that request r has just stored about its own entry.
KeptOrStored(r) ==
    \A k \in CacheKeys :
        \/ entries'[k] = entries[k]
        \/ /\ Keyed(r) /\ k = CacheKey(r)
           /\ entries'[k] # None /\ ~entries'[k].expired
           /\ entries'[k].body.entry = entry[r]

\* The types of what a busy request refers to.
LEMMA BusyTypes ==
    ASSUME DispatchInv, NEW r \in Reqs, pc[r] \in Busy
    PROVE  /\ entry[r] \in JournalIds /\ journal[entry[r]] # None
           /\ pc[r] # "idle" /\ call[r] \in Call
           /\ pc[r] \in Section
           /\ Keyed(r) => CacheKey(r) \in CacheKeys
  <1>1. pc[r] # "idle" /\ pc[r] \in Section /\ pc[r] \in Working \cup Retrying
    BY DEF Busy, Working, Retrying, Section, BeforeCall, Calling, Auditing
  <1>2. entry[r] # None /\ journal[entry[r]] # None
    BY <1>1 DEF DispatchInv, EntriesExist
  <1>3. entry[r] \in JournalIds
    BY <1>2 DEF DispatchInv, TypeOK
  <1> QED BY <1>1, <1>2, <1>3, CallTypes DEF DispatchInv

\* A cached response is about an existing entry.
LEMMA CachedTypes ==
    ASSUME DispatchInv, NEW k \in CacheKeys, entries[k] # None
    PROVE  /\ entries[k].body.entry \in JournalIds
           /\ entries[k].body \in Body
           /\ journal[entries[k].body.entry] # None
  BY DEF DispatchInv, TypeOK, Cache!TypeOK, Cache!Entry, EntriesExist, Body

\* The cached response of the key of a busy request is pending and about the
\* entry the request has.
LEMMA OwnResponse ==
    ASSUME DispatchInv, AuditInv, NEW r \in Reqs, pc[r] \in Busy, Keyed(r),
           entries[CacheKey(r)] # None
    PROVE  /\ entries[CacheKey(r)].pending
           /\ entries[CacheKey(r)].body.entry = entry[r]
           /\ pc[r] \in Auditing \cup Retrying
  <1>1. pc[r] # "idle" /\ WindowOf(r) /\ RequestKnows(r)
    BY BusyTypes DEF DispatchInv, CallsCovered, AuditInv
  <1>2. pc[r] \in Auditing \cup Retrying
    BY <1>1 DEF WindowOf, Busy, Working, Auditing, Retrying, BeforeCall, Calling
  <1> QED BY <1>1, <1>2 DEF WindowOf, RequestKnows

\* A request that leaves its entry, or has none: the entry was closed before.
LEMMA LeaveStep ==
    ASSUME Known, NEW r \in Reqs, Others(r), pc'[r] \notin Busy,
           pc[r] \in Working => journal[entry[r]].result # "in_progress",
           UNCHANGED <<journal, sent, fault>>,
           \A k \in CacheKeys : entries'[k] = entries[k] \/ (entries'[k] = None /\ ~Live(k)),
           resp'[r] # None => pc'[r] \in {"exit", "cleanup", "done"},
           pc'[r] # "idle" /\ Succeeded(r)' =>
              /\ journal[resp'[r].body.entry] = [verb |-> call'[r].verb, result |-> resp'[r].body.result]
              /\ Settled(resp'[r].body.entry)
    PROVE  AuditInv'
  <1>i. DispatchInv /\ AuditInv
    BY DEF Known
  <1>o. \A q \in Reqs : pc'[q] \in Busy =>
           /\ q # r /\ pc[q] \in Busy /\ pc'[q] = pc[q] /\ entry'[q] = entry[q] /\ call'[q] = call[q]
           /\ (Keyed(q)' <=> Keyed(q)) /\ CacheKey(q)' = CacheKey(q)
    BY DEF Others, Keyed, CacheKey
  <1>e. \A k \in CacheKeys : entries'[k] # None => entries'[k] = entries[k]
    OBVIOUS
  <1>s. ASSUME NEW j, Settled(j) PROVE Settled(j)'
    BY <1>s, <1>o, <1>e DEF Settled
  <1>1. OneHandler'
    <2>1. OneHandler
      BY <1>i DEF AuditInv
    <2> QED BY <2>1, <1>o, <1>e DEF OneHandler
  <1>2. ASSUME NEW q \in Reqs PROVE RequestKnows(q)'
    <2>1. CASE pc'[q] \in Busy
      <3>1. RequestKnows(q) /\ q # r /\ pc[q] \in Busy
        BY <2>1, <1>o, <1>i DEF AuditInv
      <3>2. Keyed(q) => CacheKey(q) \in CacheKeys
        BY <3>1, <1>i, BusyTypes
      <3>3. pc'[q] = pc[q] /\ entry'[q] = entry[q] /\ call'[q] = call[q]
            /\ terminal'[q] = terminal[q] /\ outcome'[q] = outcome[q]
        BY <3>1 DEF Others
      <3>4. (Keyed(q)' <=> Keyed(q)) /\ CacheKey(q)' = CacheKey(q)
        BY <2>1, <1>o
      <3>5. Truthful(outcome[q], entry[q]) => Truthful(outcome[q], entry[q])'
        BY <3>3 DEF Truthful
      <3> QED BY <3>1, <3>2, <3>3, <3>4, <3>5, <1>e DEF RequestKnows
    <2>2. CASE pc'[q] \notin Busy
      BY <2>2 DEF RequestKnows, Busy, Working, Auditing, Retrying
    <2> QED BY <2>1, <2>2
  <1>3. ASSUME NEW q \in Reqs PROVE AnswerKnows(q)'
    <2>1. CASE q = r
      BY <2>1, <1>s DEF AnswerKnows
    <2>2. CASE q # r
      <3>1. AnswerKnows(q)
        BY <1>i DEF AuditInv
      <3>2. pc'[q] = pc[q] /\ call'[q] = call[q] /\ resp'[q] = resp[q] /\ (Succeeded(q)' <=> Succeeded(q))
        BY <2>2 DEF Others, Succeeded
      <3>3. Settled(resp[q].body.entry) => Settled(resp[q].body.entry)'
        BY <3>2, <1>o, <1>e DEF Settled
      <3> QED BY <3>1, <3>2, <3>3 DEF AnswerKnows
    <2> QED BY <2>1, <2>2
  <1>4. ASSUME NEW k \in CacheKeys PROVE ResponseKnows(k)'
    <2>1. ResponseKnows(k)
      BY <1>i DEF AuditInv
    <2> QED BY <2>1, <1>e DEF ResponseKnows, Truthful
  <1>5. (\A j \in JournalIds : journal[j] = None => sent[j] = "no")' /\ JournalTruthful'
    BY <1>i DEF AuditInv, JournalTruthful
  <1>6. CancellationClosesEntry'
    <2>1. CancellationClosesEntry
      BY <1>i DEF AuditInv
    <2> QED BY <2>1 DEF CancellationClosesEntry, Others
  <1>7. FailedPatchIsRetryable'
    <2>1. FailedPatchIsRetryable
      BY <1>i DEF AuditInv
    <2>2. \A k \in CacheKeys : Live(k) => entries'[k] = entries[k]
      OBVIOUS
    <2> QED BY <2>1, <2>2 DEF FailedPatchIsRetryable, Others, Live
  <1> QED BY <1>1, <1>2, <1>3, <1>4, <1>5, <1>6, <1>7 DEF AuditInv

\* A request that goes on with its entry, and may store a pending response.
LEMMA BusyStep ==
    ASSUME Known, NEW r \in Reqs, Others(r), pc[r] \in Busy, pc'[r] \in Busy,
           pc[r] \in Working => pc'[r] \in Working,
           entry'[r] = entry[r], call'[r] = call[r], resp'[r] = resp[r],
           UNCHANGED <<journal, fault>>,
           \/ sent' = sent
           \/ pc[r] \in {"check", "dispatch"} /\ \E s : sent' = [sent EXCEPT ![entry[r]] = s],
           KeptOrStored(r),
           Keyed(r) => \/ entries'[CacheKey(r)] = entries[CacheKey(r)]
                       \/ /\ entries'[CacheKey(r)].pending
                          /\ Truthful(entries[CacheKey(r)].body.result, entry[r])',
           RequestKnows(r)'
    PROVE  AuditInv'
  <1>i. DispatchInv /\ AuditInv /\ OneHandler /\ RequestKnows(r)
    BY DEF Known, AuditInv
  <1>r. /\ entry[r] \in JournalIds /\ journal[entry[r]] # None
        /\ Keyed(r) => CacheKey(r) \in CacheKeys
    BY <1>i, BusyTypes
  <1>o. \A q \in Reqs : pc'[q] \in Busy =>
           /\ pc[q] \in Busy /\ entry'[q] = entry[q] /\ call'[q] = call[q]
           /\ (Keyed(q)' <=> Keyed(q)) /\ CacheKey(q)' = CacheKey(q)
    BY DEF Others, Keyed, CacheKey
  <1>n. Keyed(r) /\ entries[CacheKey(r)] # None =>
           entries[CacheKey(r)].pending /\ entries[CacheKey(r)].body.entry = entry[r]
    BY <1>i, OwnResponse
  <1>e. \A k \in CacheKeys : entries'[k] # None =>
           \/ entries'[k] = entries[k]
           \/ /\ Keyed(r) /\ k = CacheKey(r) /\ entries'[k].body.entry = entry[r]
              /\ entries'[k].pending /\ ~entries'[k].expired
    BY DEF KeptOrStored
  <1>c. \A k \in CacheKeys : entries'[k] # None /\ entries'[k].body.entry # entry[r]
                                => entries'[k] = entries[k]
    BY <1>e
  \* The entry whose call is made is nobody else's.
  <1>u. \/ sent' = sent
        \/ /\ \A j \in JournalIds \ {entry[r]} : sent'[j] = sent[j]
           /\ \A k \in CacheKeys : entries[k] # None => entries[k].body.entry # entry[r]
           /\ journal[entry[r]].result = "in_progress"
    <2>1. CASE sent' = sent
      BY <2>1
    <2>2. CASE pc[r] \in {"check", "dispatch"} /\ \E s : sent' = [sent EXCEPT ![entry[r]] = s]
      <3>1. pc[r] \notin Auditing \cup Retrying
        BY <2>2 DEF Auditing, Retrying
      <3>2. Keyed(r) => entries[CacheKey(r)] = None
        BY <1>i, <3>1, OwnResponse
      <3>3. \A k \in CacheKeys : entries[k] # None => entries[k].body.entry # entry[r]
        BY <1>i, <3>2 DEF OneHandler
      <3>4. \A j \in JournalIds \ {entry[r]} : sent'[j] = sent[j]
        BY <2>2
      <3> QED BY <1>i, <2>2, <3>3, <3>4 DEF RequestKnows
    <2> QED BY <2>1, <2>2
  <1>1. OneHandler'
    <2>1. \A q, p \in Reqs : pc'[q] \in Busy /\ pc'[p] \in Busy /\ entry'[q] = entry'[p] => q = p
      BY <1>i, <1>o DEF OneHandler
    <2>2. ASSUME NEW q \in Reqs, NEW k \in CacheKeys, pc'[q] \in Busy, entries'[k] # None,
                 entries'[k].body.entry = entry'[q]
          PROVE  Keyed(q)' /\ CacheKey(q)' = k
      <3>1. CASE entries'[k] = entries[k]
        BY <2>2, <3>1, <1>i, <1>o DEF OneHandler
      <3>2. CASE entries'[k] # entries[k]
        <4>1. Keyed(r) /\ k = CacheKey(r) /\ entry[q] = entry[r]
          BY <2>2, <3>2, <1>e, <1>o
        <4>2. q = r
          BY <2>2, <4>1, <1>o, <1>i DEF OneHandler
        <4> QED BY <2>2, <4>1, <4>2, <1>o
      <3> QED BY <3>1, <3>2
    <2>3. ASSUME NEW k \in CacheKeys, NEW l \in CacheKeys, entries'[k] # None, entries'[l] # None,
                 entries'[k].body.entry = entries'[l].body.entry
          PROVE  k = l
      <3>1. CASE entries'[k].body.entry = entry[r]
        <4>1. ASSUME NEW m \in CacheKeys, entries'[m] # None, entries'[m].body.entry = entry[r]
              PROVE  m = CacheKey(r)
          BY <4>1, <1>e, <1>i DEF OneHandler
        <4> QED BY <2>3, <3>1, <4>1
      <3>2. CASE entries'[k].body.entry # entry[r]
        BY <2>3, <3>2, <1>c, <1>i DEF OneHandler
      <3> QED BY <3>1, <3>2
    <2> QED BY <2>1, <2>2, <2>3 DEF OneHandler
  <1>2. ASSUME NEW q \in Reqs PROVE RequestKnows(q)'
    <2>1. CASE q # r /\ pc'[q] \in Busy
      <3>1. /\ RequestKnows(q) /\ pc[q] \in Busy /\ pc[q] \in Section /\ pc[r] \in Section
            /\ entry[q] \in JournalIds /\ (Keyed(q) => CacheKey(q) \in CacheKeys)
        BY <2>1, <1>o, <1>i, BusyTypes DEF AuditInv
      <3>2. entry[q] # entry[r]
        BY <2>1, <3>1, <1>i DEF OneHandler
      <3>3. pc'[q] = pc[q] /\ entry'[q] = entry[q] /\ call'[q] = call[q]
            /\ terminal'[q] = terminal[q] /\ outcome'[q] = outcome[q]
        BY <2>1 DEF Others
      <3>4. (Keyed(q)' <=> Keyed(q)) /\ CacheKey(q)' = CacheKey(q)
        BY <2>1, <1>o
      <3>5. sent'[entry[q]] = sent[entry[q]]
        BY <3>1, <3>2, <1>u
      <3>6. Truthful(outcome[q], entry[q]) => Truthful(outcome[q], entry[q])'
        BY <3>3, <3>5 DEF Truthful
      <3>7. Keyed(q) => entries'[CacheKey(q)] = entries[CacheKey(q)]
        <4>1. Keyed(q) /\ Keyed(r) => CacheKey(q) # CacheKey(r)
          BY <2>1, <3>1, Alone DEF Known, DispatchInv
        <4> QED BY <4>1, <3>1 DEF KeptOrStored
      <3> QED BY <3>1, <3>3, <3>4, <3>5, <3>6, <3>7 DEF RequestKnows
    <2>2. CASE pc'[q] \notin Busy
      BY <2>2 DEF RequestKnows, Busy, Working, Auditing, Retrying
    <2> QED BY <2>1, <2>2
  <1>3. ASSUME NEW q \in Reqs PROVE AnswerKnows(q)'
    <2>1. CASE q = r
      <3>1. resp[r] = None
        BY <1>i DEF AuditInv, AnswerKnows, Busy, Working, Retrying
      <3> QED BY <2>1, <3>1 DEF AnswerKnows, Succeeded
    <2>2. CASE q # r
      <3>1. AnswerKnows(q)
        BY <1>i DEF AuditInv
      <3>2. pc'[q] = pc[q] /\ call'[q] = call[q] /\ resp'[q] = resp[q] /\ (Succeeded(q)' <=> Succeeded(q))
        BY <2>2 DEF Others, Succeeded
      <3>3. Settled(resp[q].body.entry) => Settled(resp[q].body.entry)'
        BY <3>2, <1>o, <1>c DEF Settled
      <3> QED BY <3>1, <3>2, <3>3 DEF AnswerKnows
    <2> QED BY <2>1, <2>2
  <1>4. ASSUME NEW k \in CacheKeys PROVE ResponseKnows(k)'
    <2>1. CASE entries'[k] = entries[k] /\ entries[k] # None
      <3>1. ResponseKnows(k) /\ entries[k].body.entry \in JournalIds
        BY <2>1, <1>i, CachedTypes DEF AuditInv
      <3>2. sent'[entries[k].body.entry] = sent[entries[k].body.entry]
        BY <2>1, <3>1, <1>u
      <3> QED BY <2>1, <3>1, <3>2 DEF ResponseKnows, Truthful
    <2>2. CASE entries'[k] # entries[k] /\ entries'[k] # None
      <3>1. Keyed(r) /\ k = CacheKey(r) /\ entries'[k].body.entry = entry[r] /\ entries'[k].pending
        BY <2>2, <1>e
      <3>2. Truthful(entries[k].body.result, entry[r])'
        BY <2>2, <3>1 DEF Truthful, CacheKey
      <3>3. journal[entry[r]].verb = k[1]
        BY <3>1, <1>i DEF RequestKnows, CacheKey
      <3> QED BY <3>1, <3>2, <3>3 DEF ResponseKnows, Truthful
    <2> QED BY <2>1, <2>2 DEF ResponseKnows
  <1>5. (\A j \in JournalIds : journal[j] = None => sent[j] = "no")' /\ JournalTruthful'
    BY <1>i, <1>r, <1>u DEF AuditInv, JournalTruthful
  <1>6. CancellationClosesEntry'
    <2>1. CancellationClosesEntry
      BY <1>i DEF AuditInv
    <2> QED BY <2>1 DEF CancellationClosesEntry, Others
  <1>7. FailedPatchIsRetryable'
    <2> SUFFICES ASSUME NEW j \in JournalIds, journal[j] # None,
                        journal[j].result = "in_progress", fault[j] = "patch"
                 PROVE  \/ \E q \in Reqs : entry'[q] = j /\ pc'[q] \in Working
                        \/ \E k \in CacheKeys : /\ entries'[k] # None /\ entries'[k].pending
                                                /\ ~entries'[k].expired /\ entries'[k].body.entry = j
      BY DEF FailedPatchIsRetryable
    <2>1. CASE \E q \in Reqs : entry[q] = j /\ pc[q] \in Working
      BY <2>1 DEF Others
    <2>2. CASE \E k \in CacheKeys : /\ entries[k] # None /\ entries[k].pending
                                    /\ ~entries[k].expired /\ entries[k].body.entry = j
      <3>1. PICK k \in CacheKeys : /\ entries[k] # None /\ entries[k].pending
                                   /\ ~entries[k].expired /\ entries[k].body.entry = j
        BY <2>2
      <3>2. CASE entries'[k] = entries[k]
        BY <3>1, <3>2
      <3>3. CASE entries'[k] # entries[k]
        BY <3>1, <3>3, <1>n DEF KeptOrStored
      <3> QED BY <3>2, <3>3
    <2> QED BY <2>1, <2>2, <1>i DEF AuditInv, FailedPatchIsRetryable
  <1> QED BY <1>1, <1>2, <1>3, <1>4, <1>5, <1>6, <1>7 DEF AuditInv

\* A PATCH of the entry a request has, acknowledged or failed, with the
\* response that is stored and given after it.
LEMMA PatchStep ==
    ASSUME Known, NEW r \in Reqs, Others(r), pc[r] \in Auditing \cup Retrying,
           entry'[r] = entry[r], call'[r] = call[r], UNCHANGED sent,
           NEW result \in Results, Truthful(result, entry[r]), NEW finalized \in BOOLEAN,
           IF finalized THEN PatchAcked(entry[r], result) ELSE PatchFailed(r, entry[r], result),
           KeptOrStored(r),
           Keyed(r) => \/ entries'[CacheKey(r)] = entries[CacheKey(r)] /\ ~Succeeded(r)'
                       \/ /\ entries'[CacheKey(r)].pending <=> ~finalized
                          /\ entries'[CacheKey(r)].body.result = result
                          /\ pc'[r] \notin Busy,
           pc'[r] \in Auditing \cup Retrying \cup {"exit"},
           pc'[r] # "exit" => Truthful(outcome[r], entry[r])',
           pc'[r] \in Working /\ terminal'[r] => finalized \/ (pc[r] \in Working /\ terminal[r]),
           resp'[r] # None => pc'[r] = "exit",
           Succeeded(r)' => finalized /\ resp'[r].body.entry = entry[r] /\ resp'[r].body.result = result
    PROVE  AuditInv'
  <1>i. DispatchInv /\ AuditInv /\ OneHandler /\ RequestKnows(r)
    BY DEF Known, AuditInv
  <1>b. pc[r] \in Busy
    BY DEF Busy, Auditing, Retrying, Working
  <1>r. /\ entry[r] \in JournalIds /\ journal[entry[r]] # None
        /\ Keyed(r) => CacheKey(r) \in CacheKeys
    BY <1>i, <1>b, BusyTypes
  <1>j. journal \in [JournalIds -> Record \cup {None}] /\ fault \in [JournalIds -> {"none", "patch", "lost"}]
    BY <1>i DEF DispatchInv, TypeOK
  <1>o. \A q \in Reqs : pc'[q] \in Busy =>
           /\ pc[q] \in Busy /\ entry'[q] = entry[q] /\ call'[q] = call[q]
           /\ (Keyed(q)' <=> Keyed(q)) /\ CacheKey(q)' = CacheKey(q)
    BY <1>b DEF Others, Keyed, CacheKey
  <1>n. Keyed(r) /\ entries[CacheKey(r)] # None =>
           entries[CacheKey(r)].pending /\ entries[CacheKey(r)].body.entry = entry[r]
    BY <1>i, <1>b, OwnResponse
  <1>e. \A k \in CacheKeys : entries'[k] # None =>
           \/ entries'[k] = entries[k]
           \/ /\ Keyed(r) /\ k = CacheKey(r) /\ entries'[k].body.entry = entry[r]
              /\ entries'[k].pending <=> ~finalized
              /\ entries'[k].body.result = result
              /\ ~entries'[k].expired /\ pc'[r] \notin Busy
    BY DEF KeptOrStored
  <1>c. \A k \in CacheKeys : entries'[k] # None /\ entries'[k].body.entry # entry[r]
                                => entries'[k] = entries[k]
    BY <1>e
  <1>k. \A k \in CacheKeys : entries'[k] # None /\ entries'[k].body.entry = entry[r]
                                => Keyed(r) /\ k = CacheKey(r)
    BY <1>e, <1>i, <1>b DEF OneHandler
  \* What the PATCH does to the journal.
  <1>p. /\ \A j \in JournalIds \ {entry[r]} : journal'[j] = journal[j] /\ fault'[j] = fault[j]
        /\ journal'[entry[r]] \in Record /\ journal'[entry[r]].verb = journal[entry[r]].verb
        /\ \/ journal'[entry[r]] = journal[entry[r]] /\ ~finalized
           \/ journal'[entry[r]] = [verb |-> journal[entry[r]].verb, result |-> result]
        /\ ~finalized => /\ fault'[entry[r]] # "none"
                         /\ fault'[entry[r]] = "patch" => CachedAfter(r)
    <2>1. journal[entry[r]] \in Record
      BY <1>r, <1>j
    <2>a. [journal[entry[r]] EXCEPT !.result = result] = [verb |-> journal[entry[r]].verb, result |-> result]
      BY <2>1 DEF Record
    <2>2. [journal EXCEPT ![entry[r]].result = result] =
             [journal EXCEPT ![entry[r]] = [verb |-> journal[entry[r]].verb, result |-> result]]
      BY <2>a
    <2>3. \/ journal' = journal /\ ~finalized
          \/ journal' = [journal EXCEPT ![entry[r]] = [verb |-> journal[entry[r]].verb, result |-> result]]
      BY <2>2 DEF PatchAcked, PatchFailed
    <2>4. [verb |-> journal[entry[r]].verb, result |-> result] \in Record
      BY <2>1 DEF Record
    <2>5. /\ finalized => fault' = fault
          /\ ~finalized => fault' = [fault EXCEPT ![entry[r]] =
                              IF @ = "lost" THEN @ ELSE IF CachedAfter(r) THEN "patch" ELSE "lost"]
      BY DEF PatchAcked, PatchFailed
    <2>6. /\ \A j \in JournalIds \ {entry[r]} : fault'[j] = fault[j]
          /\ ~finalized => fault'[entry[r]] # "none" /\ (fault'[entry[r]] = "patch" => CachedAfter(r))
      BY <2>5, <1>j, <1>r
    <2> QED BY <2>1, <2>3, <2>4, <2>6, <1>j, <1>r
  <1>q. finalized => journal'[entry[r]].result # "in_progress"
    BY <1>p DEF Results
  <1>1. OneHandler'
    <2>1. \A q, p \in Reqs : pc'[q] \in Busy /\ pc'[p] \in Busy /\ entry'[q] = entry'[p] => q = p
      BY <1>i, <1>o DEF OneHandler
    <2>2. ASSUME NEW q \in Reqs, NEW k \in CacheKeys, pc'[q] \in Busy, entries'[k] # None,
                 entries'[k].body.entry = entry'[q]
          PROVE  Keyed(q)' /\ CacheKey(q)' = k
      <3>1. CASE entries'[k] = entries[k]
        BY <2>2, <3>1, <1>i, <1>o DEF OneHandler
      <3>2. CASE entries'[k] # entries[k]
        <4>1. Keyed(r) /\ k = CacheKey(r) /\ entry[q] = entry[r]
          BY <2>2, <3>2, <1>e, <1>o
        <4>2. q = r
          BY <2>2, <4>1, <1>o, <1>i, <1>b DEF OneHandler
        <4> QED BY <2>2, <4>1, <4>2, <1>o
      <3> QED BY <3>1, <3>2
    <2>3. ASSUME NEW k \in CacheKeys, NEW l \in CacheKeys, entries'[k] # None, entries'[l] # None,
                 entries'[k].body.entry = entries'[l].body.entry
          PROVE  k = l
      <3>1. CASE entries'[k].body.entry = entry[r]
        BY <2>3, <3>1, <1>k
      <3>2. CASE entries'[k].body.entry # entry[r]
        BY <2>3, <3>2, <1>c, <1>i DEF OneHandler
      <3> QED BY <3>1, <3>2
    <2> QED BY <2>1, <2>2, <2>3 DEF OneHandler
  <1>2. ASSUME NEW q \in Reqs PROVE RequestKnows(q)'
    <2>1. CASE q # r /\ pc'[q] \in Busy
      <3>1. /\ RequestKnows(q) /\ pc[q] \in Busy /\ pc[q] \in Section /\ pc[r] \in Section
            /\ entry[q] \in JournalIds /\ (Keyed(q) => CacheKey(q) \in CacheKeys)
        BY <2>1, <1>o, <1>i, <1>b, BusyTypes DEF AuditInv
      <3>2. entry[q] # entry[r]
        BY <2>1, <3>1, <1>i, <1>b DEF OneHandler
      <3>3. pc'[q] = pc[q] /\ entry'[q] = entry[q] /\ call'[q] = call[q]
            /\ terminal'[q] = terminal[q] /\ outcome'[q] = outcome[q]
        BY <2>1 DEF Others
      <3>4. (Keyed(q)' <=> Keyed(q)) /\ CacheKey(q)' = CacheKey(q)
        BY <2>1, <1>o
      <3>5. sent'[entry[q]] = sent[entry[q]] /\ journal'[entry[q]] = journal[entry[q]]
        BY <3>1, <3>2, <1>p
      <3>6. Truthful(outcome[q], entry[q]) => Truthful(outcome[q], entry[q])'
        BY <3>3, <3>5 DEF Truthful
      <3>7. Keyed(q) => entries'[CacheKey(q)] = entries[CacheKey(q)]
        <4>1. Keyed(q) /\ Keyed(r) => CacheKey(q) # CacheKey(r)
          BY <2>1, <3>1, Alone DEF Known, DispatchInv
        <4> QED BY <4>1, <3>1 DEF KeptOrStored
      <3> QED BY <3>1, <3>3, <3>4, <3>5, <3>6, <3>7 DEF RequestKnows
    <2>2. CASE pc'[q] \notin Busy
      BY <2>2 DEF RequestKnows, Busy, Working, Auditing, Retrying
    <2>3. CASE q = r /\ pc'[r] \in Busy
      <3>1. pc'[r] \in Auditing \cup Retrying /\ pc'[r] \notin {"exit", "check", "stopping", "dispatch"}
        BY <2>3 DEF Busy, Working, Auditing, Retrying
      <3>2. journal'[entry'[r]].verb = call'[r].verb
        BY <1>i, <1>b, <1>p DEF RequestKnows
      <3>3. Keyed(r)' /\ entries'[CacheKey(r)'] # None => entries'[CacheKey(r)'].body.entry = entry'[r]
        BY <2>3, <1>o, <1>r, <1>e, <1>n
      <3>4. pc'[r] \in Working /\ terminal'[r] => journal'[entry'[r]].result # "in_progress"
        <4>1. CASE finalized
          BY <4>1, <1>q
        <4>2. CASE pc[r] \in Working /\ terminal[r]
          BY <4>2, <1>i, <1>p DEF RequestKnows, Results
        <4> QED BY <4>1, <4>2
      <3> QED BY <2>3, <3>1, <3>2, <3>3, <3>4 DEF RequestKnows
    <2> QED BY <2>1, <2>2, <2>3
  <1>3. ASSUME NEW q \in Reqs PROVE AnswerKnows(q)'
    <2>1. CASE q = r
      <3>1. ASSUME Succeeded(r)'
            PROVE  /\ journal'[resp'[r].body.entry] = [verb |-> call'[r].verb, result |-> resp'[r].body.result]
                   /\ Settled(resp[r].body.entry)'
        <4>1. finalized /\ resp'[r].body.entry = entry[r] /\ resp'[r].body.result = result
          BY <3>1
        <4>2. journal'[entry[r]] = [verb |-> call[r].verb, result |-> result]
          BY <4>1, <1>p, <1>i, <1>b DEF RequestKnows
        <4>3. pc'[r] = "exit"
          BY <3>1 DEF Succeeded
        <4>4. ASSUME NEW p \in Reqs, pc'[p] \in Busy PROVE entry'[p] # entry[r]
          BY <4>3, <4>4, <1>o, <1>i, <1>b DEF OneHandler, Busy, Working, Retrying
        <4>5. ASSUME NEW k \in CacheKeys, entries'[k] # None, entries'[k].body.entry = entry[r]
              PROVE  ~entries'[k].pending
          BY <3>1, <4>1, <4>5, <1>k
        <4> QED BY <4>1, <4>2, <4>4, <4>5 DEF Settled
      <3> QED BY <2>1, <3>1 DEF AnswerKnows
    <2>2. CASE q # r
      <3>1. AnswerKnows(q)
        BY <1>i DEF AuditInv
      <3>2. pc'[q] = pc[q] /\ call'[q] = call[q] /\ resp'[q] = resp[q] /\ (Succeeded(q)' <=> Succeeded(q))
        BY <2>2 DEF Others, Succeeded
      <3>3. ASSUME pc[q] # "idle", Succeeded(q)
            PROVE  /\ journal'[resp[q].body.entry] = [verb |-> call[q].verb, result |-> resp[q].body.result]
                   /\ Settled(resp[q].body.entry)'
        <4>1. resp[q].body.entry # entry[r]
          BY <3>1, <3>3, <1>b DEF AnswerKnows, Settled
        <4>2. Settled(resp[q].body.entry)'
          BY <3>1, <3>2, <3>3, <1>o, <1>c, <4>1 DEF Settled, AnswerKnows
        <4>3. resp[q].body.entry \in JournalIds
          BY <3>3, <1>i DEF DispatchInv, TypeOK, Response, Body, Succeeded
        <4> QED BY <3>1, <3>3, <4>1, <4>2, <4>3, <1>p DEF AnswerKnows
      <3> QED BY <3>1, <3>2, <3>3 DEF AnswerKnows
    <2> QED BY <2>1, <2>2
  <1>4. ASSUME NEW k \in CacheKeys PROVE ResponseKnows(k)'
    <2>1. CASE entries'[k] = entries[k] /\ entries[k] # None
      <3>1. ResponseKnows(k) /\ entries[k].body.entry \in JournalIds
        BY <2>1, <1>i, CachedTypes DEF AuditInv
      <3>2. CASE entries[k].body.entry # entry[r]
        BY <2>1, <3>1, <3>2, <1>p DEF ResponseKnows, Truthful
      <3>3. CASE entries[k].body.entry = entry[r]
        <4>1. Keyed(r) /\ k = CacheKey(r) /\ entries[k].pending
          BY <2>1, <3>3, <1>i, <1>b, <1>n DEF OneHandler
        <4> QED BY <2>1, <3>1, <3>3, <4>1, <1>p DEF ResponseKnows, Truthful
      <3> QED BY <3>2, <3>3
    <2>2. CASE entries'[k] # entries[k] /\ entries'[k] # None
      <3>1. /\ Keyed(r) /\ k = CacheKey(r) /\ entries'[k].body.entry = entry[r]
            /\ entries'[k].pending <=> ~finalized
            /\ entries'[k].body.result = result
        BY <2>2, <1>e
      <3>2. journal[entry[r]].verb = k[1]
        BY <3>1, <1>i, <1>b DEF RequestKnows, CacheKey
      <3>3. Truthful(entries[k].body.result, entries[k].body.entry)'
        BY <3>1 DEF Truthful
      <3> QED BY <3>1, <3>2, <3>3, <1>p DEF ResponseKnows
    <2> QED BY <2>1, <2>2 DEF ResponseKnows
  <1>5. (\A j \in JournalIds : journal[j] = None => sent[j] = "no")'
    BY <1>i, <1>p, <1>r, NoneIsNothing DEF AuditInv
  <1>6. JournalTruthful'
    BY <1>i, <1>p, <1>r DEF AuditInv, JournalTruthful, Truthful
  <1>7. CancellationClosesEntry'
    <2> SUFFICES ASSUME NEW j \in JournalIds, journal'[j] # None,
                        journal'[j].result = "in_progress", fault'[j] = "none"
                 PROVE  \E q \in Reqs : entry'[q] = j /\ pc'[q] \in Working
      BY DEF CancellationClosesEntry
    <2>1. j # entry[r]
      BY <1>p, <1>q
    <2>2. PICK q \in Reqs : entry[q] = j /\ pc[q] \in Working
      BY <2>1, <1>p, <1>i DEF AuditInv, CancellationClosesEntry
    <2> QED BY <2>1, <2>2 DEF Others
  <1>8. FailedPatchIsRetryable'
    <2> SUFFICES ASSUME NEW j \in JournalIds, journal'[j] # None,
                        journal'[j].result = "in_progress", fault'[j] = "patch"
                 PROVE  \/ \E q \in Reqs : entry'[q] = j /\ pc'[q] \in Working
                        \/ \E k \in CacheKeys : /\ entries'[k] # None /\ entries'[k].pending
                                                /\ ~entries'[k].expired /\ entries'[k].body.entry = j
      BY DEF FailedPatchIsRetryable
    <2>1. CASE j = entry[r]
      <3>1. ~finalized /\ CachedAfter(r)
        BY <2>1, <1>p, <1>q
      <3>2. Keyed(r) /\ entries'[CacheKey(r)] # None /\ ~entries'[CacheKey(r)].expired
        BY <3>1 DEF CachedAfter
      <3>3. entries'[CacheKey(r)].pending /\ entries'[CacheKey(r)].body.entry = entry[r]
        BY <3>1, <3>2, <1>r, <1>e, <1>n
      <3> QED BY <2>1, <3>2, <3>3, <1>r
    <2>2. CASE j # entry[r]
      <3>1. \/ \E q \in Reqs : entry[q] = j /\ pc[q] \in Working
            \/ \E k \in CacheKeys : /\ entries[k] # None /\ entries[k].pending
                                    /\ ~entries[k].expired /\ entries[k].body.entry = j
        BY <2>2, <1>p, <1>i DEF AuditInv, FailedPatchIsRetryable
      <3>2. CASE \E q \in Reqs : entry[q] = j /\ pc[q] \in Working
        BY <2>2, <3>2 DEF Others
      <3>3. CASE \E k \in CacheKeys : /\ entries[k] # None /\ entries[k].pending
                                      /\ ~entries[k].expired /\ entries[k].body.entry = j
        BY <2>2, <3>3, <1>n DEF KeptOrStored
      <3> QED BY <3>1, <3>2, <3>3
    <2> QED BY <2>1, <2>2
  <1> QED BY <1>1, <1>2, <1>3, <1>4, <1>5, <1>6, <1>7, <1>8 DEF AuditInv

\* A replay takes over the entry of the pending response of its key.
LEMMA TakeOverStep ==
    ASSUME Known, NEW r \in Reqs, Others(r), pc[r] = "lookup", pc'[r] = "retry",
           NEW key \in CacheKeys, Keyed(r), CacheKey(r) = key,
           call'[r] = call[r], resp'[r] = resp[r],
           UNCHANGED <<journal, sent, fault>>,
           \A k \in CacheKeys : entries'[k] = entries[k] \/ (entries'[k] = None /\ ~Live(k)),
           entries'[key] # None, entries'[key].pending,
           entry'[r] = entries'[key].body.entry, outcome'[r] = entries'[key].body.result
    PROVE  AuditInv'
  <1>i. DispatchInv /\ AuditInv /\ OneHandler /\ ResponseKnows(key)
    BY DEF Known, AuditInv
  <1>e. \A k \in CacheKeys : entries'[k] # None => entries'[k] = entries[k]
    OBVIOUS
  <1>o. \A q \in Reqs \ {r} : pc'[q] \in Busy =>
           /\ pc[q] \in Busy /\ entry'[q] = entry[q] /\ call'[q] = call[q]
           /\ (Keyed(q)' <=> Keyed(q)) /\ CacheKey(q)' = CacheKey(q)
    BY DEF Others, Keyed, CacheKey
  <1>k. Keyed(r)' /\ CacheKey(r)' = key /\ pc[r] \in Section
    BY DEF Keyed, CacheKey, Section
  <1>a. \A q \in Reqs \ {r} : pc[q] \in Busy => entry[q] # entry'[r]
    <2> SUFFICES ASSUME NEW q \in Reqs \ {r}, pc[q] \in Busy, entry[q] = entry'[r] PROVE FALSE
      OBVIOUS
    <2>1. Keyed(q) /\ CacheKey(q) = key
      BY <1>i, <1>e DEF OneHandler
    <2>2. pc[q] \in Section
      BY <1>i, BusyTypes
    <2> QED BY <2>1, <2>2, <1>k, Alone DEF Known, DispatchInv
  <1>1. OneHandler'
    BY <1>i, <1>e, <1>o, <1>k, <1>a DEF OneHandler
  <1>2. ASSUME NEW q \in Reqs PROVE RequestKnows(q)'
    <2>1. CASE q # r /\ pc'[q] \in Busy
      <3>1. RequestKnows(q) /\ pc[q] \in Busy /\ (Keyed(q) => CacheKey(q) \in CacheKeys)
        BY <2>1, <1>o, <1>i, BusyTypes DEF AuditInv
      <3>3. pc'[q] = pc[q] /\ entry'[q] = entry[q] /\ call'[q] = call[q]
            /\ terminal'[q] = terminal[q] /\ outcome'[q] = outcome[q]
        BY <2>1 DEF Others
      <3>4. (Keyed(q)' <=> Keyed(q)) /\ CacheKey(q)' = CacheKey(q)
        BY <2>1, <1>o
      <3>5. Truthful(outcome[q], entry[q]) => Truthful(outcome[q], entry[q])'
        BY <3>3 DEF Truthful
      <3> QED BY <3>1, <3>3, <3>4, <3>5, <1>e DEF RequestKnows
    <2>2. CASE pc'[q] \notin Busy
      BY <2>2 DEF RequestKnows, Busy, Working, Auditing, Retrying
    <2>3. CASE q = r
      <3>1. journal'[entry'[r]].verb = call'[r].verb
        BY <1>i, <1>e DEF ResponseKnows, CacheKey
      <3>2. Truthful(outcome[r], entry[r])'
        BY <1>i, <1>e DEF ResponseKnows, Truthful
      <3> QED BY <2>3, <3>1, <3>2, <1>k DEF RequestKnows, Working
    <2> QED BY <2>1, <2>2, <2>3
  <1>3. ASSUME NEW q \in Reqs PROVE AnswerKnows(q)'
    <2>1. CASE q = r
      <3>1. resp[r] = None
        BY <1>i DEF AuditInv, AnswerKnows
      <3> QED BY <2>1, <3>1 DEF AnswerKnows, Succeeded
    <2>2. CASE q # r
      <3>1. AnswerKnows(q)
        BY <1>i DEF AuditInv
      <3>2. pc'[q] = pc[q] /\ call'[q] = call[q] /\ resp'[q] = resp[q] /\ (Succeeded(q)' <=> Succeeded(q))
        BY <2>2 DEF Others, Succeeded
      <3>3. Settled(resp[q].body.entry) => Settled(resp[q].body.entry)'
        BY <3>2, <1>o, <1>e DEF Settled
      <3> QED BY <3>1, <3>2, <3>3 DEF AnswerKnows
    <2> QED BY <2>1, <2>2
  <1>4. ASSUME NEW k \in CacheKeys PROVE ResponseKnows(k)'
    <2>1. ResponseKnows(k)
      BY <1>i DEF AuditInv
    <2> QED BY <2>1, <1>e DEF ResponseKnows, Truthful
  <1>5. (\A j \in JournalIds : journal[j] = None => sent[j] = "no")' /\ JournalTruthful'
    BY <1>i DEF AuditInv, JournalTruthful
  <1>6. CancellationClosesEntry'
    <2>1. CancellationClosesEntry /\ "lookup" \notin Working
      BY <1>i DEF AuditInv, Working
    <2> QED BY <2>1 DEF CancellationClosesEntry, Others
  <1>7. FailedPatchIsRetryable'
    <2>1. FailedPatchIsRetryable /\ "lookup" \notin Working
      BY <1>i DEF AuditInv, Working
    <2>2. \A k \in CacheKeys : Live(k) => entries'[k] = entries[k]
      OBVIOUS
    <2> QED BY <2>1, <2>2 DEF FailedPatchIsRetryable, Others, Live
  <1> QED BY <1>1, <1>2, <1>3, <1>4, <1>5, <1>6, <1>7 DEF AuditInv

\* NetBox makes a write-ahead entry: the request has its id and goes on, or
\* never learns of it.
LEMMA MakeEntryStep ==
    ASSUME Known, NEW r \in Reqs, Others(r), pc[r] \in {"writeahead", "writeahead_c"},
           NEW j \in JournalIds, journal[j] = None,
           journal' = [journal EXCEPT ![j] = [verb |-> call[r].verb, result |-> "in_progress"]],
           UNCHANGED entries, call'[r] = call[r], terminal'[r] = terminal[r],
           \A i \in JournalIds \ {j} : sent'[i] = sent[i] /\ fault'[i] = fault[i],
           \/ /\ entry'[r] = j /\ resp'[r] = resp[r] /\ fault' = fault
              /\ \/ pc'[r] = "finalize" /\ outcome'[r] = "interrupted"
                 \/ pc'[r] = "check" /\ sent' = sent
                 \/ pc'[r] = "dispatch"
           \/ pc'[r] = "exit" /\ ~Succeeded(r)' /\ fault'[j] = "lost"
    PROVE  AuditInv'
  <1>i. DispatchInv /\ AuditInv /\ OneHandler /\ TypeOK
    BY DEF Known, AuditInv, DispatchInv
  <1>t. /\ call[r] \in Call /\ pc[r] # "idle" /\ sent[j] = "no"
        /\ Keyed(r) => CacheKey(r) \in CacheKeys
        /\ ~terminal[r] /\ (Keyed(r) => entries[CacheKey(r)] = None)
    <2>1. pc[r] # "idle" /\ pc[r] \in BeforeCall /\ pc[r] \notin Auditing \cup {"exit"}
      BY DEF BeforeCall, Auditing
    <2>2. WindowOf(r)
      BY <1>i DEF DispatchInv, CallsCovered
    <2> QED BY <2>1, <2>2, <1>i, CallTypes DEF WindowOf, AuditInv, DispatchInv
  <1>n. [verb |-> call[r].verb, result |-> "in_progress"] \in Record
    BY <1>t DEF Record, Call
  <1>j. /\ journal'[j] = [verb |-> call[r].verb, result |-> "in_progress"] /\ journal'[j] # None
        /\ \A i \in JournalIds \ {j} : journal'[i] = journal[i]
    BY <1>i, <1>n, NoneIsNothing DEF TypeOK
  <1>o. \A q \in Reqs \ {r} : pc'[q] \in Busy =>
           /\ pc[q] \in Busy /\ entry'[q] = entry[q] /\ call'[q] = call[q]
           /\ (Keyed(q)' <=> Keyed(q)) /\ CacheKey(q)' = CacheKey(q)
    BY DEF Others, Keyed, CacheKey
  \* Nobody knows the new entry.
  <1>f. /\ \A q \in Reqs : pc[q] \in Busy => entry[q] \in JournalIds \ {j}
        /\ \A k \in CacheKeys : entries[k] # None => entries[k].body.entry \in JournalIds \ {j}
    BY <1>i, BusyTypes, CachedTypes
  <1>b. pc'[r] \in Busy => entry'[r] = j
    BY DEF Busy, Working, Retrying
  <1>1. OneHandler'
    BY <1>i, <1>o, <1>f, <1>b DEF OneHandler
  <1>2. ASSUME NEW q \in Reqs PROVE RequestKnows(q)'
    <2>1. CASE q # r /\ pc'[q] \in Busy
      <3>1. RequestKnows(q) /\ pc[q] \in Busy /\ entry[q] \in JournalIds \ {j}
        BY <2>1, <1>o, <1>i, <1>f DEF AuditInv
      <3>3. pc'[q] = pc[q] /\ entry'[q] = entry[q] /\ call'[q] = call[q]
            /\ terminal'[q] = terminal[q] /\ outcome'[q] = outcome[q]
        BY <2>1 DEF Others
      <3>4. (Keyed(q)' <=> Keyed(q)) /\ CacheKey(q)' = CacheKey(q)
        BY <2>1, <1>o
      <3>5. sent'[entry[q]] = sent[entry[q]] /\ journal'[entry[q]] = journal[entry[q]]
        BY <3>1, <1>j
      <3>6. Truthful(outcome[q], entry[q]) => Truthful(outcome[q], entry[q])'
        BY <3>3, <3>5 DEF Truthful
      <3> QED BY <3>1, <3>3, <3>4, <3>5, <3>6 DEF RequestKnows
    <2>2. CASE pc'[q] \notin Busy
      BY <2>2 DEF RequestKnows, Busy, Working, Auditing, Retrying
    <2>3. CASE q = r /\ pc'[r] \in Busy
      <3>1. entry'[r] = j /\ journal'[j].verb = call'[r].verb /\ journal'[j].result = "in_progress"
        BY <2>3, <1>b, <1>j
      <3>2. ~terminal'[r] /\ (Keyed(r)' => entries'[CacheKey(r)'] = None)
        BY <1>t DEF Keyed, CacheKey
      <3>3. pc'[r] = "check" => sent'[j] = "no"
        BY <1>t
      <3>4. pc'[r] \in Auditing \cup Retrying => outcome'[r] = "interrupted"
        BY DEF Auditing, Retrying
      <3>5. pc'[r] \in Auditing \cup Retrying => Truthful(outcome[r], entry[r])'
        BY <3>4 DEF Truthful
      <3> QED BY <2>3, <3>1, <3>2, <3>3, <3>5 DEF RequestKnows
    <2> QED BY <2>1, <2>2, <2>3
  <1>3. ASSUME NEW q \in Reqs PROVE AnswerKnows(q)'
    <2>1. CASE q = r
      <3>1. resp[r] = None
        BY <1>i DEF AuditInv, AnswerKnows
      <3> QED BY <2>1, <3>1 DEF AnswerKnows, Succeeded
    <2>2. CASE q # r
      <3>1. AnswerKnows(q)
        BY <1>i DEF AuditInv
      <3>2. pc'[q] = pc[q] /\ call'[q] = call[q] /\ resp'[q] = resp[q] /\ (Succeeded(q)' <=> Succeeded(q))
        BY <2>2 DEF Others, Succeeded
      <3>3. ASSUME pc[q] # "idle", Succeeded(q)
            PROVE  /\ journal'[resp[q].body.entry] = [verb |-> call[q].verb, result |-> resp[q].body.result]
                   /\ Settled(resp[q].body.entry)'
        <4>1. resp[q].body.entry \in JournalIds /\ resp[q].body \in Body
          BY <3>3, <1>i DEF TypeOK, Response, Body, Succeeded
        <4>2. call[q].verb \in Verbs
          BY <3>3, <1>i, CallTypes DEF DispatchInv
        <4>3. [verb |-> call[q].verb, result |-> resp[q].body.result] # None
          BY <4>1, <4>2, NoneIsNothing DEF Record, Body
        <4>4. resp[q].body.entry # j
          BY <3>1, <3>3, <4>3 DEF AnswerKnows
        <4>5. Settled(resp[q].body.entry)'
          BY <3>1, <3>2, <3>3, <1>o, <1>b, <4>4 DEF Settled, AnswerKnows
        <4> QED BY <3>1, <3>3, <4>1, <4>4, <4>5, <1>j DEF AnswerKnows
      <3> QED BY <3>1, <3>2, <3>3 DEF AnswerKnows
    <2> QED BY <2>1, <2>2
  <1>4. ASSUME NEW k \in CacheKeys PROVE ResponseKnows(k)'
    <2>1. ResponseKnows(k)
      BY <1>i DEF AuditInv
    <2> QED BY <2>1, <1>f, <1>j DEF ResponseKnows, Truthful
  <1>5. (\A i \in JournalIds : journal[i] = None => sent[i] = "no")' /\ JournalTruthful'
    BY <1>i, <1>j DEF AuditInv, JournalTruthful
  <1>6. CancellationClosesEntry'
    <2> SUFFICES ASSUME NEW i \in JournalIds, journal'[i] # None,
                        journal'[i].result = "in_progress", fault'[i] = "none"
                 PROVE  \E q \in Reqs : entry'[q] = i /\ pc'[q] \in Working
      BY DEF CancellationClosesEntry
    <2>1. CASE i = j
      BY <2>1 DEF Working
    <2>2. CASE i # j
      <3>1. PICK q \in Reqs : entry[q] = i /\ pc[q] \in Working
        BY <2>2, <1>j, <1>i DEF AuditInv, CancellationClosesEntry
      <3>2. q # r
        BY <3>1 DEF Working
      <3> QED BY <3>1, <3>2 DEF Others
    <2> QED BY <2>1, <2>2
  <1>7. FailedPatchIsRetryable'
    <2> SUFFICES ASSUME NEW i \in JournalIds, journal'[i] # None,
                        journal'[i].result = "in_progress", fault'[i] = "patch"
                 PROVE  \/ \E q \in Reqs : entry'[q] = i /\ pc'[q] \in Working
                        \/ \E k \in CacheKeys : /\ entries'[k] # None /\ entries'[k].pending
                                                /\ ~entries'[k].expired /\ entries'[k].body.entry = i
      BY DEF FailedPatchIsRetryable
    <2>1. CASE i = j
      BY <2>1 DEF Working
    <2>2. CASE i # j
      <3>1. "writeahead" \notin Working /\ "writeahead_c" \notin Working
        BY DEF Working
      <3> QED BY <2>2, <3>1, <1>j, <1>i DEF AuditInv, FailedPatchIsRetryable, Others
    <2> QED BY <2>1, <2>2
  <1> QED BY <1>1, <1>2, <1>3, <1>4, <1>5, <1>6, <1>7 DEF AuditInv

\* The TTL of a cached response runs out: its window is closed.
LEMMA ExpireStep ==
    ASSUME Known, NEW key \in CacheKeys, Expire(key)
    PROVE  AuditInv'
  <1>i. DispatchInv /\ AuditInv /\ OneHandler /\ TypeOK
    BY DEF Known, AuditInv, DispatchInv
  <1>u. UNCHANGED <<pc, call, entry, terminal, outcome, resp, journal, sent>>
    BY DEF Expire, reqVars
  <1>x. /\ entries[key] # None /\ entries' = [entries EXCEPT ![key].expired = TRUE]
        /\ fault' = [fault EXCEPT ![entries[key].body.entry] = IF @ = "patch" THEN "lost" ELSE @]
    BY DEF Expire, Cache!ExpireEntry
  <1>j. entries[key].body.entry \in JournalIds
    BY <1>i, <1>x, CachedTypes
  <1>e. /\ \A k \in CacheKeys \ {key} : entries'[k] = entries[k]
        /\ entries'[key].pending = entries[key].pending /\ entries'[key].body = entries[key].body
    BY <1>i, <1>x DEF TypeOK, Cache!TypeOK, Cache!Entry
  <1>k. \A k \in CacheKeys : entries'[k] # None =>
           entries[k] # None /\ entries'[k].pending = entries[k].pending /\ entries'[k].body = entries[k].body
    BY <1>x, <1>e
  <1>f. /\ \A j \in JournalIds : /\ fault'[j] = "none" => fault[j] = "none"
                                 /\ fault'[j] = "patch" => fault[j] = "patch"
        /\ fault'[entries[key].body.entry] # "patch"
    BY <1>i, <1>x, <1>j DEF TypeOK
  <1>o. \A q \in Reqs : (Keyed(q)' <=> Keyed(q)) /\ CacheKey(q)' = CacheKey(q)
    BY <1>u DEF Keyed, CacheKey
  <1>1. OneHandler'
    BY <1>i, <1>u, <1>o, <1>k DEF OneHandler
  <1>2. ASSUME NEW q \in Reqs PROVE RequestKnows(q)'
    <2>1. RequestKnows(q)
      BY <1>i DEF AuditInv
    <2>2. pc[q] \in Auditing \cup Retrying /\ Keyed(q) => CacheKey(q) \in CacheKeys
      BY <1>i, BusyTypes DEF Busy, Working, Auditing, Retrying
    <2>3. Truthful(outcome[q], entry[q])' <=> Truthful(outcome[q], entry[q])
      BY <1>u DEF Truthful
    <2> QED BY <2>1, <2>2, <2>3, <1>u, <1>o, <1>k DEF RequestKnows
  <1>3. ASSUME NEW q \in Reqs PROVE AnswerKnows(q)'
    <2>1. AnswerKnows(q)
      BY <1>i DEF AuditInv
    <2>2. Settled(resp[q].body.entry) => Settled(resp[q].body.entry)'
      BY <1>u, <1>k DEF Settled
    <2> QED BY <2>1, <2>2, <1>u DEF AnswerKnows, Succeeded
  <1>4. ASSUME NEW k \in CacheKeys PROVE ResponseKnows(k)'
    <2>1. ResponseKnows(k)
      BY <1>i DEF AuditInv
    <2> QED BY <2>1, <1>u, <1>k DEF ResponseKnows, Truthful
  <1>5. (\A j \in JournalIds : journal[j] = None => sent[j] = "no")' /\ JournalTruthful'
    BY <1>i, <1>u DEF AuditInv, JournalTruthful
  <1>6. CancellationClosesEntry'
    BY <1>i, <1>u, <1>f DEF AuditInv, CancellationClosesEntry
  <1>7. FailedPatchIsRetryable'
    <2>1. FailedPatchIsRetryable
      BY <1>i DEF AuditInv
    <2> QED BY <2>1, <1>u, <1>f, <1>e DEF FailedPatchIsRetryable
  <1> QED BY <1>1, <1>2, <1>3, <1>4, <1>5, <1>6, <1>7 DEF AuditInv

\* A restart drops the cache and the requests; NetBox keeps the journal.
LEMMA RestartStep ==
    ASSUME Known, Restart
    PROVE  AuditInv'
  <1>i. AuditInv /\ TypeOK
    BY DEF Known, DispatchInv
  <1>r. /\ pc' = [r \in Reqs |-> "idle"] /\ resp' = [r \in Reqs |-> None]
        /\ entries' = [k \in CacheKeys |-> None] /\ UNCHANGED <<journal, sent>>
        /\ fault' = [j \in JournalIds |-> IF journal[j] # None THEN "lost" ELSE fault[j]]
    BY DEF Restart, Cache!ProcessRestart
  <1>p. \A r \in Reqs : pc'[r] \notin Busy /\ pc'[r] = "idle"
    BY <1>r DEF Busy, Working, Retrying
  <1>1. OneHandler'
    BY <1>r, <1>p DEF OneHandler
  <1>2. \A r \in Reqs : RequestKnows(r)' /\ AnswerKnows(r)'
    BY <1>r, <1>p DEF RequestKnows, AnswerKnows, Working, Auditing, Retrying, Busy
  <1>3. \A k \in CacheKeys : ResponseKnows(k)'
    BY <1>r DEF ResponseKnows
  <1>4. (\A j \in JournalIds : journal[j] = None => sent[j] = "no")' /\ JournalTruthful'
    BY <1>i, <1>r DEF AuditInv, JournalTruthful
  <1>5. CancellationClosesEntry' /\ FailedPatchIsRetryable'
    BY <1>r DEF CancellationClosesEntry, FailedPatchIsRetryable
  <1> QED BY <1>1, <1>2, <1>3, <1>4, <1>5 DEF AuditInv

-----------------------------------------------------------------------------
(* Every action has one of these shapes.                                   *)

\* The results that the dispatch table names say what became of the call.
LEMMA PlanTruth ==
    ASSUME NEW v \in Verbs
    PROVE  /\ Plan[v].ok \in {"ok", "accepted", "cancel_requested"}
           /\ Plan[v].err \in {"failed", "cancel_failed"}
           /\ Plan[v].noop \in {"already_running", "already_stopped", "rejected", "none"}
  BY VerbsKnown
     DEF Plan, DispatchStart, DispatchStop, DispatchReboot, DispatchDelete,
         DispatchSnapshot, DispatchBackup, DispatchDeleteSnapshot, DispatchMigrate,
         MigrateCancel

\* What a busy request stores replaces the response of its own key.
LEMMA StoreShape ==
    ASSUME DispatchInv, AuditInv, NEW r \in Reqs, pc[r] \in Busy, NEW p \in BOOLEAN,
           NEW b \in Body, b.entry = entry[r], StoreResponse(r, p, b)
    PROVE  /\ KeptOrStored(r)
           /\ Keyed(r) => entries'[CacheKey(r)].pending = p /\ entries'[CacheKey(r)].body = b
  <1>1. CASE ~Keyed(r)
    BY <1>1 DEF StoreResponse, cacheVars, KeptOrStored
  <1>2. CASE Keyed(r)
    <2> DEFINE new == [pending |-> p, expired |-> FALSE, body |-> b]
    <2>1. PICK key \in CacheKeys : key = CacheKey(r)
      BY <1>2, BusyTypes
    <2>2. mine[r].key = key
      BY <1>2, <2>1, BusyTypes DEF DispatchInv, PcMatchesLock, Cache!Holds
    <2>3. entries[key] = None \/ entries[key].pending
      BY <1>2, <2>1, OwnResponse
    <2>4. entries' = [entries EXCEPT ![key] = new]
      BY <1>2, <2>2, <2>3 DEF StoreResponse, Cache!Store, Cache!Put
    <2>5. entries'[key] = new /\ \A k \in CacheKeys \ {key} : entries'[k] = entries[k]
      BY <2>4 DEF DispatchInv, TypeOK, Cache!TypeOK
    <2>6. new \in Cache!Entry
      BY DEF Cache!Entry
    <2>7. new # None
      BY <2>6, NoneIsNothing DEF Cache!Entry
    <2> QED BY <1>2, <2>1, <2>5, <2>7 DEF KeptOrStored
  <1> QED BY <1>1, <1>2

\* A step of one request leaves the others alone.
LEMMA OthersKept ==
    ASSUME TypeOK, NEW r \in Reqs, Issue(r) \/ Acquire(r) \/ Progress(r) \/ Finish(r) \/ Cancel(r)
    PROVE  Others(r)
  <1>t. RestTypeOK
    BY DEF TypeOK, RestTypeOK
  <1>1. CASE Issue(r) \/ Acquire(r) \/ Refuse(r) \/ Admit(r) \/ Lookup(r) \/ RetryPatch(r)
             \/ Resolve(r) \/ WriteaheadCreated(r) \/ WriteaheadFailed(r)
    BY <1>1, <1>t DEF RestTypeOK, Others, Issue, Acquire, Refuse, Admit, Lookup, RetryPatch, Resolve,
          WriteaheadCreated, WriteaheadFailed, Goto, Respond, StartFinalize, reqVars
  <1>2. CASE CheckPassed(r) \/ CheckNoop(r) \/ StopAccepted(r) \/ CallAccepted(r)
             \/ ProxmoxError(r) \/ UnexpectedError(r)
    BY <1>2, <1>t DEF RestTypeOK, Others, CheckPassed, CheckNoop, StopAccepted, CallAccepted,
          ProxmoxError, UnexpectedError, Goto, StartAudit, StartFinalize, reqVars
  <1>3. CASE Patch(r) \/ CancelledPatch(r) \/ BestEffortPatch(r) \/ CancelledRetry(r)
             \/ BestEffortRetry(r) \/ Finalize(r) \/ FinalizePatch(r)
    BY <1>3, <1>t DEF RestTypeOK, Others, Patch, CancelledPatch, BestEffortPatch, CancelledRetry,
          BestEffortRetry, Finalize, FinalizePatch, Reraise, Goto, Respond, StartFinalize, reqVars
  <1>4. CASE Exit(r) \/ Cleanup(r) \/ Finish(r) \/ Cancel(r)
    BY <1>4, <1>t DEF RestTypeOK, Others, Exit, Cleanup, Finish, Cancel, Goto, Respond,
          StartFinalize, reqVars
  <1> QED BY <1>1, <1>2, <1>3, <1>4 DEF Progress

\* The steps of a request that has no entry, or is done with it.
LEMMA QuietAudit ==
    ASSUME Known, NEW r \in Reqs,
           \/ Issue(r) \/ Refuse(r) \/ Admit(r) \/ Acquire(r) \/ Resolve(r)
           \/ (WriteaheadFailed(r) /\ UNCHANGED <<journal, fault>>)
           \/ (Finalize(r) /\ terminal[r]) \/ Exit(r) \/ Cleanup(r) \/ Finish(r)
           \/ (Cancel(r) /\ pc[r] \in {"gate", "acquire", "resolve", "writeahead", "cleanup"})
    PROVE  AuditInv'
  <1>i. TypeOK /\ AuditInv /\ RequestKnows(r) /\ AnswerKnows(r)
    BY DEF Known, DispatchInv, AuditInv
  <1>t. RestTypeOK
    BY <1>i DEF TypeOK, RestTypeOK
  <1>1. Others(r)
    BY <1>i, OthersKept DEF Progress
  <1>2. pc'[r] \in {"gate", "done", "acquire", "lookup", "resolve", "writeahead", "writeahead_c",
                    "exit", "cleanup", "idle"}
    <2>1. CASE Issue(r) \/ Refuse(r) \/ Admit(r) \/ Acquire(r) \/ Resolve(r)
      BY <2>1, <1>t DEF RestTypeOK, Issue, Refuse, Admit, Acquire, Resolve, Goto, Respond
    <2>2. CASE WriteaheadFailed(r) \/ (Finalize(r) /\ terminal[r])
      BY <2>2, <1>t DEF RestTypeOK, WriteaheadFailed, Finalize, Goto, Respond
    <2>3. CASE Exit(r) \/ Cleanup(r) \/ Finish(r)
      BY <2>3, <1>t DEF RestTypeOK, Exit, Cleanup, Finish, Goto
    <2>4. CASE Cancel(r) /\ pc[r] \in {"gate", "acquire", "resolve", "writeahead", "cleanup"}
      BY <2>4, <1>t DEF RestTypeOK, Cancel, Goto, Respond, Shielded
    <2> QED BY <2>1, <2>2, <2>3, <2>4
  <1>3. pc'[r] \notin Busy
    BY <1>2 DEF Busy, Working, Retrying
  <1>4. pc[r] \in Working => terminal[r]
    BY DEF Issue, Refuse, Admit, Acquire, Resolve, WriteaheadFailed, Finalize, Exit,
          Cleanup, Finish, Working
  <1>5. pc[r] \in Working => journal[entry[r]].result # "in_progress"
    BY <1>4, <1>i DEF RequestKnows
  <1>6. UNCHANGED <<journal, sent, fault>>
    BY DEF Issue, Refuse, Admit, Acquire, Resolve, WriteaheadFailed, Finalize, Exit,
          Cleanup, Finish, Cancel, worldVars
  <1>7. entries' = entries \/ entries' = Cache!Prune(entries)
    BY DEF Issue, Refuse, Admit, Acquire, Resolve, WriteaheadFailed, Finalize, Exit,
          Cleanup, Finish, Cancel, cacheVars, Cache!EnterSingleFlight, Cache!AcquireFlightLock,
          Cache!CancelWait, Cache!ReleaseFlightLock, Cache!ReleaseSingleFlight
  <1>8. \A k \in CacheKeys : entries'[k] = entries[k] \/ (entries'[k] = None /\ ~Live(k))
    BY <1>7 DEF Cache!Prune, Live
  <1>9. \/ resp'[r] = resp[r] /\ call'[r] = call[r] /\ pc[r] # "idle"
        \/ resp'[r] = resp[r] /\ pc[r] = "idle"
        \/ resp'[r] = None
        \/ resp'[r] # None /\ resp'[r].kind # "audited" /\ pc'[r] \in {"exit", "cleanup", "done"}
    <2>1. CASE Issue(r) \/ Admit(r) \/ Acquire(r) \/ Exit(r) \/ Cleanup(r)
      BY <2>1 DEF Issue, Admit, Acquire, Exit, Cleanup, reqVars
    <2>2. CASE Refuse(r) \/ Finish(r)
      BY <2>2, <1>t, NoneIsNothing DEF Refuse, Finish, Goto, RestTypeOK, Response
    <2>3. CASE Resolve(r)
      BY <2>3, <1>t, NoneIsNothing DEF Resolve, Respond, Goto, RestTypeOK, Response, reqVars
    <2>4. CASE WriteaheadFailed(r) \/ (Finalize(r) /\ terminal[r])
      <3>1. \/ resp' = [resp EXCEPT ![r] = [kind |-> "conflict"]]
            \/ resp' = [resp EXCEPT ![r] = [kind |-> "raised"]]
        BY <2>4 DEF WriteaheadFailed, Finalize, Respond, Raised
      <3>2. [kind |-> "conflict"] \in Response /\ [kind |-> "raised"] \in Response
        BY DEF Response
      <3>3. pc'[r] = "exit"
        BY <2>4, <1>t DEF WriteaheadFailed, Finalize, Respond, Goto, RestTypeOK
      <3> QED BY <3>1, <3>2, <3>3, <1>t, NoneIsNothing DEF RestTypeOK
    <2>5. CASE Cancel(r) /\ pc[r] \in {"gate", "acquire", "resolve", "writeahead", "cleanup"}
      BY <2>5, <1>t, NoneIsNothing DEF Cancel, Respond, Goto, RestTypeOK, Response, Raised, Shielded,
            reqVars
    <2> QED BY <2>1, <2>2, <2>3, <2>4, <2>5
  <1>10. resp'[r] # None => pc'[r] \in {"exit", "cleanup", "done"}
    <2>1. CASE resp'[r] = resp[r] /\ resp[r] # None
      <3>1. pc[r] \in {"exit", "cleanup", "done"}
        BY <2>1, <1>i DEF AnswerKnows
      <3>2. pc'[r] \in {"exit", "cleanup", "done"} \/ Finish(r)
        BY <3>1, <1>t DEF RestTypeOK, Issue, Refuse, Admit, Acquire, Resolve, WriteaheadFailed,
              Finalize, Exit, Cleanup, Cancel, Goto, Shielded
      <3>3. ~Finish(r)
        BY <2>1, <1>t DEF Finish, RestTypeOK
      <3> QED BY <3>2, <3>3
    <2> QED BY <2>1, <1>9
  <1>11. ASSUME Succeeded(r)'
         PROVE  /\ journal[resp'[r].body.entry] = [verb |-> call'[r].verb, result |-> resp'[r].body.result]
                /\ Settled(resp'[r].body.entry)
    <2>1. resp'[r] # None /\ resp'[r].kind = "audited" /\ resp'[r].body.success
      BY <1>11 DEF Succeeded
    <2>2. resp'[r] = resp[r] /\ call'[r] = call[r] /\ pc[r] # "idle"
      BY <2>1, <1>9, <1>i DEF AnswerKnows
    <2>3. Succeeded(r)
      BY <2>1, <2>2 DEF Succeeded
    <2>4. /\ journal[resp[r].body.entry] = [verb |-> call[r].verb, result |-> resp[r].body.result]
          /\ Settled(resp[r].body.entry)
      BY <2>2, <2>3, <1>i DEF AnswerKnows
    <2> QED BY <2>2, <2>4
  <1> QED BY <1>1, <1>3, <1>5, <1>6, <1>8, <1>10, <1>11, LeaveStep

\* The lookup: a miss, a replay of a final response, a pending one taken over.
LEMMA LookupAudit ==
    ASSUME Known, NEW r \in Reqs, Lookup(r)
    PROVE  AuditInv'
  <1>i. TypeOK /\ AuditInv /\ DispatchInv /\ PcMatchesLock /\ AnswerKnows(r)
    BY DEF Known, DispatchInv, AuditInv
  <1>t. RestTypeOK
    BY <1>i DEF TypeOK, RestTypeOK
  <1>1. Others(r)
    BY <1>i, OthersKept DEF Progress
  <1>2. /\ pc[r] = "lookup" /\ entries' = Cache!Prune(entries) /\ resp[r] = None
        /\ UNCHANGED <<call, journal, sent, fault>>
    BY <1>i DEF Lookup, Cache!GetEntry, worldVars, AnswerKnows
  <1>3. \A k \in CacheKeys : entries'[k] = entries[k] \/ (entries'[k] = None /\ ~Live(k))
    BY <1>2 DEF Cache!Prune, Live
  <1>4. Keyed(r) /\ pc[r] # "idle" /\ pc[r] \in Section /\ pc[r] \notin Busy
    BY <1>2, <1>i DEF PcMatchesLock, Section, Busy, Working, Retrying
  <1>5. PICK key \in CacheKeys : key = CacheKey(r)
    BY <1>4, <1>i, CallTypes
  <1>6. CASE entries'[key] = None
    <2>1. pc'[r] = "resolve" /\ resp' = resp
      BY <1>5, <1>6, <1>t DEF Lookup, Goto, RestTypeOK
    <2>2. pc'[r] \notin Busy /\ pc[r] \notin Working
      BY <2>1, <1>2 DEF Busy, Working, Retrying
    <2> QED BY <1>1, <1>2, <1>3, <2>1, <2>2, LeaveStep DEF Succeeded
  <1>7. CASE entries'[key] # None /\ ~entries'[key].pending
    <2>1. pc'[r] = "exit" /\ resp'[r] = Audited(entries'[key].body)
      BY <1>5, <1>7, <1>t DEF Lookup, Respond, Goto, RestTypeOK
    <2>2. pc'[r] \notin Busy /\ pc[r] \notin Working
      BY <2>1, <1>2 DEF Busy, Working, Retrying
    <2>3. entries[key] = entries'[key] /\ resp'[r].body = entries[key].body
      BY <1>3, <1>7, <2>1 DEF Audited
    <2>b. /\ entries[key].body.entry \in JournalIds /\ journal[entries[key].body.entry] # None
      BY <1>7, <2>3, <1>i, CachedTypes
    <2>4. journal[entries[key].body.entry] = [verb |-> call'[r].verb, result |-> entries[key].body.result]
      <3>1. ResponseKnows(key) /\ call'[r].verb = key[1]
        BY <1>i, <1>2, <1>5 DEF AuditInv, CacheKey
      <3>2. /\ journal[entries[key].body.entry].verb = key[1]
            /\ journal[entries[key].body.entry].result = entries[key].body.result
        BY <1>7, <2>3, <3>1 DEF ResponseKnows
      <3>3. journal[entries[key].body.entry] \in Record
        BY <2>b, <1>t DEF RestTypeOK
      <3> QED BY <3>1, <3>2, <3>3 DEF Record
    <2>5. Settled(entries[key].body.entry)
      <3>1. ASSUME NEW q \in Reqs, pc[q] \in Busy, entry[q] = entries[key].body.entry PROVE FALSE
        <4>1. Keyed(q) /\ CacheKey(q) = key
          BY <3>1, <1>7, <2>3, <1>i DEF AuditInv, OneHandler
        <4>2. entries[key].pending
          BY <3>1, <4>1, <1>7, <2>3, <1>i, OwnResponse
        <4> QED BY <4>2, <1>7, <2>3
      <3>2. ASSUME NEW k \in CacheKeys, entries[k] # None, entries[k].body.entry = entries[key].body.entry
            PROVE  ~entries[k].pending
        BY <3>2, <1>7, <2>3, <1>i DEF AuditInv, OneHandler
      <3> QED BY <3>1, <3>2 DEF Settled
    <2> QED BY <1>1, <1>2, <1>3, <2>1, <2>2, <2>3, <2>4, <2>5, LeaveStep
  <1>8. CASE entries'[key] # None /\ entries'[key].pending
    <2>1. /\ pc'[r] = "retry" /\ resp' = resp /\ entry'[r] = entries'[key].body.entry
          /\ outcome'[r] = entries'[key].body.result
      BY <1>5, <1>8, <1>t DEF Lookup, Goto, RestTypeOK
    <2> QED BY <1>1, <1>2, <1>3, <1>4, <1>5, <1>8, <2>1, TakeOverStep
  <1> QED BY <1>6, <1>7, <1>8

\* The write-ahead entry is made.
LEMMA WriteaheadAudit ==
    ASSUME Known, NEW r \in Reqs,
           WriteaheadCreated(r) \/ (WriteaheadFailed(r) /\ ~UNCHANGED <<journal, fault>>)
    PROVE  AuditInv'
  <1>i. TypeOK /\ AuditInv /\ AnswerKnows(r)
    BY DEF Known, DispatchInv, AuditInv
  <1>t. RestTypeOK
    BY <1>i DEF TypeOK, RestTypeOK
  <1>1. Others(r) /\ pc[r] \in {"writeahead", "writeahead_c"}
    BY <1>i, OthersKept DEF Progress, WriteaheadCreated, WriteaheadFailed
  <1>2. UNCHANGED entries /\ call'[r] = call[r] /\ terminal'[r] = terminal[r]
    BY DEF WriteaheadCreated, WriteaheadFailed, cacheVars, reqVars
  <1>3. CASE WriteaheadCreated(r)
    <2>1. PICK j \in JournalIds :
             /\ journal[j] = None
             /\ journal' = [journal EXCEPT ![j] = [verb |-> call[r].verb, result |-> "in_progress"]]
             /\ entry' = [entry EXCEPT ![r] = j]
             /\ \/ /\ pc[r] = "writeahead"
                   /\ Goto(r, AfterWriteahead(call[r].verb))
                   /\ IF AfterWriteahead(call[r].verb) = "dispatch"
                      THEN IssueCall(r, j)
                      ELSE UNCHANGED <<sent, calls>>
                \/ pc[r] = "writeahead_c" /\ StartFinalize(r, "interrupted") /\ UNCHANGED <<sent, calls>>
      BY <1>3 DEF WriteaheadCreated
    <2>2. entry'[r] = j /\ resp'[r] = resp[r] /\ fault' = fault
      BY <1>3, <2>1, <1>t DEF WriteaheadCreated, RestTypeOK
    <2>3. \/ pc'[r] = "finalize" /\ outcome'[r] = "interrupted" /\ sent' = sent
          \/ pc'[r] = "check" /\ sent' = sent
          \/ pc'[r] = "dispatch" /\ sent' = [sent EXCEPT ![j] = "sent"]
      <3>1. CASE pc[r] = "writeahead"
        BY <2>1, <3>1, <1>t DEF Goto, AfterWriteahead, IssueCall, RestTypeOK
      <3>2. CASE pc[r] = "writeahead_c"
        BY <2>1, <3>2, <1>t DEF StartFinalize, Goto, RestTypeOK
      <3> QED BY <3>1, <3>2, <1>1
    <2>4. \A i \in JournalIds \ {j} : sent'[i] = sent[i] /\ fault'[i] = fault[i]
      BY <2>2, <2>3, <1>t DEF RestTypeOK
    <2> QED BY <1>1, <1>2, <2>1, <2>2, <2>3, <2>4, MakeEntryStep
  <1>4. CASE WriteaheadFailed(r) /\ ~UNCHANGED <<journal, fault>>
    <2>1. PICK j \in JournalIds :
             /\ journal[j] = None
             /\ journal' = [journal EXCEPT ![j] = [verb |-> call[r].verb, result |-> "in_progress"]]
             /\ fault' = [fault EXCEPT ![j] = "lost"]
      BY <1>4 DEF WriteaheadFailed
    <2>2. pc'[r] = "exit" /\ ~Succeeded(r)'
      BY <1>4, <1>t DEF WriteaheadFailed, Respond, Goto, Succeeded, Raised, RestTypeOK
    <2>3. fault'[j] = "lost" /\ \A i \in JournalIds \ {j} : sent'[i] = sent[i] /\ fault'[i] = fault[i]
      BY <1>4, <2>1, <1>t DEF WriteaheadFailed, RestTypeOK
    <2> QED BY <1>1, <1>2, <2>1, <2>2, <2>3, MakeEntryStep
  <1> QED BY <1>3, <1>4

\* The steps of a request that works on its entry.
LEMMA WorkAudit ==
    ASSUME Known, NEW r \in Reqs,
           \/ CheckPassed(r) \/ StopAccepted(r) \/ UnexpectedError(r)
           \/ CheckNoop(r) \/ CallAccepted(r) \/ ProxmoxError(r) \/ (Finalize(r) /\ ~terminal[r])
           \/ (Cancel(r) /\ pc[r] \in {"check", "stopping", "dispatch", "patch", "retry"})
    PROVE  AuditInv'
  <1>i. TypeOK /\ AuditInv /\ DispatchInv /\ RequestKnows(r) /\ EntriesExist /\ WindowOf(r)
    BY DEF Known, DispatchInv, AuditInv, CallsCovered
  <1>t. RestTypeOK
    BY <1>i DEF TypeOK, RestTypeOK
  <1>1. Others(r)
    BY <1>i, OthersKept DEF Progress
  <1>2. pc[r] \in {"check", "stopping", "dispatch", "patch", "retry", "finalize"} /\ pc[r] \in Busy
    BY DEF CheckPassed, StopAccepted, UnexpectedError, CheckNoop, CallAccepted, ProxmoxError, Finalize,
           Busy, Working, Retrying
  <1>3. /\ UNCHANGED <<entry, call, resp, journal, fault, terminal>>
        /\ (Keyed(r)' <=> Keyed(r)) /\ CacheKey(r)' = CacheKey(r)
    <2>1. UNCHANGED <<entry, call, resp, journal, fault, terminal>>
      BY <1>2 DEF CheckPassed, StopAccepted, UnexpectedError, CheckNoop, CallAccepted, ProxmoxError,
             Finalize, Cancel, Shielded, reqVars, worldVars
    <2> QED BY <2>1 DEF Keyed, CacheKey
  <1>4. /\ entry[r] \in JournalIds /\ call[r].verb \in Verbs /\ pc[r] # "idle"
        /\ Keyed(r) => CacheKey(r) \in CacheKeys
    BY <1>2, <1>i, BusyTypes DEF Call
  <1>p. /\ Plan[call[r].verb].ok \in {"ok", "accepted", "cancel_requested"} \cap Results
        /\ Plan[call[r].verb].err \in {"failed", "cancel_failed"} \cap Results
        /\ Plan[call[r].verb].noop \in {"already_running", "already_stopped", "rejected", "none"}
    BY <1>4, PlanTruth DEF Results
  <1>5. CASE CheckPassed(r) \/ StopAccepted(r)
    <2>1. pc'[r] \in {"stopping", "dispatch"} /\ UNCHANGED entries /\ pc[r] \in {"check", "stopping"}
      BY <1>5, <1>t DEF CheckPassed, StopAccepted, Goto, RestTypeOK, cacheVars
    <2>2. \/ sent' = sent
          \/ pc[r] \in {"check", "dispatch"} /\ \E s : sent' = [sent EXCEPT ![entry[r]] = s]
      BY <1>5 DEF CheckPassed, StopAccepted, IssueCall, worldVars
    <2>3. KeptOrStored(r) /\ (Keyed(r) => entries'[CacheKey(r)] = entries[CacheKey(r)])
      BY <2>1 DEF KeptOrStored
    <2>4. ~terminal[r]
      BY <2>1, <1>i DEF WindowOf, Auditing
    <2>5. RequestKnows(r)'
      BY <2>1, <2>4, <1>i, <1>2, <1>3 DEF RequestKnows, Busy, Working, Auditing, Retrying
    <2>6. pc'[r] \in Busy /\ pc'[r] \in Working
      BY <2>1 DEF Busy, Working
    <2> QED BY <1>1, <1>2, <1>3, <2>2, <2>3, <2>5, <2>6, BusyStep
  <1>6. CASE UnexpectedError(r) \/ (Cancel(r) /\ pc[r] \in {"check", "stopping", "dispatch"})
    <2>1. /\ pc'[r] = "finalize" /\ outcome'[r] \in {"failed", "interrupted"}
          /\ UNCHANGED <<entries, sent>> /\ pc[r] \in {"check", "stopping", "dispatch"}
      BY <1>6, <1>t DEF UnexpectedError, Cancel, StartFinalize, Goto, RestTypeOK, cacheVars, worldVars,
            Shielded
    <2>2. KeptOrStored(r) /\ (Keyed(r) => entries'[CacheKey(r)] = entries[CacheKey(r)])
      BY <2>1 DEF KeptOrStored
    <2>3. ~terminal[r]
      BY <2>1, <1>i DEF WindowOf, Auditing
    <2>4. Keyed(r) => entries[CacheKey(r)] = None
      BY <2>1, <1>i, <1>4 DEF WindowOf, BeforeCall, Calling
    <2>5. Truthful(outcome[r], entry[r])'
      BY <2>1 DEF Truthful
    <2>6. RequestKnows(r)'
      BY <2>1, <2>3, <2>4, <2>5, <1>i, <1>2, <1>3 DEF RequestKnows
    <2>7. pc'[r] \in Busy /\ pc'[r] \in Working
      BY <2>1 DEF Busy, Working
    <2> QED BY <1>1, <1>2, <1>3, <2>1, <2>2, <2>6, <2>7, BusyStep
  <1>7. CASE CheckNoop(r) \/ CallAccepted(r) \/ ProxmoxError(r)
    <2>1. pc[r] \in {"check", "stopping", "dispatch"}
      BY <1>7 DEF CheckNoop, CallAccepted, ProxmoxError
    <2>2. PICK result \in Results :
             /\ StartAudit(r, result)
             /\ \/ result \notin {"ok", "accepted", "cancel_requested", "already_running",
                                  "already_stopped", "rejected"} /\ sent' = sent
                \/ /\ result \in {"ok", "accepted", "cancel_requested"}
                   /\ pc[r] = "dispatch" /\ sent' = [sent EXCEPT ![entry[r]] = "accepted"]
                \/ /\ result \in {"already_running", "already_stopped", "rejected"}
                   /\ pc[r] = "check" /\ sent' = sent
      <3>1. CASE CheckNoop(r)
        BY <3>1, <1>p DEF CheckNoop, worldVars, Results
      <3>2. CASE CallAccepted(r)
        BY <3>2, <1>p DEF CallAccepted
      <3>3. CASE ProxmoxError(r)
        BY <3>3, <1>p DEF ProxmoxError, worldVars
      <3> QED BY <1>7, <3>1, <3>2, <3>3
    <2> DEFINE b == AuditBody(entry[r], result, FALSE)
    <2>3. b \in Body /\ b.entry = entry[r] /\ b.result = result
      BY <1>4, AuditBodyType DEF AuditBody
    <2>4. StoreResponse(r, TRUE, b) /\ pc'[r] = "patch" /\ outcome'[r] = result
      BY <2>2, <1>t DEF StartAudit, Goto, RestTypeOK
    <2>5. /\ KeptOrStored(r)
          /\ Keyed(r) => entries'[CacheKey(r)].pending = TRUE /\ entries'[CacheKey(r)].body = b
      BY <2>3, <2>4, <1>i, <1>2, StoreShape
    <2>6. Truthful(outcome[r], entry[r])'
      <3>1. sent[entry[r]] = "no" \/ pc[r] # "check"
        BY <1>i DEF RequestKnows
      <3>2. sent' = [sent EXCEPT ![entry[r]] = "accepted"] => sent'[entry[r]] = "accepted"
        BY <1>4, <1>t DEF RestTypeOK
      <3> QED BY <2>2, <2>4, <3>1, <3>2, <1>3 DEF Truthful
    <2>7. ~terminal[r]
      BY <2>1, <1>i DEF WindowOf, Auditing
    <2>8. Keyed(r) => entries'[CacheKey(r)].pending /\ entries'[CacheKey(r)].body = b
      BY <2>5
    <2>9. RequestKnows(r)'
      BY <2>3, <2>4, <2>6, <2>7, <2>8, <1>i, <1>2, <1>3 DEF RequestKnows
    <2>10. pc'[r] \in Busy /\ pc'[r] \in Working
      BY <2>4 DEF Busy, Working
    <2>11. Keyed(r) => /\ entries'[CacheKey(r)].pending
                       /\ Truthful(entries[CacheKey(r)].body.result, entry[r])'
      BY <2>3, <2>4, <2>6, <2>8, <1>3 DEF Truthful
    <2>12. \/ sent' = sent
           \/ pc[r] \in {"check", "dispatch"} /\ \E s : sent' = [sent EXCEPT ![entry[r]] = s]
      BY <2>2
    <2> QED BY <1>1, <1>2, <1>3, <2>5, <2>9, <2>10, <2>11, <2>12, BusyStep
  <1>8. CASE Finalize(r) /\ ~terminal[r]
    <2> DEFINE b == AuditBody(entry[r], outcome[r], FALSE)
    <2>1. /\ pc[r] = "finalize" /\ pc'[r] = "finalize_patch" /\ StoreResponse(r, TRUE, b)
          /\ UNCHANGED <<outcome, sent>>
      BY <1>8, <1>t DEF Finalize, Goto, RestTypeOK, reqVars, worldVars
    <2>2. pc[r] \in Auditing \cup Retrying /\ pc'[r] \in Busy /\ pc'[r] \in Working
      BY <2>1 DEF Auditing, Busy, Working
    <2>3. b \in Body /\ b.entry = entry[r] /\ b.result = outcome[r]
      BY <2>2, <1>i, AuditingTypes DEF AuditBody
    <2>4. /\ KeptOrStored(r)
          /\ Keyed(r) => entries'[CacheKey(r)].pending = TRUE /\ entries'[CacheKey(r)].body = b
      BY <2>1, <2>3, <1>i, <1>2, StoreShape
    <2>5. Keyed(r) => entries'[CacheKey(r)].pending /\ entries'[CacheKey(r)].body = b
      BY <2>4
    <2>6. Truthful(outcome[r], entry[r])'
      BY <2>1, <2>2, <1>i, <1>3 DEF RequestKnows, Truthful
    <2>7. RequestKnows(r)'
      BY <2>1, <2>3, <2>5, <2>6, <1>8, <1>i, <1>2, <1>3 DEF RequestKnows
    <2>8. Keyed(r) => /\ entries'[CacheKey(r)].pending
                      /\ Truthful(entries[CacheKey(r)].body.result, entry[r])'
      BY <2>1, <2>3, <2>5, <2>6, <1>3 DEF Truthful
    <2> QED BY <1>1, <1>2, <1>3, <2>1, <2>2, <2>4, <2>7, <2>8, BusyStep
  <1>9. CASE Cancel(r) /\ pc[r] \in {"patch", "retry"}
    <2>1. /\ \/ pc[r] = "patch" /\ pc'[r] = "patch_c"
             \/ pc[r] = "retry" /\ pc'[r] = "retry_c"
          /\ UNCHANGED <<entries, sent, outcome>>
      BY <1>9, <1>t DEF Cancel, Shielded, Goto, RestTypeOK, cacheVars, worldVars, reqVars
    <2>2. /\ pc'[r] \in Busy /\ (pc[r] \in Working => pc'[r] \in Working)
          /\ pc[r] \in Auditing \cup Retrying
          /\ (pc'[r] \in Working => pc[r] \in Working)
      BY <2>1 DEF Busy, Working, Retrying, Auditing
    <2>3. KeptOrStored(r) /\ (Keyed(r) => entries'[CacheKey(r)] = entries[CacheKey(r)])
      BY <2>1 DEF KeptOrStored
    <2>4. Truthful(outcome[r], entry[r])'
      BY <2>1, <2>2, <1>i, <1>3 DEF RequestKnows, Truthful
    <2>5. RequestKnows(r)'
      BY <2>1, <2>2, <2>4, <1>i, <1>2, <1>3 DEF RequestKnows
    <2> QED BY <1>1, <1>2, <1>3, <2>1, <2>2, <2>3, <2>5, BusyStep
  <1> QED BY <1>5, <1>6, <1>7, <1>8, <1>9

\* The PATCHes of an entry, by the request that made it or by a replay.
LEMMA PatchAudit ==
    ASSUME Known, NEW r \in Reqs,
           \/ RetryPatch(r) \/ Patch(r) \/ FinalizePatch(r)
           \/ CancelledPatch(r) \/ BestEffortPatch(r) \/ CancelledRetry(r) \/ BestEffortRetry(r)
    PROVE  AuditInv'
  <1>i. TypeOK /\ AuditInv /\ DispatchInv /\ RequestKnows(r) /\ AnswerKnows(r) /\ EntriesExist
    BY DEF Known, DispatchInv, AuditInv
  <1>t. RestTypeOK
    BY <1>i DEF TypeOK, RestTypeOK
  <1>1. Others(r)
    BY <1>i, OthersKept DEF Progress
  <1>2. pc[r] \in Auditing \cup Retrying /\ pc[r] \in Busy /\ pc[r] \notin {"exit", "cleanup", "done"}
    BY DEF RetryPatch, Patch, FinalizePatch, CancelledPatch, BestEffortPatch, CancelledRetry,
           BestEffortRetry, Auditing, Retrying, Busy, Working
  <1>3. UNCHANGED <<entry, call, sent>>
    BY DEF RetryPatch, Patch, FinalizePatch, CancelledPatch, BestEffortPatch, CancelledRetry,
           BestEffortRetry, reqVars
  <1>4. /\ entry[r] \in JournalIds /\ outcome[r] \in Results /\ resp[r] = None
        /\ \A f \in BOOLEAN : AuditBody(entry[r], outcome[r], f) \in Body
    BY <1>i, <1>2, AuditingTypes DEF AnswerKnows
  <1>5. Truthful(outcome[r], entry[r]) /\ Truthful("interrupted", entry[r]) /\ "interrupted" \in Results
    BY <1>2, <1>i DEF RequestKnows, Truthful, Results
  <1>6. CASE RetryPatch(r) \/ Patch(r) \/ FinalizePatch(r)
    <2>1. PICK f \in BOOLEAN :
             /\ StoreResponse(r, ~f, AuditBody(entry[r], outcome[r], f))
             /\ IF f THEN PatchAcked(entry[r], outcome[r]) ELSE PatchFailed(r, entry[r], outcome[r])
             /\ Respond(r, Audited(AuditBody(entry[r], outcome[r], f))) \/ Respond(r, Raised)
      BY <1>6 DEF RetryPatch, Patch, FinalizePatch
    <2> DEFINE b == AuditBody(entry[r], outcome[r], f)
    <2>2. b \in Body /\ b.entry = entry[r] /\ b.result = outcome[r] /\ (b.success => f)
      BY <1>4 DEF AuditBody
    <2>3. KeptOrStored(r) /\ (Keyed(r) => entries'[CacheKey(r)].pending = ~f /\ entries'[CacheKey(r)].body = b)
      BY <2>1, <2>2, <1>i, <1>2, StoreShape
    <2>4. pc'[r] = "exit" /\ pc'[r] \notin Busy /\ pc'[r] \notin Working
      BY <2>1, <1>t DEF Respond, Goto, RestTypeOK, Busy, Working, Retrying
    <2>5. resp'[r] = Audited(b) \/ resp'[r] = Raised
      BY <2>1, <1>t DEF Respond, RestTypeOK
    <2>6. Succeeded(r)' => f /\ resp'[r].body.entry = entry[r] /\ resp'[r].body.result = outcome[r]
      BY <2>2, <2>5 DEF Succeeded, Audited, Raised
    <2>7. Keyed(r) => /\ entries'[CacheKey(r)].pending <=> ~f
                      /\ entries'[CacheKey(r)].body.result = outcome[r]
                      /\ pc'[r] \notin Busy
      BY <2>2, <2>3, <2>4
    <2>8. IF f THEN PatchAcked(entry[r], outcome[r]) ELSE PatchFailed(r, entry[r], outcome[r])
      BY <2>1
    <2>9. KeptOrStored(r)
      BY <2>3
    <2> HIDE DEF b
    <2> QED BY <1>1, <1>2, <1>3, <1>4, <1>5, <2>4, <2>6, <2>7, <2>8, <2>9, PatchStep
  <1>7. CASE CancelledPatch(r) \/ BestEffortPatch(r) \/ CancelledRetry(r) \/ BestEffortRetry(r)
    <2>1. PICK f \in BOOLEAN, result \in {outcome[r], "interrupted"} :
             /\ IF f THEN PatchAcked(entry[r], result) ELSE PatchFailed(r, entry[r], result)
             /\ terminal' = terminal \/ (f /\ pc[r] \in Working)
      <3>1. CASE CancelledPatch(r)
        BY <3>1 DEF CancelledPatch, Working
      <3>2. CASE BestEffortPatch(r)
        BY <3>2 DEF BestEffortPatch, Working
      <3>3. CASE CancelledRetry(r) \/ BestEffortRetry(r)
        BY <3>3 DEF CancelledRetry, BestEffortRetry, reqVars
      <3> QED BY <1>7, <3>1, <3>2, <3>3
    <2>2. UNCHANGED entries
      BY <1>7 DEF CancelledPatch, BestEffortPatch, CancelledRetry, BestEffortRetry, cacheVars
    <2>3. \/ pc'[r] = "exit" /\ resp'[r] = Raised
          \/ pc'[r] = "finalize" /\ outcome'[r] = "interrupted" /\ resp'[r] = None
                /\ pc[r] \in {"patch_c", "patch_be"}
          \/ pc'[r] = "patch_be" /\ outcome'[r] = outcome[r] /\ resp'[r] = None /\ pc[r] = "patch_c"
          \/ pc'[r] = "retry_be" /\ outcome'[r] = outcome[r] /\ resp'[r] = None
      <3>1. CASE CancelledPatch(r)
        BY <3>1, <1>t, <1>4 DEF CancelledPatch, Reraise, Respond, StartFinalize, Goto, RestTypeOK
      <3>2. CASE BestEffortPatch(r)
        BY <3>2, <1>t, <1>4 DEF BestEffortPatch, Reraise, Respond, StartFinalize, Goto, RestTypeOK
      <3>3. CASE CancelledRetry(r) \/ BestEffortRetry(r)
        BY <3>3, <1>t, <1>4 DEF CancelledRetry, BestEffortRetry, Respond, Goto, RestTypeOK, reqVars
      <3> QED BY <1>7, <3>1, <3>2, <3>3
    <2>4. KeptOrStored(r) /\ (Keyed(r) => entries'[CacheKey(r)] = entries[CacheKey(r)])
      BY <2>2 DEF KeptOrStored
    <2>5. ~Succeeded(r)' /\ (resp'[r] # None => pc'[r] = "exit")
      BY <2>3 DEF Succeeded, Raised
    <2>6. pc'[r] \in Auditing \cup Retrying \cup {"exit"}
      BY <2>3 DEF Auditing, Retrying
    <2>7. pc'[r] # "exit" => Truthful(outcome[r], entry[r])'
      BY <2>3, <1>3, <1>5 DEF Truthful
    <2>8. pc'[r] \in Working /\ terminal'[r] => f \/ (pc[r] \in Working /\ terminal[r])
      BY <2>1, <2>3 DEF Working
    <2>9. result \in Results /\ Truthful(result, entry[r])
      BY <2>1, <1>4, <1>5
    <2>10. IF f THEN PatchAcked(entry[r], result) ELSE PatchFailed(r, entry[r], result)
      BY <2>1
    <2> QED BY <1>1, <1>2, <1>3, <1>4, <2>4, <2>5, <2>6, <2>7, <2>8, <2>9, <2>10, PatchStep
  <1> QED BY <1>6, <1>7

\* Every step keeps what the journal, the cache and the responses agree on.
LEMMA AuditStep ==
    ASSUME Known, [Next]_vars
    PROVE  AuditInv'
  <1>1. ASSUME NEW r \in Reqs, Issue(r) \/ Acquire(r) \/ Finish(r) PROVE AuditInv'
    BY <1>1, QuietAudit
  <1>2. ASSUME NEW r \in Reqs, Progress(r) PROVE AuditInv'
    BY <1>2, QuietAudit, LookupAudit, WriteaheadAudit, WorkAudit, PatchAudit DEF Progress
  <1>3. ASSUME NEW r \in Reqs, Cancel(r) PROVE AuditInv'
    <2>1. pc[r] \in {"gate", "acquire", "resolve", "writeahead", "cleanup"}
          \/ pc[r] \in {"check", "stopping", "dispatch", "patch", "retry"}
      BY <1>3 DEF Cancel, Shielded
    <2> QED BY <1>3, <2>1, QuietAudit, WorkAudit
  <1>4. ASSUME NEW k \in CacheKeys, Expire(k) PROVE AuditInv'
    BY <1>4, ExpireStep
  <1>5. CASE Restart
    BY <1>5, RestartStep
  <1>6. CASE UNCHANGED vars
    <2>1. AuditInv
      BY DEF Known
    <2> QED BY <2>1, <1>6 DEF vars, cacheVars, reqVars, worldVars, AuditInv, OneHandler, RequestKnows,
              AnswerKnows, ResponseKnows, JournalTruthful, CancellationClosesEntry,
              FailedPatchIsRetryable, Settled, Succeeded, Truthful, Keyed, CacheKey
  <1> QED BY <1>1, <1>2, <1>3, <1>4, <1>5, <1>6 DEF Next

\* The journal invariant holds in the initial state.
LEMMA InitAudit == Init => AuditInv
  BY DEF Init, Cache!CacheInit, AuditInv, OneHandler, RequestKnows, AnswerKnows, ResponseKnows,
         JournalTruthful, CancellationClosesEntry, FailedPatchIsRetryable, Busy, Working, Retrying,
         Auditing

\* A journal entry is always in the hands of at most one request or cached
\* response, and what each of them believes about it is what NetBox has and
\* what Proxmox answered.
THEOREM AuditInvariant == Spec => []AuditInv
  <1>1. Init => Known
    BY InitInv, InitAudit DEF Known
  <1>2. Known /\ [Next]_vars => Known'
    BY InvStep, AuditStep DEF Known
  <1>3. Known => AuditInv
    BY DEF Known
  <1> QED BY <1>1, <1>2, <1>3, PTL DEF Spec

\* The audit journal never claims a success Proxmox did not confirm, nor a
\* no-op when a call was made.
THEOREM JournalIsTruthful == Spec => []JournalTruthful
  <1>1. AuditInv => JournalTruthful
    BY DEF AuditInv
  <1> QED BY <1>1, AuditInvariant, PTL

\* A final cached response agrees with the journal entry it is about.
THEOREM CacheAgreement == Spec => []CacheAgreesWithJournal
  <1>1. DispatchInv /\ AuditInv => CacheAgreesWithJournal
    <2> SUFFICES ASSUME DispatchInv, AuditInv, NEW k \in CacheKeys, entries[k] # None, ~entries[k].pending
                 PROVE  journal[entries[k].body.entry] = [verb |-> k[1], result |-> entries[k].body.result]
      BY DEF CacheAgreesWithJournal
    <2>1. journal[entries[k].body.entry] \in Record
      BY CachedTypes DEF DispatchInv, TypeOK
    <2>2. ResponseKnows(k)
      BY DEF AuditInv
    <2> QED BY <2>1, <2>2 DEF ResponseKnows, Record
  <1> QED BY <1>1, DispatchInvariant, AuditInvariant, PTL

\* A success response, also a replayed one, is backed by a closed journal
\* entry of the same verb and result.
THEOREM SuccessAudited == Spec => []SuccessIsAudited
  <1>1. AuditInv => SuccessIsAudited
    BY DEF AuditInv, AnswerKnows, Succeeded, SuccessIsAudited
  <1> QED BY <1>1, AuditInvariant, PTL

\* An entry that stays in progress without a failure of NetBox or a restart
\* has a request still working on it: no cancellation abandons one.
THEOREM CancellationCloses == Spec => []CancellationClosesEntry
  <1>1. AuditInv => CancellationClosesEntry
    BY DEF AuditInv
  <1> QED BY <1>1, AuditInvariant, PTL

\* An entry whose terminal PATCH failed is still worked on, or can be closed
\* by a replay of the pending response until that expires.
THEOREM FailedPatchRetryable == Spec => []FailedPatchIsRetryable
  <1>1. AuditInv => FailedPatchIsRetryable
    BY DEF AuditInv
  <1> QED BY <1>1, AuditInvariant, PTL

=============================================================================

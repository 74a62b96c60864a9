------------------------ MODULE SettingsCacheProofs ------------------------
(***************************************************************************)
(* Proofs about SettingsCache, for any number of threads, any arguments of *)
(* their calls, any lifetime of the cache and any failures of the fetch.   *)
(***************************************************************************)
EXTENDS SettingsCache, TLAPS

\* A nested call exists only while its thread builds a session, and gets no further than
\* the check for recursion.
NestedReturnsAtOnce ==
    \A t \in Threads :
        \/ pc[<<t, 1>>] = "idle"
        \/ pc[<<t, 1>>] = "entered" /\ pc[<<t, 0>>] = "session"

\* fetch_depth is raised for the fetch of the thread's own call, and no longer.
DepthExact ==
    \A t \in Threads : depth[t] => pc[<<t, 0>>] \in FetchStages

\* A call that has not finished its fetch holds no settings.
NothingBeforeTheAnswer ==
    \A c \in Call : pc[c] \notin {"idle", "store"} => settings[c] = None

\* Defaults in the cache were put there when failedAt says.
FallbackDated ==
    cache # None /\ cache.value = Defaults => failedAt = cache.at

\* An answer on its way to the cache is as recent as the last invalidation.
AnswersCurrent ==
    ~overlapped => \A c \in Call :
        pc[c] = "store" /\ settings[c] # None => settings[c].epoch = epoch

FlowInv == TypeOK /\ SingleFlight /\ NestedReturnsAtOnce /\ DepthExact
ValueInv == NothingBeforeTheAnswer /\ FallbackDated /\ AnswersCurrent
                /\ InvalidationForcesFetch

-----------------------------------------------------------------------------
LEMMA CallParts ==
    /\ \A c \in Call : c[1] \in Threads /\ c[2] \in {0, 1} /\ c = <<c[1], c[2]>>
                           /\ Nested(c) \in Call
    /\ \A t \in Threads : <<t, 0>> \in Call /\ <<t, 1>> \in Call
BY DEF Call, Nested

\* Moving one call.
LEMMA GotoTyped ==
    ASSUME TypeOK, NEW c \in Call, NEW s \in Stages, Goto(c, s)
    PROVE  /\ pc' \in [Call -> Stages]
           /\ \A d \in Call : pc'[d] = IF d = c THEN s ELSE pc[d]
BY DEF TypeOK, Goto

LEMMA ReturnTyped ==
    ASSUME TypeOK, NEW c \in Call, NEW v \in Value, Return(c, v)
    PROVE  /\ pc' \in [Call -> Stages] /\ result' \in [Call -> Value \cup {None}]
           /\ \A d \in Call : pc'[d] = IF d = c THEN "idle" ELSE pc[d]
           /\ \A d \in Call : result'[d] = IF d = c THEN v ELSE result[d]
           /\ UNCHANGED <<args, deadline, settings>>
BY DEF TypeOK, Return, Goto, Stages

LEMMA ProceedTyped ==
    ASSUME TypeOK, NEW c \in Call, NEW s \in Stages, Proceed(c, s)
    PROVE  /\ TypeOK'
           /\ \A d \in Call : pc'[d] = IF d = c THEN s ELSE pc[d]
<1>1. pc' \in [Call -> Stages] /\ \A d \in Call : pc'[d] = IF d = c THEN s ELSE pc[d]
  BY GotoTyped DEF Proceed
<1> QED
  BY <1>1 DEF Proceed, TypeOK, shared, history

LEMMA FetchedTyped ==
    ASSUME NEW v \in Version \cup {Defaults}, NEW e \in Nat
    PROVE  [value |-> v, epoch |-> e] \in Fetched
BY DEF Fetched

LEMMA YieldTyped ==
    ASSUME TypeOK, NEW c \in Call, NEW v \in Version \cup {Defaults}, Yield(c, v)
    PROVE  /\ TypeOK'
           /\ \A d \in Call : pc'[d] = IF d = c THEN "store" ELSE pc[d]
           /\ \A d \in Call : settings'[d] =
                 IF d = c THEN [value |-> v, epoch |-> epoch] ELSE settings[d]
<1>1. pc' \in [Call -> Stages] /\ \A d \in Call : pc'[d] = IF d = c THEN "store" ELSE pc[d]
  BY GotoTyped DEF Yield, Stages
<1>2. [value |-> v, epoch |-> epoch] \in Fetched
  BY FetchedTyped DEF TypeOK
<1>3. /\ settings' \in [Call -> Fetched \cup {None}]
      /\ \A d \in Call : settings'[d] =
            IF d = c THEN [value |-> v, epoch |-> epoch] ELSE settings[d]
  BY <1>2 DEF Yield, TypeOK
<1> QED
  BY <1>1, <1>3 DEF Yield, TypeOK, shared, history

\* What Store leaves.
LEMMA StoreTyped ==
    ASSUME TypeOK, NEW c \in Call, Store(c)
    PROVE  /\ TypeOK'
           /\ \A d \in Call : pc'[d] = IF d = c THEN "idle"
                                       ELSE IF pc[d] = "waiting" THEN "locked" ELSE pc[d]
<1>1. /\ pc' \in [Call -> Stages]
      /\ \A d \in Call : pc'[d] = IF d = c THEN "idle"
                                  ELSE IF pc[d] = "waiting" THEN "locked" ELSE pc[d]
  BY DEF Store, TypeOK, Stages
<1>2. settings[c] # None => /\ settings[c].value \in Version \cup {Defaults}
                            /\ settings[c].epoch \in Nat
  BY DEF TypeOK, Fetched
<1>3. cache' \in [value : Version \cup {Defaults}, epoch : Nat, at : Nat] \cup {None}
  <2>1. CASE Caches(c)
    BY <1>2, <2>1 DEF Store, Caches, TypeOK
  <2>2. CASE ~Caches(c)
    BY <2>2 DEF Store, TypeOK
  <2> QED
    BY <2>1, <2>2
<1>4. result' \in [Call -> Value \cup {None}]
  BY <1>2 DEF Store, TypeOK, Value
<1>5. depth' \in [Threads -> BOOLEAN] /\ failedAt' \in Nat \cup {None} /\ inProgress' \in BOOLEAN
  BY CallParts DEF Store, TypeOK
<1> QED
  BY <1>1, <1>3, <1>4, <1>5 DEF Store, TypeOK

-----------------------------------------------------------------------------
LEMMA KeyLookupTyped == KeyLookup \in Arguments
BY SettingsConstants DEF KeyLookup, Arguments

LEMMA InitialFlow ==
    Init => FlowInv /\ WaitersHaveAFetcher /\ ValueInv
<1> SUFFICES ASSUME Init PROVE FlowInv /\ WaitersHaveAFetcher /\ ValueInv
  OBVIOUS
<1>1. TypeOK
  <2>1. plugin \in Version
    BY SettingsConstants DEF Init, Version
  <2>2. args \in [Call -> Arguments]
    BY KeyLookupTyped DEF Init
  <2>3. pc \in [Call -> Stages]
    BY DEF Init, Stages
  <2> QED
    BY <2>1, <2>2, <2>3 DEF Init, TypeOK
<1>2. SingleFlight /\ NestedReturnsAtOnce /\ DepthExact /\ WaitersHaveAFetcher
  BY CallParts DEF Init, SingleFlight, NestedReturnsAtOnce, DepthExact, WaitersHaveAFetcher,
     FetchStages
<1>3. ValueInv
  BY DEF Init, ValueInv, NothingBeforeTheAnswer, FallbackDated, AnswersCurrent,
     InvalidationForcesFetch
<1> QED
  BY <1>1, <1>2, <1>3 DEF FlowInv

\* Types are kept.
LEMMA TypeStep ==
    TypeOK /\ [Next]_vars => TypeOK'
<1> SUFFICES ASSUME TypeOK, [Next]_vars PROVE TypeOK'
  OBVIOUS
<1> USE DEF shared, frames, history
<1>1. ASSUME NEW c \in Call, NEW k \in CallKinds \cup {KeyLookup}, Enter(c, k) PROVE TypeOK'
  <2>1. pc' \in [Call -> Stages]
    BY <1>1, GotoTyped DEF Enter, Stages
  <2>2. k \in Arguments
    BY SettingsConstants, KeyLookupTyped
  <2>3. args' \in [Call -> Arguments]
    BY <1>1, <2>2 DEF Enter, TypeOK
  <2>4. /\ deadline' \in [Call -> Nat \cup {None}]
        /\ settings' \in [Call -> Fetched \cup {None}]
        /\ result' \in [Call -> Value \cup {None}]
    BY <1>1 DEF Enter, TypeOK
  <2>5. calls' \in Nat
    BY <1>1 DEF Enter, TypeOK
  <2> QED
    BY <1>1, <2>1, <2>3, <2>4, <2>5 DEF Enter, TypeOK
<1>2. ASSUME NEW c \in Call, Overridden(c) PROVE TypeOK'
  <2>1. Override \in Value
    BY DEF Value
  <2> QED
    BY <1>2, <2>1, ReturnTyped DEF Overridden, TypeOK
<1>3. ASSUME NEW c \in Call, Recursion(c) \/ GiveUp(c) PROVE TypeOK'
  <2>1. Defaults \in Value
    BY DEF Value
  <2>2. Return(c, Defaults) /\ UNCHANGED <<plugin, clock, shared, depth, calls, history>>
    BY <1>3 DEF Recursion, GiveUp
  <2> QED
    BY <2>1, <2>2, ReturnTyped DEF TypeOK
<1>4. ASSUME NEW c \in Call, SetDeadline(c) PROVE TypeOK'
  <2>1. pc' \in [Call -> Stages]
    BY <1>4, GotoTyped DEF SetDeadline, Stages
  <2>2. args[c].timeout \in Nat \cup {None}
    BY DEF TypeOK, Arguments
  <2>3. (IF args[c].timeout = None THEN None ELSE clock + args[c].timeout) \in Nat \cup {None}
    BY <2>2 DEF TypeOK
  <2> QED
    BY <1>4, <2>1, <2>3 DEF SetDeadline, TypeOK
<1>5. ASSUME NEW c \in Call, Hit(c) PROVE TypeOK'
  <2>1. cache.value \in Value
    BY <1>5 DEF Hit, Fresh, TypeOK, Value
  <2> QED
    BY <1>5, <2>1, ReturnTyped DEF Hit, TypeOK
<1>6. ASSUME NEW c \in Call, Claim(c) PROVE TypeOK'
  <2>1. pc' \in [Call -> Stages]
    BY <1>6, GotoTyped DEF Claim, Stages
  <2> QED
    BY <1>6, <2>1, CallParts DEF Claim, TypeOK
<1>7. ASSUME NEW c \in Call, Wait(c) \/ WakeUp(c) PROVE TypeOK'
  <2>1. Goto(c, "waiting") \/ Goto(c, "locked")
    BY <1>7 DEF Wait, WakeUp
  <2>2. pc' \in [Call -> Stages]
    BY <2>1, GotoTyped DEF Stages
  <2> QED
    BY <1>7, <2>2 DEF Wait, WakeUp, TypeOK
<1>8. ASSUME NEW c \in Call, StartFetch(c) \/ BuildSession(c) PROVE TypeOK'
  <2>1. Yield(c, Defaults) \/ \E s \in Stages : Proceed(c, s)
    BY <1>8 DEF StartFetch, BuildSession, Stages
  <2> QED
    BY <2>1, YieldTyped, ProceedTyped
<1>9. ASSUME NEW c \in Call, Respond(c) PROVE TypeOK'
  <2>1. \E v \in Version \cup {Defaults} : Yield(c, v)
    BY <1>9 DEF Respond, TypeOK
  <2> QED
    BY <2>1, YieldTyped
<1>10. ASSUME NEW c \in Call, Stall(c) \/ Raise(c) PROVE TypeOK'
  <2>1. \E s \in Stages : Proceed(c, s)
    BY <1>10 DEF Stall, Raise, Stages
  <2> QED
    BY <2>1, ProceedTyped
<1>11. ASSUME NEW c \in Call, Store(c) PROVE TypeOK'
  BY <1>11, StoreTyped
<1>12. CASE Invalidate
  BY <1>12 DEF Invalidate, TypeOK
<1>13. CASE Edit \/ Tick
  BY <1>13, SettingsConstants DEF Edit, Tick, TypeOK, Version
<1>14. CASE UNCHANGED vars
  BY <1>14 DEF vars, TypeOK
<1> QED
  BY <1>1, <1>2, <1>3, <1>4, <1>5, <1>6, <1>7, <1>8, <1>9, <1>10, <1>11, <1>12, <1>13, <1>14
     DEF Next, Local

\* The type invariant: above all, nothing but what NetBox sent or the defaults is ever
\* cached, never the settings of a thread's override (settings_client.py).
THEOREM TypeCorrect == Spec => []TypeOK
<1>1. Init => TypeOK
  BY InitialFlow DEF FlowInv
<1> QED
  BY <1>1, TypeStep, PTL DEF Spec
-----------------------------------------------------------------------------
\* A step inside one call that leaves the flag and the depth alone: either the call stays
\* outside the fetch, or it stays inside.
LEMMA QuietStep ==
    ASSUME FlowInv, TypeOK', NEW c \in Call, NEW s \in Stages,
           \A d \in Call : pc'[d] = IF d = c THEN s ELSE pc[d],
           pc[c] \in FetchStages <=> s \in FetchStages,
           inProgress' = inProgress, depth' = depth,
           c[2] = 1 => s = "idle" \/ (s = "entered" /\ pc[<<c[1], 0>>] = "session"),
           pc[c] = "session" => pc[Nested(c)] = "idle"
    PROVE  FlowInv'
<1>1. SingleFlight'
  BY DEF FlowInv, SingleFlight
<1>2. NestedReturnsAtOnce'
  <2> SUFFICES ASSUME NEW t \in Threads
               PROVE  pc'[<<t, 1>>] = "idle" \/ (pc'[<<t, 1>>] = "entered" /\ pc'[<<t, 0>>] = "session")
    BY DEF NestedReturnsAtOnce
  <2>1. <<t, 0>> \in Call /\ <<t, 1>> \in Call /\ <<t, 0>> # <<t, 1>>
    BY CallParts
  <2>2. CASE c = <<t, 1>>
    BY <2>1, <2>2
  <2>3. CASE c = <<t, 0>>
    <3>1. Nested(c) = <<t, 1>>
      BY <2>3 DEF Nested
    <3> QED
      BY <2>1, <2>3, <3>1 DEF FlowInv, NestedReturnsAtOnce
  <2>4. CASE c # <<t, 0>> /\ c # <<t, 1>>
    BY <2>1, <2>4 DEF FlowInv, NestedReturnsAtOnce
  <2> QED
    BY <2>2, <2>3, <2>4
<1>3. DepthExact'
  BY CallParts DEF FlowInv, DepthExact
<1> QED
  BY <1>1, <1>2, <1>3 DEF FlowInv

\* A call beyond the check for recursion is not a nested one.
LEMMA OuterCall ==
    ASSUME FlowInv, NEW c \in Call, pc[c] \notin {"idle", "entered"}
    PROVE  c[2] = 0 /\ c = <<c[1], 0>>
<1>1. c[1] \in Threads /\ c[2] \in {0, 1} /\ c = <<c[1], c[2]>>
  BY CallParts
<1>2. c # <<c[1], 1>>
  BY <1>1 DEF FlowInv, NestedReturnsAtOnce
<1> QED
  BY <1>1, <1>2

\* Single flight is kept.
LEMMA FlowStep ==
    FlowInv /\ [Next]_vars => FlowInv'
<1> SUFFICES ASSUME FlowInv, [Next]_vars PROVE FlowInv'
  OBVIOUS
<1> USE DEF shared, frames, history
<1>0. TypeOK /\ TypeOK'
  BY TypeStep DEF FlowInv
<1>1. ASSUME NEW c \in Call, NEW k \in CallKinds \cup {KeyLookup}, Enter(c, k) PROVE FlowInv'
  <2>1. \A d \in Call : pc'[d] = IF d = c THEN "entered" ELSE pc[d]
    BY <1>0, <1>1, GotoTyped DEF Enter, Stages
  <2> QED
    BY <1>0, <1>1, <2>1, QuietStep DEF Enter, Stages, FetchStages
<1>2. ASSUME NEW c \in Call, Overridden(c) \/ Recursion(c) \/ Hit(c) \/ GiveUp(c) PROVE FlowInv'
  <2>1. \A d \in Call : pc'[d] = IF d = c THEN "idle" ELSE pc[d]
    BY <1>0, <1>2, GotoTyped DEF Overridden, Recursion, Hit, GiveUp, Return, Stages
  <2>2. pc[c] \in {"entered", "locked"} /\ inProgress' = inProgress /\ depth' = depth
    BY <1>2 DEF Overridden, Recursion, Hit, GiveUp, Misses
  <2> QED
    BY <1>0, <2>1, <2>2, QuietStep DEF Stages, FetchStages
<1>3. ASSUME NEW c \in Call, SetDeadline(c) PROVE FlowInv'
  <2>1. \A d \in Call : pc'[d] = IF d = c THEN "locked" ELSE pc[d]
    BY <1>0, <1>3, GotoTyped DEF SetDeadline, Stages
  <2>2. c[2] = 0
    <3>1. ~depth[c[1]] /\ pc[c] = "entered"
      BY <1>3 DEF SetDeadline, InsideOwnFetch
    <3>2. c = <<c[1], 1>> => pc[<<c[1], 0>>] = "session"
      BY <3>1, CallParts DEF FlowInv, NestedReturnsAtOnce
    <3>3. pc[<<c[1], 0>>] # "session"
      <4>1. <<c[1], 0>> \in Call /\ <<c[1], 0>>[1] = c[1]
        BY CallParts
      <4> QED
        BY <3>1, <4>1 DEF FlowInv, SingleFlight, FetchStages
    <3> QED
      BY <3>2, <3>3, CallParts
  <2> QED
    <3>1. /\ "locked" \in Stages /\ inProgress' = inProgress /\ depth' = depth /\ c[2] # 1
          /\ pc[c] # "session" /\ (pc[c] \in FetchStages <=> "locked" \in FetchStages)
      BY <1>3, <2>2 DEF SetDeadline, Stages, FetchStages
    <3> QED
      BY <1>0, <2>1, <3>1, QuietStep
<1>4. ASSUME NEW c \in Call, Wait(c) \/ WakeUp(c) PROVE FlowInv'
  <2>1. pc[c] \in {"locked", "waiting"} /\ inProgress' = inProgress /\ depth' = depth
    BY <1>4 DEF Wait, WakeUp, Misses
  <2>2. c[2] = 0
    BY <2>1, OuterCall
  <2>3. Goto(c, "waiting") \/ Goto(c, "locked")
    BY <1>4 DEF Wait, WakeUp
  <2>4. PICK s \in {"waiting", "locked"} : \A d \in Call : pc'[d] = IF d = c THEN s ELSE pc[d]
    BY <1>0, <2>3, GotoTyped DEF Stages
  <2> QED
    <3>1. /\ s \in Stages /\ c[2] # 1
          /\ pc[c] # "session" /\ (pc[c] \in FetchStages <=> s \in FetchStages)
      BY <2>1, <2>2 DEF Stages, FetchStages
    <3> QED
      BY <1>0, <2>1, <2>4, <3>1, QuietStep
<1>5. ASSUME NEW c \in Call, Claim(c) PROVE FlowInv'
  <2>1. \A d \in Call : pc'[d] = IF d = c THEN "claimed" ELSE pc[d]
    BY <1>0, <1>5, GotoTyped DEF Claim, Stages
  <2>2. c = <<c[1], 0>> /\ c[1] \in Threads
    BY <1>5, OuterCall, CallParts DEF Claim, Misses
  <2>3. \A d \in Call : pc[d] \notin FetchStages
    BY <1>5 DEF Claim, FlowInv, SingleFlight
  <2>4. /\ \A t \in Threads : depth'[t] = IF t = c[1] THEN TRUE ELSE depth[t]
        /\ inProgress'
    BY <1>0, <1>5 DEF Claim, TypeOK
  <2>5. SingleFlight'
    BY <2>1, <2>2, <2>3, <2>4 DEF SingleFlight, FetchStages
  <2>6. NestedReturnsAtOnce'
    <3> SUFFICES ASSUME NEW t \in Threads PROVE pc'[<<t, 1>>] = "idle"
      BY DEF NestedReturnsAtOnce
    <3>1. <<t, 0>> \in Call /\ <<t, 1>> \in Call /\ <<t, 1>> # c
      BY <2>2, CallParts
    <3> QED
      BY <2>1, <2>3, <3>1 DEF FlowInv, NestedReturnsAtOnce, FetchStages
  <2>7. DepthExact'
    BY <2>1, <2>2, <2>3, <2>4, CallParts DEF DepthExact, FlowInv, FetchStages
  <2> QED
    BY <1>0, <2>5, <2>6, <2>7 DEF FlowInv
<1>6. ASSUME NEW c \in Call, StartFetch(c) \/ BuildSession(c) \/ Respond(c) \/ Stall(c) \/ Raise(c)
      PROVE  FlowInv'
  <2>1. /\ pc[c] \in FetchStages \ {"store"}
        /\ pc[c] = "session" => pc[Nested(c)] = "idle"
        /\ (\E s \in FetchStages : Proceed(c, s)) \/ (\E v \in Version \cup {Defaults} : Yield(c, v))
    BY <1>0, <1>6 DEF StartFetch, BuildSession, Respond, Stall, Raise, FetchStages, TypeOK
  <2>2. inProgress' = inProgress /\ depth' = depth
    BY <2>1 DEF Proceed, Yield
  <2>3. PICK s \in FetchStages : \A d \in Call : pc'[d] = IF d = c THEN s ELSE pc[d]
    <3>1. "store" \in FetchStages /\ \A s \in FetchStages : s \in Stages
      BY DEF FetchStages, Stages
    <3>2. CASE \E s \in FetchStages : Proceed(c, s)
      BY <1>0, <3>1, <3>2, ProceedTyped
    <3>3. CASE \E v \in Version \cup {Defaults} : Yield(c, v)
      BY <1>0, <3>1, <3>3, YieldTyped
    <3> QED
      BY <2>1, <3>2, <3>3
  <2>4. c[2] = 0
    BY <2>1, OuterCall DEF FetchStages
  <2> QED
    <3>1. s \in Stages /\ c[2] # 1 /\ pc[c] \in FetchStages
      BY <2>1, <2>4 DEF Stages, FetchStages
    <3> QED
      BY <1>0, <2>1, <2>2, <2>3, <3>1, QuietStep
<1>7. ASSUME NEW c \in Call, Store(c) PROVE FlowInv'
  <2>1. \A d \in Call : pc'[d] = IF d = c THEN "idle"
                                  ELSE IF pc[d] = "waiting" THEN "locked" ELSE pc[d]
    BY <1>0, <1>7, StoreTyped
  <2>2. pc[c] = "store" /\ c = <<c[1], 0>> /\ c[1] \in Threads
    BY <1>7, OuterCall, CallParts DEF Store
  <2>3. \A d \in Call : d # c => pc[d] \notin FetchStages
    BY <2>2 DEF FlowInv, SingleFlight, FetchStages
  <2>4. \A d \in Call : pc'[d] \notin FetchStages
    BY <2>1, <2>3 DEF FetchStages
  <2>5. /\ \A t \in Threads : depth'[t] = IF t = c[1] THEN FALSE ELSE depth[t]
        /\ inProgress' = FALSE
    BY <1>0, <1>7 DEF Store, TypeOK
  <2>6. SingleFlight'
    BY <2>4, <2>5 DEF SingleFlight
  <2>7. NestedReturnsAtOnce'
    <3> SUFFICES ASSUME NEW t \in Threads PROVE pc'[<<t, 1>>] = "idle"
      BY DEF NestedReturnsAtOnce
    <3>1. <<t, 0>> \in Call /\ <<t, 1>> \in Call /\ <<t, 1>> # c
      BY <2>2, CallParts
    <3>2. pc[<<t, 0>>] # "session"
      BY <2>2, <2>3, <3>1 DEF FetchStages
    <3> QED
      BY <2>1, <3>1, <3>2 DEF FlowInv, NestedReturnsAtOnce
  <2>8. DepthExact'
    BY <2>2, <2>3, <2>5, CallParts DEF DepthExact, FlowInv
  <2> QED
    BY <1>0, <2>6, <2>7, <2>8 DEF FlowInv
<1>8. CASE UNCHANGED <<pc, inProgress, depth>>
  BY <1>0, <1>8 DEF FlowInv, SingleFlight, NestedReturnsAtOnce, DepthExact
<1>9. CASE Invalidate \/ Edit \/ Tick \/ UNCHANGED vars
  BY <1>8, <1>9 DEF Invalidate, Edit, Tick, vars
<1> QED
  BY <1>1, <1>2, <1>3, <1>4, <1>5, <1>6, <1>7, <1>9 DEF Next, Local

\* The flag of the single-flight fetch is up exactly while one call fetches, and that
\* call's thread knows it: every path out of the fetch lowers it (settings_client.py,
\* get_settings).
THEOREM OneFetchAtATime == Spec => []SingleFlight
<1>1. Init => FlowInv
  BY InitialFlow
<1>2. FlowInv => SingleFlight
  BY DEF FlowInv
<1> QED
  BY <1>1, <1>2, FlowStep, PTL DEF Spec

-----------------------------------------------------------------------------
\* A call that is not nested and another one fetching are of different threads.
LEMMA OtherThread ==
    ASSUME FlowInv, NEW c \in Call, NEW d \in Call,
           pc[c] \in {"locked", "waiting"}, pc[d] \in FetchStages
    PROVE  d[1] # c[1]
<1>1. c = <<c[1], 0>>
  BY OuterCall
<1>2. d = <<d[1], 0>>
  BY OuterCall DEF FetchStages
<1>3. c # d
  BY DEF FetchStages
<1> QED
  BY <1>1, <1>2, <1>3

\* Moving a call that stays outside the fetch, or inside, keeps the waiters' fetcher.
LEMMA WaitersKept ==
    ASSUME WaitersHaveAFetcher, NEW c \in Call, NEW s \in Stages \ {"waiting"},
           \A d \in Call : pc'[d] = IF d = c THEN s ELSE pc[d],
           pc[c] \in FetchStages => s \in FetchStages
    PROVE  WaitersHaveAFetcher'
<1> SUFFICES ASSUME NEW w \in Call, pc'[w] = "waiting"
             PROVE  \E d \in Call : pc'[d] \in FetchStages /\ d[1] # w[1]
  BY DEF WaitersHaveAFetcher
<1>1. pc[w] = "waiting"
  BY DEF FetchStages
<1>2. PICK d \in Call : pc[d] \in FetchStages /\ d[1] # w[1]
  BY <1>1 DEF WaitersHaveAFetcher
<1>3. pc'[d] \in FetchStages
  BY <1>2
<1> QED
  BY <1>2, <1>3

LEMMA WaitersStep ==
    FlowInv /\ WaitersHaveAFetcher /\ [Next]_vars => WaitersHaveAFetcher'
<1> SUFFICES ASSUME FlowInv, WaitersHaveAFetcher, [Next]_vars PROVE WaitersHaveAFetcher'
  OBVIOUS
<1> USE DEF frames
<1>0. TypeOK
  BY DEF FlowInv
<1>1. ASSUME NEW c \in Call, NEW k \in CallKinds \cup {KeyLookup}, Enter(c, k)
      PROVE  WaitersHaveAFetcher'
  <2>1. \A d \in Call : pc'[d] = IF d = c THEN "entered" ELSE pc[d]
    BY <1>0, <1>1, GotoTyped DEF Enter, Stages
  <2>2. pc[c] \notin FetchStages /\ "entered" \in Stages \ {"waiting"}
    BY <1>1 DEF Enter, FetchStages, Stages
  <2> QED
    BY <2>1, <2>2, WaitersKept
<1>2. ASSUME NEW c \in Call, Overridden(c) \/ Recursion(c) \/ Hit(c) \/ GiveUp(c)
      PROVE  WaitersHaveAFetcher'
  <2>1. \A d \in Call : pc'[d] = IF d = c THEN "idle" ELSE pc[d]
    BY <1>0, <1>2, GotoTyped DEF Overridden, Recursion, Hit, GiveUp, Return, Stages
  <2>2. pc[c] \notin FetchStages /\ "idle" \in Stages \ {"waiting"}
    BY <1>2 DEF Overridden, Recursion, Hit, GiveUp, Misses, FetchStages, Stages
  <2> QED
    BY <2>1, <2>2, WaitersKept
<1>3. ASSUME NEW c \in Call, SetDeadline(c) \/ WakeUp(c) PROVE WaitersHaveAFetcher'
  <2>1. \A d \in Call : pc'[d] = IF d = c THEN "locked" ELSE pc[d]
    BY <1>0, <1>3, GotoTyped DEF SetDeadline, WakeUp, Stages
  <2>2. pc[c] \notin FetchStages /\ "locked" \in Stages \ {"waiting"}
    BY <1>3 DEF SetDeadline, WakeUp, FetchStages, Stages
  <2> QED
    BY <2>1, <2>2, WaitersKept
<1>4. ASSUME NEW c \in Call, Claim(c) PROVE WaitersHaveAFetcher'
  <2>1. \A d \in Call : pc'[d] = IF d = c THEN "claimed" ELSE pc[d]
    BY <1>0, <1>4, GotoTyped DEF Claim, Stages
  <2>2. "claimed" \in FetchStages /\ "claimed" \in Stages \ {"waiting"}
    BY DEF FetchStages, Stages
  <2> QED
    BY <2>1, <2>2, WaitersKept
<1>5. ASSUME NEW c \in Call, Wait(c) PROVE WaitersHaveAFetcher'
  <2>1. \A d \in Call : pc'[d] = IF d = c THEN "waiting" ELSE pc[d]
    BY <1>0, <1>5, GotoTyped DEF Wait, Stages
  <2>2. pc[c] = "locked" /\ inProgress
    BY <1>5 DEF Wait, Misses
  <2>3. PICK f \in Call : pc[f] \in FetchStages
    BY <2>2 DEF FlowInv, SingleFlight
  <2>4. f # c /\ pc'[f] \in FetchStages
    BY <2>1, <2>2, <2>3 DEF FetchStages
  <2> SUFFICES ASSUME NEW w \in Call, pc'[w] = "waiting"
               PROVE  \E d \in Call : pc'[d] \in FetchStages /\ d[1] # w[1]
    BY DEF WaitersHaveAFetcher
  <2>5. pc[w] \in {"locked", "waiting"}
    BY <2>1, <2>2
  <2>6. f[1] # w[1]
    BY <2>3, <2>5, OtherThread
  <2> QED
    BY <2>4, <2>6
<1>6. ASSUME NEW c \in Call, StartFetch(c) \/ BuildSession(c) \/ Respond(c) \/ Stall(c) \/ Raise(c)
      PROVE  WaitersHaveAFetcher'
  <2>1. (\E s \in FetchStages : Proceed(c, s)) \/ (\E v \in Version \cup {Defaults} : Yield(c, v))
    BY <1>0, <1>6 DEF StartFetch, BuildSession, Respond, Stall, Raise, FetchStages, TypeOK
  <2>2. "store" \in FetchStages /\ \A s \in FetchStages : s \in Stages \ {"waiting"}
    BY DEF FetchStages, Stages
  <2>3. CASE \E s \in FetchStages : Proceed(c, s)
    BY <1>0, <2>2, <2>3, ProceedTyped, WaitersKept
  <2>4. CASE \E v \in Version \cup {Defaults} : Yield(c, v)
    BY <1>0, <2>2, <2>4, YieldTyped, WaitersKept
  <2> QED
    BY <2>1, <2>3, <2>4
<1>7. ASSUME NEW c \in Call, Store(c) PROVE WaitersHaveAFetcher'
  <2>1. \A d \in Call : pc'[d] # "waiting"
    BY <1>0, <1>7, StoreTyped
  <2> QED
    BY <2>1 DEF WaitersHaveAFetcher
<1>8. CASE pc' = pc
  BY <1>8 DEF WaitersHaveAFetcher
<1>9. CASE Invalidate \/ Edit \/ Tick \/ UNCHANGED vars
  BY <1>8, <1>9 DEF Invalidate, Edit, Tick, vars
<1> QED
  BY <1>1, <1>2, <1>3, <1>4, <1>5, <1>6, <1>7, <1>9 DEF Next, Local

\* No thread sleeps on the condition variable while nobody fetches, and none waits for a
\* fetch of its own (settings_client.py, get_settings): no wake-up is ever owed by nobody.
THEOREM WaitersAreWoken == Spec => []WaitersHaveAFetcher
<1>1. Init => FlowInv /\ WaitersHaveAFetcher
  BY InitialFlow
<1> QED
  BY <1>1, FlowStep, WaitersStep, PTL DEF Spec

-----------------------------------------------------------------------------
\* The parts of ValueInv after a step that touches neither the cache nor its history and
\* moves one call to a stage other than "store", with its settings kept or dropped.
LEMMA ValueKept ==
    ASSUME ValueInv, NEW c \in Call, NEW s \in Stages \ {"store"},
           \A d \in Call : pc'[d] = IF d = c THEN s ELSE pc[d],
           \A d \in Call : d # c => settings'[d] = settings[d],
           s # "idle" => settings'[c] = None,
           UNCHANGED <<cache, history>>
    PROVE  ValueInv'
<1> USE DEF history
<1>1. NothingBeforeTheAnswer'
  BY DEF ValueInv, NothingBeforeTheAnswer
<1>2. FallbackDated' /\ InvalidationForcesFetch'
  BY DEF ValueInv, FallbackDated, InvalidationForcesFetch
<1>3. AnswersCurrent'
  BY DEF ValueInv, AnswersCurrent
<1> QED
  BY <1>1, <1>2, <1>3 DEF ValueInv

\* The values in the cache and on their way to it, after every step.
LEMMA ValueStep ==
    FlowInv /\ ValueInv /\ [Next]_vars => ValueInv'
<1> SUFFICES ASSUME FlowInv, ValueInv, [Next]_vars PROVE ValueInv'
  OBVIOUS
<1> USE DEF shared, frames, history
<1>0. TypeOK /\ NothingBeforeTheAnswer
  BY DEF FlowInv, ValueInv
<1>1. ASSUME NEW c \in Call, NEW k \in CallKinds \cup {KeyLookup}, Enter(c, k) PROVE ValueInv'
  <2>1. \A d \in Call : pc'[d] = IF d = c THEN "entered" ELSE pc[d]
    BY <1>0, <1>1, GotoTyped DEF Enter, Stages
  <2>2. "entered" \in Stages \ {"store"}
    BY DEF Stages
  <2>3. settings'[c] = None /\ \A d \in Call : d # c => settings'[d] = settings[d]
    BY <1>0, <1>1 DEF Enter, TypeOK
  <2> QED
    BY <1>1, <2>1, <2>2, <2>3, ValueKept DEF Enter
<1>2. ASSUME NEW c \in Call, Overridden(c) \/ Recursion(c) \/ Hit(c) \/ GiveUp(c) PROVE ValueInv'
  <2>1. \A d \in Call : pc'[d] = IF d = c THEN "idle" ELSE pc[d]
    BY <1>0, <1>2, GotoTyped DEF Overridden, Recursion, Hit, GiveUp, Return, Stages
  <2>2. "idle" \in Stages \ {"store"}
    BY DEF Stages
  <2>3. UNCHANGED <<cache, history, settings>>
    BY <1>2 DEF Overridden, Recursion, Hit, GiveUp, Return
  <2> QED
    BY <2>1, <2>2, <2>3, ValueKept
<1>3. ASSUME NEW c \in Call, SetDeadline(c) \/ Claim(c) \/ Wait(c) \/ WakeUp(c) PROVE ValueInv'
  <2>1. /\ pc[c] \in {"entered", "locked", "waiting"}
        /\ \E s \in {"locked", "claimed", "waiting"} : Goto(c, s)
        /\ UNCHANGED <<cache, history, settings>>
    BY <1>3 DEF SetDeadline, Claim, Wait, WakeUp, Misses
  <2>2. PICK s \in {"locked", "claimed", "waiting"} :
            \A d \in Call : pc'[d] = IF d = c THEN s ELSE pc[d]
    BY <1>0, <2>1, GotoTyped DEF Stages
  <2>3. settings[c] = None /\ s \in Stages \ {"store"}
    BY <1>0, <2>1 DEF NothingBeforeTheAnswer, Stages
  <2> QED
    BY <2>1, <2>2, <2>3, ValueKept
<1>4. ASSUME NEW c \in Call, NEW v \in Version \cup {Defaults}, Yield(c, v) PROVE ValueInv'
  <2>1. /\ \A d \in Call : pc'[d] = IF d = c THEN "store" ELSE pc[d]
        /\ \A d \in Call : settings'[d] =
              IF d = c THEN [value |-> v, epoch |-> epoch] ELSE settings[d]
    BY <1>0, <1>4, YieldTyped
  <2>2. UNCHANGED <<cache, history>>
    BY <1>4 DEF Yield
  <2>3. NothingBeforeTheAnswer'
    BY <1>0, <2>1 DEF NothingBeforeTheAnswer
  <2>4. AnswersCurrent'
    <3>1. [value |-> v, epoch |-> epoch].epoch = epoch
      OBVIOUS
    <3> QED
      BY <2>1, <2>2, <3>1 DEF AnswersCurrent, ValueInv
  <2> QED
    BY <2>2, <2>3, <2>4 DEF ValueInv, FallbackDated, InvalidationForcesFetch
<1>5. ASSUME NEW c \in Call, NEW s \in FetchStages, Proceed(c, s), settings[c] = None
      PROVE  ValueInv'
  <2>1. s \in Stages
    BY DEF FetchStages, Stages
  <2>2. \A d \in Call : pc'[d] = IF d = c THEN s ELSE pc[d]
    BY <1>0, <1>5, <2>1, ProceedTyped
  <2>3. UNCHANGED <<cache, history, settings>>
    BY <1>5 DEF Proceed
  <2> QED
    BY <1>5, <2>2, <2>3 DEF ValueInv, NothingBeforeTheAnswer, AnswersCurrent, FallbackDated,
       InvalidationForcesFetch
<1>6. ASSUME NEW c \in Call, StartFetch(c) \/ BuildSession(c) \/ Respond(c) \/ Stall(c) \/ Raise(c)
      PROVE  ValueInv'
  <2>1. /\ pc[c] \notin {"idle", "store"}
        /\ (\E s \in FetchStages : Proceed(c, s)) \/ (\E v \in Version \cup {Defaults} : Yield(c, v))
    BY <1>0, <1>6 DEF StartFetch, BuildSession, Respond, Stall, Raise, FetchStages, TypeOK
  <2>2. settings[c] = None
    BY <1>0, <2>1 DEF NothingBeforeTheAnswer
  <2> QED
    BY <1>4, <1>5, <2>1, <2>2
<1>7. ASSUME NEW c \in Call, Store(c) PROVE ValueInv'
  <2>1. \A d \in Call : pc'[d] = IF d = c THEN "idle"
                                  ELSE IF pc[d] = "waiting" THEN "locked" ELSE pc[d]
    BY <1>0, <1>7, StoreTyped
  <2>2. pc[c] = "store" /\ UNCHANGED <<settings, epoch, overlapped>>
    BY <1>7 DEF Store
  <2>3. NothingBeforeTheAnswer' /\ AnswersCurrent'
    BY <1>0, <2>1, <2>2 DEF NothingBeforeTheAnswer, AnswersCurrent, ValueInv
  <2>4. CASE Caches(c)
    <3>1. cache' = [value |-> settings[c].value, epoch |-> settings[c].epoch, at |-> clock]
      BY <1>7, <2>4 DEF Store
    <3>2. /\ cache'.value = settings[c].value /\ cache'.epoch = settings[c].epoch
          /\ cache'.at = clock
      BY <3>1
    <3>3. FallbackDated'
      BY <1>7, <2>4, <3>2 DEF FallbackDated, Store, Caches
    <3>4. InvalidationForcesFetch'
      BY <2>2, <2>4, <3>2 DEF InvalidationForcesFetch, AnswersCurrent, ValueInv, Caches
    <3> QED
      BY <2>3, <3>3, <3>4 DEF ValueInv
  <2>5. CASE ~Caches(c)
    <3>1. cache' = cache /\ failedAt' = failedAt
      BY <1>7, <2>5 DEF Store, Caches
    <3> QED
      BY <2>2, <2>3, <3>1 DEF ValueInv, FallbackDated, InvalidationForcesFetch
  <2> QED
    BY <2>4, <2>5
<1>8. CASE Invalidate
  BY <1>8 DEF Invalidate, ValueInv, NothingBeforeTheAnswer, FallbackDated, AnswersCurrent,
     InvalidationForcesFetch
<1>9. CASE Edit \/ Tick \/ UNCHANGED vars
  <2>1. UNCHANGED <<pc, settings, cache, history>>
    BY <1>9 DEF Edit, Tick, vars
  <2> QED
    BY <2>1 DEF ValueInv, NothingBeforeTheAnswer, FallbackDated, AnswersCurrent,
       InvalidationForcesFetch
<1> QED
  BY <1>1, <1>2, <1>3, <1>6, <1>7, <1>8, <1>9 DEF Next, Local

\* invalidate_settings_cache: what is in the cache was asked for after the last
\* invalidation, unless an answer was already waiting to be stored at that moment.
THEOREM InvalidationHolds == Spec => []InvalidationForcesFetch
<1>1. Init => FlowInv /\ ValueInv
  BY InitialFlow
<1>2. ValueInv => InvalidationForcesFetch
  BY DEF ValueInv
<1> QED
  BY <1>1, <1>2, FlowStep, ValueStep, PTL DEF Spec

-----------------------------------------------------------------------------
\* A caller of get_settings gets the defaults only for a reason of its own, or from a
\* failure younger than the TTL that was allowed to be cached (cache_fallback).
THEOREM DefaultsAreExplained == Spec => DefaultsExplained
<1>1. Init => FlowInv /\ ValueInv
  BY InitialFlow
<1>2. ASSUME FlowInv, ValueInv, [Next]_vars, NEW c \in Call,
             pc[c] # "idle", pc'[c] = "idle", result'[c] = Defaults
      PROVE  \/ c[2] = 1
             \/ Expired(c)
             \/ settings[c] # None /\ settings[c].value = Defaults
             \/ args[c].useCache /\ failedAt # None /\ clock < failedAt + TTL
  <2> USE DEF shared, frames, history
  <2>0. TypeOK
    BY <1>2 DEF FlowInv
  <2>1. ASSUME NEW d \in Call, d # c, NEW s \in Stages, Goto(d, s) PROVE FALSE
    BY <1>2, <2>0, <2>1, GotoTyped
  <2>2. ASSUME NEW d \in Call, NEW k \in CallKinds \cup {KeyLookup}, Enter(d, k) PROVE FALSE
    BY <1>2, <2>0, <2>2, GotoTyped DEF Enter, Stages
  <2>3. ASSUME NEW d \in Call, Overridden(d) PROVE FALSE
    <3>1. d = c
      BY <2>1, <2>3 DEF Overridden, Return, Stages
    <3> QED
      BY <1>2, <2>0, <2>3, <3>1, SettingsConstants DEF Overridden, Return, TypeOK
  <2>4. ASSUME NEW d \in Call, Recursion(d) PROVE c[2] = 1
    <3>1. d = c
      BY <2>1, <2>4 DEF Recursion, Return, Stages
    <3>2. pc[c] = "entered" /\ depth[c[1]]
      BY <2>4, <3>1 DEF Recursion, InsideOwnFetch
    <3>3. pc[<<c[1], 0>>] \in FetchStages /\ c[1] \in Threads
      BY <1>2, <3>2, CallParts DEF FlowInv, DepthExact
    <3> QED
      BY <3>2, <3>3, CallParts DEF FetchStages
  <2>5. ASSUME NEW d \in Call, Hit(d)
        PROVE  args[c].useCache /\ failedAt # None /\ clock < failedAt + TTL
    <3>1. d = c
      BY <2>1, <2>5 DEF Hit, Return, Stages
    <3>2. args[c].useCache /\ Fresh /\ cache.value = Defaults
      BY <1>2, <2>0, <2>5, <3>1 DEF Hit, Return, TypeOK
    <3>3. cache # None /\ cache.at \in Nat /\ failedAt = cache.at
      BY <1>2, <2>0, <3>2 DEF Fresh, FallbackDated, ValueInv, TypeOK
    <3> QED
      BY <3>2, <3>3, SettingsConstants DEF Fresh
  <2>6. ASSUME NEW d \in Call, GiveUp(d) PROVE Expired(c)
    <3>1. d = c
      BY <2>1, <2>6 DEF GiveUp, Return, Stages
    <3> QED
      BY <2>6, <3>1 DEF GiveUp
  <2>7. ASSUME NEW d \in Call, SetDeadline(d) \/ Claim(d) \/ Wait(d) \/ WakeUp(d) PROVE FALSE
    <3>1. \E s \in {"locked", "claimed", "waiting"} : Goto(d, s)
      BY <2>7 DEF SetDeadline, Claim, Wait, WakeUp
    <3> QED
      BY <1>2, <2>0, <3>1, GotoTyped DEF Stages
  <2>8. ASSUME NEW d \in Call,
               StartFetch(d) \/ BuildSession(d) \/ Respond(d) \/ Stall(d) \/ Raise(d)
        PROVE  FALSE
    <3>1. \E s \in FetchStages : Goto(d, s)
      BY <2>8 DEF StartFetch, BuildSession, Respond, Stall, Raise, Proceed, Yield, FetchStages
    <3> QED
      BY <1>2, <2>0, <3>1, GotoTyped DEF Stages, FetchStages
  <2>9. ASSUME NEW d \in Call, Store(d)
        PROVE  settings[c] # None /\ settings[c].value = Defaults
    <3>1. d = c
      BY <1>2, <2>0, <2>9, StoreTyped
    <3>2. result'[c] = IF settings[c] = None THEN None ELSE settings[c].value
      BY <2>0, <2>9, <3>1 DEF Store, TypeOK
    <3> QED
      BY <1>2, <3>2, SettingsConstants
  <2>10. CASE Invalidate \/ Edit \/ Tick \/ UNCHANGED vars
    BY <1>2, <2>10 DEF Invalidate, Edit, Tick, vars
  <2> QED
    BY <1>2, <2>2, <2>3, <2>4, <2>5, <2>6, <2>7, <2>8, <2>9, <2>10 DEF Next, Local
<1>3. FlowInv /\ ValueInv /\ [Next]_vars =>
        [\A c \in Call :
            pc[c] # "idle" /\ pc'[c] = "idle" /\ result'[c] = Defaults =>
                \/ c[2] = 1
                \/ Expired(c)
                \/ settings[c] # None /\ settings[c].value = Defaults
                \/ args[c].useCache /\ failedAt # None /\ clock < failedAt + TTL]_vars
  BY <1>2
<1> QED
  BY <1>1, <1>3, FlowStep, ValueStep, PTL DEF Spec, DefaultsExplained
=============================================================================

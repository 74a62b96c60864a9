-------------------------- MODULE ConnectionProofs --------------------------
(***************************************************************************)
(* Proofs about the two kinds of connection that stay open: the terminals  *)
(* of TerminalSessions, for any finite sets of sessions and connections,   *)
(* any limit and any timeouts; and the event stream of SyncStream, for any *)
(* number of stages and of events.                                         *)
(***************************************************************************)
EXTENDS TerminalSessions, SyncStream, FiniteSetTheorems, SequenceTheorems, TLAPS

\* A handler that serves, and the tasks it started, have a session.
Served ==
    \A h \in Handlers :
        pc[h] \in Live \/ output[h] # "none" \/ input[h] # "none" => session[h] # None

\* A session that a handler has, or had, was paid for with its ticket.
TicketsUsed ==
    \A h \in Handlers : session[h] # None => session[h] \in consumed

\* A served session within its lifetime is in the table.
ServedInTable ==
    \A h \in Handlers : InTime(h) => session[h] \in table

TableBounded == Cardinality(table) <= MaxSessions

TicketInv == TypeOK /\ Served /\ TicketsUsed /\ OneRelayPerTicket
SlotInv == NoSlotLeak /\ ServedInTable /\ TableBounded

-----------------------------------------------------------------------------
LEMMA CleanedPart == Cleaned \subseteq table
BY DEF Cleaned

LEMMA MoveTyped ==
    ASSUME TypeOK, NEW h \in Handlers, NEW s \in Stages, Move(h, s)
    PROVE  /\ pc' \in [Handlers -> Stages]
           /\ \A g \in Handlers : pc'[g] = IF g = h THEN s ELSE pc[g]
           /\ UNCHANGED <<clock, table, issued, created, active, consumed, session>>
BY DEF TypeOK, Move, objects

LEMMA ActivityTyped ==
    ASSUME TypeOK, NEW h \in Handlers, MarkActivity(h)
    PROVE  active' \in [Sessions -> Nat]
BY DEF TypeOK, MarkActivity

LEMMA StopTyped ==
    ASSUME TypeOK, NEW h \in Handlers, StopTasks(h)
    PROVE  /\ output' \in [Handlers -> OutputStates]
           /\ input' \in [Handlers -> InputStates]
           /\ deadline' \in [Handlers -> Nat]
           /\ \A g \in Handlers : g # h => output'[g] = output[g] /\ input'[g] = input[g]
BY DEF TypeOK, StopTasks, OutputStates, InputStates

LEMMA DeadlineTyped ==
    ASSUME TypeOK, NEW h \in Handlers, session[h] # None
    PROVE  ReadDeadline(h) \in Nat
<1>1. active[session[h]] \in Nat /\ created[session[h]] \in Nat
  BY DEF TypeOK
<1> QED
  BY <1>1, TerminalConstants DEF ReadDeadline, Least

\* The steps of the two tasks of a relay: they change neither the table nor who is served.
RelayStep(h) ==
    \/ OutputChunk(h) \/ OutputEnds(h) \/ BeginRead(h) \/ Receive(h) \/ Disconnect(h)
    \/ ReadTimesOut(h) \/ Part(h) \/ PartUnread(h) \/ Drain(h) \/ Block(h)

LEMMA RelayFrame ==
    ASSUME NEW h \in Handlers, RelayStep(h)
    PROVE  UNCHANGED <<clock, table, issued, created, consumed, pc, session>>
BY DEF RelayStep, OutputChunk, OutputEnds, BeginRead, Receive, Disconnect, ReadTimesOut,
   Part, PartUnread, Drain, Block, InputTo, objects

LEMMA RelayTyped ==
    ASSUME TicketInv, NEW h \in Handlers, RelayStep(h)
    PROVE  TypeOK' /\ Served'
<1>0. TypeOK /\ Served
  BY DEF TicketInv
<1>1. UNCHANGED <<clock, table, issued, created, consumed, pc, session>>
  BY RelayFrame
<1>2. session[h] # None
  BY <1>0 DEF Served, RelayStep, OutputChunk, OutputEnds, BeginRead, Receive, Disconnect,
     ReadTimesOut, Part, PartUnread, Drain, Block
<1>3. active' \in [Sessions -> Nat]
  <2>1. MarkActivity(h) \/ active' = active
    BY DEF RelayStep, OutputChunk, OutputEnds, BeginRead, Receive, Disconnect, ReadTimesOut,
       Part, PartUnread, Drain, Block, objects
  <2> QED
    BY <1>0, <2>1, ActivityTyped DEF TypeOK
<1>4. /\ output' \in [Handlers -> OutputStates]
      /\ \A g \in Handlers : g # h => output'[g] = output[g]
  BY <1>0 DEF TypeOK, RelayStep, OutputChunk, OutputEnds, BeginRead, Receive, Disconnect,
     ReadTimesOut, Part, PartUnread, Drain, Block, InputTo, relay, OutputStates
<1>5. input' = input \/ \E s \in InputStates : InputTo(h, s)
  BY DEF RelayStep, OutputChunk, OutputEnds, BeginRead, Receive, Disconnect, ReadTimesOut,
     Part, PartUnread, Drain, Block, relay, InputStates
<1>6. /\ input' \in [Handlers -> InputStates]
      /\ \A g \in Handlers : g # h => input'[g] = input[g]
  BY <1>0, <1>5 DEF TypeOK, InputTo
<1>7. deadline' \in [Handlers -> Nat]
  <2>1. deadline' = deadline \/ deadline' = [deadline EXCEPT ![h] = ReadDeadline(h)]
    BY DEF RelayStep, OutputChunk, OutputEnds, BeginRead, Receive, Disconnect, ReadTimesOut,
       Part, PartUnread, Drain, Block, relay
  <2> QED
    BY <1>0, <1>2, <2>1, DeadlineTyped DEF TypeOK
<1>8. TypeOK'
  BY <1>0, <1>1, <1>3, <1>4, <1>6, <1>7 DEF TypeOK
<1>9. Served'
  BY <1>0, <1>1, <1>2, <1>4, <1>6 DEF Served
<1> QED
  BY <1>8, <1>9

-----------------------------------------------------------------------------
\* The handler's own steps: they change where it is and its tasks, and only of a handler
\* that serves.
HandlerStep(h) ==
    \/ FetchCredential(h) \/ Connect(h) \/ Finish(h) \/ CloseProcess(h)
    \/ Farewell(h) \/ FarewellUnread(h) \/ Cancel(h)

LEMMA HandlerFrame ==
    ASSUME TypeOK, NEW h \in Handlers, HandlerStep(h)
    PROVE  /\ pc[h] \in Live
           /\ pc' \in [Handlers -> Stages]
           /\ pc'[h] \in Live /\ \A g \in Handlers : g # h => pc'[g] = pc[g]
           /\ UNCHANGED <<clock, table, issued, created, active, consumed, session>>
<1>1. pc[h] \in Live
  BY DEF HandlerStep, FetchCredential, Connect, Finish, CloseProcess,
     Farewell, FarewellUnread, Cancel, Live, Stages
<1>2. \E s \in Live : Move(h, s)
  BY DEF HandlerStep, FetchCredential, Connect, Finish, CloseProcess,
     Farewell, FarewellUnread, Cancel, Live, Stages
<1>3. PICK s \in Live : Move(h, s)
  BY <1>2
<1>4. s \in Stages
  BY DEF Live
<1> QED
  BY <1>1, <1>3, <1>4, MoveTyped

LEMMA HandlerTyped ==
    ASSUME TicketInv, NEW h \in Handlers, HandlerStep(h)
    PROVE  TypeOK' /\ Served'
<1>0. TypeOK /\ Served
  BY DEF TicketInv
<1>1. /\ pc[h] \in Live
      /\ pc' \in [Handlers -> Stages]
      /\ \A g \in Handlers : g # h => pc'[g] = pc[g]
      /\ UNCHANGED <<clock, table, issued, created, active, consumed, session>>
  BY <1>0, HandlerFrame
<1>2. session[h] # None
  BY <1>0, <1>1 DEF Served
<1>3. /\ output' \in [Handlers -> OutputStates]
      /\ input' \in [Handlers -> InputStates]
      /\ deadline' \in [Handlers -> Nat]
      /\ \A g \in Handlers : g # h => output'[g] = output[g] /\ input'[g] = input[g]
  <2>1. CASE StopTasks(h)
    BY <1>0, <2>1, StopTyped
  <2>2. CASE UNCHANGED relay
    BY <1>0, <2>2 DEF relay, TypeOK
  <2>3. CASE Connect(h)
    BY <1>0, <2>3 DEF Connect, relay, TypeOK, OutputStates, InputStates
  <2> QED
    BY <2>1, <2>2, <2>3 DEF HandlerStep, FetchCredential, Finish, CloseProcess,
       Farewell, FarewellUnread, Cancel
<1>4. TypeOK'
  BY <1>0, <1>1, <1>3 DEF TypeOK
<1>5. Served'
  BY <1>0, <1>1, <1>2, <1>3 DEF Served
<1> QED
  BY <1>4, <1>5

-----------------------------------------------------------------------------
\* What the manager's two methods do.
LEMMA CreateFrame ==
    ASSUME TypeOK, NEW i \in Sessions, Create(i)
    PROVE  /\ i \notin issued
           /\ \/ table' = Cleaned /\ issued' = issued /\ created' = created
              \/ /\ Cardinality(Cleaned) < MaxSessions
                 /\ table' = Cleaned \cup {i} /\ issued' = issued \cup {i}
                 /\ created' = [created EXCEPT ![i] = clock]
           /\ active' \in [Sessions -> Nat]
           /\ UNCHANGED <<clock, consumed, pc, session, output, input, deadline>>
<1>1. Cleaned \in SUBSET Sessions
  BY CleanedPart DEF TypeOK
<1>2. Cardinality(Cleaned) \in Nat
  BY <1>1, TerminalConstants, FS_Subset, FS_CardinalityType
<1> QED
  BY <1>2, TerminalConstants DEF Create, objects, relay, TypeOK

LEMMA AuthenticateFrame ==
    ASSUME TypeOK, NEW h \in Handlers, NEW i \in Sessions, NEW right \in BOOLEAN,
           Authenticate(h, i, right)
    PROVE  /\ pc[h] = "idle" /\ table' = Cleaned
           /\ pc' \in [Handlers -> Stages] /\ \A g \in Handlers : g # h => pc'[g] = pc[g]
           /\ active' \in [Sessions -> Nat]
           /\ \/ /\ i \in Cleaned /\ i \notin consumed
                 /\ consumed' = consumed \cup {i} /\ pc'[h] = "credential"
                 /\ session' = [session EXCEPT ![h] = i]
              \/ consumed' = consumed /\ session' = session /\ pc'[h] = "ended"
           /\ UNCHANGED <<clock, issued, created, output, input, deadline>>
<1>1. CASE Accepted(i, right)
  BY <1>1 DEF Authenticate, Accepted, relay, TypeOK, Stages
<1>2. CASE ~Accepted(i, right)
  BY <1>2 DEF Authenticate, relay, TypeOK, Stages
<1> QED
  BY <1>1, <1>2

LEMMA ReleaseFrame ==
    ASSUME TypeOK, NEW h \in Handlers, Release(h)
    PROVE  /\ pc[h] = "leaving" /\ table' = table \ {session[h]}
           /\ pc' \in [Handlers -> Stages]
           /\ \A g \in Handlers : pc'[g] = IF g = h THEN "ended" ELSE pc[g]
           /\ StopTasks(h)
           /\ UNCHANGED <<clock, issued, created, active, consumed, session>>
BY DEF Release, objects, TypeOK, Stages

\* One-shot tickets, after every step.
LEMMA TicketStep ==
    TicketInv /\ [Next]_vars => TicketInv'
<1> SUFFICES ASSUME TicketInv, [Next]_vars PROVE TicketInv'
  OBVIOUS
<1>0. TypeOK /\ Served /\ TicketsUsed /\ OneRelayPerTicket
  BY DEF TicketInv
<1>1. ASSUME NEW i \in Sessions, Create(i) PROVE TicketInv'
  <2>1. TypeOK'
    BY <1>0, <1>1, CreateFrame, CleanedPart DEF TypeOK
  <2> QED
    BY <1>0, <1>1, <2>1, CreateFrame DEF TicketInv, Served, TicketsUsed, OneRelayPerTicket
<1>2. ASSUME NEW h \in Handlers, NEW i \in Sessions, NEW right \in BOOLEAN,
             Authenticate(h, i, right)
      PROVE  TicketInv'
  <2>1. /\ table' = Cleaned
        /\ pc' \in [Handlers -> Stages] /\ \A g \in Handlers : g # h => pc'[g] = pc[g]
        /\ active' \in [Sessions -> Nat]
        /\ UNCHANGED <<clock, issued, created, output, input, deadline>>
    BY <1>0, <1>2, AuthenticateFrame
  <2>2. CASE /\ i \in Cleaned /\ i \notin consumed
             /\ consumed' = consumed \cup {i} /\ pc'[h] = "credential"
             /\ session' = [session EXCEPT ![h] = i]
    <3>1. /\ session' \in [Handlers -> Sessions \cup {None}] /\ session'[h] = i
          /\ \A g \in Handlers : g # h => session'[g] = session[g]
      BY <1>0, <2>2 DEF TypeOK
    <3>2. TypeOK'
      BY <1>0, <2>1, <2>2, <3>1, CleanedPart DEF TypeOK
    <3>3. Served' /\ TicketsUsed'
      BY <1>0, <2>1, <2>2, <3>1, TerminalConstants DEF Served, TicketsUsed
    <3>4. OneRelayPerTicket'
      BY <1>0, <2>2, <3>1 DEF OneRelayPerTicket, TicketsUsed
    <3> QED
      BY <3>2, <3>3, <3>4 DEF TicketInv
  <2>3. CASE consumed' = consumed /\ session' = session /\ pc'[h] = "ended"
    <3>1. TypeOK'
      BY <1>0, <2>1, <2>3, CleanedPart DEF TypeOK
    <3>2. Served' /\ TicketsUsed' /\ OneRelayPerTicket'
      BY <1>0, <2>1, <2>3 DEF Served, TicketsUsed, OneRelayPerTicket, Live
    <3> QED
      BY <3>1, <3>2 DEF TicketInv
  <2> QED
    BY <1>0, <1>2, <2>2, <2>3, AuthenticateFrame
<1>3. ASSUME NEW h \in Handlers, RelayStep(h) PROVE TicketInv'
  BY <1>0, <1>3, RelayTyped, RelayFrame DEF TicketInv, TicketsUsed, OneRelayPerTicket
<1>4. ASSUME NEW h \in Handlers, HandlerStep(h) PROVE TicketInv'
  BY <1>0, <1>4, HandlerTyped, HandlerFrame DEF TicketInv, TicketsUsed, OneRelayPerTicket
<1>5. ASSUME NEW h \in Handlers, Release(h) PROVE TicketInv'
  <2>1. session[h] # None
    BY <1>0, <1>5 DEF Served, Release, Live, Stages
  <2>2. TypeOK'
    BY <1>0, <1>5, ReleaseFrame, StopTyped DEF TypeOK
  <2>3. Served'
    BY <1>0, <1>5, <2>1, ReleaseFrame, StopTyped DEF Served
  <2> QED
    BY <1>0, <1>5, <2>2, <2>3, ReleaseFrame DEF TicketInv, TicketsUsed, OneRelayPerTicket
<1>6. CASE Tick
  BY <1>0, <1>6 DEF Tick, TicketInv, TypeOK, Served, TicketsUsed, OneRelayPerTicket, objects, relay
<1>7. CASE UNCHANGED vars
  BY <1>0, <1>7 DEF vars, TicketInv, TypeOK, Served, TicketsUsed, OneRelayPerTicket, objects, relay
<1> QED
  BY <1>1, <1>2, <1>3, <1>4, <1>5, <1>6, <1>7 DEF Next, RelayStep, HandlerStep

LEMMA TicketInit ==
    Init => TicketInv
<1> SUFFICES ASSUME Init PROVE TicketInv
  OBVIOUS
<1>1. TypeOK
  BY DEF Init, TypeOK, Stages, OutputStates, InputStates
<1>2. Served /\ TicketsUsed /\ OneRelayPerTicket
  BY DEF Init, Served, TicketsUsed, OneRelayPerTicket, Live
<1> QED
  BY <1>1, <1>2 DEF TicketInv

\* The type invariant; the table and the used tickets are of sessions handed out.
THEOREM TypeCorrect == Spec => []TypeOK
<1>1. TicketInv => TypeOK
  BY DEF TicketInv
<1> QED
  BY <1>1, TicketInit, TicketStep, PTL DEF Spec

\* consume_ticket lets a ticket open one relay, however many connections send it and
\* whatever expires or is released in between (services/ssh_terminal.py).
THEOREM TicketsAreOneShot == Spec => []OneRelayPerTicket
<1>1. TicketInv => OneRelayPerTicket
  BY DEF TicketInv
<1> QED
  BY <1>1, TicketInit, TicketStep, PTL DEF Spec

-----------------------------------------------------------------------------
\* A cleanup keeps the session of every handler in its lifetime, and the bound.
LEMMA CleanupKeeps ==
    ASSUME TicketInv, SlotInv
    PROVE  /\ \A h \in Handlers : InTime(h) => session[h] \in Cleaned
           /\ IsFiniteSet(Cleaned) /\ Cardinality(Cleaned) \in Nat
           /\ Cardinality(Cleaned) <= MaxSessions
<1>1. \A h \in Handlers : InTime(h) => session[h] \in Cleaned
  <2> SUFFICES ASSUME NEW h \in Handlers, InTime(h) PROVE session[h] \in Cleaned
    OBVIOUS
  <2>1. session[h] \in table
    BY DEF SlotInv, ServedInTable
  <2>2. session[h] \in consumed
    BY DEF TicketInv, Served, TicketsUsed, InTime
  <2> QED
    BY <2>1, <2>2 DEF Cleaned, InTime
<1>2. IsFiniteSet(table)
  <2>1. table \in SUBSET Sessions
    BY DEF TicketInv, TypeOK
  <2> QED
    BY <2>1, TerminalConstants, FS_Subset
<1>3. IsFiniteSet(Cleaned) /\ Cardinality(Cleaned) <= Cardinality(table)
  <2>1. Cleaned \in SUBSET table
    BY CleanedPart
  <2> QED
    BY <1>2, <2>1, FS_Subset
<1>4. Cardinality(Cleaned) \in Nat /\ Cardinality(table) \in Nat
  BY <1>2, <1>3, FS_CardinalityType
<1> QED
  BY <1>1, <1>3, <1>4, TerminalConstants DEF SlotInv, TableBounded

\* The three parts after a step that moves no session in or out of the table or of its
\* lifetime.
LEMMA SlotsKept ==
    ASSUME SlotInv,
           UNCHANGED <<table, consumed, session, created, clock>>,
           \A h \in Handlers : pc'[h] \in Live <=> pc[h] \in Live
    PROVE  SlotInv'
<1>1. NoSlotLeak'
  BY DEF SlotInv, NoSlotLeak
<1>2. ServedInTable'
  BY DEF SlotInv, ServedInTable, InTime, PastLifetime
<1> QED
  BY <1>1, <1>2 DEF SlotInv, TableBounded

\* Places in the table, after every step.
LEMMA SlotStep ==
    TicketInv /\ SlotInv /\ [Next]_vars => SlotInv'
<1> SUFFICES ASSUME TicketInv, SlotInv, [Next]_vars PROVE SlotInv'
  OBVIOUS
<1>0. TypeOK /\ Served /\ TicketsUsed /\ OneRelayPerTicket
  BY DEF TicketInv
<1>1. ASSUME NEW i \in Sessions, Create(i) PROVE SlotInv'
  <2>1. i \notin issued /\ UNCHANGED <<clock, consumed, pc, session>>
    BY <1>0, <1>1, CreateFrame
  <2>2. i \notin consumed
    BY <1>0, <2>1 DEF TypeOK
  <2>3. \/ table' = Cleaned /\ created' = created
        \/ /\ Cardinality(Cleaned) < MaxSessions
           /\ table' = Cleaned \cup {i} /\ created' = [created EXCEPT ![i] = clock]
    BY <1>0, <1>1, CreateFrame
  <2>4. NoSlotLeak'
    BY <2>1, <2>2, <2>3, CleanedPart DEF SlotInv, NoSlotLeak
  <2>5. ServedInTable'
    <3> SUFFICES ASSUME NEW h \in Handlers, InTime(h)' PROVE session'[h] \in table'
      BY DEF ServedInTable
    <3>1. pc[h] \in Live /\ session[h] \in consumed /\ session[h] # i /\ session[h] \in Sessions
      BY <1>0, <2>1, <2>2 DEF InTime, Served, TicketsUsed, TypeOK
    <3>2. created'[session[h]] = created[session[h]]
      BY <1>0, <2>3, <3>1 DEF TypeOK
    <3>3. InTime(h)
      BY <2>1, <3>1, <3>2 DEF InTime, PastLifetime
    <3>4. session[h] \in Cleaned
      BY <3>3, CleanupKeeps
    <3> QED
      BY <2>1, <2>3, <3>4
  <2>6. TableBounded'
    <3>1. CASE table' = Cleaned
      BY <3>1, CleanupKeeps DEF TableBounded
    <3>2. CASE Cardinality(Cleaned) < MaxSessions /\ table' = Cleaned \cup {i}
      <4>0. IsFiniteSet(Cleaned) /\ Cardinality(Cleaned) \in Nat
        BY CleanupKeeps
      <4>1. Cardinality(Cleaned \cup {i}) <= Cardinality(Cleaned) + 1
        <5>1. Cardinality(Cleaned \cup {i}) =
                IF i \in Cleaned THEN Cardinality(Cleaned) ELSE Cardinality(Cleaned) + 1
          BY <4>0, FS_AddElement
        <5> QED
          BY <4>0, <5>1
      <4>2. Cardinality(Cleaned \cup {i}) \in Nat
        BY <4>0, FS_AddElement, FS_CardinalityType
      <4> QED
        BY <3>2, <4>0, <4>1, <4>2, TerminalConstants DEF TableBounded
    <3> QED
      BY <2>3, <3>1, <3>2
  <2> QED
    BY <2>4, <2>5, <2>6 DEF SlotInv
<1>2. ASSUME NEW h \in Handlers, NEW i \in Sessions, NEW right \in BOOLEAN,
             Authenticate(h, i, right)
      PROVE  SlotInv'
  <2>1. /\ pc[h] = "idle" /\ table' = Cleaned
        /\ \A g \in Handlers : g # h => pc'[g] = pc[g]
        /\ UNCHANGED <<clock, created>>
    BY <1>0, <1>2, AuthenticateFrame
  <2>2. TableBounded'
    BY <2>1, CleanupKeeps DEF TableBounded
  <2>3. CASE /\ i \in Cleaned /\ i \notin consumed
             /\ consumed' = consumed \cup {i} /\ pc'[h] = "credential"
             /\ session' = [session EXCEPT ![h] = i]
    <3>1. session'[h] = i /\ \A g \in Handlers : g # h => session'[g] = session[g]
      BY <1>0, <2>3 DEF TypeOK
    <3>2. NoSlotLeak'
      <4> SUFFICES ASSUME NEW j \in table' \cap consumed'
                   PROVE  \E g \in Handlers : session'[g] = j /\ pc'[g] \in Live
        BY DEF NoSlotLeak
      <4>1. CASE j = i
        BY <2>3, <3>1, <4>1 DEF Live, Stages
      <4>2. CASE j # i
        <5>1. j \in table /\ j \in consumed
          BY <2>1, <2>3, <4>2, CleanedPart
        <5>2. PICK g \in Handlers : session[g] = j /\ pc[g] \in Live
          BY <5>1 DEF SlotInv, NoSlotLeak
        <5>3. g # h
          BY <2>1, <5>2 DEF Live
        <5> QED
          BY <2>1, <3>1, <5>2, <5>3
      <4> QED
        BY <4>1, <4>2
    <3>3. ServedInTable'
      <4> SUFFICES ASSUME NEW g \in Handlers, InTime(g)' PROVE session'[g] \in table'
        BY DEF ServedInTable
      <4>1. CASE g = h
        BY <2>1, <2>3, <3>1, <4>1
      <4>2. CASE g # h
        <5>1. InTime(g)
          BY <2>1, <3>1, <4>2 DEF InTime, PastLifetime
        <5> QED
          BY <2>1, <3>1, <4>2, <5>1, CleanupKeeps
      <4> QED
        BY <4>1, <4>2
    <3> QED
      BY <2>2, <3>2, <3>3 DEF SlotInv
  <2>4. CASE consumed' = consumed /\ session' = session /\ pc'[h] = "ended"
    <3>1. \A g \in Handlers : pc'[g] \in Live <=> pc[g] \in Live
      BY <2>1, <2>4 DEF Live
    <3>2. NoSlotLeak'
      BY <2>1, <2>4, <3>1, CleanedPart DEF SlotInv, NoSlotLeak
    <3>3. ServedInTable'
      <4> SUFFICES ASSUME NEW g \in Handlers, InTime(g)' PROVE session'[g] \in table'
        BY DEF ServedInTable
      <4>1. InTime(g)
        BY <2>1, <2>4, <3>1 DEF InTime, PastLifetime
      <4> QED
        BY <2>1, <2>4, <4>1, CleanupKeeps
    <3> QED
      BY <2>2, <3>2, <3>3 DEF SlotInv
  <2> QED
    BY <1>0, <1>2, <2>3, <2>4, AuthenticateFrame
<1>3. ASSUME NEW h \in Handlers, RelayStep(h) PROVE SlotInv'
  <2>1. UNCHANGED <<clock, table, created, consumed, pc, session>>
    BY <1>3, RelayFrame
  <2> QED
    BY <2>1, SlotsKept
<1>4. ASSUME NEW h \in Handlers, HandlerStep(h) PROVE SlotInv'
  <2>1. /\ UNCHANGED <<clock, table, created, consumed, session>>
        /\ \A g \in Handlers : pc'[g] \in Live <=> pc[g] \in Live
    BY <1>0, <1>4, HandlerFrame
  <2> QED
    BY <2>1, SlotsKept
<1>5. ASSUME NEW h \in Handlers, Release(h) PROVE SlotInv'
  <2>1. /\ pc[h] = "leaving" /\ table' = table \ {session[h]}
        /\ \A g \in Handlers : pc'[g] = IF g = h THEN "ended" ELSE pc[g]
        /\ UNCHANGED <<clock, created, consumed, session>>
    BY <1>0, <1>5, ReleaseFrame
  <2>2. NoSlotLeak'
    <3> SUFFICES ASSUME NEW j \in table' \cap consumed'
                 PROVE  \E g \in Handlers : session'[g] = j /\ pc'[g] \in Live
      BY DEF NoSlotLeak
    <3>1. PICK g \in Handlers : session[g] = j /\ pc[g] \in Live
      BY <2>1 DEF SlotInv, NoSlotLeak
    <3>2. g # h
      BY <2>1, <3>1
    <3> QED
      BY <2>1, <3>1, <3>2
  <2>3. ServedInTable'
    <3> SUFFICES ASSUME NEW g \in Handlers, InTime(g)' PROVE session'[g] \in table'
      BY DEF ServedInTable
    <3>1. g # h /\ pc[g] \in Live /\ InTime(g)
      BY <2>1 DEF InTime, PastLifetime, Live
    <3>2. session[g] \in table
      BY <3>1 DEF SlotInv, ServedInTable
    <3>3. session[g] # session[h]
      BY <1>0, <3>1 DEF Served, OneRelayPerTicket
    <3> QED
      BY <2>1, <3>2, <3>3
  <2>4. TableBounded'
    <3>1. table \in SUBSET Sessions
      BY <1>0 DEF TypeOK
    <3>2. IsFiniteSet(table)
      BY <3>1, TerminalConstants, FS_Subset
    <3>3. table' \in SUBSET table
      BY <2>1
    <3>4. Cardinality(table') <= Cardinality(table) /\ IsFiniteSet(table')
      BY <3>2, <3>3, FS_Subset
    <3>5. Cardinality(table) \in Nat /\ Cardinality(table') \in Nat
      BY <3>2, <3>4, FS_CardinalityType
    <3> QED
      BY <3>4, <3>5, TerminalConstants DEF SlotInv, TableBounded
  <2> QED
    BY <2>2, <2>3, <2>4 DEF SlotInv
<1>6. CASE Tick
  <2>1. clock' = clock + 1 /\ UNCHANGED <<table, created, consumed, pc, session>>
    BY <1>6 DEF Tick, objects
  <2>2. ServedInTable'
    <3> SUFFICES ASSUME NEW h \in Handlers, InTime(h)' PROVE session'[h] \in table'
      BY DEF ServedInTable
    <3>1. pc[h] \in Live /\ session[h] \in Sessions
      BY <1>0, <2>1 DEF InTime, Served, TypeOK
    <3>2. created[session[h]] \in Nat /\ clock \in Nat
      BY <1>0, <3>1 DEF TypeOK
    <3>3. InTime(h)
      BY <2>1, <3>1, <3>2, TerminalConstants DEF InTime, PastLifetime
    <3> QED
      BY <2>1, <3>3 DEF SlotInv, ServedInTable
  <2> QED
    BY <2>1, <2>2 DEF SlotInv, NoSlotLeak, TableBounded
<1>7. CASE UNCHANGED vars
  BY <1>7, SlotsKept DEF vars, objects
<1> QED
  BY <1>1, <1>2, <1>3, <1>4, <1>5, <1>6, <1>7 DEF Next, RelayStep, HandlerStep

LEMMA SlotInit ==
    Init => SlotInv
<1> SUFFICES ASSUME Init PROVE SlotInv
  OBVIOUS
<1>1. NoSlotLeak /\ ServedInTable
  BY DEF Init, NoSlotLeak, ServedInTable, InTime, Live
<1>2. TableBounded
  BY FS_EmptySet, TerminalConstants DEF Init, TableBounded
<1> QED
  BY <1>1, <1>2 DEF SlotInv

\* Every session whose ticket was used leaves the table with its handler: no path through
\* ssh_terminal_websocket loses a place for good.
THEOREM PlacesAreReturned == Spec => []NoSlotLeak
<1>1. SlotInv => NoSlotLeak
  BY DEF SlotInv
<1> QED
  BY <1>1, TicketInit, TicketStep, SlotInit, SlotStep, PTL DEF Spec

\* One session per connection, each in the table, bounds the connections.
LEMMA PlacesBound ==
    TicketInv /\ SlotInv => CapacityKept
<1> SUFFICES ASSUME TicketInv, SlotInv PROVE CapacityKept
  OBVIOUS
<1> DEFINE Counted == {h \in Handlers : InTime(h)}
<1>1. IsFiniteSet(Counted) /\ Cardinality(Counted) \in Nat
  <2>1. Counted \in SUBSET Handlers
    OBVIOUS
  <2>2. IsFiniteSet(Counted)
    BY <2>1, TerminalConstants, FS_Subset
  <2> QED
    BY <2>2, FS_CardinalityType
<1>2. IsFiniteSet(table) /\ Cardinality(table) \in Nat
  <2>1. table \in SUBSET Sessions
    BY DEF TicketInv, TypeOK
  <2>2. IsFiniteSet(table)
    BY <2>1, TerminalConstants, FS_Subset
  <2> QED
    BY <2>2, FS_CardinalityType
<1>3. Cardinality(Counted) <= Cardinality(table)
  <2> SUFFICES ASSUME Cardinality(table) < Cardinality(Counted) PROVE FALSE
    BY <1>1, <1>2
  <2> DEFINE place == [h \in Counted |-> session[h]]
  <2>1. place \in [Counted -> table]
    BY DEF SlotInv, ServedInTable
  <2>2. PICK g, h \in Counted : g # h /\ place[g] = place[h]
    <3> HIDE DEF place, Counted
    <3> QED
      BY <1>1, <1>2, <2>1, FS_PigeonHole
  <2>3. session[g] = session[h] /\ session[g] # None
    BY <2>2 DEF TicketInv, Served, InTime
  <2> QED
    BY <2>2, <2>3 DEF TicketInv, OneRelayPerTicket
<1> QED
  BY <1>1, <1>2, <1>3, TerminalConstants DEF CapacityKept, SlotInv, TableBounded

\* max_sessions bounds the connections served within their lifetime, whatever creates,
\* uses, expires and releases sessions in which order (services/ssh_terminal.py).
THEOREM CapacityHolds == Spec => []CapacityKept
BY PlacesBound, TicketInit, TicketStep, SlotInit, SlotStep, PTL DEF Spec

-----------------------------------------------------------------------------
(***************************************************************************)
(* The event stream.                                                       *)
(***************************************************************************)

\* The bridge of a stage: the events not relayed yet, then the end, once its task is over.
Bridge(s) ==
    /\ relayed[s] <= emitted[s]
    /\ task[s] = "none" => emitted[s] = 0 /\ queue[s] = << >>
    /\ task[s] = "running" =>
          /\ Len(queue[s]) = emitted[s] - relayed[s]
          /\ \A i \in 1..Len(queue[s]) : queue[s][i] = "event"
    /\ task[s] \in Ends =>
          \/ relayed[s] = emitted[s] /\ queue[s] = << >>
          \/ /\ Len(queue[s]) = emitted[s] - relayed[s] + 1
             /\ \A i \in 1..Len(queue[s]) - 1 : queue[s][i] = "event"
             /\ queue[s][Len(queue[s])] = "end"

Bridges == \A s \in Stage : Bridge(s)

Finished(s) == task[s] = "returned" /\ relayed[s] = emitted[s]

\* Where the generator is says which stages are over.
Order ==
    /\ kind = "stage" \/ at = "start" => stage = 1
    /\ kind = "full" => \A s \in Stage : /\ s < stage => Finished(s)
                                         /\ s > stage => task[s] = "none"
    /\ at = "start" \/ (at = "opened" /\ kind = "full") => task[stage] = "none"
    /\ at = "join" => task[stage] \in Ends /\ relayed[stage] = emitted[stage]
    /\ at = "stageDone" => Finished(stage)

\* A "complete" event is the last one.
LastWord ==
    /\ at = "complete" => Len(completes) = 1
    /\ at \notin {"complete", "final", "ended"} => completes = << >>
    /\ at \in {"error", "complete"} /\ kind = "stage" => ~Running
    /\ at = "stop" => cancelled
    /\ at = "final" => abandoned

StreamInv ==
    /\ StreamTypeOK /\ Bridges /\ Order /\ LastWord
    /\ OneComplete /\ OkMeansDone

-----------------------------------------------------------------------------
LEMMA StageTyped ==
    Stage \subseteq Nat /\ 1 \in Stage
BY StreamConstants DEF Stage

\* What is left of a bridge when its first item is taken.
LEMMA TailIs ==
    ASSUME NEW q \in Seq({"event", "end"}), q # << >>
    PROVE  /\ Tail(q) \in Seq({"event", "end"}) /\ Len(q) \in Nat \ {0}
           /\ Len(Tail(q)) = Len(q) - 1 /\ \A i \in 1..(Len(q) - 1) : Tail(q)[i] = q[i + 1]
           /\ Len(q) = 1 => Tail(q) = << >>
<1>1. Tail(q) \in Seq({"event", "end"}) /\ Len(q) \in Nat \ {0} /\ Len(Tail(q)) = Len(q) - 1
  BY HeadTailProperties, EmptySeq
<1>2. \A i \in 1..(Len(q) - 1) : Tail(q)[i] = q[i + 1]
  BY HeadTailProperties
<1>3. Len(q) = 1 => Tail(q) = << >>
  <2>1. Tail(q) # << >> => Len(Tail(q)) # 0
    BY <1>1, EmptySeq
  <2> QED
    BY <1>1, <2>1
<1> QED
  BY <1>1, <1>2, <1>3

LEMMA StreamTypeStep ==
    ASSUME StreamTypeOK, [StreamNext]_streamVars
    PROVE  StreamTypeOK'
<1> USE DEF tasks, Yields, Awaits, Ends
<1>1. CASE \E s \in Stage : Emit(s)
  BY <1>1 DEF StreamTypeOK, Emit
<1>2. CASE \E s \in Stage : TaskEnds(s)
  BY <1>2 DEF StreamTypeOK, TaskEnds
<1>3. CASE Start
  BY <1>3, StageTyped DEF StreamTypeOK, Start, Yield, Goto
<1>4. CASE ResumeOpened
  BY <1>4 DEF StreamTypeOK, ResumeOpened, Goto
<1>5. CASE Relay
  <2>1. queue[stage] \in Seq({"event", "end"}) /\ queue[stage] # << >>
    BY <1>5 DEF StreamTypeOK, Relay
  <2>2. Tail(queue[stage]) \in Seq({"event", "end"})
    BY <2>1, TailIs
  <2>3. queue' \in [Stage -> Seq({"event", "end"})]
    BY <1>5, <2>2 DEF StreamTypeOK, Relay
  <2>4. relayed' \in [Stage -> Nat]
    BY <1>5 DEF StreamTypeOK, Relay
  <2> QED
    BY <1>5, <2>3, <2>4 DEF StreamTypeOK, Relay, Yield, Goto
<1>6. CASE ResumeStageDone
  <2>1. kind = "full" /\ stage < LastStage => stage + 1 \in Stage
    BY StreamConstants DEF StreamTypeOK, Stage
  <2>2. completes' \in Seq(BOOLEAN)
    <3>1. completes' = completes \/ completes' = Append(completes, TRUE)
      BY <1>6 DEF ResumeStageDone
    <3>2. completes \in Seq(BOOLEAN) /\ TRUE \in BOOLEAN
      BY DEF StreamTypeOK
    <3> QED
      BY <3>1, <3>2, AppendProperties
  <2>3. stage' \in Stage /\ at' \in {"opened", "complete"}
    BY <1>6, <2>1 DEF StreamTypeOK, ResumeStageDone, Yield, Goto
  <2> QED
    BY <1>6, <2>2, <2>3 DEF StreamTypeOK, ResumeStageDone
<1>7. CASE ResumeEvent \/ KeepAlive \/ Join \/ Finalized
  BY <1>7 DEF StreamTypeOK, ResumeEvent, KeepAlive, Join, Finalized,
     Yield, Goto
<1>8. CASE ResumeError
  BY <1>8 DEF StreamTypeOK, ResumeError, Yield, Goto
<1>9. CASE ResumeComplete \/ Stopped \/ Close
  BY <1>9 DEF StreamTypeOK, ResumeComplete, Stopped, Close, Leave,
     Yield, Goto
<1>10. CASE CancelStream
  BY <1>10 DEF StreamTypeOK, CancelStream, CancelRelay, Yield, Goto
<1>11. CASE Abandon
  BY <1>11 DEF StreamTypeOK, Abandon
<1>12. CASE UNCHANGED streamVars
  BY <1>12 DEF StreamTypeOK, streamVars
<1> QED
  BY <1>1, <1>2, <1>3, <1>4, <1>5, <1>6, <1>7, <1>8, <1>9, <1>10, <1>11, <1>12 DEF StreamNext,
     Generator

\* What a bridge takes in and hands out.
LEMMA BridgesStep ==
    ASSUME StreamTypeOK, Bridges, Order, [StreamNext]_streamVars
    PROVE  Bridges'
<1> USE DEF tasks, Ends
<1>0. \A s \in Stage : /\ emitted[s] \in Nat /\ relayed[s] \in Nat
                       /\ queue[s] \in Seq({"event", "end"})
  BY DEF StreamTypeOK
<1>1. ASSUME NEW s \in Stage, Emit(s)
      PROVE  Bridges'
  <2>1. /\ emitted'[s] = emitted[s] + 1 /\ queue'[s] = Append(queue[s], "event")
        /\ UNCHANGED <<task, relayed>> /\ task[s] = "running"
        /\ \A u \in Stage \ {s} : emitted'[u] = emitted[u] /\ queue'[u] = queue[u]
    BY <1>1 DEF Emit, StreamTypeOK
  <2>2. Bridge(s)'
    <3>1. /\ Len(queue[s]) = emitted[s] - relayed[s] /\ relayed[s] <= emitted[s]
          /\ \A i \in 1..Len(queue[s]) : queue[s][i] = "event"
      BY <2>1 DEF Bridges, Bridge
    <3>2. /\ Len(queue'[s]) = Len(queue[s]) + 1 /\ queue'[s][Len(queue[s]) + 1] = "event"
          /\ \A i \in 1..Len(queue[s]) : queue'[s][i] = queue[s][i]
      BY <1>0, <2>1
    <3>3. relayed[s] <= emitted'[s] /\ Len(queue'[s]) = emitted'[s] - relayed[s]
      BY <1>0, <2>1, <3>1, <3>2
    <3>4. \A i \in 1..Len(queue'[s]) : i \in 1..Len(queue[s]) \/ i = Len(queue[s]) + 1
      BY <1>0, <3>1, <3>2
    <3> QED
      BY <2>1, <3>1, <3>2, <3>3, <3>4 DEF Bridge
  <2>3. \A u \in Stage \ {s} : Bridge(u)'
    BY <2>1 DEF Bridges, Bridge
  <2> QED
    BY <2>2, <2>3 DEF Bridges
<1>2. ASSUME NEW s \in Stage, TaskEnds(s)
      PROVE  Bridges'
  <2>1. /\ task'[s] \in Ends /\ queue'[s] = Append(queue[s], "end")
        /\ UNCHANGED <<emitted, relayed>> /\ task[s] = "running"
        /\ \A u \in Stage \ {s} : task'[u] = task[u] /\ queue'[u] = queue[u]
    BY <1>2 DEF TaskEnds, StreamTypeOK
  <2>2. Bridge(s)'
    <3>1. /\ Len(queue[s]) = emitted[s] - relayed[s] /\ relayed[s] <= emitted[s]
          /\ \A i \in 1..Len(queue[s]) : queue[s][i] = "event"
      BY <2>1 DEF Bridges, Bridge
    <3>2. /\ Len(queue'[s]) = Len(queue[s]) + 1 /\ queue'[s][Len(queue[s]) + 1] = "end"
          /\ \A i \in 1..Len(queue[s]) : queue'[s][i] = queue[s][i]
      BY <1>0, <2>1
    <3> QED
      BY <1>0, <2>1, <3>1, <3>2 DEF Bridge
  <2>3. \A u \in Stage \ {s} : Bridge(u)'
    BY <2>1 DEF Bridges, Bridge
  <2> QED
    BY <2>2, <2>3 DEF Bridges
<1>3. CASE Start \/ ResumeOpened
  <2>1. UNCHANGED <<stage, queue, emitted, relayed>> /\ stage \in Stage
    BY <1>3 DEF Start, ResumeOpened, StreamTypeOK
  <2>2. /\ \/ task'[stage] = task[stage]
           \/ task[stage] = "none" /\ task'[stage] \in {"none", "running"}
        /\ \A u \in Stage \ {stage} : task'[u] = task[u]
    <3>1. CASE Start
      <4>1. stage = 1
        BY <3>1 DEF Start, Order
      <4> QED
        BY <3>1, <4>1 DEF Start, StreamTypeOK, Order
    <3>2. CASE ResumeOpened
      BY <3>2 DEF ResumeOpened, StreamTypeOK, Order
    <3> QED
      BY <1>3, <3>1, <3>2
  <2>3. ASSUME NEW s \in Stage, task'[s] = task[s]
        PROVE  Bridge(s)'
    BY <2>1, <2>3 DEF Bridges, Bridge
  <2>4. ASSUME task[stage] = "none", task'[stage] = "running"
        PROVE  Bridge(stage)'
    <3>1. emitted[stage] = 0 /\ queue[stage] = << >> /\ relayed[stage] = 0
      BY <1>0, <2>1, <2>4 DEF Bridges, Bridge
    <3> QED
      BY <2>1, <2>4, <3>1 DEF Bridge
  <2> QED
    BY <2>1, <2>2, <2>3, <2>4 DEF Bridges
<1>4. CASE Relay
  <2>1. /\ stage \in Stage /\ queue[stage] # << >> /\ queue'[stage] = Tail(queue[stage])
        /\ UNCHANGED <<stage, emitted, task>>
        /\ \A u \in Stage \ {stage} : queue'[u] = queue[u] /\ relayed'[u] = relayed[u]
        /\ relayed'[stage] =
              IF queue[stage][1] = "event" THEN relayed[stage] + 1 ELSE relayed[stage]
    BY <1>4 DEF Relay, StreamTypeOK
  <2>2. /\ Len(queue[stage]) \in Nat \ {0} /\ Len(queue'[stage]) = Len(queue[stage]) - 1
        /\ \A i \in 1..(Len(queue[stage]) - 1) : queue'[stage][i] = queue[stage][i + 1]
        /\ Len(queue[stage]) = 1 => queue'[stage] = << >>
    <3>1. queue[stage] \in Seq({"event", "end"})
      BY <1>0, <2>1
    <3> QED
      BY <2>1, <3>1, TailIs
  <2>3. Bridge(stage)
    BY <2>1 DEF Bridges
  <2>4. Bridge(stage)'
    <3> DEFINE n == Len(queue[stage])
               m == emitted[stage] - relayed[stage]
    <3>0. n \in Nat \ {0} /\ relayed[stage] \in Nat /\ emitted[stage] \in Nat
      BY <1>0, <2>1, <2>2
    <3>1. CASE task[stage] = "none"
      BY <2>1, <2>3, <3>1 DEF Bridge
    <3>2. CASE task[stage] = "running"
      <4>1. n = m /\ relayed[stage] <= emitted[stage] /\ \A i \in 1..n : queue[stage][i] = "event"
        BY <2>3, <3>2 DEF Bridge
      <4>2. relayed'[stage] = relayed[stage] + 1
        BY <2>1, <3>0, <4>1
      <4>3. \A i \in 1..(n - 1) : queue'[stage][i] = "event"
        <5>1. \A i \in 1..(n - 1) : i + 1 \in 1..n
          BY <3>0
        <5> QED
          BY <2>2, <4>1, <5>1
      <4>4. relayed'[stage] <= emitted[stage] /\ n - 1 = emitted[stage] - relayed'[stage]
        BY <3>0, <4>1, <4>2
      <4> QED
        BY <2>1, <2>2, <3>2, <4>3, <4>4 DEF Bridge
    <3>3. CASE task[stage] \in Ends /\ n = 1
      <4>1. /\ relayed[stage] <= emitted[stage] /\ n = m + 1 /\ queue[stage][1] = "end"
        BY <2>1, <2>3, <3>3 DEF Bridge
      <4>2. relayed'[stage] = relayed[stage] /\ relayed[stage] = emitted[stage]
        <5>1. relayed'[stage] = relayed[stage]
          BY <2>1, <4>1
        <5>2. n = 1 /\ n = emitted[stage] - relayed[stage] + 1
          BY <3>3, <4>1
        <5>3. relayed[stage] = emitted[stage]
          <6> HIDE DEF n
          <6> QED BY <3>0, <5>2
        <5> QED
          BY <5>1, <5>3
      <4> QED
        <5>1. /\ relayed'[stage] = emitted'[stage] /\ queue'[stage] = << >>
              /\ task'[stage] \in Ends /\ relayed'[stage] <= emitted'[stage]
          BY <2>1, <2>2, <3>0, <3>3, <4>2
        <5> QED
          BY <2>1, <5>1 DEF Bridge
    <3>4. CASE task[stage] \in Ends /\ n # 1
      <4>1. /\ relayed[stage] <= emitted[stage] /\ n = m + 1 /\ queue[stage][n] = "end"
            /\ \A i \in 1..(n - 1) : queue[stage][i] = "event"
        BY <2>1, <2>3, <3>4 DEF Bridge
      <4>2. relayed'[stage] = relayed[stage] + 1 /\ relayed'[stage] <= emitted[stage]
        BY <2>1, <3>0, <3>4, <4>1
      <4>3. \A i \in 1..(n - 2) : queue'[stage][i] = "event"
        <5>1. \A i \in 1..(n - 2) : i \in 1..(n - 1) /\ i + 1 \in 1..(n - 1)
          BY <3>0
        <5> QED
          BY <2>2, <4>1, <5>1
      <4>4. queue'[stage][n - 1] = "end"
        <5> HIDE DEF n
        <5>1. n - 1 \in 1..(n - 1) /\ (n - 1) + 1 = n
          BY <3>0, <3>4
        <5> USE DEF n
        <5> QED
          BY <2>2, <4>1, <5>1
      <4>5. n - 1 = emitted[stage] - relayed'[stage] + 1 /\ (n - 1) - 1 = n - 2
        BY <3>0, <4>1, <4>2
      <4> QED
        BY <2>1, <2>2, <3>4, <4>2, <4>3, <4>4, <4>5 DEF Bridge
    <3> QED
      BY <2>1, <3>1, <3>2, <3>3, <3>4 DEF StreamTypeOK
  <2>5. \A u \in Stage \ {stage} : Bridge(u)'
    BY <2>1 DEF Bridges, Bridge
  <2> QED
    BY <2>1, <2>4, <2>5 DEF Bridges
<1>5. CASE UNCHANGED <<task, queue, emitted, relayed>>
  BY <1>5 DEF Bridges, Bridge
<1> QED
  BY <1>1, <1>2, <1>3, <1>4, <1>5 DEF StreamNext, Generator, ResumeEvent,
     KeepAlive, Join, ResumeStageDone, ResumeError,
     ResumeComplete, Stopped, Finalized, CancelStream, Abandon,
     Close, streamVars

\* The stages end in order, and the generator goes on when one has returned.
LEMMA OrderStep ==
    ASSUME StreamTypeOK, Bridges, Order, [StreamNext]_streamVars
    PROVE  Order'
<1> USE DEF tasks, Ends, Yields, Awaits
<1>0. stage \in Stage /\ Stage \subseteq Nat /\ 1 \in Stage
  BY StageTyped DEF StreamTypeOK
<1>1. ASSUME NEW s \in Stage, Emit(s)
      PROVE  Order'
  <2>1. /\ UNCHANGED <<kind, stage, at, task, relayed>> /\ task[s] = "running"
        /\ \A u \in Stage \ {s} : emitted'[u] = emitted[u]
    BY <1>1 DEF Emit, StreamTypeOK
  <2> QED
    BY <1>0, <2>1 DEF Order, Finished
<1>2. ASSUME NEW s \in Stage, TaskEnds(s)
      PROVE  Order'
  <2>1. /\ UNCHANGED <<kind, stage, at, emitted, relayed>> /\ task[s] = "running"
        /\ \A u \in Stage \ {s} : task'[u] = task[u]
    BY <1>2 DEF TaskEnds, StreamTypeOK
  <2> QED
    BY <1>0, <2>1 DEF Order, Finished
<1>3. CASE Start
  <2>1. /\ UNCHANGED <<kind, stage, emitted, relayed>> /\ at' = "opened" /\ at = "start"
        /\ task'[1] = IF kind = "stage" THEN "running" ELSE "none"
        /\ \A u \in Stage \ {1} : task'[u] = task[u]
    BY <1>0, <1>3 DEF Start, Yield, Goto, StreamTypeOK
  <2>2. stage = 1
    BY <2>1 DEF Order
  <2> QED
    BY <1>0, <2>1, <2>2 DEF Order, Finished
<1>4. CASE ResumeOpened
  <2>1. /\ UNCHANGED <<kind, stage, emitted, relayed>> /\ at' = "relay"
        /\ \A u \in Stage \ {stage} : task'[u] = task[u]
    BY <1>0, <1>4 DEF ResumeOpened, Goto, StreamTypeOK
  <2> QED
    BY <1>0, <2>1 DEF Order, Finished
<1>5. CASE Relay
  <2>1. /\ UNCHANGED <<kind, stage, emitted, task>>
        /\ \A u \in Stage \ {stage} : relayed'[u] = relayed[u]
        /\ \/ at' = "event"
           \/ /\ at' = "join" /\ relayed' = relayed /\ queue[stage] # << >>
              /\ queue[stage][1] # "event"
    BY <1>0, <1>5 DEF Relay, Yield, Goto, StreamTypeOK
  <2>2. ASSUME at' = "join"
        PROVE  task[stage] \in Ends /\ relayed[stage] = emitted[stage]
    <3>1. /\ queue[stage] \in Seq({"event", "end"}) /\ queue[stage] # << >>
          /\ queue[stage][1] # "event" /\ Len(queue[stage]) \in Nat /\ Len(queue[stage]) # 0
          /\ emitted[stage] \in Nat /\ relayed[stage] \in Nat
      BY <1>0, <2>1, <2>2 DEF StreamTypeOK
    <3>2. Bridge(stage)
      BY <1>0 DEF Bridges
    <3>3. 1 \in 1..Len(queue[stage])
      BY <3>1
    <3>4. task[stage] \notin {"none", "running"}
      BY <3>1, <3>2, <3>3 DEF Bridge
    <3>5. task[stage] \in Ends
      BY <1>0, <3>4 DEF StreamTypeOK
    <3>6. 1 \notin 1..(Len(queue[stage]) - 1)
      BY <3>1, <3>2, <3>5 DEF Bridge
    <3>7. Len(queue[stage]) = 1
      <4> HIDE DEF Ends
      <4> DEFINE n == Len(queue[stage])
      <4>1. n \in Nat /\ n # 0 /\ 1 \notin 1..(n - 1)
        BY <3>1, <3>6
      <4> HIDE DEF n
      <4>2. n = 1
        BY <4>1
      <4> QED
        BY <4>2 DEF n
    <3> QED
      BY <3>1, <3>2, <3>5, <3>7 DEF Bridge
  <2> QED
    BY <1>0, <2>1, <2>2 DEF Order, Finished
<1>6. CASE Join
  BY <1>0, <1>6 DEF Join, Yield, Goto, Order, Finished, Running,
     StreamTypeOK
<1>7. CASE ResumeStageDone
  <2>1. CASE kind = "full" /\ stage < LastStage
    <3>1. /\ UNCHANGED <<kind, task, emitted, relayed>> /\ at' = "opened" /\ stage' = stage + 1
          /\ at = "stageDone"
      BY <1>7, <2>1 DEF ResumeStageDone, Yield, Goto
    <3>2. stage' \in Stage
      BY <2>1, <3>1, StreamConstants DEF StreamTypeOK, Stage
    <3>3. \A s \in Stage : /\ s < stage' => s < stage \/ s = stage
                           /\ s > stage' => s > stage
      BY <1>0, <3>1
    <3>4. stage' > stage
      BY <1>0, <3>1
    <3> QED
      BY <1>0, <2>1, <3>1, <3>2, <3>3, <3>4 DEF Order, Finished
  <2>2. CASE ~(kind = "full" /\ stage < LastStage)
    BY <1>7, <2>2 DEF ResumeStageDone, Yield, Goto, Order, Finished
  <2> QED
    BY <2>1, <2>2
<1>8. CASE \/ ResumeEvent \/ KeepAlive \/ ResumeError
           \/ ResumeComplete \/ Stopped \/ Finalized \/ Close
  <2>1. /\ UNCHANGED <<kind, stage, task, emitted, relayed>>
        /\ at' \in {"relay", "event", "complete", "error", "final", "ended"}
    BY <1>8 DEF ResumeEvent, KeepAlive, ResumeError, ResumeComplete,
       Stopped, Finalized, Close, Leave, Yield, Goto
  <2> QED
    BY <2>1 DEF Order, Finished
<1>9. CASE CancelStream
  <2>1. /\ UNCHANGED <<kind, stage, task, emitted, relayed>>
        /\ at' = at \/ at' \in {"stop", "error", "ended"}
    BY <1>9 DEF CancelStream, CancelRelay, Yield, Goto
  <2> QED
    BY <2>1 DEF Order, Finished
<1>10. CASE Abandon \/ UNCHANGED streamVars
  BY <1>10 DEF Abandon, streamVars, Order, Finished
<1> QED
  BY <1>1, <1>2, <1>3, <1>4, <1>5, <1>6, <1>7, <1>8, <1>9, <1>10 DEF StreamNext, Generator

\* Nothing follows the "complete" event, and only a stream that was left has none.
LEMMA LastWordStep ==
    ASSUME StreamTypeOK, Order, LastWord, OneComplete, OkMeansDone,
           [StreamNext]_streamVars
    PROVE  LastWord' /\ OneComplete' /\ OkMeansDone'
<1> USE DEF tasks, Ends, Yields, Awaits, Running
<1>0. /\ stage \in Stage /\ Stage \subseteq Nat /\ 1 \in Stage
      /\ completes \in Seq(BOOLEAN) /\ StagesOf \subseteq Stage
  BY StageTyped DEF StreamTypeOK, StagesOf
<1>1. ASSUME NEW s \in Stage, Emit(s)
      PROVE  LastWord' /\ OneComplete' /\ OkMeansDone'
  <2>1. /\ UNCHANGED <<kind, stage, at, task, relayed, completes, cancelled, abandoned>>
        /\ task[s] = "running" /\ \A u \in Stage \ {s} : emitted'[u] = emitted[u]
    BY <1>1 DEF Emit, StreamTypeOK
  <2> QED
    BY <1>0, <2>1 DEF LastWord, OneComplete, OkMeansDone, StagesOf
<1>2. ASSUME NEW s \in Stage, TaskEnds(s)
      PROVE  LastWord' /\ OneComplete' /\ OkMeansDone'
  <2>1. /\ UNCHANGED <<kind, stage, at, emitted, relayed, completes, cancelled, abandoned>>
        /\ task[s] = "running" /\ task'[s] # "running"
        /\ \A u \in Stage \ {s} : task'[u] = task[u]
    BY <1>2 DEF TaskEnds, StreamTypeOK
  <2> QED
    BY <1>0, <2>1 DEF LastWord, OneComplete, OkMeansDone, StagesOf
<1>3. CASE \/ Start \/ ResumeOpened \/ ResumeEvent
           \/ Relay \/ KeepAlive \/ Join
  <2>1. /\ UNCHANGED <<kind, stage, completes, cancelled, abandoned>>
        /\ at \notin {"complete", "final", "ended"}
        /\ at' \in {"opened", "relay", "event", "join", "stageDone", "error"}
        /\ at' = "error" => at = "join" /\ UNCHANGED task
    BY <1>3 DEF Start, ResumeOpened, ResumeEvent, Relay,
       KeepAlive, Join, Yield, Goto
  <2> QED
    BY <2>1 DEF LastWord, OneComplete, OkMeansDone, Order
<1>4. CASE ResumeStageDone
  <2>1. UNCHANGED <<kind, task, emitted, relayed, cancelled, abandoned>> /\ at = "stageDone"
    BY <1>4 DEF ResumeStageDone
  <2>2. completes = << >> /\ Finished(stage)
    BY <2>1 DEF LastWord, Order
  <2>3. CASE kind = "full" /\ stage < LastStage
    BY <1>4, <2>1, <2>2, <2>3 DEF ResumeStageDone, Yield, Goto, LastWord,
       OneComplete, OkMeansDone
  <2>4. CASE ~(kind = "full" /\ stage < LastStage)
    <3>1. at' = "complete" /\ completes' = Append(completes, TRUE) /\ stage' = stage
      BY <1>4, <2>4 DEF ResumeStageDone, Yield, Goto
    <3>2. Len(completes') = 1
      BY <1>0, <2>2, <3>1
    <3>3. \A s \in StagesOf : Finished(s)
      <4>1. CASE kind = "stage"
        BY <2>2, <4>1 DEF StagesOf, Order
      <4>2. CASE kind = "full"
        <5>1. \A s \in Stage : s < stage \/ s = stage
          BY <1>0, <2>4, <4>2, StreamConstants DEF Stage
        <5>2. \A s \in Stage : s < stage => Finished(s)
          BY <4>2 DEF Order
        <5> QED
          BY <1>0, <2>2, <5>1, <5>2
      <4> QED
        BY <4>1, <4>2 DEF StreamTypeOK
    <3>4. OkMeansDone'
      BY <2>1, <3>3 DEF OkMeansDone, StagesOf, Finished
    <3> QED
      BY <2>1, <2>2, <3>1, <3>2, <3>4 DEF LastWord, OneComplete, Finished, Order
  <2> QED
    BY <2>3, <2>4
<1>5. CASE ResumeError
  <2>1. /\ UNCHANGED <<kind, stage, task, emitted, relayed, cancelled, abandoned>> /\ at = "error"
        /\ at' = "complete" /\ completes' = Append(completes, FALSE) /\ completes = << >>
    BY <1>5 DEF ResumeError, Yield, Goto, LastWord
  <2>2. Len(completes') = 1 /\ completes'[1] = FALSE
    BY <1>0, <2>1
  <2> QED
    BY <2>1, <2>2 DEF LastWord, OneComplete, OkMeansDone
<1>6. CASE ResumeComplete \/ Stopped \/ Finalized \/ Close
  <2>1. UNCHANGED <<kind, stage, task, emitted, relayed, completes, cancelled, abandoned>>
    BY <1>6 DEF ResumeComplete, Stopped, Finalized, Close
  <2>2. OkMeansDone'
    BY <2>1 DEF OkMeansDone, StagesOf
  <2>3. CASE ResumeComplete
    <3>1. at = "complete" /\ at' = "ended"
      BY <2>3 DEF ResumeComplete, Leave, Goto, LastWord
    <3> QED
      BY <2>1, <2>2, <3>1 DEF LastWord, OneComplete
  <2>4. CASE Stopped
    <3>1. /\ at = "stop" /\ cancelled /\ ~Running
          /\ \/ at' = "error"
             \/ at' = "ended" /\ task[stage] = "failed"
      BY <2>4 DEF Stopped, Leave, Yield, Goto, LastWord
    <3> QED
      BY <1>0, <2>1, <2>2, <3>1 DEF LastWord, OneComplete
  <2>5. CASE Finalized
    <3>1. at = "final" /\ at' = "ended" /\ abandoned
      BY <2>5 DEF Finalized, Goto, LastWord
    <3> QED
      BY <2>1, <2>2, <3>1 DEF LastWord, OneComplete
  <2>6. CASE Close
    <3>1. at' \in {"final", "ended"} /\ abandoned
      BY <2>6 DEF Close, Leave, Goto
    <3> QED
      BY <2>1, <2>2, <3>1 DEF LastWord, OneComplete
  <2> QED
    BY <1>6, <2>3, <2>4, <2>5, <2>6
<1>7. CASE CancelStream
  <2>1. /\ UNCHANGED <<kind, stage, task, emitted, relayed, completes, abandoned>> /\ cancelled'
        /\ \/ /\ at = "relay" /\ at' \in {"stop", "error"}
              /\ at' = "error" => ~(kind = "stage" /\ Running)
           \/ at \in {"join", "stop"} /\ (at' = at \/ (at' = "error" /\ ~Running))
           \/ at = "final" /\ at' = "ended"
    BY <1>7 DEF CancelStream, CancelRelay, Yield, Goto
  <2>2. OkMeansDone'
    BY <2>1 DEF OkMeansDone, StagesOf
  <2> QED
    BY <2>1, <2>2 DEF LastWord, OneComplete
<1>8. CASE Abandon
  <2>1. UNCHANGED <<kind, stage, at, task, emitted, relayed, completes, cancelled>> /\ abandoned'
    BY <1>8 DEF Abandon
  <2> QED
    BY <2>1 DEF LastWord, OneComplete, OkMeansDone, StagesOf
<1>9. CASE UNCHANGED streamVars
  BY <1>9 DEF streamVars, LastWord, OneComplete, OkMeansDone, StagesOf
<1> QED
  BY <1>1, <1>2, <1>3, <1>4, <1>5, <1>6, <1>7, <1>8, <1>9 DEF StreamNext, Generator

LEMMA StreamBegins ==
    ASSUME StreamInit
    PROVE  StreamInv
<1>1. StreamTypeOK
  <2>1. /\ queue \in [Stage -> Seq({"event", "end"})] /\ completes \in Seq(BOOLEAN)
        /\ emitted \in [Stage -> Nat] /\ relayed \in [Stage -> Nat]
    BY DEF StreamInit
  <2>2. /\ kind \in {"stage", "full"} /\ stage \in Stage /\ at = "start"
        /\ task \in [Stage -> {"none", "running"} \cup Ends]
    BY StageTyped DEF StreamInit
  <2>3. /\ cancelling \in [Stage -> BOOLEAN]
        /\ registered \in BOOLEAN /\ cancelled \in BOOLEAN /\ abandoned \in BOOLEAN
    BY DEF StreamInit
  <2> QED
    BY <2>1, <2>2, <2>3 DEF StreamTypeOK
<1>2. Bridges
  BY DEF StreamInit, Bridges, Bridge, Ends
<1>3. Order
  BY StageTyped DEF StreamInit, Order, Finished, Stage
<1>4. LastWord /\ OneComplete /\ OkMeansDone
  BY DEF StreamInit, LastWord, OneComplete, OkMeansDone
<1> QED
  BY <1>1, <1>2, <1>3, <1>4 DEF StreamInv

LEMMA StreamStep ==
    ASSUME StreamInv, [StreamNext]_streamVars
    PROVE  StreamInv'
BY StreamTypeStep, BridgesStep, OrderStep, LastWordStep DEF StreamInv

\* Type correctness of the generator, its tasks and its bridges.
THEOREM StreamTypeCorrect == StreamSpec => []StreamTypeOK
BY StreamBegins, StreamStep, PTL DEF StreamSpec, StreamInv

\* A stream whose "complete" event says ok is one whose every stage returned, after the
\* client was sent all the events the stages emitted (sse_stream_generator, event_stream).
THEOREM StreamIsTruthful == StreamSpec => []OkMeansDone
<1>1. StreamInit => StreamInv
  BY StreamBegins
<1>2. StreamInv /\ [StreamNext]_streamVars => StreamInv'
  BY StreamStep
<1>3. StreamInv => OkMeansDone
  BY DEF StreamInv
<1> QED
  BY <1>1, <1>2, <1>3, PTL DEF StreamSpec

\* No stream has two "complete" events, and one that is read to its end has exactly one,
\* unless its task answered a cancellation with an error.
THEOREM StreamCompletesOnce == StreamSpec => []OneComplete
<1>1. StreamInit => StreamInv
  BY StreamBegins
<1>2. StreamInv /\ [StreamNext]_streamVars => StreamInv'
  BY StreamStep
<1>3. StreamInv => OneComplete
  BY DEF StreamInv
<1> QED
  BY <1>1, <1>2, <1>3, PTL DEF StreamSpec
=============================================================================

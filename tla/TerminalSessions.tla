-------------------------- MODULE TerminalSessions --------------------------
(***************************************************************************)
(* services/ssh_terminal.py and routes/ssh_terminal.py: tickets for SSH    *)
(* terminals, the table that limits them, and the WebSocket handlers that  *)
(* relay between a browser and an SSH process with one task per direction. *)
(*                                                                         *)
(* The manager's lock is never held across an await, so each of its        *)
(* methods is one step.  A session object lives on in its handler after it *)
(* has left the table.  External: the browser, the SSH server and NetBox,  *)
(* which holds the credentials; a connection attempt, a write to a process *)
(* that does not read, or a frame for a browser that does not read, may    *)
(* take for ever.                                                          *)
(***************************************************************************)
EXTENDS Naturals, FiniteSets

CONSTANTS
    Sessions,     \* the session ids that may be handed out
    Handlers,     \* WebSocket connections
    MaxSessions,  \* max_sessions
    TicketTTL,    \* ticket_ttl_seconds
    IdleTimeout,  \* idle_timeout_seconds
    MaxLifetime,  \* max_lifetime_seconds
    MaxTime,      \* bound: clock
    None

ASSUME TerminalConstants ==
    /\ MaxSessions \in Nat /\ TicketTTL \in Nat /\ IdleTimeout \in Nat
    /\ MaxLifetime \in Nat /\ MaxTime \in Nat
    /\ IsFiniteSet(Sessions) /\ IsFiniteSet(Handlers)
    /\ None \notin Sessions /\ None \notin Nat

VARIABLES
    clock,
    table,     \* _sessions: the ids in the dict
    issued,    \* ids handed out
    created,   \* id -> created_at
    active,    \* id -> last_activity_at
    consumed,  \* ids whose ticket was used
    pc,        \* handler -> where it is
    session,   \* handler -> the session it consumed, or None
    output,    \* handler -> its output task
    input,     \* handler -> its input task
    deadline   \* handler -> when its input task stops waiting

objects == <<issued, created, active, consumed>>
relay == <<output, input, deadline>>
vars == <<clock, table, objects, pc, session, relay>>

Stages == {"idle", "credential", "connecting", "relay", "closing", "farewell", "unread",
           "leaving", "ended"}
Live == Stages \ {"idle", "ended"}
OutputStates == {"none", "reading", "done"}
InputStates == {"none", "top", "reading", "handling", "blocked", "parting", "unread", "done"}

TypeOK ==
    /\ clock \in Nat
    /\ issued \subseteq Sessions /\ table \subseteq issued /\ consumed \subseteq issued
    /\ created \in [Sessions -> Nat] /\ active \in [Sessions -> Nat]
    /\ pc \in [Handlers -> Stages]
    /\ session \in [Handlers -> Sessions \cup {None}]
    /\ output \in [Handlers -> OutputStates]
    /\ input \in [Handlers -> InputStates]
    /\ deadline \in [Handlers -> Nat]

Init ==
    /\ clock = 0 /\ table = {} /\ issued = {} /\ consumed = {}
    /\ created = [i \in Sessions |-> 0] /\ active = [i \in Sessions |-> 0]
    /\ pc = [h \in Handlers |-> "idle"]
    /\ session = [h \in Handlers |-> None]
    /\ output = [h \in Handlers |-> "none"]
    /\ input = [h \in Handlers |-> "none"]
    /\ deadline = [h \in Handlers |-> 0]

-----------------------------------------------------------------------------
\* The session manager.

PastLifetime(i) == clock > created[i] + MaxLifetime
TicketExpired(i) == clock > created[i] + TicketTTL

\* Mutant: a consumed session is dropped with its ticket.
CleanedByTicket == {i \in table : ~TicketExpired(i) /\ ~PastLifetime(i)}

\* _cleanup_locked: what it leaves in the table.
Cleaned ==
    {i \in table : ~(TicketExpired(i) /\ i \notin consumed) /\ ~PastLifetime(i)}

\* create_session; a refusal (429) has cleaned the table.
Create(i) ==
    /\ i \notin issued
    /\ IF Cardinality(Cleaned) >= MaxSessions
       THEN table' = Cleaned /\ UNCHANGED objects
       ELSE /\ table' = Cleaned \cup {i}
            /\ issued' = issued \cup {i}
            /\ created' = [created EXCEPT ![i] = clock]
            /\ active' = [active EXCEPT ![i] = clock]
            /\ UNCHANGED consumed
    /\ UNCHANGED <<clock, pc, session, relay>>

\* Mutant: a used ticket is accepted.
AcceptedTwice(i, right) == i \in Cleaned /\ right

\* The tests of consume_ticket.  After the cleanup no ticket is left that has expired.
Accepted(i, right) == i \in Cleaned /\ i \notin consumed /\ right

\* ssh_terminal_websocket up to consume_ticket: a frame with a ticket, the session's or
\* another, arrived; a handler without one ends and changes nothing.
Authenticate(h, i, right) ==
    /\ pc[h] = "idle"
    /\ table' = Cleaned
    /\ IF Accepted(i, right)
       THEN /\ consumed' = consumed \cup {i}
            /\ active' = [active EXCEPT ![i] = clock]
            /\ session' = [session EXCEPT ![h] = i]
            /\ pc' = [pc EXCEPT ![h] = "credential"]
       ELSE /\ pc' = [pc EXCEPT ![h] = "ended"]
            /\ UNCHANGED <<consumed, active, session>>
    /\ UNCHANGED <<clock, issued, created, relay>>

\* mark_activity: only for a session still in the table.
MarkActivity(h) ==
    active' = IF session[h] \in table THEN [active EXCEPT ![session[h]] = clock] ELSE active

-----------------------------------------------------------------------------
\* The handler after the ticket.

Move(h, stage) ==
    /\ pc' = [pc EXCEPT ![h] = stage]
    /\ UNCHANGED <<clock, table, objects, session>>

\* Mutant: an error of the lookup passes the finally block by.
FetchOutsideTry(h) ==
    /\ pc[h] = "credential"
    /\ Move(h, "connecting") \/ Move(h, "ended")
    /\ UNCHANGED relay

\* fetch_terminal_credential, or the error it ends in and is told about.
FetchCredential(h) ==
    /\ pc[h] = "credential"
    /\ Move(h, "connecting") \/ Move(h, "farewell")
    /\ UNCHANGED relay

\* connect_and_relay up to the two tasks, the "ready" frame included.
Connect(h) ==
    /\ pc[h] = "connecting"
    /\ \/ /\ Move(h, "relay")
          /\ output' = [output EXCEPT ![h] = "reading"]
          /\ input' = [input EXCEPT ![h] = "top"]
          /\ UNCHANGED deadline
       \/ Move(h, "farewell") /\ UNCHANGED relay

\* _pump_process_output: a chunk (while its frame cannot be sent there is no other), or
\* the end of the stream or an error.
OutputChunk(h) ==
    /\ output[h] = "reading"
    /\ MarkActivity(h)
    /\ UNCHANGED <<clock, table, issued, created, consumed, pc, session, relay>>

OutputEnds(h) ==
    /\ output[h] = "reading"
    /\ output' = [output EXCEPT ![h] = "done"]
    /\ UNCHANGED <<clock, table, objects, pc, session, input, deadline>>

Least(a, b) == IF a <= b THEN a ELSE b

\* Mutant: only the idle time limits a read.
IdleDeadline(h) == active[session[h]] + IdleTimeout

\* The earlier of the idle and the lifetime deadline, taken before the wait.
ReadDeadline(h) ==
    Least(active[session[h]] + IdleTimeout, created[session[h]] + MaxLifetime)

InputTo(h, s) ==
    /\ input' = [input EXCEPT ![h] = s]
    /\ UNCHANGED <<clock, table, issued, created, consumed, pc, session, output>>

\* _read_terminal_message up to the wait: with no time left the browser is told so.
BeginRead(h) ==
    /\ input[h] = "top"
    /\ deadline' = [deadline EXCEPT ![h] = ReadDeadline(h)]
    /\ InputTo(h, IF clock >= ReadDeadline(h) THEN "parting" ELSE "reading")
    /\ UNCHANGED active

\* A frame arrives: one that is empty, or no object and answered with an error; one that
\* is handled at once; one that needs a write to the process or an answer; a close.  The
\* last three count as activity.
Receive(h) ==
    /\ input[h] = "reading"
    /\ \/ \E s \in {"top", "handling"} : InputTo(h, s) /\ UNCHANGED active
       \/ \E s \in {"top", "handling", "done"} : InputTo(h, s) /\ MarkActivity(h)
    /\ UNCHANGED deadline

Disconnect(h) ==
    /\ input[h] = "reading"
    /\ InputTo(h, "done") /\ UNCHANGED <<active, deadline>>

ReadTimesOut(h) ==
    /\ input[h] = "reading" /\ clock >= deadline[h]
    /\ InputTo(h, "parting") /\ UNCHANGED <<active, deadline>>

\* The "timed out" frame is sent, or fails, and the task ends.
Part(h) ==
    /\ input[h] \in {"parting", "unread"}
    /\ InputTo(h, "done") /\ UNCHANGED <<active, deadline>>

\* The browser does not read it.
PartUnread(h) ==
    /\ input[h] = "parting"
    /\ InputTo(h, "unread") /\ UNCHANGED <<active, deadline>>

\* stdin.write and drain, or the frame that answers: back to the loop, or an error.
Drain(h) ==
    /\ input[h] \in {"handling", "blocked"}
    /\ \E s \in {"top", "done"} : InputTo(h, s)
    /\ UNCHANGED <<active, deadline>>

\* The process, or the browser, does not read: the write waits.
Block(h) ==
    /\ input[h] = "handling"
    /\ InputTo(h, "blocked") /\ UNCHANGED <<active, deadline>>

StopTasks(h) ==
    /\ output' = [output EXCEPT ![h] = "done"]
    /\ input' = [input EXCEPT ![h] = "done"]
    /\ deadline' = [deadline EXCEPT ![h] = 0]

\* asyncio.wait returns: the other task is cancelled and awaited; the error of a task
\* that failed is told, otherwise the process is closed first.
Finish(h) ==
    /\ pc[h] = "relay" /\ (output[h] = "done" \/ input[h] = "done")
    /\ Move(h, "closing") \/ Move(h, "farewell")
    /\ StopTasks(h)

\* _close_process: at most five seconds.
CloseProcess(h) ==
    /\ pc[h] = "closing"
    /\ Move(h, "farewell") /\ UNCHANGED relay

\* The "exit" or the "error" frame is sent, or fails.
Farewell(h) ==
    /\ pc[h] \in {"farewell", "unread"}
    /\ Move(h, "leaving") /\ UNCHANGED relay

\* The browser does not read it.
FarewellUnread(h) ==
    /\ pc[h] = "farewell"
    /\ Move(h, "unread") /\ UNCHANGED relay

\* The server cancels the handler, which does not cancel its tasks.
Cancel(h) ==
    /\ pc[h] \in {"credential", "connecting", "relay", "closing", "farewell", "unread"}
    /\ Move(h, "leaving") /\ UNCHANGED relay

\* The finally block of ssh_terminal_websocket.  The SSH connection and the socket are
\* closed, which ends the tasks a cancelled handler left.
Release(h) ==
    /\ pc[h] = "leaving"
    /\ table' = table \ {session[h]}
    /\ pc' = [pc EXCEPT ![h] = "ended"]
    /\ StopTasks(h)
    /\ UNCHANGED <<clock, objects, session>>

\* The bound never stops the clock of a relay before the end of its lifetime.
Tick ==
    /\ \/ clock < MaxTime
       \/ \E h \in Handlers : pc[h] = "relay" /\ clock < created[session[h]] + MaxLifetime
    /\ clock' = clock + 1
    /\ UNCHANGED <<table, objects, pc, session, relay>>

-----------------------------------------------------------------------------
Next ==
    \/ \E i \in Sessions : Create(i)
    \/ \E h \in Handlers :
        \/ \E i \in Sessions, right \in BOOLEAN : Authenticate(h, i, right)
        \/ FetchCredential(h) \/ Connect(h) \/ OutputChunk(h) \/ OutputEnds(h)
        \/ BeginRead(h) \/ Receive(h) \/ Disconnect(h) \/ ReadTimesOut(h)
        \/ Part(h) \/ PartUnread(h) \/ Drain(h) \/ Block(h)
        \/ Finish(h) \/ CloseProcess(h) \/ Farewell(h) \/ FarewellUnread(h)
        \/ Cancel(h) \/ Release(h)
    \/ Tick

Spec == Init /\ [][Next]_vars

\* The event loop runs, timers fire, NetBox answers or times out, and a write ends or
\* waits for its reader; nothing is assumed of the browser, of the SSH server's handshake
\* and output, or of a process or a browser that does not read.
Fairness ==
    /\ WF_vars(Tick)
    /\ \A h \in Handlers :
        /\ WF_vars(FetchCredential(h)) /\ WF_vars(BeginRead(h)) /\ WF_vars(ReadTimesOut(h))
        /\ WF_vars(input[h] = "handling" /\ (Drain(h) \/ Block(h)))
        /\ WF_vars(input[h] = "parting" /\ (Part(h) \/ PartUnread(h)))
        /\ WF_vars(pc[h] = "farewell" /\ (Farewell(h) \/ FarewellUnread(h)))
        /\ WF_vars(Finish(h)) /\ WF_vars(CloseProcess(h)) /\ WF_vars(Release(h))

FairSpec == Spec /\ Fairness

-----------------------------------------------------------------------------
\* A ticket opens one relay, ever: no two connections get the same session, however
\* their frames, the expiry and the release interleave.
OneRelayPerTicket ==
    \A g, h \in Handlers : session[g] # None /\ session[g] = session[h] => g = h

\* Every connection that is served within its lifetime takes a place of the table, so
\* there are never more of them than max_sessions.  (The cleanup gives the place of a
\* session past its lifetime away while its handler may still connect, write or close.)
InTime(h) == pc[h] \in Live /\ ~PastLifetime(session[h])
CapacityKept == Cardinality({h \in Handlers : InTime(h)}) <= MaxSessions

\* No place is lost: a used session is in the table only while its handler, which will
\* release it on every path, still runs.
NoSlotLeak ==
    \A i \in table \cap consumed : \E h \in Handlers : session[h] = i /\ pc[h] \in Live

\* A served session ends: a chatty browser or process cannot extend it past its lifetime.
\* What can hold it up for ever is the SSH handshake, a process that does not read its
\* input, or a browser that does not read the frame its session ends with.
HeldUp(h) ==
    pc[h] \in {"connecting", "unread"} \/ input[h] \in {"blocked", "unread"}
SessionEnds ==
    \A h \in Handlers : pc[h] \in Live ~> (pc[h] = "ended" \/ []HeldUp(h))
=============================================================================

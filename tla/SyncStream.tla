---------------------------- MODULE SyncStream -----------------------------
(***************************************************************************)
(* utils/streaming.py, app/full_update.py and app/sync_state.py: one       *)
(* event-stream response.  An async generator relays what a sync task puts *)
(* into its bridge, waits for the task and ends with a "complete" event.   *)
(* kind "stage" is sse_stream_generator, which owns one task; kind "full"  *)
(* is event_stream of full_update_sync_stream, which runs its stages one   *)
(* after the other, each with a bridge and a task of its own, inside an    *)
(* entry of the registry of active syncs.                                  *)
(*                                                                         *)
(* External: the web server, which asks for the next event, cancels the    *)
(* generator while it awaits, or abandons it at an event (GeneratorExit    *)
(* follows when the event loop closes it); and the syncs themselves, which *)
(* emit events and return, fail, or end cancelled.                         *)
(***************************************************************************)
EXTENDS Naturals, Sequences

CONSTANTS
    LastStage,   \* number of stages of a full update
    MaxEmits     \* bound: events of one stage

ASSUME StreamConstants == LastStage \in Nat \ {0} /\ MaxEmits \in Nat

Stage == 1..LastStage
Ends == {"returned", "failed", "cancelled"}

VARIABLES
    kind,        \* "stage" or "full"
    stage,       \* the stage the generator is at
    at,          \* where the generator is
    task,        \* stage -> its task
    cancelling,  \* stage -> task.cancel() was called
    queue,       \* stage -> the bridge: "event" or "end"
    emitted,     \* stage -> events put into the bridge
    relayed,     \* stage -> events yielded
    completes,   \* the "complete" events yielded: their ok
    registered,  \* the entry in _active_runs
    cancelled,   \* history: the server cancelled the generator
    abandoned    \* the server has left the generator

tasks == <<task, cancelling, queue, emitted>>
streamVars == <<kind, stage, at, tasks, relayed, completes, registered, cancelled, abandoned>>

\* At a yield the server has the generator, elsewhere the event loop.
Yields == {"opened", "event", "stageDone", "error", "complete"}
Awaits == {"relay", "join", "stop", "final"}

StreamTypeOK ==
    /\ kind \in {"stage", "full"} /\ stage \in Stage
    /\ at \in {"start", "ended"} \cup Yields \cup Awaits
    /\ task \in [Stage -> {"none", "running"} \cup Ends]
    /\ cancelling \in [Stage -> BOOLEAN]
    /\ queue \in [Stage -> Seq({"event", "end"})]
    /\ emitted \in [Stage -> Nat] /\ relayed \in [Stage -> Nat]
    /\ completes \in Seq(BOOLEAN)
    /\ registered \in BOOLEAN /\ cancelled \in BOOLEAN /\ abandoned \in BOOLEAN

StreamInit ==
    /\ kind \in {"stage", "full"} /\ stage = 1 /\ at = "start"
    /\ task = [s \in Stage |-> "none"]
    /\ cancelling = [s \in Stage |-> FALSE]
    /\ queue = [s \in Stage |-> << >>]
    /\ emitted = [s \in Stage |-> 0] /\ relayed = [s \in Stage |-> 0]
    /\ completes = << >> /\ registered = FALSE
    /\ cancelled = FALSE /\ abandoned = FALSE

-----------------------------------------------------------------------------
\* The sync tasks.

\* emit, or send_json of the legacy messages.
Emit(s) ==
    /\ task[s] = "running" /\ emitted[s] < MaxEmits
    /\ queue' = [queue EXCEPT ![s] = Append(@, "event")]
    /\ emitted' = [emitted EXCEPT ![s] = @ + 1]
    /\ UNCHANGED <<kind, stage, at, task, cancelling, relayed, completes, registered,
                   cancelled, abandoned>>

\* The sync ends, and its finally block closes the bridge.
TaskEnds(s) ==
    /\ task[s] = "running"
    /\ \E e \in Ends :
          /\ e = "cancelled" => cancelling[s]
          /\ task' = [task EXCEPT ![s] = e]
    /\ queue' = [queue EXCEPT ![s] = Append(@, "end")]
    /\ UNCHANGED <<kind, stage, at, cancelling, emitted, relayed, completes, registered,
                   cancelled, abandoned>>

-----------------------------------------------------------------------------
\* The generator.

Goto(p) == at' = p
Yield(p) == Goto(p)
Running == task[stage] = "running"

\* The first request for an event.  The endpoint of a single stage has created its
\* task; a full update has entered register_active_sync.
Start ==
    /\ at = "start"
    /\ Yield("opened")
    /\ task' = [task EXCEPT ![1] = IF kind = "stage" THEN "running" ELSE "none"]
    /\ registered' = (kind = "full")
    /\ UNCHANGED <<kind, stage, cancelling, queue, emitted, relayed, completes, cancelled, abandoned>>

\* The server asks for the next event: a full update creates the stage's task.
ResumeOpened ==
    /\ at = "opened" /\ ~abandoned
    /\ task' = [task EXCEPT ![stage] = IF kind = "full" THEN "running" ELSE @]
    /\ Goto("relay")
    /\ UNCHANGED <<kind, stage, cancelling, queue, emitted, relayed, completes, registered,
                   cancelled, abandoned>>

ResumeEvent ==
    /\ at = "event" /\ ~abandoned
    /\ Goto("relay")
    /\ UNCHANGED <<kind, stage, tasks, relayed, completes, registered, cancelled, abandoned>>

\* iter_sse: the next item of the bridge, or a keepalive comment.
Relay ==
    /\ at = "relay" /\ queue[stage] # << >>
    /\ queue' = [queue EXCEPT ![stage] = Tail(@)]
    /\ IF Head(queue[stage]) = "event"
       THEN Yield("event") /\ relayed' = [relayed EXCEPT ![stage] = @ + 1]
       ELSE Goto("join") /\ UNCHANGED relayed
    /\ UNCHANGED <<kind, stage, task, cancelling, emitted, completes, registered, cancelled, abandoned>>

KeepAlive ==
    /\ at = "relay" /\ queue[stage] = << >>
    /\ Yield("event")
    /\ UNCHANGED <<kind, stage, tasks, relayed, completes, registered, cancelled, abandoned>>

\* Mutant: the task's result is not waited for.
JoinOptimistic ==
    /\ at = "join" /\ ~Running
    /\ Yield("stageDone")
    /\ UNCHANGED <<kind, stage, tasks, relayed, completes, registered, cancelled, abandoned>>

\* await sync_task: its result, or the exception it ended with.
Join ==
    /\ at = "join" /\ ~Running
    /\ Yield(IF task[stage] = "returned" THEN "stageDone" ELSE "error")
    /\ UNCHANGED <<kind, stage, tasks, relayed, completes, registered, cancelled, abandoned>>

\* After the "completed" event: the next stage, or the final event.
ResumeStageDone ==
    /\ at = "stageDone" /\ ~abandoned
    /\ IF kind = "full" /\ stage < LastStage
       THEN stage' = stage + 1 /\ Yield("opened") /\ UNCHANGED completes
       ELSE Yield("complete") /\ completes' = Append(completes, TRUE) /\ UNCHANGED stage
    /\ UNCHANGED <<kind, tasks, relayed, registered, cancelled, abandoned>>

\* Leaving the generator: a single stage stops its task, a full update drops its entry.
Leave ==
    IF kind = "stage" /\ Running
    THEN /\ cancelling' = [cancelling EXCEPT ![stage] = TRUE]
         /\ Goto("final") /\ UNCHANGED registered
    ELSE Goto("ended") /\ registered' = FALSE /\ UNCHANGED cancelling

\* Mutant: the stream ends with the "error" event.
ResumeErrorOnly ==
    /\ at = "error" /\ ~abandoned
    /\ Leave
    /\ UNCHANGED <<kind, stage, task, queue, emitted, relayed, completes, cancelled, abandoned>>

\* After the "error" event.
ResumeError ==
    /\ at = "error" /\ ~abandoned
    /\ Yield("complete") /\ completes' = Append(completes, FALSE)
    /\ UNCHANGED <<kind, stage, tasks, relayed, registered, cancelled, abandoned>>

ResumeComplete ==
    /\ at = "complete" /\ ~abandoned
    /\ Leave
    /\ UNCHANGED <<kind, stage, task, queue, emitted, relayed, completes, cancelled, abandoned>>

\* The except branch of a single stage waits for the task it cancelled.  An end that is
\* not a cancellation escapes from the branch.
Stopped ==
    /\ at = "stop" /\ ~Running
    /\ IF task[stage] = "failed" THEN Leave
       ELSE Yield("error") /\ UNCHANGED <<cancelling, registered>>
    /\ UNCHANGED <<kind, stage, task, queue, emitted, relayed, completes, cancelled, abandoned>>

\* The finally block has waited for the task.
Finalized ==
    /\ at = "final" /\ ~Running
    /\ Goto("ended")
    /\ UNCHANGED <<kind, stage, tasks, relayed, completes, registered, cancelled, abandoned>>

-----------------------------------------------------------------------------
\* The web server.

\* Mutant: a cancelled stream of one stage leaves its task alone.
CancelRelayOnly == Yield("error") /\ UNCHANGED cancelling

\* CancelledError inside iter_sse.
CancelRelay ==
    IF kind = "stage" /\ Running
    THEN Goto("stop") /\ cancelling' = [cancelling EXCEPT ![stage] = TRUE]
    ELSE Yield("error") /\ UNCHANGED cancelling

\* The generator is cancelled while it awaits.  An await of the task passes the
\* cancellation on to it, or raises CancelledError when the task has just ended, whatever
\* its end was; the shield of the finally block does not pass it on.
CancelStream ==
    /\ at \in Awaits
    /\ cancelled' = TRUE
    /\ CASE at = "relay" -> CancelRelay
         [] at \in {"join", "stop"} /\ Running ->
                cancelling' = [cancelling EXCEPT ![stage] = TRUE] /\ UNCHANGED at
         [] at \in {"join", "stop"} /\ ~Running -> Yield("error") /\ UNCHANGED cancelling
         [] at = "final" -> Goto("ended") /\ UNCHANGED cancelling
    /\ UNCHANGED <<kind, stage, task, queue, emitted, relayed, completes, registered, abandoned>>

\* The client has gone: the server does not ask for another event.
Abandon ==
    /\ at \in Yields /\ ~abandoned /\ abandoned' = TRUE
    /\ UNCHANGED <<kind, stage, at, tasks, relayed, completes, registered, cancelled>>

\* The event loop closes the abandoned generator.
Close ==
    /\ at \in Yields /\ abandoned
    /\ Leave
    /\ UNCHANGED <<kind, stage, task, queue, emitted, relayed, completes, cancelled, abandoned>>

-----------------------------------------------------------------------------
Generator ==
    \/ Start \/ ResumeOpened \/ ResumeEvent \/ Relay \/ KeepAlive \/ Join
    \/ ResumeStageDone \/ ResumeError \/ ResumeComplete \/ Stopped \/ Finalized

StreamNext ==
    \/ \E s \in Stage : Emit(s) \/ TaskEnds(s)
    \/ Generator \/ CancelStream \/ Abandon \/ Close

StreamSpec == StreamInit /\ [][StreamNext]_streamVars

\* The event loop goes on with a generator whose await is over and closes abandoned ones;
\* a cancelled task ends.  Nothing is assumed of the client, or of a task left alone.
StreamFairness ==
    /\ WF_streamVars(Stopped) /\ WF_streamVars(Finalized) /\ WF_streamVars(Close) /\ WF_streamVars(Join)
    /\ \A s \in Stage : WF_streamVars(cancelling[s] /\ TaskEnds(s))

FairStreamSpec == StreamSpec /\ StreamFairness

-----------------------------------------------------------------------------
StagesOf == IF kind = "stage" THEN {1} ELSE Stage

\* A stream that says ok is one whose every stage returned, after all the events the
\* stages emitted.
OkMeansDone ==
    completes # << >> /\ completes[1] =>
        \A s \in StagesOf : task[s] = "returned" /\ relayed[s] = emitted[s]

\* The client gets one "complete" event: a stream it has read to the end has exactly one,
\* no stream has two.  The exception: a task that answers its cancellation with an error.
OneComplete ==
    /\ Len(completes) <= 1
    /\ at = "ended" /\ ~abandoned =>
        Len(completes) = 1 \/ (cancelled /\ task[stage] = "failed")

\* When the client leaves, the generator ends and drops its entry; and when the client
\* leaves or the server cancels, the sync of a single stage stops.
WorkStops ==
    /\ abandoned ~> (at = "ended" /\ ~registered)
    /\ (kind = "stage" /\ (abandoned \/ cancelled)) ~> (task[1] # "running")
=============================================================================

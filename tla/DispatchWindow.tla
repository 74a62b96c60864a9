--------------------------- MODULE DispatchWindow --------------------------
(***************************************************************************)
(* What an Idempotency-Key promises a client of the VM verbs (the module   *)
(* comment of services/idempotency.py): requests of a key are served one   *)
(* by one, and the Proxmox call that one of them makes opens a window,     *)
(* closed by nothing but the TTL of the cached answer, in which no request *)
(* makes another.                                                          *)
(***************************************************************************)
EXTENDS Naturals

CONSTANTS Keys, Reqs

VARIABLES
    holders,  \* key -> the requests that are being served, at most one
    calls,    \* key -> Proxmox calls of the current window
    live      \* the keys whose cached answer is within its TTL

windowVars == <<calls, live, holders>>

WindowInit ==
    /\ holders = [k \in Keys |-> {}]
    /\ calls = [k \in Keys |-> 0]
    /\ live = {}

Admit(k, r) ==
    /\ holders[k] = {}
    /\ UNCHANGED <<calls, live>>
    /\ holders' = [holders EXCEPT ![k] = {r}]

\* Only with no call and no answer in the window.
Call(k) ==
    /\ calls[k] = 0 /\ k \notin live
    /\ calls' = [calls EXCEPT ![k] = 1]
    /\ holders[k] # {}
    /\ UNCHANGED <<live, holders>>

\* An answer is cached, or cached again.
Answer(k) ==
    /\ live' = live \cup {k}
    /\ holders[k] # {}
    /\ UNCHANGED <<calls, holders>>

\* A request that made the call does not go before an answer stands for it, whether it
\* was answered, failed or was cancelled.
Leave(k) ==
    /\ calls[k] = 0 \/ k \in live
    /\ holders[k] # {}
    /\ UNCHANGED <<calls, live>>
    /\ holders' = [holders EXCEPT ![k] = {}]

\* The end of the window.
Expire(k) ==
    /\ k \in live
    /\ live' = live \ {k}
    /\ calls' = [calls EXCEPT ![k] = 0]
    /\ UNCHANGED holders

\* A restart of the process forgets everything.
Crash ==
    /\ live' = {}
    /\ calls' = [k \in Keys |-> 0]
    /\ holders' = [k \in Keys |-> {}]

WindowNext ==
    \/ \E k \in Keys :
        \/ Answer(k) \/ Leave(k) \/ Call(k) \/ Expire(k)
        \/ \E r \in Reqs : Admit(k, r)
    \/ Crash

WindowSpec == WindowInit /\ [][WindowNext]_windowVars
=============================================================================

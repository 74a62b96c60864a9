---------------------------- MODULE MCReconcile -----------------------------
(* Model-checking instance of Reconcile: two tasks.  Every operation meets *)
(* a reconcile, a create meets an ensure, and two bulk reconciles meet,    *)
(* with equal or with different payloads.  Which task has which operation, *)
(* and which payload has which name, makes no difference.                  *)
EXTENDS Reconcile

CONSTANTS t1, t2, p, q

Job(o1, o2, w) ==
    [t \in {t1, t2} |-> IF t = t1 THEN [op |-> o1, want |-> p] ELSE [op |-> o2, want |-> w]]

TwoJobs ==
    {Job(o, "reconcile", p) : o \in {"ensure", "reconcile", "bulk"}}
        \cup {Job("create", "reconcile", q), Job("create", "ensure", p), Job("bulk", "bulk_only", q)}
=============================================================================

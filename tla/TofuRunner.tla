----------------------------- MODULE TofuRunner -----------------------------
(***************************************************************************)
(* What the callers of an OpenTofu runner rely on: a call that returns     *)
(* without an error was carried out, with the arguments of that call.      *)
(* Nothing is promised of a call that failed: its work may be done all the *)
(* same, before the answer or long after it.                               *)
(***************************************************************************)
EXTENDS Naturals

CONSTANT Arg

VARIABLES
    n,      \* the calls made so far
    busy,   \* the last of them has not returned
    args,   \* its arguments
    done,   \* what was carried out: a call, and the arguments used for it
    ok      \* the calls that returned without an error

vars == <<n, busy, args, done, ok>>

Init == n = 0 /\ busy = FALSE /\ args \in Arg /\ done = {} /\ ok = {}

Call(a) ==
    /\ ~busy
    /\ n' = n + 1 /\ busy' = TRUE /\ args' = a
    /\ UNCHANGED <<done, ok>>

Work(m, a) ==
    /\ done' = done \cup {<<m, a>>}
    /\ UNCHANGED <<n, busy, args, ok>>

Return ==
    /\ busy /\ <<n, args>> \in done
    /\ busy' = FALSE /\ ok' = ok \cup {n}
    /\ UNCHANGED <<n, args, done>>

Fail == busy /\ busy' = FALSE /\ UNCHANGED <<n, args, done, ok>>

Next ==
    \/ \E a \in Arg : Call(a)
    \/ \E m \in 1 .. n, a \in Arg : Work(m, a)
    \/ Return \/ Fail

Spec == Init /\ [][Next]_vars
=============================================================================

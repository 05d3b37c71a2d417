----------------------------- MODULE BoundedLog -----------------------------
(***************************************************************************)
(* What the log ring of the dashboard promises: a log that keeps the last  *)
(* Cap lines in the order they were added.  The module LogRing implements  *)
(* it with a circular buffer.                                              *)
(***************************************************************************)
EXTENDS Naturals, Sequences

CONSTANTS Line, Cap

VARIABLE log

Init == log = <<>>

Add(line) == log' = Append(IF Len(log) < Cap THEN log ELSE Tail(log), line)

Next == \E line \in Line : Add(line)

Spec == Init /\ [][Next]_log

TypeOK == log \in Seq(Line) /\ Len(log) <= Cap
=============================================================================

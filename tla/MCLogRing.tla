----------------------------- MODULE MCLogRing -----------------------------
(***************************************************************************)
(* Small instances of LogRing.                                             *)
(***************************************************************************)
EXTENDS LogRing

CONSTANTS a, b,       \* lines
          w1, w2,     \* writers
          ch1, ch2    \* channels

TwoLines == {a, b}
TwoWriters == {w1, w2}
OneChan == {ch1}
TwoChans == {ch1, ch2}
Batches == {<<a>>, <<b>>, <<b, a>>}
=============================================================================

----------------------------- MODULE MCTofuJobs -----------------------------
(***************************************************************************)
(* Small instances of TofuJobs.                                            *)
(***************************************************************************)
EXTENDS TofuJobs

CONSTANTS root1, root2   \* two roots, or two refs
TwoRoots == {root1, root2}
=============================================================================

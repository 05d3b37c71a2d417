---- MODULE MCManifests ----
(* Manifests on one management cluster with two workload clusters.         *)
EXTENDS Manifests, TLC

CONSTANTS r1, r2, w1, w2
MCRunners == {r1, r2}
MCWorkloads == {w1, w2}

Plain == [mode |-> "secret", as |-> "run", regenerate |-> FALSE, name |-> "default", net |-> 0]
Everyday ==
    {Plain, [Plain EXCEPT !.mode = "file"],
     [Plain EXCEPT !.as = "rollout", !.regenerate = TRUE],
     [Plain EXCEPT !.as = "purge"]}
    \cup {[Plain EXCEPT !.as = "attended", !.name = w, !.net = 1] : w \in MCWorkloads}
Alike == Permutations(MCRunners) \cup Permutations(MCWorkloads)
====

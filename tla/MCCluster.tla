----------------------------- MODULE MCCluster -----------------------------
(* Small instances of Cluster for TLC. *)
EXTENDS Cluster, TLC

CONSTANTS j1, j2, j3, b1

\* Jobs submitted one by one.
NoBatches == [j \in Jobs |-> NoBatch]

\* All jobs in one batch.
OneBatch == [j \in Jobs |-> b1]

\* Jobs and workers are interchangeable (used for safety properties only).
MCSymmetry == Permutations(Jobs) \union Permutations(Workers)
=============================================================================

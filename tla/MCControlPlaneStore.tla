------------------------ MODULE MCControlPlaneStore ------------------------
(* Small instances of ControlPlaneStore for TLC. *)
EXTENDS ControlPlaneStore, TLC

CONSTANTS j1, j2, j3, b1

\* j1 and j2 form one batch, every other job is submitted on its own.
MCBatchOf == [j \in Jobs |-> IF j \in {j1, j2} THEN b1 ELSE NoBatch]

\* Jobs of one batch, and workers, are interchangeable.
MCSymmetry == Permutations({j1, j2}) \union Permutations(Workers)
=============================================================================

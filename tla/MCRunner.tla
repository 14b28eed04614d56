------------------------------ MODULE MCRunner ------------------------------
(* The processor on small topics, for TLC.                                  *)
EXTENDS Runner, TLC

\* Replicas are interchangeable, and so are partitions; used in safety runs only.
Symmetry == Permutations(Runners) \cup Permutations(Partitions)
=============================================================================

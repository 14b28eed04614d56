---------------------------- MODULE MCCollector -----------------------------
(* The collector on small sets of requests and workers, for TLC.            *)
EXTENDS Collector, TLC

\* Requests are interchangeable and so are workers; used in safety runs only.
Symmetry == Permutations(Requests) \cup Permutations(Workers)
=============================================================================

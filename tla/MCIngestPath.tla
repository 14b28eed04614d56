---------------------------- MODULE MCIngestPath ----------------------------
(* The way in with one batch of two events and one request beside it, for   *)
(* TLC.                                                                     *)
EXTENDS IngestPath, TLC

CONSTANTS r1, r2, r3

MCRequests == {r1, r2, r3}
MCBatch    == <<r1, r2>>
Symmetry   == Permutations(Buffers)
=============================================================================

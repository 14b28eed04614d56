---------------------------- MODULE MCLifecycle -----------------------------
(* The three commands with short timers, for TLC.                           *)
EXTENDS Lifecycle

\* CHANNEL_CAP unset or wrong, a channel for one job, one that outruns the workers.
MCSettings == {[capacity |-> 0, policy |-> "drop_oldest"],
               [capacity |-> 1, policy |-> ""],
               [capacity |-> 3, policy |-> "drop_oldest"]}
=============================================================================

-------------------------- MODULE DeliveryContract --------------------------
(***************************************************************************)
(* What at-least-once delivery from the topic to the storage means: the    *)
(* consumer group's committed offset of a partition passes a message only  *)
(* when the message is settled, which is to say stored or given up.  A     *)
(* consumer that restarts reads from the committed offset, so what was     *)
(* passed is never read again.                                             *)
(***************************************************************************)
EXTENDS Naturals

CONSTANTS Partitions,
          MaxOffset       \* the messages of a partition are 1 .. MaxOffset

VARIABLES settled,        \* the messages <<p, o>> that are stored or given up
          committed       \* committed[p]: the last offset the group has passed

vars == <<settled, committed>>

Messages == Partitions \X (1 .. MaxOffset)

\* What a commit of these offsets passes.
Behind(mark) == {m \in Messages : m[2] <= mark[m[1]]}

Init == /\ settled = {}
        /\ committed = [p \in Partitions |-> 0]

\* A write stores some messages or gives them up.
Settle(S) == /\ settled' = settled \cup S
             /\ UNCHANGED committed

\* The offset may move forwards or, by a late commit, backwards.  The commit of
\* a message that nobody can read gives up what it passes.
Commit(mark, S) == /\ settled' = settled \cup S
                   /\ Behind(mark) \subseteq settled'
                   /\ committed' = mark

Next == \E S \in SUBSET Messages :
          \/ Settle(S)
          \/ \E mark \in [Partitions -> 0 .. MaxOffset] : Commit(mark, S)

Safety == Init /\ [][Next]_vars

\* Every message is stored or given up in the end.
Spec == Safety /\ \A m \in Messages : <>(m \in settled)

=============================================================================

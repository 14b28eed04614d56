--------------------------- MODULE IngestContract ---------------------------
(***************************************************************************)
(* What the collector promises about every event handed to Ingest, with    *)
(* the channel, the workers and the shutdown sequence left out.            *)
(*                                                                         *)
(* An event is refused, or it is admitted and from then on held until it   *)
(* is either published or dropped (and counted as such).  A graceful stop  *)
(* closes the intake once nothing is held and admits nothing from then on, *)
(* so it strands no event; only a kill loses events, and it loses exactly  *)
(* the held ones.                                                          *)
(***************************************************************************)

CONSTANT Requests       \* the calls of Ingest, one event each

VARIABLES fate,         \* fate[r]: what has become of r's event
          life          \* the collector process: "up", "closing", "stopped" or "killed"

vars == <<fate, life>>

Fates == {"absent", "refused", "held", "published", "dropped", "lost"}

TypeOK == /\ fate \in [Requests -> Fates]
          /\ life \in {"up", "closing", "stopped", "killed"}

Init == /\ fate = [r \in Requests |-> "absent"]
        /\ life = "up"

-----------------------------------------------------------------------------

Alive == life \in {"up", "closing"}

Become(r, from, to) == /\ Alive
                       /\ fate[r] = from
                       /\ fate' = [fate EXCEPT ![r] = to]
                       /\ UNCHANGED life

Admit(r)   == life = "up" /\ Become(r, "absent", "held")
Refuse(r)  == Become(r, "absent", "refused")
Publish(r) == Become(r, "held", "published")
Drop(r)    == Become(r, "held", "dropped")

\* Nothing is held any more and nothing will be: what published the events may go.
CloseIntake == /\ life = "up"
               /\ \A r \in Requests : fate[r] # "held"
               /\ life' = "closing"
               /\ UNCHANGED fate

Stop == /\ life = "closing"
        /\ life' = "stopped"
        /\ UNCHANGED fate

Kill == /\ Alive
        /\ life' = "killed"
        /\ fate' = [r \in Requests |-> IF fate[r] = "held" THEN "lost"
                                                           ELSE fate[r]]

Next == \/ \E r \in Requests : Admit(r) \/ Refuse(r) \/ Publish(r) \/ Drop(r)
        \/ CloseIntake \/ Stop
        \/ Kill

Safety == Init /\ [][Next]_vars

\* Whatever is held is eventually published or dropped, while the process lives.
Spec == Safety /\ \A r \in Requests : WF_vars(Publish(r) \/ Drop(r))

=============================================================================

---------------------------- MODULE AlertContract ----------------------------
(***************************************************************************)
(* What the platform owes to those who have to hear of an emergency, or    *)
(* are waiting for an e-mail, without a word of queues, attempts and       *)
(* workers.  An incident is on record before anybody is shown or told it.  *)
(* A message is owed once: from then on more and more of its receivers     *)
(* have heard it, until it counts as delivered, when all have, or is given *)
(* up.  Both are final.  BackOfficeProofs proves that Alerts does so.      *)
(***************************************************************************)
CONSTANTS
    Incidents, Messages,
    Alarms,     \* the messages about an incident
    IncidentOf  \* IncidentOf[m]: the incident that alarm m is about

VARIABLES
    receivers,  \* receivers[m]: who has to hear m; the configuration
    recorded,   \* the incidents on record
    shown,      \* those shown to the parties and the ops room
    phase,      \* phase[m]
    told        \* told[m]: who has heard m

vars == <<receivers, recorded, shown, phase, told>>

Init ==
    /\ DOMAIN receivers = Messages
    /\ recorded = {} /\ shown = {}
    /\ phase = [m \in Messages |-> "none"]
    /\ told = [m \in Messages |-> {}]

\* An incident is put on record; showing it may fail.
Record(i) ==
    /\ recorded' = recorded \cup {i}
    /\ shown' \in {shown, shown \cup {i}}
    /\ UNCHANGED <<receivers, phase, told>>

\* Messages nobody has owed before; alarms only of what was shown.
Promise(some) ==
    /\ \A m \in some : phase[m] = "none"
    /\ \A m \in some \cap Alarms : IncidentOf[m] \in shown
    /\ phase' = [m \in Messages |-> IF m \in some THEN "owed" ELSE phase[m]]
    /\ UNCHANGED <<receivers, recorded, shown, told>>

\* Receivers hear m.  It counts as delivered only when it has been heard by all.
Tell(m, heard, next) ==
    /\ phase[m] = "owed"
    /\ told' = [told EXCEPT ![m] = @ \cup heard]
    /\ phase' = [phase EXCEPT ![m] = next]
    /\ next = "delivered" => told'[m] = receivers[m]
    /\ UNCHANGED <<receivers, recorded, shown>>

Next ==
    \/ \E i \in Incidents : Record(i)
    \/ \E some \in SUBSET Messages : Promise(some)
    \/ \E m \in Messages, next \in {"owed", "delivered", "givenUp"} :
          \E heard \in SUBSET receivers[m] : Tell(m, heard, next)

Spec == Init /\ [][Next]_vars
=============================================================================

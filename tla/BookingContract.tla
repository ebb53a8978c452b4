--------------------------- MODULE BookingContract ---------------------------
(***************************************************************************)
(* What the idempotency key promises about an intent, a rider's wish to be *)
(* picked up somewhere: requests for it are served one at a time, and one  *)
(* of them books at most one ride.  A booked intent stays closed to others *)
(* until its time has passed, unless the request that booked it failed.    *)
(* Nothing is promised of an intent once the time passed under a request   *)
(* that was still being served, except that each books once.               *)
(* Booking is shown to implement this.                                     *)
(***************************************************************************)
CONSTANTS Intents, Requests, None

VARIABLES
    holder,  \* holder[i]: the request that i is reserved for, or None
    booked,  \* the requests that booked a ride
    open     \* the intents whose time passed under a request

vars == <<holder, booked, open>>

Init ==
    /\ holder = [i \in Intents |-> None]
    /\ booked = {}
    /\ open = {}

Reserve(i, t) ==
    /\ holder[i] = None
    /\ t \notin booked
    /\ holder' = [holder EXCEPT ![i] = t]
    /\ UNCHANGED <<booked, open>>

Book(i, t) ==
    /\ holder[i] = t \/ i \in open
    /\ t \notin booked
    /\ booked' = booked \cup {t}
    /\ UNCHANGED <<holder, open>>

\* The time has passed, or the request that holds i gives it up.
Free(i) ==
    /\ holder' = [holder EXCEPT ![i] = None]
    /\ UNCHANGED <<booked, open>>

\* The time has passed while a request for i was being served.
Outlast(i) ==
    /\ holder[i] # None
    /\ holder' = [holder EXCEPT ![i] = None]
    /\ open' = open \cup {i}
    /\ UNCHANGED booked

Next ==
    \E i \in Intents :
        \/ Free(i) \/ Outlast(i)
        \/ \E t \in Requests : Reserve(i, t) \/ Book(i, t)

Spec == Init /\ [][Next]_vars
=============================================================================

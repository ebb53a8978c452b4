----------------------------- MODULE RideContract -----------------------------
(***************************************************************************)
(* What dispatch and settlement promise about a ride, whatever the         *)
(* interleaving of requests: it is awarded to one driver, and only that    *)
(* driver is ever paid for it, once, the rider's cashback moving in the    *)
(* same step.  RideLifecycle is shown to implement this.                   *)
(***************************************************************************)
EXTENDS Naturals

CONSTANTS Rides, Drivers, None

VARIABLES
    awarded,   \* awarded[r]: the drivers told that r is theirs
    ledger,    \* ledger[r]: the driver paid for r, or None
    credited,  \* credited[d][r]: times d's balance was raised for r
    cashback   \* cashback[r]: times the rider's cashback was raised for r

vars == <<awarded, ledger, credited, cashback>>

Init ==
    /\ awarded = [r \in Rides |-> {}]
    /\ ledger = [r \in Rides |-> None]
    /\ credited = [d \in Drivers |-> [r \in Rides |-> 0]]
    /\ cashback = [r \in Rides |-> 0]

Award(r, d) ==
    /\ awarded[r] = {}
    /\ awarded' = [awarded EXCEPT ![r] = {d}]
    /\ UNCHANGED <<ledger, credited, cashback>>

Settle(r, d) ==
    /\ awarded[r] = {d}
    /\ ledger[r] = None
    /\ ledger' = [ledger EXCEPT ![r] = d]
    /\ credited' = [credited EXCEPT ![d][r] = 1]
    /\ cashback' = [cashback EXCEPT ![r] = 1]
    /\ UNCHANGED awarded

Next == \E r \in Rides, d \in Drivers : Award(r, d) \/ Settle(r, d)

Spec == Init /\ [][Next]_vars
=============================================================================

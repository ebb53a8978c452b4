------------------------------- MODULE Fares -------------------------------
(***************************************************************************)
(* Money as the code computes it: in integer kobo, 100 to the naira.  A    *)
(* distance is in hundredths of a kilometre, to which calculateDistance    *)
(* rounds it; the products of calculateFare and of the split are then      *)
(* integers before they are rounded or floored.                            *)
(***************************************************************************)
EXTENDS Integers

Categories == {"private", "shared", "okada", "car"}

Base == [private |-> 500, shared |-> 250, okada |-> 300, car |-> 1000]
PerKm == [private |-> 100, shared |-> 50, okada |-> 70, car |-> 200]

\* base + distance * perKm, in kobo.
calculateFare(distance, category) ==
    100 * Base[category] + distance * PerKm[category]

\* The fare every category is quoted at.
estimateRide(distance) ==
    [category \in Categories |-> calculateFare(distance, category)]

\* Fault: the shares are rounded, as toKobo rounds, and not floored.
SplitRounded(total) ==
    LET driver == (total * 95 + 50) \div 100
        rider == (total + 50) \div 100
    IN [driver |-> driver, platform |-> total - driver - rider, rider |-> rider]

\* The driver's 95% and the rider's 1% are floored, the platform has the rest.
splitFareKobo(total) ==
    LET driver == (total * 95) \div 100
        rider == total \div 100
    IN [driver |-> driver, platform |-> total - driver - rider, rider |-> rider]
=============================================================================

------------------------------ MODULE MCBooking ------------------------------
(* Small instances of Booking.                                              *)
EXTENDS Booking, TLC

OnePhoneOf == [u \in Registered |-> CHOOSE p \in Phones : TRUE]

\* All numbers but the first are one number, with and without its "+".
TwoNumbers == [p \in Phones |-> IF p = (CHOOSE q \in Phones : TRUE) THEN 1 ELSE 2]

\* A third of a kilometre by okada: no share of its fare is whole.
OkadaTrip == {[category |-> "okada", distance |-> 33]}

\* Calls, guests, and the ways to write the second number are alike.
Slots ==
    Permutations(Requests) \cup Permutations(Users \ Registered)
        \cup Permutations({p \in Phones : Digits[p] = 2})
==============================================================================

---------------------------- MODULE WalletContract ----------------------------
(***************************************************************************)
(* What the ledger promises a driver: the balance holds every movement on  *)
(* record, in full, from the step that records it.  An entry is settled or *)
(* failed at most once, and failing it takes its money back out in the     *)
(* same step.  Wallet is shown to implement this.                          *)
(***************************************************************************)
EXTENDS Integers

CONSTANTS Entries, Rows, NoEntry

VARIABLES
    entry,   \* entry[e]: the ledger row e, or NoEntry
    applied  \* applied[e]: what the balance holds on account of e

vars == <<entry, applied>>

Init ==
    /\ entry = [e \in Entries |-> NoEntry]
    /\ applied = [e \in Entries |-> 0]

Post(e) ==
    /\ entry[e] = NoEntry
    /\ \E x \in Rows :
          /\ x.status \in {"pending", "completed"}
          /\ entry' = [entry EXCEPT ![e] = x]
          /\ applied' = [applied EXCEPT ![e] = x.amount]

Settle(e) ==
    /\ entry[e].status = "pending"
    /\ entry' = [entry EXCEPT ![e].status = "completed"]
    /\ UNCHANGED applied

Reverse(e) ==
    /\ entry[e].status = "pending"
    /\ entry' = [entry EXCEPT ![e].status = "failed"]
    /\ applied' = [applied EXCEPT ![e] = 0]

Next == \E e \in Entries : Post(e) \/ Settle(e) \/ Reverse(e)

Spec == Init /\ [][Next]_vars
=============================================================================

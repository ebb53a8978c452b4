------------------------------- MODULE Wallet -------------------------------
(***************************************************************************)
(* One driver's wallet, as WalletService and completeRide's credit move    *)
(* it.  Each HTTP request is a process t of Requests.  Shared state:       *)
(*                                                                         *)
(*   Postgres  entry (the driver's ledger_entries) and applied: the        *)
(*             drivers.walletBalance column is the sum of applied, kept by *)
(*             entry so that a lost or repeated movement can be named      *)
(*   Redis     locked: which of lock:wallet:fuel / :payout keys exist      *)
(*   outside   bank[e]: what the gateway has done about entry e            *)
(*   memory    pc and job of each request                                  *)
(*                                                                         *)
(* A transaction that begins by locking the driver's row FOR UPDATE is one *)
(* step: the row is read, checked and written before anybody else can.     *)
(* What it took from the clock before it got the row is in job.opened.     *)
(* A request refused by its Redis lock changes nothing and is not a step.  *)
(* What a save of the driver's profile does to the balance meanwhile is in *)
(* DriverAccounts; here nothing else writes the column.                    *)
(***************************************************************************)
EXTENDS Integers, FiniteSets, Functions

CONSTANTS
    Requests,        \* slots for requests in flight
    Entries,         \* bound: the ledger entries that can ever be written
    Amounts,         \* amounts a driver may ask for
    Fares,           \* what a completed ride credits
    DailyLimit,      \* MFB_DAILY_FUEL_LIMIT
    LastDay,         \* bound: the last day of the calendar
    Failures,        \* may calls be rejected and processes die?
    None             \* no entry

ASSUME Sizes ==
    /\ None \notin Entries
    /\ Amounts \subseteq Nat \ {0}
    /\ Fares \subseteq Nat
    /\ DailyLimit \in Nat
    /\ LastDay \in Nat
    /\ Failures \in BOOLEAN

\* A table has finitely many rows: the SUM over them has an end.
ASSUME LedgerIsFinite == IsFiniteSet(Entries)

Kinds == {"fuel", "payout"}
Days == 0..LastDay
Status == {"pending", "completed", "failed"}

Signed(kind, amount) == IF kind = "payout" THEN -amount ELSE amount
Row(type, amounts) ==
    [type: {type}, amount: amounts, status: Status, day: Days]
Rows == Row("fare", Fares) \cup Row("fuel", Amounts)
          \cup Row("payout", {-a : a \in Amounts})
NoEntry == [type |-> "none", amount |-> 0, status |-> "none", day |-> 0]
Answers == {"paid", "refused", "settling"}

Labels == {"idle", "reserve", "gateway", "settle", "reverse", "release"}
Jobs == [kind: Kinds, amount: Amounts, opened: Days,
         entry: Entries \cup {None}]
NoJob == [kind |-> "none", amount |-> 0, opened |-> 0, entry |-> None]
InHand == {"gateway", "settle", "reverse"}

VARIABLES entry, applied, locked, bank, day, pc, job

vars == <<entry, applied, locked, bank, day, pc, job>>

TypeOK ==
    /\ entry \in [Entries -> Rows \cup {NoEntry}]
    /\ applied \in [Entries -> Int]
    /\ locked \in SUBSET Kinds
    /\ bank \in [Entries -> Answers \cup {"unasked"}]
    /\ day \in Days
    /\ pc \in [Requests -> Labels]
    /\ job \in [Requests -> Jobs \cup {NoJob}]

Init ==
    /\ entry = [e \in Entries |-> NoEntry]
    /\ applied = [e \in Entries |-> 0]
    /\ locked = {}
    /\ bank = [e \in Entries |-> "unasked"]
    /\ day = 0
    /\ pc = [t \in Requests |-> "idle"]
    /\ job = [t \in Requests |-> NoJob]

-----------------------------------------------------------------------------
Goto(t, label) == pc' = [pc EXCEPT ![t] = label]

Balance == SumFunction(applied)

Amount(rows) == [e \in Entries |-> rows[e].amount]
SumOver(S) == SumFunctionOnSet(Amount(entry), S)

Live == {e \in Entries : entry[e].status \in {"completed", "pending"}}

\* sumForStakeholder over the fuel entries of one day.
FuelOf(d) == {e \in Live : entry[e].type = "fuel" /\ entry[e].day = d}
UsedOn(d) == SumOver(FuelOf(d))

\* Bound: a new request or fare needs an entry nobody is about to write.
Unused == {e \in Entries : entry[e] = NoEntry}
Reserving == {t \in Requests : pc[t] = "reserve"}
RoomInLedger == Cardinality(Reserving) < Cardinality(Unused)

\* writeEntries, in the transaction that moves the balance by the same amount.
Post(e, row) ==
    /\ entry[e] = NoEntry
    /\ entry' = [entry EXCEPT ![e] = row]
    /\ applied' = [applied EXCEPT ![e] = @ + row.amount]

\* completeRide's credit and RIDE_FARE_DRIVER entry, committed together.
Earn(e, fare) ==
    /\ RoomInLedger
    /\ Post(e, [type |-> "fare", amount |-> fare, status |-> "completed",
                day |-> day])
    /\ UNCHANGED <<locked, bank, day, pc, job>>

-----------------------------------------------------------------------------
(* requestFuelSupport and requestPayout                                    *)

\* The Redis lock, and the BEGIN that fixes the entry's createdAt.
Ask(t, kind, amount) ==
    /\ pc[t] = "idle"
    /\ kind \notin locked
    /\ RoomInLedger
    /\ locked' = locked \cup {kind}
    /\ job' = [job EXCEPT ![t] = [kind |-> kind, amount |-> amount,
                                  opened |-> day, entry |-> None]]
    /\ Goto(t, "reserve")
    /\ UNCHANGED <<entry, applied, bank, day>>

\* Fault: the limit is checked for each request alone.
AllowedEach(kind, amount) ==
    IF kind = "fuel" THEN amount <= DailyLimit ELSE amount <= Balance

\* Fault: the balance is not checked.
AllowedUnfunded(kind, amount) ==
    kind = "fuel" => amount <= DailyLimit - UsedOn(day)

\* Today is the day on which the row lock was obtained.
Allowed(kind, amount) ==
    IF kind = "fuel" THEN amount <= DailyLimit - UsedOn(day)
                     ELSE amount <= Balance

PendingRow(j) ==
    [type |-> j.kind, amount |-> Signed(j.kind, j.amount),
     status |-> "pending", day |-> j.opened]

Reserve(t) ==
    /\ pc[t] = "reserve"
    /\ \/ /\ Allowed(job[t].kind, job[t].amount)
          /\ \E e \in Entries :
                /\ Post(e, PendingRow(job[t]))
                /\ job' = [job EXCEPT ![t].entry = e]
          /\ Goto(t, "gateway")
       \/ /\ ~Allowed(job[t].kind, job[t].amount)
          /\ Goto(t, "release")
          /\ UNCHANGED <<entry, applied, job>>
    /\ UNCHANGED <<locked, bank, day>>

\* Fault: whatever is not paid at once is taken for a refusal.
GatewayAnswersHasty(t) ==
    /\ pc[t] = "gateway"
    /\ \E answer \in Answers :
          /\ answer = "settling" => job[t].kind = "payout"
          /\ bank' = [bank EXCEPT ![job[t].entry] = answer]
          /\ Goto(t, IF answer = "paid" THEN "settle" ELSE "reverse")
    /\ UNCHANGED <<entry, applied, locked, day, job>>

\* disburse and initiatePayout.  A payout may also be reported as processing.
GatewayAnswers(t) ==
    /\ pc[t] = "gateway"
    /\ \E answer \in Answers :
          /\ answer = "settling" => job[t].kind = "payout"
          /\ bank' = [bank EXCEPT ![job[t].entry] = answer]
          /\ Goto(t, IF answer = "refused" THEN "reverse" ELSE "settle")
    /\ UNCHANGED <<entry, applied, locked, day, job>>

\* Fault: a payout still processing is marked failed.
SettleAsFailed(t) ==
    LET e == job[t].entry IN
    /\ pc[t] = "settle"
    /\ entry' = [entry EXCEPT ![e].status =
                    IF bank[e] = "paid" THEN "completed" ELSE "failed"]
    /\ Goto(t, "release")
    /\ UNCHANGED <<applied, locked, bank, day, job>>

\* settleEntry: a payout still processing stays pending.
Settle(t) ==
    LET e == job[t].entry IN
    /\ pc[t] = "settle"
    /\ entry' = [entry EXCEPT ![e].status =
                    IF bank[e] = "paid" THEN "completed" ELSE "pending"]
    /\ Goto(t, "release")
    /\ UNCHANGED <<applied, locked, bank, day, job>>

\* Fault: the entry is marked, the money stays.
ReverseEntryOnly(t) ==
    /\ pc[t] = "reverse"
    /\ entry' = [entry EXCEPT ![job[t].entry].status = "failed"]
    /\ Goto(t, "release")
    /\ UNCHANGED <<applied, locked, bank, day, job>>

\* reverseDriverBalance: the balance and the entry in one transaction.
Reverse(t) ==
    LET e == job[t].entry IN
    /\ pc[t] = "reverse"
    /\ entry' = [entry EXCEPT ![e].status = "failed"]
    /\ applied' = [applied EXCEPT ![e] =
                      @ - Signed(job[t].kind, job[t].amount)]
    /\ Goto(t, "release")
    /\ UNCHANGED <<locked, bank, day, job>>

Finish(t) ==
    /\ Goto(t, "idle")
    /\ job' = [job EXCEPT ![t] = NoJob]

\* finally { redis.del(lockKey) }
Release(t) ==
    /\ pc[t] = "release"
    /\ locked' = locked \ {job[t].kind}
    /\ Finish(t)
    /\ UNCHANGED <<entry, applied, bank, day>>

-----------------------------------------------------------------------------
(* What goes wrong, and the clock                                          *)

\* When the call to the gateway is lost, the gateway may have acted.
Unheard(t) ==
    IF pc[t] = "gateway"
    THEN \E fate \in {"unasked", "paid", "refused"} :
            bank' = [bank EXCEPT ![job[t].entry] = fate]
    ELSE UNCHANGED bank

\* An awaited call rejects: nothing compensates, the finally block runs.
RequestFails(t) ==
    /\ Failures
    /\ pc[t] \notin {"idle", "release"}
    /\ Unheard(t)
    /\ Goto(t, "release")
    /\ UNCHANGED <<entry, applied, locked, day, job>>

Crash(t) ==
    /\ Failures
    /\ pc[t] # "idle"
    /\ Unheard(t)
    /\ Finish(t)
    /\ UNCHANGED <<entry, applied, locked, day>>

\* EX 15, under a dead request or a slow gateway alike.
Expire(kind) ==
    /\ kind \in locked
    /\ locked' = locked \ {kind}
    /\ UNCHANGED <<entry, applied, bank, day, pc, job>>

Midnight ==
    /\ day < LastDay
    /\ day' = day + 1
    /\ UNCHANGED <<entry, applied, locked, bank, pc, job>>

Step(t) ==
    \/ Reserve(t) \/ GatewayAnswers(t) \/ Settle(t) \/ Reverse(t)
    \/ Release(t)

Next ==
    \/ \E t \in Requests :
          \/ \E kind \in Kinds, amount \in Amounts : Ask(t, kind, amount)
          \/ Step(t) \/ RequestFails(t) \/ Crash(t)
    \/ \E e \in Entries, fare \in Fares : Earn(e, fare)
    \/ \E kind \in Kinds : Expire(kind)
    \/ Midnight

Spec == Init /\ [][Next]_vars

-----------------------------------------------------------------------------
(* Properties                                                              *)

\* The balance is the cache of the ledger it is meant to be: it holds exactly
\* the entries that have not failed, each once, though requests of both kinds,
\* fares, expired locks and failures interleave.
BalanceFollowsLedger ==
    \A e \in Entries : applied[e] = IF e \in Live THEN entry[e].amount ELSE 0

\* The fuel advances of today, as the ledger dates them, stay within the limit,
\* whatever the Redis lock is worth and however requests straddle midnight.
\* (A day that is over may exceed it: by the entries of transactions that
\* began on it and got the driver's row only on the next.)
DailyCap == UsedOn(day) <= DailyLimit

\* Nobody spends what is not there, but for an advance that is spent before the
\* bank refuses it: the balance is only as far below zero as such refusals go.
RefusedFuel == {e \in Entries : entry[e].type = "fuel" /\ entry[e].status = "failed"}
OverdraftIsRefusedFuel == Balance >= -SumOver(RefusedFuel)

\* The ledger never contradicts the gateway: an entry marked failed (and so
\* given back) was refused, one marked completed was paid, even when answers
\* are lost, requests die half-way and the driver asks again.
LedgerTrustsGateway ==
    \A e \in Entries :
        /\ entry[e].status = "failed" => bank[e] = "refused"
        /\ entry[e].status = "completed" /\ entry[e].type # "fare" =>
              bank[e] = "paid"

Contract == INSTANCE WalletContract WITH entry <- entry, applied <- applied

\* Entries are posted, settled and reversed as the contract says, each with its
\* money in the same step and never twice.
ContractSpec == Contract!Spec

-----------------------------------------------------------------------------
(* The inductive invariant behind the theorems of WalletProofs             *)

Control ==
    \A t \in Requests :
        pc[t] \in InHand \cup {"reserve", "release"} => job[t] \in Jobs

\* Between its two transactions a request holds a pending entry of its own,
\* and knows what the gateway did about it.
HoldsEntry ==
    \A t \in Requests : pc[t] \in InHand =>
        LET e == job[t].entry IN
        /\ e \in Entries
        /\ entry[e].type = job[t].kind
        /\ entry[e].amount = Signed(job[t].kind, job[t].amount)
        /\ entry[e].status = "pending"
        /\ pc[t] = "gateway" => bank[e] = "unasked"
        /\ pc[t] = "settle" => bank[e] \in {"paid", "settling"}
        /\ pc[t] = "reverse" => bank[e] = "refused"

HoldsItAlone ==
    \A t, u \in Requests :
        pc[t] \in InHand /\ pc[u] \in InHand /\ job[t].entry = job[u].entry
            => t = u

\* Nobody asks the gateway about an entry that is not written, or a fare.
AskedAfterPosting ==
    \A e \in Entries :
        entry[e] = NoEntry \/ entry[e].type = "fare" => bank[e] = "unasked"

WalletInv ==
    TypeOK /\ Control /\ HoldsEntry /\ HoldsItAlone /\ AskedAfterPosting
    /\ LedgerTrustsGateway /\ BalanceFollowsLedger

\* Nothing is dated after today, not even what is about to be reserved.
Dated ==
    /\ \A e \in Entries : entry[e].day <= day
    /\ \A t \in Requests : pc[t] = "reserve" => job[t].opened <= day

LimitsInv == Dated /\ DailyCap /\ OverdraftIsRefusedFuel

=============================================================================

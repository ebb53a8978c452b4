---------------------------- MODULE WalletProofs ----------------------------
(***************************************************************************)
(* Proofs about Wallet, for any number of requests, entries and days.      *)
(***************************************************************************)
EXTENDS Wallet, FiniteSetTheorems, WellFoundedInduction, TLAPS

LEMMA AmountsAreInt ==
    /\ \A a \in Amounts : a \in Int /\ -a \in Int
    /\ \A a \in Fares : a \in Int
<1>1. \A a \in Amounts : a \in Nat
  BY Sizes
<1>2. \A a \in Fares : a \in Nat
  BY Sizes
<1>. QED  BY <1>1, <1>2

\* A row keeps its type and amount when its status changes.
LEMMA RowStatus ==
    ASSUME NEW x \in Rows, NEW s \in Status
    PROVE  /\ [x EXCEPT !.status = s] \in Rows
           /\ [x EXCEPT !.status = s].type = x.type
           /\ [x EXCEPT !.status = s].amount = x.amount
           /\ [x EXCEPT !.status = s].status = s
BY DEF Rows, Row

LEMMA RowFields ==
    ASSUME NEW x \in Rows
    PROVE  /\ x # NoEntry
           /\ x.type \in {"fare", "fuel", "payout"}
           /\ x.amount \in Int
           /\ x.status \in Status
<1>1. ASSUME NEW a \in {-b : b \in Amounts} PROVE a \in Int
  <2>1. PICK b \in Amounts : a = -b
    OBVIOUS
  <2>. QED  BY <2>1, AmountsAreInt
<1>2. x.type \in {"fare", "fuel", "payout"} /\ x.amount \in Int
      /\ x.status \in Status
  <2>1. CASE x \in Row("fare", Fares)
    BY <2>1, AmountsAreInt DEF Row
  <2>2. CASE x \in Row("fuel", Amounts)
    BY <2>2, AmountsAreInt DEF Row
  <2>3. CASE x \in Row("payout", {-a : a \in Amounts})
    BY <1>1, <2>3 DEF Row
  <2>. QED  BY <2>1, <2>2, <2>3 DEF Rows
<1>3. x # NoEntry
  BY <1>2 DEF NoEntry
<1>. QED  BY <1>2, <1>3

\* What a request posts is a pending row of its own kind.
LEMMA PendingIsRow ==
    ASSUME NEW j \in Jobs
    PROVE  /\ PendingRow(j) \in Rows
           /\ PendingRow(j).type = j.kind
           /\ PendingRow(j).amount = Signed(j.kind, j.amount)
           /\ PendingRow(j).status = "pending"
           /\ j.kind \in Kinds
           /\ Signed(j.kind, j.amount) \in Int
<1>. DEFINE x == PendingRow(j)
<1>1. j.kind \in Kinds /\ j.amount \in Amounts /\ j.opened \in Days
  BY DEF Jobs
<1>2. x.type = j.kind /\ x.amount = Signed(j.kind, j.amount)
      /\ x.status = "pending"
  BY DEF PendingRow
<1>3. x \in Rows
  <2>1. CASE j.kind = "fuel"
    <3>1. x \in Row("fuel", Amounts)
      BY <1>1, <2>1 DEF PendingRow, Signed, Row, Status
    <3>. QED  BY <3>1 DEF Rows
  <2>2. CASE j.kind = "payout"
    <3>1. -j.amount \in {-a : a \in Amounts}
      BY <1>1
    <3>2. x \in Row("payout", {-a : a \in Amounts})
      BY <1>1, <2>2, <3>1 DEF PendingRow, Signed, Row, Status
    <3>. QED  BY <3>2 DEF Rows
  <2>. QED  BY <1>1, <2>1, <2>2 DEF Kinds
<1>4. Signed(j.kind, j.amount) \in Int
  BY <1>1, AmountsAreInt DEF Signed
<1>. QED  BY <1>1, <1>2, <1>3, <1>4

LEMMA InvInit == Init => WalletInv
<1>. SUFFICES ASSUME Init PROVE WalletInv
  OBVIOUS
<1>1. TypeOK
  BY Sizes DEF Init, TypeOK, Days, Labels
<1>2. Control /\ HoldsEntry /\ HoldsItAlone /\ AskedAfterPosting
  BY DEF Init, Control, HoldsEntry, HoldsItAlone, AskedAfterPosting, InHand
<1>3. LedgerTrustsGateway /\ BalanceFollowsLedger
  BY DEF Init, LedgerTrustsGateway, BalanceFollowsLedger, Live,
         NoEntry
<1>. QED  BY <1>1, <1>2, <1>3 DEF WalletInv

-----------------------------------------------------------------------------
(* Steps on the money.  A posted entry brings its money with it.           *)

LEMMA PostTyped ==
    ASSUME TypeOK, NEW e \in Entries, NEW row \in Rows, Post(e, row)
    PROVE  /\ entry' \in [Entries -> Rows \cup {NoEntry}]
           /\ applied' \in [Entries -> Int]
           /\ \A f \in Entries : entry'[f] = IF f = e THEN row ELSE entry[f]
           /\ \A f \in Entries :
                applied'[f] = IF f = e THEN applied[e] + row.amount
                                       ELSE applied[f]
BY RowFields DEF Post, TypeOK

LEMMA PostKeepsBalance ==
    ASSUME TypeOK, NEW e \in Entries, NEW row \in Rows, Post(e, row),
           row.status # "failed", BalanceFollowsLedger
    PROVE  BalanceFollowsLedger'
<1>1. entry[e] = NoEntry /\ applied[e] = 0
  BY DEF Post, BalanceFollowsLedger, Live, NoEntry
<1>2. row.status \in {"completed", "pending"}
  BY RowFields DEF Status
<1>3. row.amount \in Int
  BY RowFields
<1>4. ASSUME NEW f \in Entries
      PROVE  applied'[f] = IF entry'[f].status \in {"completed", "pending"}
                           THEN entry'[f].amount ELSE 0
  <2>1. CASE f = e
    BY <1>1, <1>2, <1>3, <2>1, PostTyped
  <2>2. CASE f # e
    <3>1. entry'[f] = entry[f] /\ applied'[f] = applied[f]
      BY <2>2, PostTyped
    <3>. QED  BY <3>1 DEF BalanceFollowsLedger, Live
  <2>. QED  BY <2>1, <2>2
<1>. QED  BY <1>4 DEF BalanceFollowsLedger, Live

LEMMA PostKeepsTrust ==
    ASSUME TypeOK, NEW e \in Entries, NEW row \in Rows, Post(e, row),
           UNCHANGED bank, AskedAfterPosting, LedgerTrustsGateway,
           row.status # "failed", row.status = "completed" => row.type = "fare"
    PROVE  AskedAfterPosting' /\ LedgerTrustsGateway'
<1>1. bank[e] = "unasked"
  BY DEF Post, AskedAfterPosting
<1>2. row # NoEntry
  BY RowFields
<1>3. AskedAfterPosting'
  BY <1>1, PostTyped DEF AskedAfterPosting
<1>4. LedgerTrustsGateway'
  BY PostTyped DEF LedgerTrustsGateway
<1>. QED  BY <1>3, <1>4

LEMMA EarnKeeps ==
    ASSUME WalletInv, NEW e \in Entries, NEW fare \in Fares, Earn(e, fare)
    PROVE  WalletInv'
<1>. DEFINE row == [type |-> "fare", amount |-> fare, status |-> "completed",
                    day |-> day]
<1>1. TypeOK /\ Post(e, row) /\ UNCHANGED <<locked, bank, day, pc, job>>
  BY DEF WalletInv, Earn
<1>2. row \in Rows /\ row.type = "fare" /\ row.status = "completed"
  BY <1>1 DEF TypeOK, Rows, Row, Status
<1>. HIDE DEF row
<1>3. TypeOK'
  BY <1>1, <1>2, PostTyped DEF TypeOK
<1>4. Control'
  BY <1>1 DEF Control, WalletInv
<1>5. HoldsEntry'
  <2>. SUFFICES ASSUME NEW t \in Requests, pc[t] \in InHand
                PROVE  /\ job[t].entry \in Entries
                       /\ entry'[job[t].entry] = entry[job[t].entry]
    BY <1>1 DEF HoldsEntry, WalletInv
  <2>1. job[t].entry \in Entries /\ entry[job[t].entry].status = "pending"
    BY DEF HoldsEntry, WalletInv
  <2>2. job[t].entry # e
    BY <1>1, <2>1 DEF Post, NoEntry
  <2>. QED  BY <1>1, <1>2, <2>1, <2>2, PostTyped
<1>6. HoldsItAlone'
  BY <1>1 DEF HoldsItAlone, WalletInv
<1>7. AskedAfterPosting' /\ LedgerTrustsGateway'
  BY <1>1, <1>2, PostKeepsTrust DEF WalletInv
<1>8. BalanceFollowsLedger'
  BY <1>1, <1>2, PostKeepsBalance DEF WalletInv
<1>. QED  BY <1>3, <1>4, <1>5, <1>6, <1>7, <1>8 DEF WalletInv

-----------------------------------------------------------------------------
(* Steps off the money.  A step that leaves the entries alone, and lets go *)
(* of an entry at most, keeps the invariant if it keeps the types.         *)

LEMMA Frame ==
    ASSUME WalletInv, TypeOK', Control', UNCHANGED <<entry, bank>>,
           UNCHANGED applied,
           \A t \in Requests : pc'[t] \in InHand =>
               pc'[t] = pc[t] /\ job'[t] = job[t]
    PROVE  WalletInv'
<1>1. HoldsEntry'
  BY DEF HoldsEntry, WalletInv
<1>2. HoldsItAlone'
  BY DEF HoldsItAlone, WalletInv
<1>3. AskedAfterPosting' /\ LedgerTrustsGateway'
  BY DEF AskedAfterPosting, LedgerTrustsGateway, WalletInv
<1>4. BalanceFollowsLedger'
  BY DEF BalanceFollowsLedger, Live, WalletInv
<1>. QED  BY <1>1, <1>2, <1>3, <1>4 DEF WalletInv

LEMMA NoJobIsNoJob == NoJob.kind \notin Kinds
BY DEF NoJob, Kinds

LEMMA GotoEffect ==
    ASSUME TypeOK, NEW t \in Requests, NEW label \in Labels, Goto(t, label)
    PROVE  /\ pc' \in [Requests -> Labels]
           /\ \A u \in Requests : pc'[u] = IF u = t THEN label ELSE pc[u]
BY DEF Goto, TypeOK

LEMMA FinishEffect ==
    ASSUME TypeOK, NEW t \in Requests, Finish(t)
    PROVE  /\ pc' \in [Requests -> Labels]
           /\ job' \in [Requests -> Jobs \cup {NoJob}]
           /\ \A u \in Requests : pc'[u] = IF u = t THEN "idle" ELSE pc[u]
           /\ \A u \in Requests \ {t} : job'[u] = job[u]
BY DEF Finish, Goto, TypeOK, Labels

LEMMA FinishControl ==
    ASSUME TypeOK, Control, NEW t \in Requests, Finish(t)
    PROVE  Control'
<1>1. ASSUME NEW u \in Requests
      PROVE  pc'[u] \in InHand \cup {"reserve", "release"} => job'[u] \in Jobs
  <2>1. CASE u = t
    BY <2>1, FinishEffect DEF InHand
  <2>2. CASE u # t
    BY <2>2, FinishEffect DEF Control
  <2>. QED  BY <2>1, <2>2
<1>. QED  BY <1>1 DEF Control

LEMMA GotoControl ==
    ASSUME TypeOK, Control, NEW t \in Requests, NEW label \in Labels,
           Goto(t, label), UNCHANGED job,
           label \in InHand \cup {"reserve", "release"} => job[t] \in Jobs
    PROVE  Control'
<1>1. ASSUME NEW u \in Requests
      PROVE  pc'[u] \in InHand \cup {"reserve", "release"} => job'[u] \in Jobs
  <2>1. CASE u = t
    BY <2>1, GotoEffect
  <2>2. CASE u # t
    BY <2>2, GotoEffect DEF Control
  <2>. QED  BY <2>1, <2>2
<1>. QED  BY <1>1 DEF Control

LEMMA AskKeeps ==
    ASSUME WalletInv, NEW t \in Requests, NEW kind \in Kinds,
           NEW amount \in Amounts, Ask(t, kind, amount)
    PROVE  WalletInv'
<1>. DEFINE j == [kind |-> kind, amount |-> amount, opened |-> day,
                  entry |-> None]
<1>1. /\ TypeOK /\ Control
      /\ pc[t] = "idle"
      /\ locked' = locked \cup {kind}
      /\ job' = [job EXCEPT ![t] = j]
      /\ Goto(t, "reserve")
      /\ UNCHANGED <<entry, applied, bank, day>>
  BY DEF WalletInv, Ask
<1>2. j \in Jobs
  BY <1>1 DEF Jobs, TypeOK
<1>. HIDE DEF j
<1>3. /\ pc' \in [Requests -> Labels]
      /\ \A u \in Requests : pc'[u] = IF u = t THEN "reserve" ELSE pc[u]
  BY <1>1, GotoEffect DEF Labels
<1>4. /\ job' \in [Requests -> Jobs \cup {NoJob}]
      /\ \A u \in Requests : job'[u] = IF u = t THEN j ELSE job[u]
  BY <1>1, <1>2 DEF TypeOK
<1>5. TypeOK'
  BY <1>1, <1>3, <1>4 DEF TypeOK
<1>6. Control'
  BY <1>1, <1>2, <1>3, <1>4 DEF Control, InHand
<1>7. \A u \in Requests : pc'[u] \in InHand =>
          pc'[u] = pc[u] /\ job'[u] = job[u]
  BY <1>3, <1>4 DEF InHand
<1>. QED  BY <1>1, <1>5, <1>6, <1>7, Frame

LEMMA ReleaseKeeps ==
    ASSUME WalletInv, NEW t \in Requests, Release(t)
    PROVE  WalletInv'
<1>1. /\ TypeOK /\ Control /\ Finish(t)
      /\ locked' = locked \ {job[t].kind}
      /\ UNCHANGED <<entry, applied, bank, day>>
  BY DEF WalletInv, Release
<1>2. TypeOK'
  BY <1>1, FinishEffect DEF TypeOK
<1>3. \A u \in Requests : pc'[u] \in InHand =>
          pc'[u] = pc[u] /\ job'[u] = job[u]
  BY <1>1, FinishEffect DEF InHand
<1>. QED  BY <1>1, <1>2, <1>3, FinishControl, Frame

LEMMA ClockKeeps ==
    ASSUME WalletInv,
           Midnight \/ (\E kind \in Kinds : Expire(kind)) \/ UNCHANGED vars
    PROVE  WalletInv'
<1>1. /\ UNCHANGED <<entry, applied, bank, pc, job>>
      /\ locked' \subseteq locked /\ day' \in Days
  <2>1. CASE Midnight
    <3>1. day \in 0..LastDay /\ LastDay \in Nat
      BY Sizes DEF WalletInv, TypeOK, Days
    <3>2. day + 1 \in 0..LastDay
      BY <2>1, <3>1 DEF Midnight
    <3>. QED  BY <2>1, <3>2 DEF Midnight, Days
  <2>2. CASE \E kind \in Kinds : Expire(kind)
    BY <2>2 DEF Expire, WalletInv, TypeOK
  <2>3. CASE UNCHANGED vars
    BY <2>3 DEF vars, WalletInv, TypeOK
  <2>. QED  BY <2>1, <2>2, <2>3
<1>2. TypeOK'
  BY <1>1 DEF TypeOK, WalletInv
<1>3. Control'
  BY <1>1 DEF Control, WalletInv
<1>. QED  BY <1>1, <1>2, <1>3, Frame

-----------------------------------------------------------------------------
(* The two transactions of a request                                       *)

\* What a request that holds an entry knows.
LEMMA Holding ==
    ASSUME WalletInv, NEW t \in Requests, pc[t] \in InHand
    PROVE  /\ job[t] \in Jobs
           /\ job[t].entry \in Entries
           /\ entry[job[t].entry] \in Rows
           /\ entry[job[t].entry].type = job[t].kind
           /\ entry[job[t].entry].type # "fare"
           /\ entry[job[t].entry].amount = Signed(job[t].kind, job[t].amount)
           /\ entry[job[t].entry].status = "pending"
<1>1. job[t] \in Jobs
  BY DEF WalletInv, Control
<1>2. HoldsEntry /\ TypeOK
  BY DEF WalletInv
<1>3. /\ job[t].entry \in Entries
      /\ entry[job[t].entry].type = job[t].kind
      /\ entry[job[t].entry].amount = Signed(job[t].kind, job[t].amount)
      /\ entry[job[t].entry].status = "pending"
  BY <1>2 DEF HoldsEntry
<1>4. entry[job[t].entry] # NoEntry
  BY <1>3 DEF NoEntry
<1>5. job[t].kind # "fare"
  BY <1>1 DEF Jobs, Kinds
<1>. QED  BY <1>1, <1>2, <1>3, <1>4, <1>5 DEF TypeOK

\* The entry in the hands of t is in nobody else's, so what happens to it
\* leaves the others' knowledge alone.
LEMMA OthersHold ==
    ASSUME WalletInv, NEW t \in Requests, pc[t] \in InHand,
           UNCHANGED job,
           \A u \in Requests \ {t} : pc'[u] = pc[u],
           \A e \in Entries \ {job[t].entry} :
               entry'[e] = entry[e] /\ bank'[e] = bank[e],
           pc'[t] \notin InHand
    PROVE  HoldsEntry' /\ HoldsItAlone'
<1>1. ASSUME NEW u \in Requests, pc'[u] \in InHand
      PROVE  /\ pc[u] = pc'[u]
             /\ job[u].entry \in Entries
             /\ entry'[job[u].entry] = entry[job[u].entry]
             /\ bank'[job[u].entry] = bank[job[u].entry]
  <2>1. u # t
    BY <1>1
  <2>2. pc[u] = pc'[u]
    BY <2>1
  <2>3. job[u].entry \in Entries
    BY <1>1, <2>2, Holding
  <2>4. job[u].entry # job[t].entry
    BY <1>1, <2>1, <2>2 DEF WalletInv, HoldsItAlone
  <2>. QED  BY <2>2, <2>3, <2>4
<1>2. HoldsEntry'
  BY <1>1 DEF WalletInv, HoldsEntry
<1>3. HoldsItAlone'
  BY <1>1 DEF WalletInv, HoldsItAlone
<1>. QED  BY <1>2, <1>3

LEMMA ReserveKeeps ==
    ASSUME WalletInv, NEW t \in Requests, Reserve(t)
    PROVE  WalletInv'
<1>1. /\ TypeOK /\ Control /\ pc[t] = "reserve" /\ job[t] \in Jobs
      /\ UNCHANGED <<locked, bank, day>>
  BY DEF WalletInv, Reserve, Control
<1>2. CASE Goto(t, "release") /\ UNCHANGED <<entry, applied, job>>
  <2>1. TypeOK'
    BY <1>1, <1>2, GotoEffect DEF TypeOK, Labels
  <2>2. Control'
    BY <1>1, <1>2, GotoControl DEF Labels, InHand
  <2>3. \A u \in Requests : pc'[u] \in InHand =>
            pc'[u] = pc[u] /\ job'[u] = job[u]
    BY <1>1, <1>2, GotoEffect DEF Labels, InHand
  <2>. QED  BY <1>1, <1>2, <2>1, <2>2, <2>3, Frame
<1>3. ASSUME NEW e \in Entries, Post(e, PendingRow(job[t])),
             job' = [job EXCEPT ![t].entry = e], Goto(t, "gateway")
      PROVE  WalletInv'
  <2>. DEFINE row == PendingRow(job[t])
              j == [job[t] EXCEPT !.entry = e]
  <2>1. /\ row \in Rows /\ row.type = job[t].kind /\ row.status = "pending"
        /\ row.amount = Signed(job[t].kind, job[t].amount)
    BY <1>1, PendingIsRow
  <2>2. /\ j \in Jobs /\ j.entry = e
        /\ j.kind = job[t].kind /\ j.amount = job[t].amount
    BY <1>1 DEF Jobs
  <2>3. \A u \in Requests : job'[u] = IF u = t THEN j ELSE job[u]
    BY <1>1, <1>3 DEF TypeOK
  <2>4. job' \in [Requests -> Jobs \cup {NoJob}]
    BY <1>1, <1>3, <2>2 DEF TypeOK
  <2>. HIDE DEF row, j
  <2>5. Post(e, row)
    BY <1>3 DEF row
  <2>6. /\ pc' \in [Requests -> Labels]
        /\ \A u \in Requests : pc'[u] = IF u = t THEN "gateway" ELSE pc[u]
    BY <1>1, <1>3, GotoEffect DEF Labels
  <2>7. TypeOK'
    BY <1>1, <2>1, <2>4, <2>5, <2>6, PostTyped DEF TypeOK
  <2>8. Control'
    BY <1>1, <2>2, <2>3, <2>6 DEF Control, InHand
  <2>9. entry[e] = NoEntry /\ bank[e] = "unasked"
    BY <2>5 DEF Post, WalletInv, AskedAfterPosting
  <2>10. ASSUME NEW u \in Requests \ {t}, pc'[u] \in InHand
         PROVE  /\ pc[u] = pc'[u] /\ job[u].entry \in Entries
                /\ job[u].entry # e
                /\ entry'[job[u].entry] = entry[job[u].entry]
    <3>1. pc[u] = pc'[u]
      BY <2>6
    <3>2. /\ job[u].entry \in Entries
          /\ entry[job[u].entry].status = "pending"
      BY <2>10, <3>1, Holding
    <3>3. job[u].entry # e
      BY <2>9, <3>2 DEF NoEntry
    <3>. QED  BY <1>1, <2>1, <2>5, <3>1, <3>2, <3>3, PostTyped
  <2>11. HoldsEntry'
    <3>1. ASSUME NEW u \in Requests, pc'[u] \in InHand, u # t
          PROVE  LET f == job[u].entry IN
                 /\ f \in Entries
                 /\ entry'[f].type = job[u].kind
                 /\ entry'[f].amount = Signed(job[u].kind, job[u].amount)
                 /\ entry'[f].status = "pending"
                 /\ pc'[u] = "gateway" => bank[f] = "unasked"
                 /\ pc'[u] = "settle" => bank[f] \in {"paid", "settling"}
                 /\ pc'[u] = "reverse" => bank[f] = "refused"
      BY <2>10, <3>1 DEF WalletInv, HoldsEntry
    <3>2. entry'[e] = row
      BY <1>1, <2>1, <2>5, PostTyped
    <3>. QED  BY <1>1, <2>1, <2>2, <2>3, <2>6, <2>9, <3>1, <3>2
              DEF HoldsEntry
  <2>12. HoldsItAlone'
    BY <2>2, <2>3, <2>10 DEF WalletInv, HoldsItAlone
  <2>13. AskedAfterPosting' /\ LedgerTrustsGateway'
    <3>1. /\ TypeOK /\ AskedAfterPosting /\ LedgerTrustsGateway
          /\ UNCHANGED bank /\ row \in Rows
          /\ row.status # "failed" /\ row.status # "completed"
      BY <1>1, <2>1 DEF WalletInv
    <3>2. row.status = "completed" => row.type = "fare"
      BY <3>1
    <3>. QED  BY <2>5, <3>1, <3>2, PostKeepsTrust
  <2>14. BalanceFollowsLedger'
    BY <1>1, <2>1, <2>5, PostKeepsBalance DEF WalletInv
  <2>. QED  BY <2>7, <2>8, <2>11, <2>12, <2>13, <2>14 DEF WalletInv
<1>. QED  BY <1>2, <1>3 DEF Reserve

LEMMA GatewayKeeps ==
    ASSUME WalletInv, NEW t \in Requests, GatewayAnswers(t)
    PROVE  WalletInv'
<1>. DEFINE e == job[t].entry
<1>1. PICK answer \in Answers :
          /\ bank' = [bank EXCEPT ![e] = answer]
          /\ Goto(t, IF answer = "refused" THEN "reverse" ELSE "settle")
  BY DEF GatewayAnswers
<1>2. /\ TypeOK /\ Control /\ pc[t] = "gateway" /\ pc[t] \in InHand
      /\ UNCHANGED <<entry, applied, locked, day, job>>
  BY DEF WalletInv, GatewayAnswers, InHand
<1>3. /\ e \in Entries /\ entry[e] \in Rows /\ entry[e].type # "fare"
      /\ entry[e].status = "pending" /\ job[t] \in Jobs
  BY <1>2, Holding
<1>4. /\ bank' \in [Entries -> Answers \cup {"unasked"}]
      /\ \A f \in Entries : bank'[f] = IF f = e THEN answer ELSE bank[f]
  BY <1>1, <1>2, <1>3 DEF TypeOK
<1>. DEFINE label == IF answer = "refused" THEN "reverse" ELSE "settle"
<1>5. label \in Labels /\ label \in InHand
  BY DEF Labels, InHand
<1>6. /\ pc' \in [Requests -> Labels]
      /\ \A u \in Requests : pc'[u] = IF u = t THEN label ELSE pc[u]
  BY <1>1, <1>2, <1>5, GotoEffect
<1>7. TypeOK'
  BY <1>2, <1>4, <1>6 DEF TypeOK
<1>8. Control'
  BY <1>2, <1>3, <1>6 DEF Control, InHand
<1>9. HoldsItAlone'
  BY <1>2, <1>6 DEF WalletInv, HoldsItAlone, InHand
<1>10. HoldsEntry'
  <2>1. ASSUME NEW u \in Requests, pc'[u] \in InHand
        PROVE  LET f == job[u].entry IN
               /\ f \in Entries
               /\ entry[f].type = job[u].kind
               /\ entry[f].amount = Signed(job[u].kind, job[u].amount)
               /\ entry[f].status = "pending"
               /\ pc'[u] = "gateway" => bank'[f] = "unasked"
               /\ pc'[u] = "settle" => bank'[f] \in {"paid", "settling"}
               /\ pc'[u] = "reverse" => bank'[f] = "refused"
    <3>1. CASE u = t
      <4>1. /\ pc'[u] = label /\ bank'[e] = answer
        BY <1>3, <1>4, <1>6, <3>1
      <4>. QED  BY <1>2, <3>1, <4>1 DEF Answers, WalletInv, HoldsEntry
    <3>2. CASE u # t
      <4>1. pc'[u] = pc[u]
        BY <1>6, <3>2
      <4>2. job[u].entry # e /\ job[u].entry \in Entries
        BY <1>2, <2>1, <3>2, <4>1, Holding DEF WalletInv, HoldsItAlone
      <4>3. bank'[job[u].entry] = bank[job[u].entry]
        BY <1>4, <4>2
      <4>. QED  BY <2>1, <4>1, <4>3 DEF WalletInv, HoldsEntry
    <3>. QED  BY <3>1, <3>2
  <2>. QED  BY <1>2, <2>1 DEF HoldsEntry
<1>11. AskedAfterPosting' /\ LedgerTrustsGateway'
  <2>1. entry[e] # NoEntry
    BY <1>3, RowFields
  <2>. QED  BY <1>2, <1>3, <1>4, <2>1
            DEF WalletInv, AskedAfterPosting, LedgerTrustsGateway
<1>12. BalanceFollowsLedger'
  BY <1>2 DEF WalletInv, BalanceFollowsLedger, Live
<1>. QED  BY <1>7, <1>8, <1>9, <1>10, <1>11, <1>12 DEF WalletInv

LEMMA SettleKeeps ==
    ASSUME WalletInv, NEW t \in Requests, Settle(t)
    PROVE  WalletInv'
<1>. DEFINE e == job[t].entry
            status == IF bank[e] = "paid" THEN "completed" ELSE "pending"
            row == [entry[e] EXCEPT !.status = status]
<1>1. /\ TypeOK /\ Control /\ pc[t] = "settle" /\ pc[t] \in InHand
      /\ Goto(t, "release")
      /\ entry' = [entry EXCEPT ![e].status = status]
      /\ UNCHANGED <<applied, locked, bank, day, job>>
  BY DEF WalletInv, Settle, InHand
<1>2. /\ e \in Entries /\ entry[e] \in Rows /\ entry[e].type # "fare"
      /\ entry[e].status = "pending" /\ job[t] \in Jobs
  BY <1>1, Holding
<1>3. /\ row \in Rows /\ row.type = entry[e].type
      /\ row.amount = entry[e].amount /\ row.status = status
  <2>1. status \in Status
    BY DEF Status
  <2>. HIDE DEF status, e
  <2>. QED  BY <1>2, <2>1, RowStatus
<1>4. /\ entry' \in [Entries -> Rows \cup {NoEntry}]
      /\ \A f \in Entries : entry'[f] = IF f = e THEN row ELSE entry[f]
  BY <1>1, <1>2, <1>3 DEF TypeOK
<1>5. /\ pc' \in [Requests -> Labels]
      /\ \A u \in Requests : pc'[u] = IF u = t THEN "release" ELSE pc[u]
  BY <1>1, GotoEffect DEF Labels
<1>. HIDE DEF row
<1>6. TypeOK'
  BY <1>1, <1>4, <1>5 DEF TypeOK
<1>7. Control'
  BY <1>1, <1>2, GotoControl DEF Labels, InHand
<1>8. HoldsEntry' /\ HoldsItAlone'
  <2>1. pc'[t] \notin InHand
    BY <1>5 DEF InHand
  <2>2. UNCHANGED job /\ \A u \in Requests \ {t} : pc'[u] = pc[u]
    BY <1>1, <1>5
  <2>3. \A f \in Entries \ {e} : entry'[f] = entry[f] /\ bank'[f] = bank[f]
    BY <1>1, <1>4
  <2>. QED  BY <1>1, <2>1, <2>2, <2>3, OthersHold
<1>9. AskedAfterPosting' /\ LedgerTrustsGateway'
  <2>1. entry[e] # NoEntry /\ row # NoEntry
    BY <1>2, <1>3, RowFields
  <2>2. status = "completed" => bank[e] = "paid"
    OBVIOUS
  <2>3. row.status # "failed"
    BY <1>3
  <2>4. AskedAfterPosting'
    BY <1>1, <1>2, <1>3, <1>4, <2>1 DEF WalletInv, AskedAfterPosting
  <2>5. LedgerTrustsGateway'
    BY <1>1, <1>3, <1>4, <2>2, <2>3 DEF WalletInv, LedgerTrustsGateway
  <2>. QED  BY <2>4, <2>5
<1>10. BalanceFollowsLedger'
  <2>1. row.status \in {"completed", "pending"}
    BY <1>3
  <2>2. ASSUME BalanceFollowsLedger, NEW f \in Entries
        PROVE  applied[f] = IF entry'[f].status \in {"completed", "pending"}
                            THEN entry'[f].amount ELSE 0
    <3>1. applied[f] = IF entry[f].status \in {"completed", "pending"}
                       THEN entry[f].amount ELSE 0
      BY <2>2 DEF BalanceFollowsLedger, Live
    <3>. QED  BY <1>2, <1>3, <1>4, <2>1, <3>1
  <2>. QED  BY <1>1, <2>2 DEF WalletInv, BalanceFollowsLedger, Live
<1>. QED  BY <1>6, <1>7, <1>8, <1>9, <1>10 DEF WalletInv

LEMMA ReverseKeeps ==
    ASSUME WalletInv, NEW t \in Requests, Reverse(t)
    PROVE  WalletInv'
<1>. DEFINE e == job[t].entry
            row == [entry[e] EXCEPT !.status = "failed"]
<1>1. /\ TypeOK /\ Control /\ pc[t] = "reverse" /\ pc[t] \in InHand
      /\ Goto(t, "release")
      /\ entry' = [entry EXCEPT ![e].status = "failed"]
      /\ applied' = [applied EXCEPT ![e] =
                        @ - Signed(job[t].kind, job[t].amount)]
      /\ UNCHANGED <<locked, bank, day, job>>
  BY DEF WalletInv, Reverse, InHand
<1>2. /\ e \in Entries /\ entry[e] \in Rows /\ entry[e].type # "fare"
      /\ entry[e].status = "pending" /\ job[t] \in Jobs
      /\ entry[e].amount = Signed(job[t].kind, job[t].amount)
  BY <1>1, Holding
<1>3. /\ row \in Rows /\ row.type = entry[e].type
      /\ row.status = "failed" /\ row # NoEntry
  BY <1>2, RowStatus, RowFields DEF Status
<1>4. /\ entry' \in [Entries -> Rows \cup {NoEntry}]
      /\ \A f \in Entries : entry'[f] = IF f = e THEN row ELSE entry[f]
  BY <1>1, <1>2, <1>3 DEF TypeOK
<1>5. entry[e].amount \in Int
  BY <1>2, RowFields
<1>6. /\ applied' \in [Entries -> Int]
      /\ \A f \in Entries : applied'[f] =
            IF f = e THEN applied[e] - entry[e].amount ELSE applied[f]
  BY <1>1, <1>2, <1>5 DEF TypeOK
<1>7. /\ pc' \in [Requests -> Labels]
      /\ \A u \in Requests : pc'[u] = IF u = t THEN "release" ELSE pc[u]
  BY <1>1, GotoEffect DEF Labels
<1>. HIDE DEF row
<1>8. TypeOK'
  BY <1>1, <1>4, <1>6, <1>7 DEF TypeOK
<1>9. Control'
  BY <1>1, <1>2, GotoControl DEF Labels, InHand
<1>10. HoldsEntry' /\ HoldsItAlone'
  <2>1. pc'[t] \notin InHand
    BY <1>7 DEF InHand
  <2>2. UNCHANGED job /\ \A u \in Requests \ {t} : pc'[u] = pc[u]
    BY <1>1, <1>7
  <2>3. \A f \in Entries \ {e} : entry'[f] = entry[f] /\ bank'[f] = bank[f]
    BY <1>1, <1>4
  <2>. QED  BY <1>1, <2>1, <2>2, <2>3, OthersHold
<1>11. AskedAfterPosting' /\ LedgerTrustsGateway'
  <2>1. bank[e] = "refused"
    BY <1>1 DEF WalletInv, HoldsEntry
  <2>2. AskedAfterPosting'
    BY <1>1, <1>2, <1>3, <1>4 DEF WalletInv, AskedAfterPosting
  <2>3. LedgerTrustsGateway'
    BY <1>1, <1>3, <1>4, <2>1 DEF WalletInv, LedgerTrustsGateway
  <2>. QED  BY <2>2, <2>3
<1>12. BalanceFollowsLedger'
  <2>1. ASSUME BalanceFollowsLedger, NEW f \in Entries
        PROVE  applied'[f] = IF entry'[f].status \in {"completed", "pending"}
                             THEN entry'[f].amount ELSE 0
    <3>1. applied[f] = IF entry[f].status \in {"completed", "pending"}
                       THEN entry[f].amount ELSE 0
      BY <2>1 DEF BalanceFollowsLedger, Live
    <3>2. CASE f = e
      BY <1>2, <1>3, <1>4, <1>5, <1>6, <3>1, <3>2
    <3>3. CASE f # e
      BY <1>4, <1>6, <3>1, <3>3
    <3>. QED  BY <3>2, <3>3
  <2>. QED  BY <2>1 DEF WalletInv, BalanceFollowsLedger, Live
<1>. QED  BY <1>8, <1>9, <1>10, <1>11, <1>12 DEF WalletInv

-----------------------------------------------------------------------------
(* Requests that fail or die                                               *)

\* A lost call may have changed the bank's mind about the entry in hand only.
LEMMA UnheardEffect ==
    ASSUME WalletInv, NEW t \in Requests, Unheard(t)
    PROVE  /\ bank' \in [Entries -> Answers \cup {"unasked"}]
           /\ bank' # bank =>
                 /\ pc[t] \in InHand
                 /\ job[t].entry \in Entries
                 /\ entry[job[t].entry] # NoEntry
                 /\ entry[job[t].entry].type # "fare"
                 /\ entry[job[t].entry].status = "pending"
                 /\ \A e \in Entries \ {job[t].entry} : bank'[e] = bank[e]
<1>1. CASE pc[t] # "gateway"
  BY <1>1 DEF Unheard, WalletInv, TypeOK
<1>2. CASE pc[t] = "gateway"
  <2>1. PICK fate \in {"unasked", "paid", "refused"} :
            bank' = [bank EXCEPT ![job[t].entry] = fate]
    BY <1>2 DEF Unheard
  <2>2. pc[t] \in InHand
    BY <1>2 DEF InHand
  <2>3. /\ job[t].entry \in Entries
        /\ entry[job[t].entry] # NoEntry
        /\ entry[job[t].entry].type # "fare"
        /\ entry[job[t].entry].status = "pending"
    BY <2>2, Holding, RowFields
  <2>4. \A e \in Entries \ {job[t].entry} : bank'[e] = bank[e]
    BY <2>1 DEF WalletInv, TypeOK
  <2>5. bank' \in [Entries -> Answers \cup {"unasked"}]
    BY <2>1 DEF WalletInv, TypeOK, Answers
  <2>. QED  BY <2>2, <2>3, <2>4, <2>5
<1>. QED  BY <1>1, <1>2

LEMMA FaultKeeps ==
    ASSUME WalletInv, NEW t \in Requests, RequestFails(t) \/ Crash(t)
    PROVE  WalletInv'
<1>1. /\ TypeOK /\ Control
      /\ Unheard(t)
      /\ pc[t] # "idle"
      /\ UNCHANGED <<entry, applied, locked, day>>
      /\ \/ Finish(t)
         \/ /\ Goto(t, "release") /\ UNCHANGED job
            /\ pc[t] \notin {"idle", "release"}
  BY DEF WalletInv, RequestFails, Crash
<1>2. /\ pc' \in [Requests -> Labels]
      /\ job' \in [Requests -> Jobs \cup {NoJob}]
      /\ pc'[t] \notin InHand
      /\ \A u \in Requests \ {t} : pc'[u] = pc[u] /\ job'[u] = job[u]
  <2>1. CASE Finish(t)
    BY <1>1, <2>1, FinishEffect DEF InHand
  <2>2. CASE Goto(t, "release") /\ UNCHANGED job
    BY <1>1, <2>2, GotoEffect DEF Labels, InHand, TypeOK
  <2>. QED  BY <1>1, <2>1, <2>2
<1>3. Control'
  <2>1. CASE Finish(t)
    BY <1>1, <2>1, FinishControl
  <2>2. CASE /\ Goto(t, "release") /\ UNCHANGED job
             /\ pc[t] \notin {"idle", "release"}
    <3>1. job[t] \in Jobs
      BY <1>1, <2>2 DEF Control, TypeOK, Labels, InHand
    <3>. QED  BY <1>1, <2>2, <3>1, GotoControl DEF Labels, InHand
  <2>. QED  BY <1>1, <2>1, <2>2
<1>4. TypeOK'
  BY <1>1, <1>2, UnheardEffect DEF TypeOK
<1>5. ASSUME NEW u \in Requests, pc'[u] \in InHand
      PROVE  /\ pc[u] = pc'[u] /\ job[u] = job'[u]
             /\ bank'[job[u].entry] = bank[job[u].entry]
  <2>1. u # t
    BY <1>2, <1>5
  <2>2. pc[u] = pc'[u] /\ job[u] = job'[u]
    BY <1>2, <2>1
  <2>3. job[u].entry \in Entries
    BY <1>5, <2>2, Holding
  <2>4. CASE bank' # bank
    <3>1. job[u].entry # job[t].entry
      BY <1>1, <1>5, <2>1, <2>2, <2>4, UnheardEffect
         DEF WalletInv, HoldsItAlone
    <3>. QED  BY <1>1, <2>2, <2>3, <2>4, <3>1, UnheardEffect
  <2>. QED  BY <2>2, <2>4
<1>6. HoldsEntry'
  BY <1>1, <1>5 DEF WalletInv, HoldsEntry
<1>7. HoldsItAlone'
  BY <1>5 DEF WalletInv, HoldsItAlone
<1>8. AskedAfterPosting' /\ LedgerTrustsGateway'
  <2>1. CASE bank' = bank
    BY <1>1, <2>1 DEF WalletInv, AskedAfterPosting, LedgerTrustsGateway
  <2>2. CASE bank' # bank
    BY <1>1, <2>2, UnheardEffect
       DEF WalletInv, AskedAfterPosting, LedgerTrustsGateway
  <2>. QED  BY <2>1, <2>2
<1>9. BalanceFollowsLedger'
  BY <1>1 DEF WalletInv, BalanceFollowsLedger, Live
<1>. QED  BY <1>3, <1>4, <1>6, <1>7, <1>8, <1>9 DEF WalletInv

-----------------------------------------------------------------------------
(* The theorems                                                            *)

LEMMA InvNext == WalletInv /\ [Next]_vars => WalletInv'
<1>. SUFFICES ASSUME WalletInv, [Next]_vars PROVE WalletInv'
  OBVIOUS
<1>1. CASE \E e \in Entries, fare \in Fares : Earn(e, fare)
  BY <1>1, EarnKeeps
<1>2. ASSUME NEW t \in Requests, NEW kind \in Kinds, NEW amount \in Amounts,
             Ask(t, kind, amount)
      PROVE  WalletInv'
  BY <1>2, AskKeeps
<1>3. ASSUME NEW t \in Requests, Step(t) PROVE WalletInv'
  BY <1>3, ReserveKeeps, GatewayKeeps, SettleKeeps, ReverseKeeps,
     ReleaseKeeps DEF Step
<1>5. ASSUME NEW t \in Requests, RequestFails(t) \/ Crash(t) PROVE WalletInv'
  BY <1>5, FaultKeeps
<1>6. CASE Midnight \/ (\E kind \in Kinds : Expire(kind)) \/ UNCHANGED vars
  BY <1>6, ClockKeeps
<1>. QED  BY <1>1, <1>2, <1>3, <1>5, <1>6 DEF Next

\* The inductive invariant holds in every reachable state.
THEOREM WalletInvHolds == Spec => []WalletInv
BY InvInit, InvNext, PTL DEF Spec

\* The types: among them, that a ledger row carries the sign of its kind.
THEOREM WalletTypeCorrect == Spec => []TypeOK
<1>1. WalletInv => TypeOK
  BY DEF WalletInv
<1>. QED  BY <1>1, WalletInvHolds, PTL

\* The ledger never contradicts the gateway.
THEOREM GatewayTrusted == Spec => []LedgerTrustsGateway
<1>1. WalletInv => LedgerTrustsGateway
  BY DEF WalletInv
<1>. QED  BY <1>1, WalletInvHolds, PTL

\* Requests, fares, failures and expired locks never make the balance
\* drift from the ledger.
THEOREM BalanceSafe == Spec => []BalanceFollowsLedger
<1>1. WalletInv => BalanceFollowsLedger
  BY DEF WalletInv
<1>. QED  BY <1>1, WalletInvHolds, PTL

-----------------------------------------------------------------------------
(* Sums.  What SumFunctionOnSet computes is found by descending to a least *)
(* counterexample: no finite set has an infinite chain of strict subsets.  *)

LEMMA LeastNumber ==
    ASSUME NEW T, T \subseteq Nat, T # {}
    PROVE  \E x \in T : \A y \in T : ~(y < x)
<1>. DEFINE R == OpToRel(<, Nat)
<1>1. PICK x \in T : \A y \in T : ~ (<<y, x>> \in R)
  BY WFMin, NatLessThanWellFounded
<1>2. \A y \in T : y < x => <<y, x>> \in R
  BY DEF OpToRel
<1>. QED  BY <1>1, <1>2

LEMMA LeastSubset ==
    ASSUME NEW S, IsFiniteSet(S), NEW T, T \subseteq SUBSET S, T # {}
    PROVE  \E x \in T : \A y \in T : ~(y \subseteq x /\ y # x)
<1>1. T \subseteq FiniteSubsetsOf(S)
  BY FS_FiniteSubsetsOfFinite
<1>2. PICK x \in T : \A y \in T : ~ (<<y, x>> \in StrictSubsetOrdering(S))
  BY <1>1, WFMin, FS_StrictSubsetOrderingWellFounded
<1>. QED  BY <1>1, <1>2 DEF StrictSubsetOrdering, FiniteSubsetsOf

First(s) == CHOOSE x \in s : TRUE

\* The sums of f over s, one element less at a time.
Rest(g, f, s) == IF s = {} THEN 0 ELSE f[First(s)] + g[s \ {First(s)}]
Sums(g, f, S) == g = [s \in SUBSET S |-> Rest(g, f, s)]

LEMMA SumUnfolded ==
    ASSUME NEW f, NEW S
    PROVE  SumFunctionOnSet(f, S) = (CHOOSE g : Sums(g, f, S))[S]
BY Zenon DEF SumFunctionOnSet, FoldFunctionOnSet, MapThenFoldSet, Sums, Rest, First

LEMMA FirstIn == ASSUME NEW s, s # {} PROVE First(s) \in s
BY DEF First

LEMMA SmallerLeft ==
    ASSUME NEW S, IsFiniteSet(S), NEW s \in SUBSET S, s # {}
    PROVE  /\ First(s) \in s /\ s \ {First(s)} \in SUBSET S
           /\ Cardinality(s) \in Nat /\ Cardinality(s \ {First(s)}) \in Nat
           /\ Cardinality(s) # 0
           /\ Cardinality(s \ {First(s)}) = Cardinality(s) - 1
<1>1. IsFiniteSet(s)
  BY FS_Subset
<1>2. First(s) \in s
  BY FirstIn
<1>. QED  BY <1>1, <1>2, FS_RemoveElement, FS_CardinalityType, FS_EmptySet

LEMMA SumsExist ==
    ASSUME NEW S, IsFiniteSet(S), NEW f, \A x \in S : f[x] \in Int
    PROVE  \E g \in [SUBSET S -> Int] : Sums(g, f, S)
<1>. DEFINE Upto(n) == \E g \in [SUBSET S -> Int] :
                \A s \in SUBSET S : Cardinality(s) <= n => g[s] = Rest(g, f, s)
            Bad == {n \in Nat : ~Upto(n)}
<1>1. \A s \in SUBSET S : IsFiniteSet(s) /\ Cardinality(s) \in Nat
  BY FS_Subset, FS_CardinalityType
<1>2. Upto(0)
  <2>. DEFINE g == [s \in SUBSET S |-> 0]
  <2>1. ASSUME NEW s \in SUBSET S, Cardinality(s) <= 0 PROVE g[s] = Rest(g, f, s)
    BY <1>1, <2>1, FS_EmptySet DEF Rest
  <2>2. g \in [SUBSET S -> Int]
    OBVIOUS
  <2>. QED BY <2>1, <2>2
<1>3. ASSUME NEW n \in Nat, Upto(n) PROVE Upto(n + 1)
  <2>1. PICK g \in [SUBSET S -> Int] :
           \A s \in SUBSET S : Cardinality(s) <= n => g[s] = Rest(g, f, s)
    BY <1>3
  <2>. DEFINE h == [s \in SUBSET S |-> Rest(g, f, s)]
  <2>2. ASSUME NEW s \in SUBSET S PROVE Rest(g, f, s) \in Int
    <3>1. CASE s = {}
      BY <3>1 DEF Rest
    <3>2. CASE s # {}
      <4>1. First(s) \in S /\ s \ {First(s)} \in SUBSET S
        BY <3>2, FirstIn
      <4>2. f[First(s)] \in Int /\ g[s \ {First(s)}] \in Int
        BY <4>1
      <4>. QED  BY <3>2, <4>2 DEF Rest
    <3>. QED  BY <3>1, <3>2
  <2>3. h \in [SUBSET S -> Int]
    BY <2>2
  <2>4. ASSUME NEW s \in SUBSET S, Cardinality(s) <= n + 1
        PROVE  h[s] = Rest(h, f, s)
    <3>1. CASE s = {}
      BY <3>1 DEF Rest
    <3>2. CASE s # {}
      <4>. DEFINE u == s \ {First(s)}
      <4>1. u \in SUBSET S /\ Cardinality(u) <= n
        BY <1>1, <2>4, <3>2, SmallerLeft
      <4>2. g[u] = h[u]
        BY <2>1, <4>1
      <4>. QED  BY <3>2, <4>2 DEF Rest
    <3>. QED  BY <3>1, <3>2
  <2>. QED  BY <2>3, <2>4
<1>4. Bad = {}
  <2>. SUFFICES ASSUME Bad # {} PROVE FALSE
    OBVIOUS
  <2>1. PICK n \in Bad : \A m \in Bad : ~(m < n)
    BY LeastNumber
  <2>2. n # 0 /\ n \in Nat /\ ~Upto(n)
    BY <1>2, <2>1
  <2>3. n - 1 \in Nat /\ n - 1 < n
    BY <2>2
  <2>4. Upto(n - 1)
    BY <2>1, <2>3
  <2>5. Upto((n - 1) + 1)
    BY <1>3, <2>3, <2>4
  <2>6. (n - 1) + 1 = n
    BY <2>2
  <2>. QED  BY <2>2, <2>5, <2>6
<1>5. Upto(Cardinality(S))
  BY <1>1, <1>4
<1>6. \A s \in SUBSET S : Cardinality(s) <= Cardinality(S)
  BY FS_Subset
<1>7. PICK g \in [SUBSET S -> Int] : \A s \in SUBSET S : g[s] = Rest(g, f, s)
  BY <1>5, <1>6
<1>8. g = [s \in SUBSET S |-> Rest(g, f, s)]
  BY <1>7
<1>. QED  BY <1>8 DEF Sums

\* Two such functions agree on what both cover, if the functions they sum up do.
LEMMA SumsAgree ==
    ASSUME NEW S, IsFiniteSet(S), NEW U \in SUBSET S, NEW f, NEW h,
           \A x \in U : f[x] = h[x],
           NEW g, Sums(g, f, S), NEW k, Sums(k, h, U)
    PROVE  g[U] = k[U]
<1>. DEFINE Bad == {s \in SUBSET U : g[s] # k[s]}
<1>1. IsFiniteSet(U)
  BY FS_Subset
<1>2. \A s \in SUBSET U : g[s] = Rest(g, f, s) /\ k[s] = Rest(k, h, s)
  BY DEF Sums
<1>3. Bad = {}
  <2>. SUFFICES ASSUME Bad # {} PROVE FALSE
    OBVIOUS
  <2>0. Bad \subseteq SUBSET U
    OBVIOUS
  <2>1. PICK s \in Bad : \A y \in Bad : ~(y \subseteq s /\ y # s)
    <3>. HIDE DEF Bad
    <3>. QED  BY <1>1, <2>0, LeastSubset
  <2>2. s # {}
    BY <1>2, <2>1 DEF Rest
  <2>. DEFINE v == s \ {First(s)}
  <2>3. First(s) \in s /\ v \subseteq s /\ v # s
    BY <2>2, FirstIn
  <2>4. g[v] = k[v]
    BY <2>1, <2>3
  <2>5. f[First(s)] = h[First(s)]
    BY <2>1, <2>3
  <2>. QED  BY <1>2, <2>1, <2>2, <2>4, <2>5 DEF Rest
<1>. QED  BY <1>3

IntsOn(f, S) == \A x \in S : f[x] \in Int
AnyIsFirst(g, f, S) == \A x \in S : g[S] = f[x] + g[S \ {x}]

\* It does not matter which element is left out first.
LEMMA AnyFirst ==
    ASSUME NEW S, IsFiniteSet(S), NEW f, IntsOn(f, S),
           NEW g, Sums(g, f, S), IntsOn(g, SUBSET S)
    PROVE  AnyIsFirst(g, f, S)
<1>. DEFINE Bad == {s \in SUBSET S : \E y \in s : g[s] # f[y] + g[s \ {y}]}
<1>1. \A s \in SUBSET S : g[s] = Rest(g, f, s)
  BY DEF Sums
<1>2. Bad = {}
  <2>. SUFFICES ASSUME Bad # {} PROVE FALSE
    OBVIOUS
  <2>0. Bad \subseteq SUBSET S
    OBVIOUS
  <2>1. PICK s \in Bad : \A y \in Bad : ~(y \subseteq s /\ y # s)
    <3>. HIDE DEF Bad
    <3>. QED  BY <2>0, LeastSubset
  <2>2. PICK y \in s : g[s] # f[y] + g[s \ {y}]
    BY <2>1
  <2>. DEFINE c == First(s)
  <2>3. c \in s /\ g[s] = f[c] + g[s \ {c}]
    BY <1>1, <2>1, <2>2, FirstIn DEF Rest
  <2>4. c # y
    BY <2>2, <2>3
  <2>. DEFINE v == s \ {c}  w == s \ {y}  b == (s \ {c}) \ {y}
  <2>5. v \subseteq s /\ v # s /\ w \subseteq s /\ w # s /\ y \in v /\ c \in w
    BY <2>2, <2>3, <2>4
  <2>6. v \in SUBSET S /\ w \in SUBSET S /\ b \in SUBSET S /\ w \ {c} = b
    BY <2>1
  <2>7. g[v] = f[y] + g[b]
    BY <2>1, <2>5, <2>6
  <2>8. g[w] = f[c] + g[b]
    BY <2>1, <2>5, <2>6
  <2>9. f[y] \in Int /\ f[c] \in Int /\ g[b] \in Int
    BY <2>1, <2>2, <2>3, <2>6 DEF IntsOn
  <2>. QED  BY <2>2, <2>3, <2>7, <2>8, <2>9
<1>. QED  BY <1>2 DEF AnyIsFirst

LEMMA SumIs ==
    ASSUME NEW S, IsFiniteSet(S), NEW f, \A x \in S : f[x] \in Int
    PROVE  \E g \in [SUBSET S -> Int] : Sums(g, f, S) /\ SumFunctionOnSet(f, S) = g[S]
<1>. DEFINE g == CHOOSE k : Sums(k, f, S)
<1>1. PICK k \in [SUBSET S -> Int] : Sums(k, f, S)
  BY SumsExist
<1>2. Sums(g, f, S)
  BY <1>1, Zenon
<1>3. \A s \in SUBSET S : IsFiniteSet(s)
  BY FS_Subset
<1>4. ASSUME NEW s \in SUBSET S PROVE g[s] = k[s]
  <2>1. Sums([u \in SUBSET s |-> g[u]], f, s)
    BY <1>2 DEF Sums, Rest
  <2>2. Sums([u \in SUBSET s |-> k[u]], f, s)
    BY <1>1 DEF Sums, Rest
  <2>3. g[s] = [u \in SUBSET s |-> g[u]][s] /\ k[s] = [u \in SUBSET s |-> k[u]][s]
    OBVIOUS
  <2>. QED  BY <1>3, <2>1, <2>2, <2>3, SumsAgree
<1>5. g \in [SUBSET S -> Int]
  BY <1>2, <1>4 DEF Sums
<1>6. SumFunctionOnSet(f, S) = g[S]
  BY SumUnfolded
<1>. QED  BY <1>2, <1>5, <1>6

\* What a sum over a finite set is: 0 for the empty set, and one element more adds its value.
LEMMA SumFacts ==
    ASSUME NEW S, IsFiniteSet(S), NEW f, \A x \in S : f[x] \in Int
    PROVE  /\ SumFunctionOnSet(f, S) \in Int
           /\ S = {} => SumFunctionOnSet(f, S) = 0
           /\ \A x \in S : SumFunctionOnSet(f, S) = f[x] + SumFunctionOnSet(f, S \ {x})
<1>1. PICK g \in [SUBSET S -> Int] : Sums(g, f, S) /\ SumFunctionOnSet(f, S) = g[S]
  BY SumIs
<1>2. S = {} => g[S] = 0
  BY <1>1 DEF Sums, Rest
<1>3. ASSUME NEW x \in S PROVE g[S \ {x}] = SumFunctionOnSet(f, S \ {x})
  <2>1. S \ {x} \in SUBSET S /\ IsFiniteSet(S \ {x})
    BY FS_Subset
  <2>2. PICK k \in [SUBSET (S \ {x}) -> Int] :
           Sums(k, f, S \ {x}) /\ SumFunctionOnSet(f, S \ {x}) = k[S \ {x}]
    BY <2>1, SumIs
  <2>. QED  BY <1>1, <2>1, <2>2, SumsAgree
<1>4. \A x \in S : g[S] = f[x] + g[S \ {x}]
  <2>1. Sums(g, f, S) /\ IntsOn(g, SUBSET S) /\ IntsOn(f, S)
    BY <1>1 DEF IntsOn
  <2>2. AnyIsFirst(g, f, S)
    BY <2>1, AnyFirst
  <2>. QED  BY <2>2 DEF AnyIsFirst
<1>. QED  BY <1>1, <1>2, <1>3, <1>4

\* The sum depends on the values alone.
LEMMA SumSame ==
    ASSUME NEW S, IsFiniteSet(S), NEW f, \A x \in S : f[x] \in Int,
           NEW h, \A x \in S : h[x] = f[x]
    PROVE  SumFunctionOnSet(h, S) = SumFunctionOnSet(f, S)
<1>1. PICK g \in [SUBSET S -> Int] : Sums(g, f, S) /\ SumFunctionOnSet(f, S) = g[S]
  BY SumIs
<1>2. PICK k \in [SUBSET S -> Int] : Sums(k, h, S) /\ SumFunctionOnSet(h, S) = k[S]
  BY SumIs
<1>. QED  BY <1>1, <1>2, SumsAgree

\* One value changes.
LEMMA SumOneChanged ==
    ASSUME NEW S, IsFiniteSet(S), NEW f, \A y \in S : f[y] \in Int,
           NEW h, NEW x \in S, \A y \in S \ {x} : h[y] = f[y], h[x] \in Int
    PROVE  SumFunctionOnSet(h, S) = SumFunctionOnSet(f, S) - f[x] + h[x]
<1>. DEFINE T == S \ {x}
<1>1. IsFiniteSet(T)
  BY FS_Subset
<1>2. SumFunctionOnSet(h, T) = SumFunctionOnSet(f, T) /\ SumFunctionOnSet(f, T) \in Int
  BY <1>1, SumSame, SumFacts
<1>3. SumFunctionOnSet(f, S) = f[x] + SumFunctionOnSet(f, T)
  BY SumFacts
<1>4. SumFunctionOnSet(h, S) = h[x] + SumFunctionOnSet(h, T)
  <2>1. \A y \in S : h[y] \in Int
    OBVIOUS
  <2>. QED  BY <2>1, SumFacts
<1>. QED  BY <1>2, <1>3, <1>4

\* The sum of numbers that are not negative is not.
LEMMA SumNat ==
    ASSUME NEW S, IsFiniteSet(S), NEW f, \A y \in S : f[y] \in Nat
    PROVE  SumFunctionOnSet(f, S) \in Nat
<1>. DEFINE Bad == {s \in SUBSET S : SumFunctionOnSet(f, s) \notin Nat}
<1>1. Bad = {}
  <2>. SUFFICES ASSUME Bad # {} PROVE FALSE
    OBVIOUS
  <2>0. Bad \subseteq SUBSET S
    OBVIOUS
  <2>1. PICK s \in Bad : \A y \in Bad : ~(y \subseteq s /\ y # s)
    <3>. HIDE DEF Bad
    <3>. QED  BY <2>0, LeastSubset
  <2>2. IsFiniteSet(s) /\ \A x \in s : f[x] \in Int
    BY <2>1, FS_Subset
  <2>3. s # {}
    BY <2>1, <2>2, SumFacts
  <2>4. PICK x \in s : TRUE
    BY <2>3
  <2>5. SumFunctionOnSet(f, s) = f[x] + SumFunctionOnSet(f, s \ {x})
    BY <2>2, SumFacts
  <2>6. SumFunctionOnSet(f, s \ {x}) \in Nat
    BY <2>1, <2>4
  <2>. QED  BY <2>1, <2>4, <2>5, <2>6
<1>. QED  BY <1>1

-----------------------------------------------------------------------------
(* The limits.  Four kinds of steps move the ledger or the day: an entry   *)
(* is posted under the check of its kind, a pending one is settled, a      *)
(* pending one fails and gives its money back, and the day ends.           *)

Posting(e, x) ==
    /\ x \in Rows /\ x.status \in {"pending", "completed"} /\ x.day <= day
    /\ Post(e, x) /\ UNCHANGED day
    /\ x.type = "fuel" => x.amount <= DailyLimit - UsedOn(day)
    /\ x.type = "payout" => -x.amount <= Balance

Settling(e) ==
    /\ entry[e].status = "pending"
    /\ \E s \in {"pending", "completed"} :
          entry' = [entry EXCEPT ![e].status = s]
    /\ UNCHANGED <<applied, day>>

Failing(e) ==
    /\ entry[e].status = "pending" /\ entry[e].type \in Kinds
    /\ entry' = [entry EXCEPT ![e].status = "failed"]
    /\ applied' = [applied EXCEPT ![e] = @ - entry[e].amount]
    /\ UNCHANGED day

Quiet == UNCHANGED <<entry, applied, day>>
NextDay == UNCHANGED <<entry, applied>> /\ day' = day + 1

\* The sign and the day of a row.
LEMMA RowSigns ==
    ASSUME NEW x \in Rows
    PROVE  /\ x.type \in {"fare", "fuel"} => x.amount \in Nat
           /\ x.type = "payout" => x.amount <= 0
           /\ x.day \in Nat
<1>1. Amounts \subseteq Nat /\ Fares \subseteq Nat /\ Days \subseteq Nat
  BY Sizes DEF Days
<1>2. CASE x \in Row("fare", Fares)
  BY <1>1, <1>2 DEF Row
<1>3. CASE x \in Row("fuel", Amounts)
  BY <1>1, <1>3 DEF Row
<1>4. CASE x \in Row("payout", {-a : a \in Amounts})
  <2>1. x.type = "payout" /\ x.day \in Days /\ x.amount \in {-a : a \in Amounts}
    BY <1>4 DEF Row
  <2>2. PICK a \in Amounts : x.amount = -a
    BY <2>1
  <2>3. a \in Nat /\ x.day \in Nat
    BY <1>1, <2>1
  <2>4. x.amount <= 0
    BY <2>2, <2>3
  <2>. QED  BY <2>1, <2>3, <2>4
<1>. QED  BY <1>2, <1>3, <1>4 DEF Rows

LEMMA ReserveMoves ==
    ASSUME WalletInv, Dated, NEW t \in Requests, Reserve(t)
    PROVE  Quiet \/ \E e \in Entries : Posting(e, PendingRow(job[t]))
<1>. DEFINE x == PendingRow(job[t])
<1>1. /\ job[t] \in Jobs /\ pc[t] = "reserve" /\ UNCHANGED day
      /\ job[t].opened <= day
  BY DEF Reserve, WalletInv, Control, Dated
<1>2. /\ x \in Rows /\ x.type = job[t].kind /\ x.status = "pending"
      /\ x.amount = Signed(job[t].kind, job[t].amount) /\ x.day = job[t].opened
      /\ job[t].kind \in Kinds
  BY <1>1, PendingIsRow DEF PendingRow
<1>3. CASE UNCHANGED <<entry, applied>>
  BY <1>1, <1>3 DEF Quiet
<1>4. ASSUME NEW e \in Entries, Post(e, x), Allowed(job[t].kind, job[t].amount)
      PROVE  Posting(e, x)
  <2>1. job[t].amount \in Int
    BY <1>1, AmountsAreInt DEF Jobs
  <2>2. x.type = "fuel" => x.amount <= DailyLimit - UsedOn(day)
    BY <1>2, <1>4 DEF Allowed, Signed
  <2>3. x.type = "payout" => -x.amount <= Balance
    <3>1. x.type = "payout" => -x.amount = job[t].amount
      BY <1>2, <2>1 DEF Signed
    <3>. QED  BY <1>2, <1>4, <3>1 DEF Allowed
  <2>. QED  BY <1>1, <1>2, <1>4, <2>2, <2>3 DEF Posting
<1>. QED  BY <1>3, <1>4 DEF Reserve

LEMMA LedgerMoves ==
    ASSUME WalletInv, Dated, [Next]_vars
    PROVE  \/ Quiet \/ NextDay
           \/ \E e \in Entries : Settling(e) \/ Failing(e)
           \/ \E e \in Entries, x \in Rows : Posting(e, x)
<1>1. ASSUME NEW e \in Entries, NEW fare \in Fares, Earn(e, fare)
      PROVE  \E x \in Rows : Posting(e, x)
  <2>. DEFINE x == [type |-> "fare", amount |-> fare,
                    status |-> "completed", day |-> day]
  <2>1. x \in Rows /\ x.day <= day
    BY Sizes DEF WalletInv, TypeOK, Rows, Row, Status, Days
  <2>2. Posting(e, x)
    BY <1>1, <2>1 DEF Earn, Posting
  <2>. QED  BY <2>1, <2>2
<1>2. ASSUME NEW t \in Requests, Reserve(t)
      PROVE  Quiet \/ \E e \in Entries, x \in Rows : Posting(e, x)
  BY <1>2, ReserveMoves DEF Posting
<1>3. ASSUME NEW t \in Requests, Settle(t)
      PROVE  \E e \in Entries : Settling(e)
  <2>1. job[t].entry \in Entries /\ entry[job[t].entry].status = "pending"
    BY <1>3, Holding DEF Settle, InHand
  <2>2. Settling(job[t].entry)
    BY <1>3, <2>1 DEF Settle, Settling
  <2>. QED  BY <2>1, <2>2
<1>4. ASSUME NEW t \in Requests, Reverse(t)
      PROVE  \E e \in Entries : Failing(e)
  <2>1. /\ job[t].entry \in Entries /\ entry[job[t].entry].status = "pending"
        /\ entry[job[t].entry].type \in Kinds
        /\ entry[job[t].entry].amount = Signed(job[t].kind, job[t].amount)
    BY <1>4, Holding DEF Reverse, InHand, Jobs
  <2>2. Failing(job[t].entry)
    BY <1>4, <2>1 DEF Reverse, Failing
  <2>. QED  BY <2>1, <2>2
<1>5. ASSUME NEW t \in Requests,
             GatewayAnswers(t) \/ Release(t) \/ RequestFails(t) \/ Crash(t)
      PROVE  Quiet
  BY <1>5 DEF GatewayAnswers, Release, RequestFails, Crash, Quiet
<1>6. ASSUME NEW t \in Requests, NEW kind \in Kinds, NEW amount \in Amounts,
             Ask(t, kind, amount)
      PROVE  Quiet
  BY <1>6 DEF Ask, Quiet
<1>7. CASE Midnight \/ (\E kind \in Kinds : Expire(kind)) \/ UNCHANGED vars
  BY <1>7 DEF Midnight, Expire, vars, Quiet, NextDay
<1>. QED  BY <1>1, <1>2, <1>3, <1>4, <1>5, <1>6, <1>7 DEF Next, Step

\* What the ledger and the balance look like after such a step.
LEMMA AfterPosting ==
    ASSUME TypeOK, NEW e \in Entries, NEW x \in Rows, Posting(e, x)
    PROVE  /\ entry[e] = NoEntry
           /\ \A f \in Entries : entry'[f] = IF f = e THEN x ELSE entry[f]
           /\ \A f \in Entries \ {e} : applied'[f] = applied[f]
           /\ applied'[e] = applied[e] + x.amount
BY PostTyped DEF Posting, Post

LEMMA AfterSettling ==
    ASSUME TypeOK, NEW e \in Entries, Settling(e)
    PROVE  \E y \in Rows :
              /\ y.type = entry[e].type /\ y.amount = entry[e].amount
              /\ y.day = entry[e].day /\ y.status \in {"pending", "completed"}
              /\ \A f \in Entries : entry'[f] = IF f = e THEN y ELSE entry[f]
<1>1. PICK s \in {"pending", "completed"} :
          entry' = [entry EXCEPT ![e].status = s]
  BY DEF Settling
<1>. DEFINE y == [entry[e] EXCEPT !.status = s]
<1>2. entry[e] \in Rows
  BY DEF Settling, TypeOK, NoEntry
<1>3. y \in Rows /\ y.type = entry[e].type /\ y.amount = entry[e].amount
      /\ y.status = s
  <2>1. s \in Status
    BY DEF Status
  <2>. QED  BY <1>2, <2>1, RowStatus
<1>4. y.day = entry[e].day
  BY <1>2 DEF Rows, Row
<1>5. \A f \in Entries : entry'[f] = IF f = e THEN y ELSE entry[f]
  BY <1>1 DEF TypeOK
<1>. HIDE DEF y
<1>. QED  BY <1>3, <1>4, <1>5

LEMMA AfterFailing ==
    ASSUME TypeOK, NEW e \in Entries, Failing(e)
    PROVE  /\ entry[e] \in Rows
           /\ \A f \in Entries \ {e} : applied'[f] = applied[f]
           /\ applied'[e] = applied[e] - entry[e].amount
           /\ \E y \in Rows :
                 /\ y.type = entry[e].type /\ y.amount = entry[e].amount
                 /\ y.day = entry[e].day /\ y.status = "failed"
                 /\ \A f \in Entries :
                       entry'[f] = IF f = e THEN y ELSE entry[f]
<1>. DEFINE y == [entry[e] EXCEPT !.status = "failed"]
<1>1. entry[e] \in Rows
  BY DEF Failing, TypeOK, NoEntry
<1>2. y \in Rows /\ y.type = entry[e].type /\ y.amount = entry[e].amount
      /\ y.status = "failed"
  BY <1>1, RowStatus DEF Status
<1>3. y.day = entry[e].day
  BY <1>1 DEF Rows, Row
<1>4. \A f \in Entries : entry'[f] = IF f = e THEN y ELSE entry[f]
  BY DEF TypeOK, Failing
<1>5. /\ \A f \in Entries \ {e} : applied'[f] = applied[f]
      /\ applied'[e] = applied[e] - entry[e].amount
  BY DEF TypeOK, Failing
<1>. HIDE DEF y
<1>. QED  BY <1>1, <1>2, <1>3, <1>4, <1>5

-----------------------------------------------------------------------------
(* Sums over the ledger                                                    *)

LEMMA AmountsSum ==
    ASSUME NEW rows, rows \in [Entries -> Rows \cup {NoEntry}],
           NEW S \in SUBSET Entries
    PROVE  /\ IsFiniteSet(S)
           /\ \A e \in S : Amount(rows)[e] = rows[e].amount
           /\ \A e \in S : Amount(rows)[e] \in Int
           /\ SumFunctionOnSet(Amount(rows), S) \in Int
<1>1. IsFiniteSet(S)
  BY LedgerIsFinite, FS_Subset
<1>2. \A e \in S : Amount(rows)[e] = rows[e].amount
  BY DEF Amount
<1>3. \A e \in S : rows[e].amount \in Int
  BY RowFields DEF NoEntry
<1>4. \A e \in S : Amount(rows)[e] \in Int
  BY <1>2, <1>3
<1>. QED  BY <1>1, <1>2, <1>4, SumFacts

\* Entries that keep their amounts keep their sum, and one entry more or less
\* is its amount more or less.
LEMMA SumKept ==
    ASSUME TypeOK, TypeOK', NEW S \in SUBSET Entries,
           \A e \in S : entry'[e].amount = entry[e].amount
    PROVE  SumFunctionOnSet(Amount(entry'), S) = SumFunctionOnSet(Amount(entry), S)
<1>1. /\ entry \in [Entries -> Rows \cup {NoEntry}]
      /\ entry' \in [Entries -> Rows \cup {NoEntry}]
  BY DEF TypeOK
<1>2. \A e \in S : Amount(entry')[e] = Amount(entry)[e]
  BY <1>1, AmountsSum
<1>. QED  BY <1>1, <1>2, AmountsSum, SumSame

LEMMA SumLess ==
    ASSUME NEW rows, rows \in [Entries -> Rows \cup {NoEntry}],
           NEW S \in SUBSET Entries, NEW e \in S
    PROVE  SumFunctionOnSet(Amount(rows), S)
             = rows[e].amount + SumFunctionOnSet(Amount(rows), S \ {e})
BY AmountsSum, SumFacts

\* The balance moves by what the one entry brings or takes.
LEMMA BalanceMoves ==
    ASSUME TypeOK, TypeOK', NEW e \in Entries,
           \A f \in Entries \ {e} : applied'[f] = applied[f]
    PROVE  Balance' = Balance - applied[e] + applied'[e]
<1>1. /\ \A f \in Entries : applied[f] \in Int /\ applied'[f] \in Int
      /\ DOMAIN applied = Entries /\ DOMAIN applied' = Entries
  BY DEF TypeOK
<1>2. SumFunctionOnSet(applied', Entries)
        = SumFunctionOnSet(applied, Entries) - applied[e] + applied'[e]
  BY <1>1, LedgerIsFinite, SumOneChanged
<1>. QED  BY <1>1, <1>2 DEF Balance, SumFunction

LEMMA BalanceIsInt == ASSUME TypeOK PROVE Balance \in Int
<1>1. DOMAIN applied = Entries /\ \A e \in Entries : applied[e] \in Int
  BY DEF TypeOK
<1>. QED  BY <1>1, LedgerIsFinite, SumFacts DEF Balance, SumFunction

-----------------------------------------------------------------------------
(* The daily limit                                                         *)

LEMMA UsedToday ==
    ASSUME TypeOK, NEW d
    PROVE  /\ FuelOf(d) \in SUBSET Entries
           /\ UsedOn(d) = SumFunctionOnSet(Amount(entry), FuelOf(d))
           /\ UsedOn(d) \in Int
<1>1. FuelOf(d) \in SUBSET Entries
  BY DEF FuelOf, Live
<1>2. entry \in [Entries -> Rows \cup {NoEntry}]
  BY DEF TypeOK
<1>. QED  BY <1>1, <1>2, AmountsSum DEF UsedOn, SumOver

\* The day's advances are what they were, one more that fits, or one less.
LEMMA CapFollows ==
    ASSUME TypeOK, TypeOK', DailyCap, UNCHANGED day, NEW e \in Entries,
           \A f \in Entries \ {e} : entry'[f] = entry[f],
           e \in FuelOf(day) => entry'[e].amount = entry[e].amount,
           e \in FuelOf(day)' /\ e \notin FuelOf(day) =>
               entry'[e].amount <= DailyLimit - UsedOn(day)
    PROVE  DailyCap'
<1>. DEFINE S == FuelOf(day)  T == FuelOf(day)'
            sum(rows, U) == SumFunctionOnSet(Amount(rows), U)
<1>1. /\ entry \in [Entries -> Rows \cup {NoEntry}]
      /\ entry' \in [Entries -> Rows \cup {NoEntry}]
      /\ DailyLimit \in Nat
  BY Sizes DEF TypeOK
<1>2. /\ S \in SUBSET Entries /\ UsedOn(day) = sum(entry, S)
      /\ sum(entry, S) \in Int
  BY UsedToday
<1>3. T \in SUBSET Entries /\ UsedOn(day)' = sum(entry', T)
  BY <1>1 DEF UsedOn, SumOver, FuelOf, Live
<1>4. \A f \in Entries \ {e} : f \in T <=> f \in S
  BY DEF FuelOf, Live
<1>5. sum(entry, S) <= DailyLimit
  BY <1>2 DEF DailyCap
<1>6. S \ {e} = T \ {e}
  BY <1>2, <1>3, <1>4
<1>7. sum(entry', T \ {e}) = sum(entry, S \ {e}) /\ sum(entry, S \ {e}) \in Int
  <2>1. S \ {e} \in SUBSET Entries
    BY <1>2
  <2>2. sum(entry', S \ {e}) = sum(entry, S \ {e})
    BY <2>1, SumKept
  <2>3. sum(entry, S \ {e}) \in Int
    BY <1>1, <2>1, AmountsSum
  <2>. QED  BY <1>6, <2>2, <2>3
<1>8. e \in S => sum(entry, S) = entry[e].amount + sum(entry, S \ {e})
  BY <1>1, <1>2, SumLess
<1>9. e \in T => sum(entry', T) = entry'[e].amount + sum(entry', T \ {e})
  BY <1>1, <1>3, SumLess
<1>10. /\ e \notin S => S \ {e} = S
       /\ e \notin T => T \ {e} = T
  OBVIOUS
<1>11. e \in S => entry[e].amount \in Nat
  <2>1. e \in S => entry[e] # NoEntry /\ entry[e].type = "fuel"
    BY DEF FuelOf, NoEntry
  <2>. QED  BY <1>1, <2>1, RowSigns
<1>12. e \in T => entry'[e].amount \in Nat
  <2>1. e \in T => entry'[e] # NoEntry /\ entry'[e].type = "fuel"
    BY DEF FuelOf, NoEntry
  <2>. QED  BY <1>1, <2>1, RowSigns
<1>13. e \in S => entry'[e].amount = entry[e].amount
  OBVIOUS
<1>14. e \in T /\ e \notin S => entry'[e].amount <= DailyLimit - sum(entry, S)
  BY <1>2
<1>. HIDE DEF S, T, sum
<1>15. sum(entry', T) <= DailyLimit
  <2>1. CASE e \in S /\ e \in T
    BY <1>1, <1>2, <1>5, <1>7, <1>8, <1>9, <1>11, <1>13, <2>1
  <2>2. CASE e \in S /\ e \notin T
    <3>1. sum(entry', T) = sum(entry, S \ {e})
      BY <1>7, <1>10, <2>2
    <3>2. entry[e].amount \in Nat
      BY <1>11, <2>2
    <3>. QED  BY <1>1, <1>2, <1>5, <1>7, <1>8, <2>2, <3>1, <3>2
  <2>3. CASE e \notin S /\ e \in T
    <3>1. sum(entry', T \ {e}) = sum(entry, S)
      BY <1>7, <1>10, <2>3
    <3>2. entry'[e].amount \in Nat
      BY <1>12, <2>3
    <3>. QED  BY <1>1, <1>2, <1>9, <1>14, <2>3, <3>1, <3>2
  <2>4. CASE e \notin S /\ e \notin T
    BY <1>1, <1>2, <1>5, <1>7, <1>10, <2>4
  <2>. QED  BY <2>1, <2>2, <2>3, <2>4
<1>. QED  BY <1>3, <1>15 DEF DailyCap, S, T, sum

LEMMA CapKept ==
    ASSUME WalletInv, TypeOK', Dated, DailyCap, [Next]_vars
    PROVE  DailyCap'
<1>1. TypeOK /\ DailyLimit \in Nat
  BY Sizes DEF WalletInv
<1>2. CASE Quiet
  BY <1>2 DEF Quiet, DailyCap, UsedOn, SumOver, FuelOf, Live
<1>3. CASE NextDay
  <2>1. day \in Nat
    BY <1>1, Sizes DEF TypeOK, Days
  <2>2. \A e \in Entries : entry'[e].day <= day
    BY <1>3 DEF NextDay, Dated
  <2>3. \A e \in Entries : entry'[e].day # day'
    <3>1. \A e \in Entries : entry'[e].day \in Nat
      BY RowSigns DEF TypeOK, NoEntry
    <3>. QED  BY <1>3, <2>1, <2>2, <3>1 DEF NextDay
  <2>4. FuelOf(day)' = {}
    BY <2>3 DEF FuelOf, Live
  <2>5. UsedOn(day)' = SumFunctionOnSet(Amount(entry'), {})
    BY <2>4 DEF UsedOn, SumOver
  <2>6. UsedOn(day)' = 0
    BY <2>5, SumFacts, FS_EmptySet
  <2>. QED  BY <1>1, <2>6 DEF DailyCap
<1>4. ASSUME NEW e \in Entries, Settling(e) PROVE DailyCap'
  <2>1. PICK y \in Rows :
              /\ y.type = entry[e].type /\ y.amount = entry[e].amount
              /\ y.day = entry[e].day /\ y.status \in {"pending", "completed"}
              /\ \A f \in Entries : entry'[f] = IF f = e THEN y ELSE entry[f]
    BY <1>1, <1>4, AfterSettling
  <2>2. e \in FuelOf(day)' => e \in FuelOf(day)
    BY <1>4, <2>1 DEF FuelOf, Live, Settling
  <2>3. UNCHANGED day
    BY <1>4 DEF Settling
  <2>. QED  BY <1>1, <2>1, <2>2, <2>3, CapFollows
<1>5. ASSUME NEW e \in Entries, Failing(e) PROVE DailyCap'
  <2>1. PICK y \in Rows :
              /\ y.type = entry[e].type /\ y.amount = entry[e].amount
              /\ y.day = entry[e].day /\ y.status = "failed"
              /\ \A f \in Entries : entry'[f] = IF f = e THEN y ELSE entry[f]
    BY <1>1, <1>5, AfterFailing
  <2>2. e \notin FuelOf(day)'
    BY <2>1 DEF FuelOf, Live
  <2>3. UNCHANGED day
    BY <1>5 DEF Failing
  <2>. QED  BY <1>1, <2>1, <2>2, <2>3, CapFollows
<1>6. ASSUME NEW e \in Entries, NEW x \in Rows, Posting(e, x) PROVE DailyCap'
  <2>1. /\ entry[e] = NoEntry
        /\ \A f \in Entries : entry'[f] = IF f = e THEN x ELSE entry[f]
    BY <1>1, <1>6, AfterPosting
  <2>2. e \notin FuelOf(day)
    BY <2>1 DEF FuelOf, NoEntry
  <2>3. e \in FuelOf(day)' => entry'[e].amount <= DailyLimit - UsedOn(day)
    BY <1>6, <2>1 DEF FuelOf, Posting
  <2>4. UNCHANGED day
    BY <1>6 DEF Posting
  <2>. QED  BY <1>1, <2>1, <2>2, <2>3, <2>4, CapFollows
<1>. QED  BY <1>2, <1>3, <1>4, <1>5, <1>6, LedgerMoves

-----------------------------------------------------------------------------
(* The overdraft                                                           *)

\* Nothing is refused twice: a step adds one refused advance at most.
LEMMA RefusedFollows ==
    ASSUME TypeOK, TypeOK', NEW e \in Entries,
           \A f \in Entries \ {e} : entry'[f] = entry[f],
           e \notin RefusedFuel
    PROVE  /\ SumOver(RefusedFuel) \in Nat /\ SumOver(RefusedFuel)' \in Nat
           /\ SumOver(RefusedFuel)' = SumOver(RefusedFuel)
                 + (IF e \in RefusedFuel' THEN entry'[e].amount ELSE 0)
<1>. DEFINE S == RefusedFuel  T == RefusedFuel'
            sum(rows, U) == SumFunctionOnSet(Amount(rows), U)
<1>1. /\ entry \in [Entries -> Rows \cup {NoEntry}]
      /\ entry' \in [Entries -> Rows \cup {NoEntry}]
  BY DEF TypeOK
<1>2. /\ S \in SUBSET Entries /\ T \in SUBSET Entries
      /\ SumOver(RefusedFuel) = sum(entry, S)
      /\ SumOver(RefusedFuel)' = sum(entry', T)
  BY DEF RefusedFuel, SumOver
<1>3. \A f \in Entries \ {e} : f \in T <=> f \in S
  BY DEF RefusedFuel
<1>4. T \ {e} = S
  BY <1>2, <1>3
<1>5. sum(entry', S) = sum(entry, S)
  BY <1>2, SumKept
<1>6. e \in T => sum(entry', T) = entry'[e].amount + sum(entry', S)
  BY <1>1, <1>2, <1>4, SumLess
<1>7. e \notin T => T = S
  BY <1>4
<1>8. sum(entry, S) \in Nat /\ sum(entry', T) \in Nat
  <2>1. \A f \in S : entry[f].amount \in Nat
    BY <1>1, RowSigns DEF RefusedFuel, NoEntry
  <2>2. \A f \in T : entry'[f].amount \in Nat
    BY <1>1, RowSigns DEF RefusedFuel, NoEntry
  <2>. QED  BY <1>1, <1>2, <2>1, <2>2, AmountsSum, SumNat
<1>9. e \in T => entry'[e].amount \in Nat
  BY <1>1, RowSigns DEF RefusedFuel, NoEntry
<1>. HIDE DEF S, T, sum
<1>10. sum(entry', T) = sum(entry, S) + (IF e \in T THEN entry'[e].amount ELSE 0)
  <2>1. CASE e \in T
    BY <1>5, <1>6, <1>8, <1>9, <2>1
  <2>2. CASE e \notin T
    BY <1>5, <1>7, <1>8, <2>2
  <2>. QED  BY <2>1, <2>2
<1>. QED  BY <1>2, <1>8, <1>10 DEF S, T, sum

LEMMA OverdraftKept ==
    ASSUME WalletInv, TypeOK', Dated, OverdraftIsRefusedFuel, [Next]_vars
    PROVE  OverdraftIsRefusedFuel'
<1>. DEFINE refused == SumOver(RefusedFuel)
<1>1. TypeOK /\ BalanceFollowsLedger /\ Balance \in Int
  BY BalanceIsInt DEF WalletInv
<1>2. Balance >= -refused
  BY DEF OverdraftIsRefusedFuel
<1>3. CASE Quiet \/ NextDay
  BY <1>3 DEF Quiet, NextDay, OverdraftIsRefusedFuel, Balance, RefusedFuel,
              SumOver
<1>4. ASSUME NEW e \in Entries, Settling(e) PROVE OverdraftIsRefusedFuel'
  <2>1. PICK y \in Rows :
              /\ y.type = entry[e].type /\ y.amount = entry[e].amount
              /\ y.day = entry[e].day /\ y.status \in {"pending", "completed"}
              /\ \A f \in Entries : entry'[f] = IF f = e THEN y ELSE entry[f]
    BY <1>1, <1>4, AfterSettling
  <2>2. e \notin RefusedFuel /\ e \notin RefusedFuel'
    BY <1>4, <2>1 DEF RefusedFuel, Settling
  <2>3. refused \in Nat /\ refused' = refused + 0
    BY <1>1, <2>1, <2>2, RefusedFollows
  <2>4. Balance' = Balance
    BY <1>4 DEF Settling, Balance
  <2>. QED  BY <1>2, <2>3, <2>4 DEF OverdraftIsRefusedFuel
<1>5. ASSUME NEW e \in Entries, Failing(e) PROVE OverdraftIsRefusedFuel'
  <2>1. /\ entry[e] \in Rows
        /\ \A f \in Entries \ {e} : applied'[f] = applied[f]
        /\ applied'[e] = applied[e] - entry[e].amount
    BY <1>1, <1>5, AfterFailing
  <2>2. PICK y \in Rows :
              /\ y.type = entry[e].type /\ y.amount = entry[e].amount
              /\ y.day = entry[e].day /\ y.status = "failed"
              /\ \A f \in Entries : entry'[f] = IF f = e THEN y ELSE entry[f]
    BY <1>1, <1>5, AfterFailing
  <2>3. e \notin RefusedFuel
    BY <1>5 DEF RefusedFuel, Failing
  <2>4. e \in RefusedFuel' <=> entry[e].type = "fuel"
    BY <2>2 DEF RefusedFuel
  <2>5. /\ refused \in Nat
        /\ refused' = refused
              + (IF e \in RefusedFuel' THEN entry'[e].amount ELSE 0)
    BY <1>1, <2>2, <2>3, RefusedFollows
  <2>6. entry[e].amount \in Int /\ applied[e] \in Int
    BY <1>1, <2>1, RowFields DEF TypeOK
  <2>7. Balance' = Balance - entry[e].amount
    <3>1. Balance' = Balance - applied[e] + applied'[e]
      BY <1>1, <2>1, BalanceMoves
    <3>. QED  BY <1>1, <2>1, <2>6, <3>1
  <2>8. CASE entry[e].type = "fuel"
    <3>1. refused' = refused + entry[e].amount
      BY <2>2, <2>4, <2>5, <2>8
    <3>2. Balance' >= -refused'
      BY <1>1, <1>2, <2>5, <2>6, <2>7, <3>1
    <3>. QED  BY <3>2 DEF OverdraftIsRefusedFuel
  <2>9. CASE entry[e].type = "payout"
    <3>1. refused' = refused
      BY <2>4, <2>5, <2>9
    <3>2. entry[e].amount <= 0
      BY <2>1, <2>9, RowSigns
    <3>3. Balance' >= -refused'
      BY <1>1, <1>2, <2>5, <2>6, <2>7, <3>1, <3>2
    <3>. QED  BY <3>3 DEF OverdraftIsRefusedFuel
  <2>. QED  BY <1>5, <2>8, <2>9 DEF Failing, Kinds
<1>6. ASSUME NEW e \in Entries, NEW x \in Rows, Posting(e, x)
      PROVE  OverdraftIsRefusedFuel'
  <2>1. /\ entry[e] = NoEntry
        /\ \A f \in Entries : entry'[f] = IF f = e THEN x ELSE entry[f]
        /\ \A f \in Entries \ {e} : applied'[f] = applied[f]
        /\ applied'[e] = applied[e] + x.amount
    BY <1>1, <1>6, AfterPosting
  <2>2. e \notin RefusedFuel /\ e \notin RefusedFuel'
    BY <1>6, <2>1 DEF RefusedFuel, NoEntry, Posting
  <2>3. refused \in Nat /\ refused' = refused + 0
    BY <1>1, <2>1, <2>2, RefusedFollows
  <2>4. x.amount \in Int /\ applied[e] \in Int
    BY <1>1, RowFields DEF TypeOK
  <2>5. Balance' = Balance + x.amount
    <3>1. Balance' = Balance - applied[e] + applied'[e]
      BY <1>1, <2>1, BalanceMoves
    <3>. QED  BY <1>1, <2>1, <2>4, <3>1
  <2>6. CASE x.type = "payout"
    <3>1. -x.amount <= Balance
      BY <1>6, <2>6 DEF Posting
    <3>2. Balance' >= -refused'
      BY <1>1, <2>3, <2>4, <2>5, <3>1
    <3>. QED  BY <3>2 DEF OverdraftIsRefusedFuel
  <2>7. CASE x.type \in {"fare", "fuel"}
    <3>1. x.amount \in Nat
      BY <2>7, RowSigns
    <3>2. Balance' >= -refused'
      BY <1>1, <1>2, <2>3, <2>5, <3>1
    <3>. QED  BY <3>2 DEF OverdraftIsRefusedFuel
  <2>. QED  BY <2>6, <2>7, RowFields
<1>. QED  BY <1>3, <1>4, <1>5, <1>6, LedgerMoves

-----------------------------------------------------------------------------
(* Dates, and the limits together                                          *)

LEMMA DatedKept ==
    ASSUME WalletInv, TypeOK', Dated, [Next]_vars
    PROVE  Dated'
<1>1. TypeOK /\ day \in Nat /\ day' \in Nat /\ day <= day'
  <2>1. TypeOK /\ day \in Nat /\ day' \in Nat
    BY Sizes DEF WalletInv, TypeOK, Days
  <2>2. day' = day \/ day' = day + 1
    BY LedgerMoves DEF Quiet, NextDay, Settling, Failing, Posting
  <2>. QED  BY <2>1, <2>2
<1>2. ASSUME NEW e \in Entries PROVE entry'[e].day <= day'
  <2>1. entry[e].day \in Nat /\ entry[e].day <= day
    BY <1>1, RowSigns DEF TypeOK, NoEntry, Dated
  <2>2. CASE entry'[e].day = entry[e].day
    BY <1>1, <2>1, <2>2
  <2>3. CASE Quiet \/ NextDay
    BY <1>1, <2>1, <2>3 DEF Quiet, NextDay
  <2>4. ASSUME NEW f \in Entries, Settling(f) PROVE entry'[e].day <= day'
    BY <1>1, <2>2, <2>4, AfterSettling
  <2>5. ASSUME NEW f \in Entries, Failing(f) PROVE entry'[e].day <= day'
    BY <1>1, <2>2, <2>5, AfterFailing
  <2>6. ASSUME NEW f \in Entries, NEW x \in Rows, Posting(f, x)
        PROVE  entry'[e].day <= day'
    <3>1. x.day <= day /\ x.day \in Nat
      BY <2>6, RowSigns DEF Posting
    <3>2. entry'[e].day = x.day \/ entry'[e].day = entry[e].day
      BY <1>1, <2>6, AfterPosting
    <3>. QED  BY <1>1, <2>2, <3>1, <3>2
  <2>. QED  BY <2>3, <2>4, <2>5, <2>6, LedgerMoves
<1>3. ASSUME NEW t \in Requests, pc'[t] = "reserve"
      PROVE  job'[t].opened <= day'
  <2>1. CASE pc[t] = "reserve" /\ job'[t] = job[t]
    <3>1. job[t].opened <= day /\ job[t].opened \in Nat
      BY <2>1, Sizes DEF Dated, WalletInv, Control, Jobs, Days
    <3>. QED  BY <1>1, <2>1, <3>1
  <2>2. ASSUME NEW kind \in Kinds, NEW amount \in Amounts, Ask(t, kind, amount)
        PROVE  job'[t].opened <= day'
    <3>1. job'[t].opened = day /\ day' = day
      BY <1>1, <2>2 DEF Ask, TypeOK
    <3>. QED  BY <1>1, <3>1
  <2>3. \/ pc[t] = "reserve" /\ job'[t] = job[t]
        \/ \E kind \in Kinds, amount \in Amounts : Ask(t, kind, amount)
    BY <1>1, <1>3
       DEF Next, Step, TypeOK, Reserve, GatewayAnswers, Settle, Reverse, Release,
           RequestFails, Crash, Finish, Goto, Ask, Earn, Midnight, Expire, vars
  <2>. QED  BY <2>1, <2>2, <2>3
<1>. QED  BY <1>2, <1>3 DEF Dated

LEMMA LimitsInit == Init => LimitsInv
<1>. SUFFICES ASSUME Init PROVE LimitsInv
  OBVIOUS
<1>1. Dated
  BY DEF Init, Dated, NoEntry
<1>2. FuelOf(day) = {} /\ RefusedFuel = {}
  BY DEF Init, FuelOf, RefusedFuel, Live, NoEntry
<1>4. UsedOn(day) = 0 /\ SumOver(RefusedFuel) = 0
  <2>1. SumFunctionOnSet(Amount(entry), {}) = 0
    BY SumFacts, FS_EmptySet
  <2>. QED  BY <1>2, <2>1 DEF UsedOn, SumOver
<1>5. Balance \in Nat
  <2>1. DOMAIN applied = Entries /\ \A e \in Entries : applied[e] \in Nat
    BY DEF Init
  <2>. QED  BY <2>1, LedgerIsFinite, SumNat DEF Balance, SumFunction
<1>6. DailyCap /\ OverdraftIsRefusedFuel
  BY <1>4, <1>5, Sizes DEF DailyCap, OverdraftIsRefusedFuel
<1>. QED  BY <1>1, <1>6 DEF LimitsInv

\* Dates, limit and overdraft hold in every reachable state.
THEOREM LimitsInvHolds == Spec => []LimitsInv
<1>1. WalletInv' => TypeOK'
  BY DEF WalletInv
<1>2. WalletInv /\ WalletInv' /\ LimitsInv /\ [Next]_vars => LimitsInv'
  BY <1>1, DatedKept, CapKept, OverdraftKept DEF LimitsInv
<1>. QED  BY <1>2, LimitsInit, WalletInvHolds, PTL DEF Spec

\* The advances of the running day stay within MFB_DAILY_FUEL_LIMIT, however
\* many requests race and whatever the Redis lock is worth.
THEOREM DailyCapKept == Spec => []DailyCap
<1>1. LimitsInv => DailyCap
  BY DEF LimitsInv
<1>. QED  BY <1>1, LimitsInvHolds, PTL

\* walletBalance is below zero by refused advances at most, never by a payout.
THEOREM OverdraftBounded == Spec => []OverdraftIsRefusedFuel
<1>1. LimitsInv => OverdraftIsRefusedFuel
  BY DEF LimitsInv
<1>. QED  BY <1>1, LimitsInvHolds, PTL

-----------------------------------------------------------------------------
(* Wallet implements WalletContract                                        *)

LEMMA PostIsPost ==
    ASSUME TypeOK, BalanceFollowsLedger, NEW e \in Entries, NEW row \in Rows,
           row.status \in {"pending", "completed"}, Post(e, row)
    PROVE  Contract!Post(e)
<1>1. entry[e] = NoEntry /\ applied[e] = 0
  BY DEF Post, BalanceFollowsLedger, Live, NoEntry
<1>2. row.amount \in Int
  BY RowFields
<1>3. applied' = [applied EXCEPT ![e] = row.amount]
  <2>1. applied' = [applied EXCEPT ![e] = applied[e] + row.amount]
    BY DEF Post
  <2>2. applied[e] + row.amount = row.amount
    BY <1>1, <1>2
  <2>. QED  BY <2>1, <2>2
<1>4. entry' = [entry EXCEPT ![e] = row]
  BY DEF Post
<1>. QED  BY <1>1, <1>3, <1>4 DEF Contract!Post

LEMMA SettleIsSettle ==
    ASSUME WalletInv, NEW t \in Requests, Settle(t)
    PROVE  Contract!Settle(job[t].entry) \/ UNCHANGED <<entry, applied>>
<1>. DEFINE e == job[t].entry
<1>1. pc[t] \in InHand /\ UNCHANGED applied
  BY DEF Settle, InHand
<1>2. e \in Entries /\ entry[e].status = "pending" /\ entry[e] \in Rows
  BY <1>1, Holding
<1>3. CASE bank[e] = "paid"
  <2>1. entry' = [entry EXCEPT ![e].status = "completed"]
    BY <1>3 DEF Settle
  <2>. QED  BY <1>1, <1>2, <2>1 DEF Contract!Settle
<1>4. CASE bank[e] # "paid"
  <2>1. entry' = [entry EXCEPT ![e].status = "pending"]
    BY <1>4 DEF Settle
  <2>2. [entry[e] EXCEPT !.status = "pending"] = entry[e]
    BY <1>2 DEF Rows, Row
  <2>3. entry \in [Entries -> Rows \cup {NoEntry}]
    BY DEF WalletInv, TypeOK
  <2>4. entry' = entry
    BY <1>2, <2>1, <2>2, <2>3
  <2>. QED  BY <1>1, <2>4
<1>. QED  BY <1>3, <1>4

LEMMA ReverseIsReverse ==
    ASSUME WalletInv, BalanceFollowsLedger, NEW t \in Requests, Reverse(t)
    PROVE  Contract!Reverse(job[t].entry)
<1>. DEFINE e == job[t].entry
<1>1. pc[t] \in InHand
  BY DEF Reverse, InHand
<1>2. /\ e \in Entries /\ entry[e].status = "pending" /\ entry[e] \in Rows
      /\ entry[e].amount = Signed(job[t].kind, job[t].amount)
  BY <1>1, Holding
<1>3. applied[e] = entry[e].amount /\ entry[e].amount \in Int
  BY <1>2, RowFields DEF BalanceFollowsLedger, Live
<1>4. applied' = [applied EXCEPT ![e] = 0]
  <2>1. applied' = [applied EXCEPT ![e] =
                       applied[e] - Signed(job[t].kind, job[t].amount)]
    BY DEF Reverse
  <2>2. applied[e] - Signed(job[t].kind, job[t].amount) = 0
    BY <1>2, <1>3
  <2>. QED  BY <2>1, <2>2
<1>5. entry' = [entry EXCEPT ![e].status = "failed"]
  BY DEF Reverse
<1>. QED  BY <1>2, <1>4, <1>5 DEF Contract!Reverse

LEMMA StepIsContract ==
    ASSUME WalletInv, BalanceFollowsLedger, [Next]_vars
    PROVE  [Contract!Next]_(Contract!vars)
<1>. USE DEF Contract!vars
<1>1. TypeOK /\ Control
  BY DEF WalletInv
<1>2. ASSUME NEW e \in Entries, NEW fare \in Fares, Earn(e, fare)
      PROVE  Contract!Next
  <2>. DEFINE row == [type |-> "fare", amount |-> fare,
                      status |-> "completed", day |-> day]
  <2>1. row \in Rows /\ row.status = "completed"
    BY <1>1 DEF TypeOK, Rows, Row, Status
  <2>2. Post(e, row)
    BY <1>2 DEF Earn
  <2>. HIDE DEF row
  <2>3. Contract!Post(e)
    BY <1>1, <2>1, <2>2, PostIsPost
  <2>. QED  BY <2>3 DEF Contract!Next
<1>3. ASSUME NEW t \in Requests, Reserve(t)
      PROVE  [Contract!Next]_(Contract!vars)
  <2>1. CASE UNCHANGED <<entry, applied>>
    BY <2>1
  <2>2. ASSUME NEW e \in Entries, Post(e, PendingRow(job[t]))
        PROVE  Contract!Next
    <3>1. job[t] \in Jobs
      BY <1>1, <1>3 DEF Reserve, Control
    <3>2. PendingRow(job[t]) \in Rows /\ PendingRow(job[t]).status = "pending"
      BY <3>1, PendingIsRow
    <3>3. Contract!Post(e)
      BY <1>1, <2>2, <3>2, PostIsPost
    <3>. QED  BY <3>3 DEF Contract!Next
  <2>. QED  BY <1>3, <2>1, <2>2 DEF Reserve
<1>4. ASSUME NEW t \in Requests, Settle(t)
      PROVE  [Contract!Next]_(Contract!vars)
  <2>1. job[t].entry \in Entries
    BY <1>4, Holding DEF Settle, InHand
  <2>. QED  BY <1>4, <2>1, SettleIsSettle DEF Contract!Next
<1>5. ASSUME NEW t \in Requests, Reverse(t)
      PROVE  Contract!Next
  <2>1. job[t].entry \in Entries
    BY <1>5, Holding DEF Reverse, InHand
  <2>. QED  BY <1>5, <2>1, ReverseIsReverse DEF Contract!Next
<1>6. ASSUME NEW t \in Requests,
             GatewayAnswers(t) \/ Release(t) \/ RequestFails(t) \/ Crash(t)
      PROVE  UNCHANGED <<entry, applied>>
  BY <1>6 DEF GatewayAnswers, Release, RequestFails, Crash
<1>9. ASSUME NEW t \in Requests, NEW kind \in Kinds, NEW amount \in Amounts,
             Ask(t, kind, amount)
      PROVE  UNCHANGED <<entry, applied>>
  BY <1>9 DEF Ask
<1>10. CASE Midnight \/ (\E kind \in Kinds : Expire(kind)) \/ UNCHANGED vars
  BY <1>10 DEF Midnight, Expire, vars
<1>. QED  BY <1>2, <1>3, <1>4, <1>5, <1>6, <1>9, <1>10
          DEF Next, Step

\* Whatever the requests do is what the contract says:
\* each entry's money moves with it, once in, and at most once out.
THEOREM WalletContractKept == Spec => ContractSpec
<1>1. Init => Contract!Init
  BY DEF Init, Contract!Init
<1>2. WalletInv /\ [Next]_vars => [Contract!Next]_(Contract!vars)
  <2>1. WalletInv => BalanceFollowsLedger
    BY DEF WalletInv
  <2>. QED  BY <2>1, StepIsContract
<1>. QED  BY <1>1, <1>2, WalletInvHolds, PTL
          DEF Spec, ContractSpec, Contract!Spec
=============================================================================

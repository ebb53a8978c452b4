------------------------- MODULE RideLifecycleProofs -------------------------
(***************************************************************************)
(* Proofs about RideLifecycle and RideRaces, for every set of rides,       *)
(* drivers, riders and requests in flight.                                 *)
(***************************************************************************)
EXTENDS RideRaces, FiniteSetTheorems, TLAPS

\* A save writes each column either from the entity or not at all, so the row
\* it leaves is a row.
LEMMA UpdatedIsRow ==
    ASSUME NEW mine \in RideRow, NEW read \in RideRow, NEW now \in RideRow
    PROVE  Updated(mine, read, now) \in RideRow
BY DEF Updated, Column, RideRow

LEMMA NewRowIsRow == NewRow \in RideRow
BY DEF NewRow, RideRow, RideStatus

\* The edits the handlers make to a row they have loaded.
LEMMA EditedRow ==
    ASSUME NEW x \in RideRow, NEW d \in Drivers, NEW status \in RideStatus
    PROVE  /\ [x EXCEPT !.status = status] \in RideRow
           /\ [x EXCEPT !.status = status].status = status
           /\ [x EXCEPT !.status = status].driver = x.driver
           /\ [x EXCEPT !.status = status].fare = x.fare
           /\ [x EXCEPT !.driver = d, !.status = status] \in RideRow
           /\ [x EXCEPT !.driver = d, !.status = status].status = status
           /\ [x EXCEPT !.driver = d, !.status = status].driver = d
           /\ [x EXCEPT !.driver = d, !.status = status].fare = x.fare
           /\ [x EXCEPT !.status = status, !.fare = TRUE] \in RideRow
           /\ [x EXCEPT !.status = status, !.fare = TRUE].status = status
           /\ [x EXCEPT !.status = status, !.fare = TRUE].driver = x.driver
           /\ [x EXCEPT !.status = status, !.fare = TRUE].fare = TRUE
BY DEF RideRow

LEMMA JobTypes ==
    ASSUME NEW j \in Jobs
    PROVE  /\ j.ride \in Rides
           /\ j.op \in Ops
           /\ j.op # "riderCancel" => j.by \in Drivers
           /\ j.op = "riderCancel" => j.by \in Riders
BY DEF Jobs, Ops

-----------------------------------------------------------------------------
(* Types and control flow                                                  *)

\* A request taken on is at the label its handler starts with.
LEMMA BeginControl ==
    ASSUME TypeOK, Control, NEW t \in Requests, NEW op, NEW r, NEW who,
           NEW label \in Labels \ {"idle"}, Begin(t, op, r, who, label),
           [op |-> op, ride |-> r, by |-> who] \in Jobs, Fits(op, label)
    PROVE  /\ pc' \in [Requests -> Labels]
           /\ job' \in [Requests -> Jobs \cup {NoJob}]
           /\ Control'
<1>1. pc' = [pc EXCEPT ![t] = label]
      /\ job' = [job EXCEPT ![t] = [op |-> op, ride |-> r, by |-> who]]
  BY DEF Begin, Goto
<1>2. pc' \in [Requests -> Labels] /\ job' \in [Requests -> Jobs \cup {NoJob}]
  BY <1>1 DEF TypeOK
<1>3. ASSUME NEW u \in Requests
      PROVE  /\ pc'[u] = "idle" => job'[u] = NoJob
             /\ pc'[u] # "idle" => job'[u] \in Jobs /\ Fits(job'[u].op, pc'[u])
  <2>1. CASE u = t
    <3>1. pc'[u] = label /\ job'[u] = [op |-> op, ride |-> r, by |-> who]
      BY <1>1, <2>1 DEF TypeOK
    <3> QED BY <3>1
  <2>2. CASE u # t
    <3>1. pc'[u] = pc[u] /\ job'[u] = job[u]
      BY <1>1, <2>2 DEF TypeOK
    <3> QED BY <3>1 DEF Control
  <2> QED BY <2>1, <2>2
<1> QED BY <1>2, <1>3 DEF Control

\* A step within a handler stays among its labels.
LEMMA GotoControl ==
    ASSUME TypeOK, Control, NEW t \in Requests, pc[t] # "idle",
           NEW label \in Labels \ {"idle"}, Goto(t, label), job' = job,
           Fits(job[t].op, label)
    PROVE  pc' \in [Requests -> Labels] /\ Control'
<1>1. pc' = [pc EXCEPT ![t] = label]
  BY DEF Goto
<1>2. pc' \in [Requests -> Labels]
  BY <1>1 DEF TypeOK
<1>3. ASSUME NEW u \in Requests
      PROVE  /\ pc'[u] = "idle" => job'[u] = NoJob
             /\ pc'[u] # "idle" => job'[u] \in Jobs /\ Fits(job'[u].op, pc'[u])
  <2>1. CASE u = t
    <3>1. pc'[u] = label /\ job'[u] = job[u]
      BY <1>1, <2>1 DEF TypeOK
    <3> QED BY <3>1, <2>1 DEF Control
  <2>2. CASE u # t
    <3>1. pc'[u] = pc[u] /\ job'[u] = job[u]
      BY <1>1, <2>2 DEF TypeOK
    <3> QED BY <3>1 DEF Control
  <2> QED BY <2>1, <2>2
<1> QED BY <1>2, <1>3 DEF Control

\* A handler that ends leaves its slot free.
LEMMA FinishControl ==
    ASSUME TypeOK, Control, NEW t \in Requests, Finish(t)
    PROVE  /\ pc' \in [Requests -> Labels]
           /\ job' \in [Requests -> Jobs \cup {NoJob}]
           /\ entity' \in [Requests -> RideRow]
           /\ reloaded' \in [Requests -> RideRow]
           /\ Control'
<1>1. /\ pc' = [pc EXCEPT ![t] = "idle"]
      /\ job' = [job EXCEPT ![t] = NoJob]
      /\ entity' = [entity EXCEPT ![t] = NewRow]
      /\ reloaded' = [reloaded EXCEPT ![t] = NewRow]
  BY DEF Finish, Goto
<1>2. /\ pc' \in [Requests -> Labels]
      /\ job' \in [Requests -> Jobs \cup {NoJob}]
      /\ entity' \in [Requests -> RideRow]
      /\ reloaded' \in [Requests -> RideRow]
  BY <1>1, NewRowIsRow DEF TypeOK, Labels
<1>3. ASSUME NEW u \in Requests
      PROVE  /\ pc'[u] = "idle" => job'[u] = NoJob
             /\ pc'[u] # "idle" => job'[u] \in Jobs /\ Fits(job'[u].op, pc'[u])
  <2>1. CASE u = t
    BY <1>1, <2>1 DEF TypeOK
  <2>2. CASE u # t
    <3>1. pc'[u] = pc[u] /\ job'[u] = job[u]
      BY <1>1, <2>2 DEF TypeOK
    <3> QED BY <3>1 DEF Control
  <2> QED BY <2>1, <2>2
<1> QED BY <1>2, <1>3 DEF Control

\* The rows a handler loads and the row a save leaves are rows, whatever the
\* request.
LEMMA LoadType ==
    ASSUME TypeOK, Control, NEW t \in Requests, NEW op \in Ops \ LockingOps,
           NEW r \in Rides, NEW who, NEW status \in RideStatus,
           [op |-> op, ride |-> r, by |-> who] \in Jobs,
           Load(t, op, r, who, status)
    PROVE  TypeOK' /\ Control'
<1>1. Fits(op, "save") /\ "save" \in Labels \ {"idle"}
  BY DEF Fits, Labels, TxLabels, LockingOps
<1>2. /\ pc' \in [Requests -> Labels]
      /\ job' \in [Requests -> Jobs \cup {NoJob}]
      /\ Control'
  BY <1>1, BeginControl DEF Load
<1>3. [row[r] EXCEPT !.status = status] \in RideRow
  <2>1. row[r] \in RideRow
    BY DEF TypeOK
  <2> QED BY <2>1 DEF RideRow
<1>4. entity' \in [Requests -> RideRow]
  BY <1>3 DEF Load, TypeOK
<1> QED BY <1>2, <1>4 DEF Load, TypeOK, money

LEMMA ThrowType ==
    ASSUME TypeOK, Control, NEW t \in Requests, pc[t] # "idle", Throw(t)
    PROVE  /\ pc' \in [Requests -> Labels]
           /\ job' \in [Requests -> Jobs \cup {NoJob}]
           /\ entity' \in [Requests -> RideRow]
           /\ reloaded' \in [Requests -> RideRow]
           /\ Control'
<1>1. CASE job[t].op \in LockingOps
  <2>1. Goto(t, "release") /\ UNCHANGED <<job, entity, reloaded>>
    BY <1>1 DEF Throw
  <2>2. Fits(job[t].op, "release") /\ "release" \in Labels \ {"idle"}
    BY <1>1 DEF Fits, Labels, TxLabels
  <2>3. pc' \in [Requests -> Labels] /\ Control'
    BY <2>1, <2>2, GotoControl
  <2> QED BY <2>1, <2>3 DEF TypeOK
<1>2. CASE job[t].op \notin LockingOps
  BY <1>2, FinishControl DEF Throw
<1> QED BY <1>1, <1>2

LEMMA DroppedType ==
    ASSUME TypeOK, NEW t \in Requests
    PROVE  RowLocksDropped(t) \in [DbRows -> Requests \cup {None}]
BY DEF RowLocksDropped, TypeOK

\* A step that only moves the row locks and the label.
LEMMA LockBalanceType ==
    ASSUME TypeOK, Control, NEW t \in Requests, NEW x,
           NEW label, NEW next \in Labels \ {"idle"}, label # "idle",
           Fits(job[t].op, next), LockBalance(t, label, x, next)
    PROVE  TypeOK' /\ Control'
<1>1. pc' \in [Requests -> Labels] /\ Control'
  BY GotoControl DEF LockBalance
<1> QED BY <1>1 DEF LockBalance, TypeOK, money

LEMMA TypeInit == Init => TypeOK /\ Control
BY NewRowIsRow DEF Init, TypeOK, Control, Labels

LEMMA TypeStep == TypeOK /\ Control /\ [Next]_vars => TypeOK' /\ Control'
<1> SUFFICES ASSUME TypeOK, Control, [Next]_vars PROVE TypeOK' /\ Control'
  OBVIOUS
<1>1. ASSUME NEW t \in Requests, NEW r \in Rides, CancelByRider(t, r)
      PROVE  TypeOK' /\ Control'
  <2>1. [op |-> "riderCancel", ride |-> r, by |-> Rider[r]] \in Jobs
    BY Tables DEF Jobs
  <2>2. "riderCancel" \in Ops \ LockingOps /\ "cancelled" \in RideStatus
    BY DEF Ops, LockingOps, RideStatus
  <2> QED BY <1>1, <2>1, <2>2, LoadType DEF CancelByRider
<1>2. ASSUME NEW t \in Requests, NEW r \in Rides, NEW d \in Drivers,
             NEW op \in Ops \ {"riderCancel"}
      PROVE  [op |-> op, ride |-> r, by |-> d] \in Jobs
  BY <1>2 DEF Jobs
<1>3. ASSUME NEW t \in Requests, NEW r \in Rides, NEW d \in Drivers,
             MarkArrived(t, r, d) \/ StartRide(t, r, d)
                \/ CancelByDriver(t, r, d)
      PROVE  TypeOK' /\ Control'
  <2>1. {"arrive", "start", "driverCancel"}
           \subseteq (Ops \ LockingOps) \cap (Ops \ {"riderCancel"})
        /\ {"arrived", "in_progress", "cancelled"} \subseteq RideStatus
    BY DEF Ops, LockingOps, RideStatus
  <2>2. \E op \in {"arrive", "start", "driverCancel"},
           status \in {"arrived", "in_progress", "cancelled"} :
              Load(t, op, r, d, status)
    BY <1>3 DEF MarkArrived, StartRide, CancelByDriver
  <2> QED BY <1>2, <2>1, <2>2, LoadType
<1>4. ASSUME NEW t \in Requests, NEW r \in Rides, NEW d \in Drivers,
             AcceptLock(t, r, d) \/ CompleteLock(t, r, d)
      PROVE  TypeOK' /\ Control'
  <2>1. \E op \in LockingOps, label \in {"read", "settle"} :
           Begin(t, op, r, d, label) /\ Fits(op, label)
    BY <1>4 DEF AcceptLock, CompleteLock, LockingOps, Fits, TxLabels
  <2>2. LockingOps \subseteq Ops \ {"riderCancel"}
        /\ {"read", "settle"} \subseteq Labels \ {"idle"}
    BY DEF Ops, LockingOps, Labels
  <2>3. /\ pc' \in [Requests -> Labels]
        /\ job' \in [Requests -> Jobs \cup {NoJob}]
        /\ Control'
    BY <1>2, <2>1, <2>2, BeginControl
  <2>4. lock' \in [Rides -> Requests \cup {None, Orphan}]
    BY <1>4 DEF AcceptLock, CompleteLock, TypeOK
  <2> QED BY <1>4, <2>3, <2>4 DEF AcceptLock, CompleteLock, TypeOK, money
<1>5. ASSUME NEW t \in Requests, Step(t) PROVE TypeOK' /\ Control'
  <2>0. pc[t] # "idle" /\ job[t] \in Jobs /\ Fits(job[t].op, pc[t])
        /\ job[t].ride \in Rides
    <3>1. pc[t] # "idle"
      BY <1>5 DEF Step, AcceptRead, AcceptLimits, AcceptPointer, Reload, Write,
         CancelPointer, SettleRead, LockDriver, LockRider, LockBalance, Commit,
         CompletePointer, Unlock
    <3> QED BY <3>1, JobTypes DEF Control
  <2>1. CASE AcceptRead(t)
    <3>1. \E label \in {"limits", "release"} :
             Goto(t, label) /\ Fits(job[t].op, label)
      BY <2>0, <2>1 DEF AcceptRead, Fits, LockingOps, TxLabels
    <3>2. pc' \in [Requests -> Labels] /\ Control'
      BY <2>0, <2>1, <3>1, GotoControl DEF Labels, AcceptRead
    <3>3. entity' \in [Requests -> RideRow]
      BY <2>0, <2>1 DEF AcceptRead, TypeOK
    <3> QED BY <2>1, <3>2, <3>3 DEF AcceptRead, TypeOK, money
  <2>2. CASE AcceptLimits(t)
    <3>1. \E label \in {"save", "release"} :
             Goto(t, label) /\ Fits(job[t].op, label)
      BY <2>0, <2>2 DEF AcceptLimits, Fits, LockingOps, TxLabels
    <3>2. pc' \in [Requests -> Labels] /\ Control'
      BY <2>0, <2>2, <3>1, GotoControl DEF Labels, AcceptLimits
    <3>3. job[t].by \in Drivers
      BY <2>0, <2>2, JobTypes DEF AcceptLimits, Fits
    <3>4. entity' \in [Requests -> RideRow]
      <4>1. entity[t] \in RideRow /\ "accepted" \in RideStatus
        BY DEF TypeOK, RideStatus
      <4>2. [entity[t] EXCEPT !.driver = job[t].by, !.status = "accepted"]
               \in RideRow
        BY <3>3, <4>1, EditedRow
      <4>3. entity' = entity
            \/ entity' = [entity EXCEPT ![t] =
                  [entity[t] EXCEPT !.driver = job[t].by, !.status = "accepted"]]
        BY <2>2 DEF AcceptLimits, TypeOK
      <4> QED BY <4>2, <4>3 DEF TypeOK
    <3> QED BY <2>2, <3>2, <3>4 DEF AcceptLimits, TypeOK, money
  <2>3. CASE AcceptPointer(t) \/ CompletePointer(t)
    <3>1. Goto(t, "release") /\ Fits(job[t].op, "release")
      BY <2>3 DEF AcceptPointer, CompletePointer, Fits, LockingOps, TxLabels
    <3>2. pc' \in [Requests -> Labels] /\ Control'
      BY <2>0, <2>3, <3>1, GotoControl DEF Labels, AcceptPointer,
         CompletePointer
    <3>3. pointer' \in [Drivers -> Rides \cup {None}]
      BY <2>0, <2>3 DEF AcceptPointer, CompletePointer, TypeOK
    <3> QED BY <2>3, <3>2, <3>3 DEF AcceptPointer, CompletePointer, TypeOK, money
  <2>4. CASE CancelPointer(t)
    <3>1. pointer' \in [Drivers -> Rides \cup {None}]
      BY <2>4 DEF CancelPointer, TypeOK
    <3> QED BY <2>4, <3>1, FinishControl DEF CancelPointer, TypeOK, money
  <2>5. CASE Reload(t)
    <3>1. Goto(t, "write") /\ Fits(job[t].op, "write")
      BY <2>0, <2>5 DEF Reload, Fits, TxLabels
    <3>2. pc' \in [Requests -> Labels] /\ Control'
      BY <2>0, <2>5, <3>1, GotoControl DEF Labels, Reload
    <3>3. reloaded' \in [Requests -> RideRow]
      BY <2>0, <2>5 DEF Reload, TypeOK
    <3> QED BY <2>5, <3>2, <3>3 DEF Reload, TypeOK, money
  <2>6. CASE Write(t)
    <3>1. row' \in [Rides -> RideRow]
      BY <2>0, <2>6, UpdatedIsRow DEF Write, TypeOK
    <3>2. awarded' \in [Rides -> SUBSET Drivers]
      <4>1. job[t].op = "accept" => job[t].by \in Drivers
        BY <2>0, JobTypes
      <4> QED BY <2>0, <2>6, <4>1 DEF Write, TypeOK
    <3>3. /\ pc' \in [Requests -> Labels]
          /\ job' \in [Requests -> Jobs \cup {NoJob}]
          /\ entity' \in [Requests -> RideRow]
          /\ reloaded' \in [Requests -> RideRow]
          /\ Control'
      <4>1. CASE Finish(t)
        BY <4>1, FinishControl
      <4>2. CASE ~Finish(t)
        <5>1. Goto(t, "pointer") /\ UNCHANGED <<job, entity, reloaded>>
              /\ Fits(job[t].op, "pointer")
          BY <2>6, <4>2 DEF Write, AfterSave, Fits, LockingOps, TxLabels
        <5>2. pc' \in [Requests -> Labels] /\ Control'
          BY <2>0, <5>1, GotoControl DEF Labels
        <5> QED BY <5>1, <5>2 DEF TypeOK
      <4> QED BY <4>1, <4>2
    <3> QED BY <2>6, <3>1, <3>2, <3>3 DEF Write, TypeOK, money
  <2>7. CASE SettleRead(t)
    <3>1. \E label \in {"creditDriver", "release"} :
             Goto(t, label) /\ Fits(job[t].op, label)
      BY <2>0, <2>7 DEF SettleRead, Fits, LockingOps, TxLabels
    <3>2. pc' \in [Requests -> Labels] /\ Control'
      BY <2>0, <2>7, <3>1, GotoControl DEF Labels, SettleRead
    <3>3. rowLock' \in [DbRows -> Requests \cup {None}]
      BY <2>7 DEF SettleRead, TypeOK
    <3> QED BY <2>7, <3>2, <3>3 DEF SettleRead, TypeOK, money
  <2>8. CASE LockDriver(t) \/ LockRider(t)
    <3>1. Fits(job[t].op, "creditRider") /\ Fits(job[t].op, "commit")
      BY <2>0, <2>8 DEF LockDriver, LockRider, LockBalance, Fits, TxLabels
    <3>2. {"creditRider", "commit"} \subseteq Labels \ {"idle"}
      BY DEF Labels
    <3>3. LockDriver(t) => TypeOK' /\ Control'
      BY <3>1, <3>2, LockBalanceType DEF LockDriver
    <3>4. LockRider(t) => TypeOK' /\ Control'
      BY <3>1, <3>2, LockBalanceType DEF LockRider
    <3> QED BY <2>8, <3>3, <3>4
  <2>9. CASE Commit(t)
    <3>1. \E label \in {"pointer", "release"} :
             Goto(t, label) /\ Fits(job[t].op, label)
      BY <2>0, <2>9 DEF Commit, Fits, LockingOps, TxLabels
    <3>2. pc' \in [Requests -> Labels] /\ Control'
      BY <2>0, <2>9, <3>1, GotoControl DEF Labels, Commit
    <3>3. row' \in [Rides -> RideRow]
      <4>1. row[job[t].ride] \in RideRow /\ "completed" \in RideStatus
        BY <2>0 DEF TypeOK, RideStatus
      <4>2. [row[job[t].ride] EXCEPT !.status = "completed", !.fare = TRUE]
               \in RideRow
        BY <4>1 DEF RideRow
      <4>3. row' = row
            \/ row' = [row EXCEPT ![job[t].ride] =
                 [row[job[t].ride] EXCEPT !.status = "completed", !.fare = TRUE]]
        BY <2>0, <2>9 DEF Commit, TypeOK
      <4> QED BY <4>2, <4>3 DEF TypeOK
    <3>4. job[t].by \in Drivers
      BY <2>0, <2>9, JobTypes DEF Commit, Fits, TxLabels
    <3>5. /\ ledger' \in [Rides -> Drivers \cup {None}]
          /\ credited' \in [Drivers -> [Rides -> Nat]]
          /\ cashback' \in [Rides -> Nat]
      <4> DEFINE r == job[t].ride  d == job[t].by
      <4>1. CASE ~LedgerTakes(r)
        BY <2>9, <4>1 DEF Commit, TypeOK, money
      <4>2. CASE LedgerTakes(r)
        <5>1. /\ ledger' = [ledger EXCEPT ![r] = d]
              /\ credited' = [credited EXCEPT ![d] =
                                [credited[d] EXCEPT ![r] = credited[d][r] + 1]]
              /\ cashback' = [cashback EXCEPT ![r] = cashback[r] + 1]
          BY <2>0, <2>9, <3>4, <4>2 DEF Commit, TypeOK
        <5>2. r \in Rides /\ d \in Drivers
          BY <2>0, <3>4
        <5>3. credited[d] \in [Rides -> Nat] /\ cashback[r] \in Nat
          BY <5>2 DEF TypeOK
        <5>4. [credited[d] EXCEPT ![r] = credited[d][r] + 1] \in [Rides -> Nat]
          BY <5>2, <5>3
        <5> HIDE DEF r, d
        <5> QED BY <5>1, <5>2, <5>3, <5>4 DEF TypeOK
      <4> QED BY <4>1, <4>2
    <3>6. rowLock' \in [DbRows -> Requests \cup {None}]
      BY <2>9, DroppedType DEF Commit
    <3> QED BY <2>9, <3>2, <3>3, <3>5, <3>6 DEF Commit, TypeOK
  <2>10. CASE Unlock(t)
    <3>1. lock' \in [Rides -> Requests \cup {None, Orphan}]
      BY <2>10 DEF Unlock, TypeOK
    <3> QED BY <2>10, <3>1, FinishControl DEF Unlock, TypeOK, money
  <2> QED BY <1>5, <2>1, <2>2, <2>3, <2>4, <2>5, <2>6, <2>7, <2>8, <2>9, <2>10
      DEF Step
<1>6. ASSUME NEW t \in Requests, RequestFails(t) PROVE TypeOK' /\ Control'
  BY <1>6, ThrowType, DroppedType DEF RequestFails, TypeOK, money
<1>7. ASSUME NEW t \in Requests, Crash(t) PROVE TypeOK' /\ Control'
  <2>1. lock' \in [Rides -> Requests \cup {None, Orphan}]
    BY <1>7 DEF Crash, TypeOK
  <2> QED BY <1>7, <2>1, FinishControl, DroppedType DEF Crash, TypeOK, money
<1>8. ASSUME NEW r \in Rides, Expire(r) PROVE TypeOK' /\ Control'
  <2>1. lock' \in [Rides -> Requests \cup {None, Orphan}]
    BY <1>8 DEF Expire, TypeOK
  <2> QED BY <1>8, <2>1 DEF Expire, TypeOK, Control, money
<1>9. CASE UNCHANGED vars
  BY <1>9 DEF vars, TypeOK, Control
<1> QED BY <1>1, <1>3, <1>4, <1>5, <1>6, <1>7, <1>8, <1>9 DEF Next, Arrive

\* Every reachable state is well typed, and every request is at a label of the
\* handler it was given to.
THEOREM TypeCorrect == Spec => [](TypeOK /\ Control)
<1>1. Init => TypeOK /\ Control
  BY TypeInit
<1>2. TypeOK /\ Control /\ [Next]_vars => (TypeOK /\ Control)'
  BY TypeStep
<1> QED BY <1>1, <1>2, PTL DEF Spec

-----------------------------------------------------------------------------
(* What one step touches                                                   *)

StepOf(t) == Arrive(t) \/ Step(t) \/ RequestFails(t) \/ Crash(t)

\* A step of one request leaves the others where they are.
LEMMA OthersStand ==
    ASSUME TypeOK, NEW t \in Requests, StepOf(t), NEW u \in Requests, u # t
    PROVE  /\ pc'[u] = pc[u] /\ job'[u] = job[u]
           /\ entity'[u] = entity[u] /\ reloaded'[u] = reloaded[u]
<1>1. /\ pc' = [pc EXCEPT ![t] = pc'[t]]
      /\ job' = job \/ job' = [job EXCEPT ![t] = job'[t]]
      /\ entity' = entity \/ entity' = [entity EXCEPT ![t] = entity'[t]]
      /\ reloaded' = reloaded \/ reloaded' = [reloaded EXCEPT ![t] = reloaded'[t]]
  <2>1. Arrive(t) => <1>1
    BY DEF TypeOK, Arrive, AcceptLock, MarkArrived, StartRide, CompleteLock,
       CancelByRider, CancelByDriver, Load, Begin, Goto
  <2>2. RequestFails(t) \/ Crash(t) => <1>1
    BY DEF TypeOK, RequestFails, Crash, Throw, Finish, Goto
  <2>3. AcceptRead(t) \/ AcceptLimits(t) \/ AcceptPointer(t) \/ Reload(t) => <1>1
    BY DEF TypeOK, AcceptRead, AcceptLimits, AcceptPointer, Reload, Goto
  <2>4. Write(t) \/ CancelPointer(t) \/ Unlock(t) => <1>1
    BY DEF TypeOK, Write, AfterSave, CancelPointer, Unlock, Finish, Goto
  <2>5. SettleRead(t) \/ LockDriver(t) \/ LockRider(t) \/ Commit(t)
           \/ CompletePointer(t) => <1>1
    BY DEF TypeOK, SettleRead, LockDriver, LockRider, LockBalance, Commit,
       CompletePointer, Goto
  <2> QED BY <2>1, <2>2, <2>3, <2>4, <2>5 DEF StepOf, Step
<1> QED BY <1>1 DEF TypeOK

\* Rides are written by saves and by settlements that the ledger takes, the
\* money by the latter alone.
LEMMA WhoWrites ==
    ASSUME NEW t \in Requests, StepOf(t)
    PROVE  /\ Write(t) \/ (Commit(t) /\ LedgerTakes(job[t].ride)) \/ row' = row
           /\ (Commit(t) /\ LedgerTakes(job[t].ride)) \/ UNCHANGED money
           /\ Write(t) \/ awarded' = awarded
BY DEF StepOf, Arrive, AcceptLock, MarkArrived, StartRide, CompleteLock,
   CancelByRider, CancelByDriver, Load, RequestFails, Crash, Step, AcceptRead,
   AcceptLimits, AcceptPointer, Reload, Write, CancelPointer, SettleRead,
   LockDriver, LockRider, LockBalance, Commit, CompletePointer, Unlock, money

\* A row lock is lost by nobody but its holder.
LEMMA RowLocksStay ==
    ASSUME TypeOK, NEW t \in Requests, StepOf(t), NEW x \in DbRows,
           rowLock[x] \notin {t, None}
    PROVE  rowLock'[x] = rowLock[x]
<1>1. \/ rowLock' = rowLock
      \/ rowLock' = RowLocksDropped(t)
      \/ \E y : rowLock[y] = None /\ rowLock' = [rowLock EXCEPT ![y] = t]
  BY DEF StepOf, Arrive, AcceptLock, MarkArrived, StartRide, CompleteLock,
     CancelByRider, CancelByDriver, Load, RequestFails, Crash, Step, AcceptRead,
     AcceptLimits, AcceptPointer, Reload, Write, CancelPointer, SettleRead,
     LockDriver, LockRider, LockBalance, Commit, CompletePointer, Unlock
<1> QED BY <1>1 DEF TypeOK, RowLocksDropped

\* A step not taken by a request moves no row, no money and no request.
LEMMA ExpiryMovesNothing ==
    ASSUME NEW r \in Rides, Expire(r)
    PROVE  UNCHANGED <<row, money, rowLock, pointer, pc, job, entity, reloaded,
                       awarded>>
BY DEF Expire

LEMMA WhoMoves ==
    ASSUME [Next]_vars
    PROVE  \/ \E t \in Requests : StepOf(t)
           \/ \E r \in Rides : Expire(r)
           \/ UNCHANGED vars
BY DEF Next, StepOf

-----------------------------------------------------------------------------
(* Settlement                                                              *)

\* What a commit that the ledger takes does, in terms of its ride and driver.
LEMMA CommitEffect ==
    ASSUME TypeOK, Control, NEW t \in Requests, Commit(t),
           LedgerTakes(job[t].ride)
    PROVE  /\ job[t].ride \in Rides /\ job[t].by \in Drivers
           /\ ledger[job[t].ride] = None
           /\ ledger' = [ledger EXCEPT ![job[t].ride] = job[t].by]
           /\ credited' = [credited EXCEPT ![job[t].by] =
                 [credited[job[t].by] EXCEPT ![job[t].ride] = @ + 1]]
           /\ cashback' = [cashback EXCEPT ![job[t].ride] = @ + 1]
           /\ row' = [row EXCEPT ![job[t].ride] =
                 [row[job[t].ride] EXCEPT !.status = "completed", !.fare = TRUE]]
<1>1. job[t] \in Jobs /\ job[t].op = "complete"
  BY DEF Control, Commit, Fits, TxLabels
<1>2. job[t].ride \in Rides /\ job[t].by \in Drivers
  BY <1>1, JobTypes
<1> QED BY <1>1, <1>2 DEF Commit, LedgerTakes, TypeOK

\* What a save does, in terms of its ride.
LEMMA WriteEffect ==
    ASSUME TypeOK, Control, NEW t \in Requests, Write(t)
    PROVE  /\ job[t].ride \in Rides /\ job[t] \in Jobs
           /\ pc[t] = "write"
           /\ rowLock[job[t].ride] = None
           /\ row' = [row EXCEPT ![job[t].ride] =
                 Updated(entity[t], reloaded[t], row[job[t].ride])]
           /\ entity[t] \in RideRow /\ reloaded[t] \in RideRow
           /\ row[job[t].ride] \in RideRow
           /\ UNCHANGED money
<1>1. job[t] \in Jobs /\ pc[t] = "write"
  BY DEF Control, Write
<1>2. job[t].ride \in Rides
  BY <1>1, JobTypes
<1> QED BY <1>1, <1>2 DEF Write, TypeOK

\* The two, as seen from one ride.
LEMMA CommitAt ==
    ASSUME TypeOK, Control, NEW t \in Requests, Commit(t),
           LedgerTakes(job[t].ride), NEW r \in Rides
    PROVE  /\ job[t].ride = r =>
                 /\ row'[r].status = "completed" /\ row'[r].fare
                 /\ row'[r].driver = row[r].driver
                 /\ ledger'[r] = job[t].by /\ ledger'[r] # None
                 /\ ledger[r] = None
           /\ job[t].ride # r => row'[r] = row[r] /\ ledger'[r] = ledger[r]
<1> DEFINE s == job[t].ride  d == job[t].by
           x == [row[s] EXCEPT !.status = "completed", !.fare = TRUE]
<1>1. /\ s \in Rides /\ d \in Drivers /\ ledger[s] = None /\ d # None
      /\ ledger' = [ledger EXCEPT ![s] = d] /\ row' = [row EXCEPT ![s] = x]
  BY CommitEffect, Distinct
<1>2. row[s] \in RideRow
  BY <1>1 DEF TypeOK
<1>3. x.status = "completed" /\ x.fare /\ x.driver = row[s].driver
  BY <1>2 DEF RideRow
<1> HIDE DEF s, d, x
<1>4. ASSUME s = r
      PROVE  /\ row'[r].status = "completed" /\ row'[r].fare
             /\ row'[r].driver = row[r].driver
             /\ ledger'[r] = d /\ ledger'[r] # None /\ ledger[r] = None
  <2>1. row'[r] = x /\ ledger'[r] = d
    BY <1>1, <1>4 DEF TypeOK
  <2> QED BY <1>1, <1>3, <1>4, <2>1
<1>5. s # r => row'[r] = row[r] /\ ledger'[r] = ledger[r]
  BY <1>1 DEF TypeOK
<1> QED BY <1>4, <1>5 DEF s, d

LEMMA UpdatedColumns ==
    ASSUME NEW mine, NEW read, NEW now
    PROVE  /\ Updated(mine, read, now).status
                 = Column(mine.status, read.status, now.status)
           /\ Updated(mine, read, now).driver
                 = Column(mine.driver, read.driver, now.driver)
BY DEF Updated

LEMMA WriteAt ==
    ASSUME TypeOK, Control, NEW t \in Requests, Write(t), NEW r \in Rides
    PROVE  /\ job[t].ride = r =>
                 row'[r] = Updated(entity[t], reloaded[t], row[r])
           /\ job[t].ride # r => row'[r] = row[r]
           /\ ledger'[r] = ledger[r]
           /\ pc[t] = "write" /\ job[t] \in Jobs
           /\ entity[t] \in RideRow /\ reloaded[t] \in RideRow
           /\ row[r] \in RideRow
BY WriteEffect DEF TypeOK, money

LEMMA MoneyStep ==
    ASSUME TypeOK, Control, MoneyFollowsLedger, [Next]_vars
    PROVE  MoneyFollowsLedger'
<1>1. CASE UNCHANGED money
  BY <1>1 DEF money, MoneyFollowsLedger
<1>2. ASSUME NEW t \in Requests, Commit(t), LedgerTakes(job[t].ride)
      PROVE  MoneyFollowsLedger'
  <2> DEFINE r == job[t].ride  d == job[t].by
  <2>1. /\ r \in Rides /\ d \in Drivers /\ ledger[r] = None /\ d # None
        /\ ledger' = [ledger EXCEPT ![r] = d]
        /\ credited' = [credited EXCEPT ![d] = [credited[d] EXCEPT ![r] = @ + 1]]
        /\ cashback' = [cashback EXCEPT ![r] = @ + 1]
    BY <1>2, CommitEffect, Distinct
  <2> HIDE DEF r, d
  <2>2. credited[d][r] = 0 /\ cashback[r] = 0
    BY <2>1 DEF MoneyFollowsLedger
  <2>3. ASSUME NEW s \in Rides
        PROVE  /\ \A e \in Drivers :
                     credited'[e][s] = IF ledger'[s] = e THEN 1 ELSE 0
               /\ cashback'[s] = IF ledger'[s] = None THEN 0 ELSE 1
    <3>1. \A e \in Drivers : credited[e] \in [Rides -> Nat]
      BY DEF TypeOK
    <3>2. CASE s = r
      <4>1. ledger'[s] = d /\ cashback'[s] = 1
        BY <2>1, <2>2, <3>2 DEF TypeOK
      <4>2. ASSUME NEW e \in Drivers
            PROVE  credited'[e][s] = IF ledger'[s] = e THEN 1 ELSE 0
        <5>1. CASE e = d
          BY <2>1, <2>2, <3>1, <3>2, <4>1, <5>1 DEF TypeOK
        <5>2. CASE e # d
          <6>1. credited'[e][s] = credited[e][s]
            BY <2>1, <5>2 DEF TypeOK
          <6>2. ledger[r] # e
            BY <2>1, Distinct
          <6>3. credited[e][s] = 0
            BY <3>2, <6>2 DEF MoneyFollowsLedger
          <6> QED BY <4>1, <5>2, <6>1, <6>3
        <5> QED BY <5>1, <5>2
      <4> QED BY <2>1, <4>1, <4>2
    <3>3. CASE s # r
      <4>1. ledger'[s] = ledger[s] /\ cashback'[s] = cashback[s]
        BY <2>1, <3>3 DEF TypeOK
      <4>2. ASSUME NEW e \in Drivers PROVE credited'[e][s] = credited[e][s]
        BY <2>1, <3>1, <3>3 DEF TypeOK
      <4> QED BY <4>1, <4>2 DEF MoneyFollowsLedger
    <3> QED BY <3>2, <3>3
  <2> QED BY <2>3 DEF MoneyFollowsLedger
<1>3. UNCHANGED money
      \/ \E t \in Requests : Commit(t) /\ LedgerTakes(job[t].ride)
  BY WhoMoves, WhoWrites, ExpiryMovesNothing DEF vars, money
<1> QED BY <1>1, <1>2, <1>3

\* The ride of a settlement in hand is not written by another request.
LEMMA HeldRowsStay ==
    ASSUME TypeOK, Control, RowHeld, NEW t \in Requests, StepOf(t),
           NEW u \in Requests, u # t, pc[u] \in TxLabels
    PROVE  row'[job[u].ride] = row[job[u].ride]
<1> DEFINE r == job[u].ride
<1>1. r \in Rides /\ rowLock[r] = u /\ u # None
  BY JobTypes, Distinct DEF RowHeld, Control, TxLabels
<1>2. CASE row' = row
  BY <1>2
<1>3. CASE Write(t)
  <2>1. job[t].ride # r
    BY <1>1, <1>3, WriteEffect
  <2> QED BY <1>1, <1>3, <2>1, WriteEffect DEF TypeOK
<1>4. CASE Commit(t) /\ LedgerTakes(job[t].ride)
  <2>1. job[t].ride # r
    BY <1>1, <1>4 DEF RowHeld, Commit, TxLabels
  <2> QED BY <1>1, <1>4, <2>1, CommitEffect DEF TypeOK
<1> QED BY <1>2, <1>3, <1>4, WhoWrites

LEMMA RowHeldStep ==
    ASSUME TypeOK, Control, RowHeld, [Next]_vars
    PROVE  RowHeld'
<1>1. ASSUME NEW t \in Requests, StepOf(t) PROVE RowHeld'
  <2>1. ASSUME NEW u \in Requests, u # t, pc'[u] \in TxLabels
        PROVE  /\ rowLock'[job'[u].ride] = u
               /\ row'[job'[u].ride].status = "in_progress"
               /\ row'[job'[u].ride].driver = job'[u].by
    <3>1. pc[u] \in TxLabels /\ job'[u] = job[u]
      BY <1>1, <2>1, OthersStand
    <3>2. job[u].ride \in DbRows
      BY <3>1, JobTypes DEF Control, TxLabels, DbRows
    <3>3. rowLock'[job[u].ride] = u
      BY <1>1, <2>1, <3>1, <3>2, RowLocksStay, Distinct DEF RowHeld
    <3>4. row'[job[u].ride] = row[job[u].ride]
      BY <1>1, <2>1, <3>1, HeldRowsStay
    <3> QED BY <3>1, <3>3, <3>4 DEF RowHeld
  <2>2. ASSUME pc'[t] \in TxLabels
        PROVE  /\ rowLock'[job'[t].ride] = t
               /\ row'[job'[t].ride].status = "in_progress"
               /\ row'[job'[t].ride].driver = job'[t].by
    <3>1. SettleRead(t) \/ LockDriver(t) \/ LockRider(t)
      <4>1. Arrive(t) => pc'[t] \in {"read", "save", "settle"}
        BY DEF TypeOK, Arrive, AcceptLock, MarkArrived, StartRide, CompleteLock,
           CancelByRider, CancelByDriver, Load, Begin, Goto
      <4>2. RequestFails(t) \/ Crash(t) => pc'[t] \in {"idle", "release"}
        BY DEF TypeOK, RequestFails, Crash, Throw, Finish, Goto
      <4>3. AcceptRead(t) \/ AcceptLimits(t) \/ AcceptPointer(t) \/ Reload(t)
            => pc'[t] \in {"limits", "save", "write", "release"}
        BY DEF TypeOK, AcceptRead, AcceptLimits, AcceptPointer, Reload, Goto
      <4>4. Write(t) \/ CancelPointer(t) \/ Unlock(t) \/ Commit(t)
               \/ CompletePointer(t)
            => pc'[t] \in {"idle", "pointer", "release"}
        BY DEF TypeOK, Write, AfterSave, CancelPointer, Unlock, Finish, Goto,
           Commit, CompletePointer
      <4> QED BY <1>1, <2>2, <4>1, <4>2, <4>3, <4>4 DEF StepOf, Step, TxLabels
    <3>2. job'[t] = job[t] /\ row' = row /\ job[t].ride \in Rides
      BY <3>1, JobTypes DEF SettleRead, LockDriver, LockRider, LockBalance,
         Control
    <3>3. CASE SettleRead(t)
      BY <2>2, <3>2, <3>3
         DEF SettleRead, Goto, TypeOK, TxLabels, DbRows
    <3>4. CASE LockDriver(t) \/ LockRider(t)
      <4>1. pc[t] \in TxLabels
        BY <3>4 DEF LockDriver, LockRider, LockBalance, TxLabels
      <4>2. \E x : rowLock[x] = None /\ rowLock' = [rowLock EXCEPT ![x] = t]
        BY <3>4 DEF LockDriver, LockRider, LockBalance
      <4>3. rowLock'[job[t].ride] = t
        BY <3>2, <4>1, <4>2 DEF RowHeld, TypeOK, DbRows
      <4> QED BY <3>2, <4>1, <4>3 DEF RowHeld
    <3> QED BY <3>1, <3>3, <3>4
  <2> QED BY <2>1, <2>2 DEF RowHeld
<1>2. ASSUME NEW r \in Rides, Expire(r) PROVE RowHeld'
  BY <1>2, ExpiryMovesNothing DEF RowHeld
<1>3. CASE UNCHANGED vars
  BY <1>3 DEF vars, RowHeld
<1> QED BY <1>1, <1>2, <1>3, WhoMoves

\* What a request does to the copies it holds: it loads them from the row as it
\* is, or keeps them, or drops them.
LEMMA Copies ==
    ASSUME TypeOK, Control, NEW t \in Requests, StepOf(t),
           pc'[t] \in {"save", "write"}
    PROVE  /\ job'[t] \in Jobs /\ job'[t].ride \in Rides
           /\ row' = row /\ ledger' = ledger /\ awarded' = awarded
           /\ pc'[t] = "write" =>
                 /\ Reload(t) /\ job'[t] = job[t] /\ entity'[t] = entity[t]
                 /\ reloaded'[t] = row[job[t].ride]
           /\ pc'[t] = "save" =>
                 \/ /\ AcceptLimits(t) /\ job'[t] = job[t]
                    /\ job[t].by \in Drivers
                    /\ entity'[t] = [entity[t] EXCEPT !.driver = job[t].by,
                                                      !.status = "accepted"]
                 \/ /\ job'[t].op # "accept"
                    /\ \E status \in {"arrived", "in_progress", "cancelled"} :
                          entity'[t] = [row[job'[t].ride] EXCEPT !.status = status]
<1>1. Control'
  <2>1. [Next]_vars
    BY DEF StepOf, Next
  <2> QED BY <2>1, TypeStep
<1>2. job'[t] \in Jobs /\ job'[t].ride \in Rides
  BY <1>1, JobTypes DEF Control
<1>3. Arrive(t) \/ AcceptLimits(t) \/ Reload(t)
  <2>1. RequestFails(t) \/ Crash(t) => pc'[t] \in {"idle", "release"}
    BY DEF TypeOK, RequestFails, Crash, Throw, Finish, Goto
  <2>2. AcceptRead(t) \/ AcceptPointer(t) => pc'[t] \in {"limits", "release"}
    BY DEF TypeOK, AcceptRead, AcceptPointer, Goto
  <2>3. Write(t) \/ CancelPointer(t) \/ Unlock(t) \/ Commit(t)
           \/ CompletePointer(t) => pc'[t] \in {"idle", "pointer", "release"}
    BY DEF TypeOK, Write, AfterSave, CancelPointer, Unlock, Finish, Goto,
       Commit, CompletePointer
  <2>4. SettleRead(t) \/ LockDriver(t) \/ LockRider(t)
           => pc'[t] \in TxLabels \cup {"release"}
    BY DEF TypeOK, SettleRead, LockDriver, LockRider, LockBalance, Goto, TxLabels
  <2> QED BY <2>1, <2>2, <2>3, <2>4 DEF StepOf, Step, TxLabels
<1>4. CASE Arrive(t)
  <2> DEFINE FromRow ==
        /\ row' = row /\ ledger' = ledger /\ awarded' = awarded
        /\ pc'[t] = "save" /\ job'[t].op # "accept"
        /\ \E status \in {"arrived", "in_progress", "cancelled"} :
              entity'[t] = [row[job'[t].ride] EXCEPT !.status = status]
  <2>1. ASSUME NEW r \in Rides, NEW op, op # "accept", NEW who,
               NEW status \in {"arrived", "in_progress", "cancelled"},
               Load(t, op, r, who, status)
        PROVE  FromRow
    <3>1. /\ pc'[t] = "save"
          /\ job'[t] = [op |-> op, ride |-> r, by |-> who]
          /\ entity'[t] = [row[r] EXCEPT !.status = status]
          /\ row' = row /\ ledger' = ledger /\ awarded' = awarded
      BY <2>1 DEF Load, Begin, Goto, TypeOK, money
    <3>2. job'[t].op = op /\ job'[t].ride = r
      BY <3>1
    <3> QED BY <2>1, <3>1, <3>2
  <2>2. ASSUME NEW r \in Rides, NEW d \in Drivers,
               AcceptLock(t, r, d) \/ CompleteLock(t, r, d)
        PROVE  FALSE
    BY <2>2 DEF AcceptLock, CompleteLock, Begin, Goto, TypeOK
  <2>3. ASSUME NEW r \in Rides, CancelByRider(t, r) PROVE FromRow
    BY <2>1, <2>3 DEF CancelByRider
  <2>4. ASSUME NEW r \in Rides, NEW d \in Drivers, MarkArrived(t, r, d)
        PROVE  FromRow
    BY <2>1, <2>4 DEF MarkArrived
  <2>5. ASSUME NEW r \in Rides, NEW d \in Drivers, StartRide(t, r, d)
        PROVE  FromRow
    BY <2>1, <2>5 DEF StartRide
  <2>6. ASSUME NEW r \in Rides, NEW d \in Drivers, CancelByDriver(t, r, d)
        PROVE  FromRow
    BY <2>1, <2>6 DEF CancelByDriver
  <2>7. FromRow
    <3> HIDE DEF FromRow
    <3> QED BY <1>4, <2>2, <2>3, <2>4, <2>5, <2>6 DEF Arrive
  <2> QED BY <1>2, <2>7
<1>5. CASE AcceptLimits(t)
  <2>1. pc'[t] = "save" /\ job[t].by \in Drivers /\ job' = job
    BY <1>5, JobTypes DEF AcceptLimits, Control, Fits, Goto, TypeOK
  <2>2. entity'[t] = [entity[t] EXCEPT !.driver = job[t].by,
                                       !.status = "accepted"]
    BY <1>5, <2>1 DEF AcceptLimits, Goto, TypeOK
  <2> QED BY <1>2, <1>5, <2>1, <2>2 DEF AcceptLimits, money
<1>6. CASE Reload(t)
  BY <1>2, <1>6 DEF Reload, Goto, TypeOK, money
<1> QED BY <1>3, <1>4, <1>5, <1>6

\* A settled ride stays settled: the ledger only gains entries.
LEMMA LedgerGrows ==
    ASSUME TypeOK, Control, [Next]_vars, NEW r \in Rides, ledger[r] # None
    PROVE  ledger'[r] = ledger[r]
<1>1. ASSUME NEW t \in Requests, StepOf(t) PROVE ledger'[r] = ledger[r]
  BY <1>1, WhoWrites, CommitEffect DEF TypeOK, money
<1> QED BY <1>1, WhoMoves, ExpiryMovesNothing DEF vars, Expire, money

\* A save of an entity that is not completed leaves the row completed only if
\* it was, and leaves a final fare only where the row or the entity had one.
LEMMA SaveKeepsFare ==
    ASSUME NEW mine \in RideRow, NEW read \in RideRow, NEW now \in RideRow,
           mine.status # "completed"
    PROVE  /\ Updated(mine, read, now).status = "completed" =>
                 now.status = "completed" /\ mine.status = read.status
           /\ Updated(mine, read, now).fare => now.fare \/ mine.fare
           /\ ~Updated(mine, read, now).fare => ~now.fare \/ (~mine.fare /\ read.fare)
BY DEF Updated, Column, RideRow

LEMMA CopyForAccept ==
    ASSUME TypeOK, Control, NEW t \in Requests, StepOf(t), pc'[t] = "limits"
    PROVE  /\ AcceptRead(t) /\ row' = row /\ ledger' = ledger
           /\ awarded' = awarded /\ job'[t] = job[t]
           /\ job[t] \in Jobs /\ job[t].ride \in Rides /\ job[t].op = "accept"
           /\ entity'[t] = row[job[t].ride]
           /\ row[job[t].ride].status = "requested"
<1>1. Arrive(t) => pc'[t] \in {"read", "save", "settle"}
  BY DEF TypeOK, Arrive, AcceptLock, MarkArrived, StartRide, CompleteLock,
     CancelByRider, CancelByDriver, Load, Begin, Goto
<1>2. RequestFails(t) \/ Crash(t) => pc'[t] \in {"idle", "release"}
  BY DEF TypeOK, RequestFails, Crash, Throw, Finish, Goto
<1>3. AcceptLimits(t) \/ AcceptPointer(t) \/ Reload(t)
      => pc'[t] \in {"save", "write", "release"}
  BY DEF TypeOK, AcceptLimits, AcceptPointer, Reload, Goto
<1>4. Write(t) \/ CancelPointer(t) \/ Unlock(t) \/ Commit(t)
         \/ CompletePointer(t) => pc'[t] \in {"idle", "pointer", "release"}
  BY DEF TypeOK, Write, AfterSave, CancelPointer, Unlock, Finish, Goto,
     Commit, CompletePointer
<1>5. SettleRead(t) \/ LockDriver(t) \/ LockRider(t)
         => pc'[t] \in TxLabels \cup {"release"}
  BY DEF TypeOK, SettleRead, LockDriver, LockRider, LockBalance, Goto, TxLabels
<1>6. AcceptRead(t)
  BY <1>1, <1>2, <1>3, <1>4, <1>5 DEF StepOf, Step, TxLabels
<1>7. job[t] \in Jobs /\ job[t].ride \in Rides /\ job[t].op = "accept"
  BY <1>6, JobTypes DEF AcceptRead, Control, Fits
<1> QED BY <1>6, <1>7 DEF AcceptRead, Goto, TypeOK, money

LEMMA FareStep ==
    ASSUME TypeOK, Control, RowHeld, CompletedIsPaid, FareMeansPaid, [Next]_vars
    PROVE  CompletedIsPaid' /\ FareMeansPaid'
<1>0. TypeOK' /\ Control'
  BY TypeStep
<1>1. ASSUME NEW t \in Requests, StepOf(t)
      PROVE  CompletedIsPaid' /\ FareMeansPaid'
  <2>0. ASSUME NEW r \in Rides, ledger[r] # None PROVE ledger'[r] # None
    <3>1. [Next]_vars
      OBVIOUS
    <3> QED BY <2>0, <3>1, LedgerGrows
  <2>1. ASSUME NEW r \in Rides
        PROVE  /\ row'[r].status = "completed" => row'[r].fare /\ ledger'[r] # None
               /\ row'[r].fare => ledger'[r] # None
    <3>1. CASE row'[r] = row[r]
      BY <2>0, <3>1 DEF CompletedIsPaid, FareMeansPaid
    <3>2. CASE Write(t) /\ job[t].ride = r
      <4> DEFINE mine == entity[t]  read == reloaded[t]  now == row[r]
      <4>1. row'[r] = Updated(mine, read, now)
            /\ mine \in RideRow /\ read \in RideRow /\ now \in RideRow
            /\ pc[t] = "write"
        BY <3>2, WriteEffect DEF TypeOK
      <4>2. mine.status # "completed" /\ (mine.fare => ledger[r] # None)
        BY <3>2, <4>1 DEF FareMeansPaid
      <4>3. row'[r].fare => ledger'[r] # None
        BY <2>0, <4>1, <4>2, SaveKeepsFare DEF FareMeansPaid
      <4>4. ASSUME row'[r].status = "completed" PROVE row'[r].fare
        <5>1. now.status = "completed" /\ read.status # "completed"
          BY <4>1, <4>2, <4>4, SaveKeepsFare
        <5>2. now.fare /\ ~read.fare
          BY <3>2, <4>1, <5>1 DEF CompletedIsPaid, FareMeansPaid, RideRow
        <5> QED BY <4>1, <4>2, <5>2, SaveKeepsFare DEF RideRow
      <4> QED BY <4>3, <4>4
    <3>3. CASE Commit(t) /\ LedgerTakes(job[t].ride) /\ job[t].ride = r
      BY <3>3, CommitAt
    <3>4. CASE (Write(t) \/ (Commit(t) /\ LedgerTakes(job[t].ride)))
               /\ job[t].ride # r
      BY <3>1, <3>4, WriteAt, CommitAt
    <3> QED BY <1>1, <3>1, <3>2, <3>3, <3>4, WhoWrites
  <2>2. ASSUME NEW u \in Requests, pc'[u] \in {"limits", "save", "write"}
        PROVE  /\ entity'[u].status # "completed"
               /\ entity'[u].fare => ledger'[job'[u].ride] # None
    <3>1. CASE u # t
      <4>1. pc'[u] = pc[u] /\ job'[u] = job[u] /\ entity'[u] = entity[u]
        BY <1>1, <3>1, OthersStand
      <4>2. job[u].ride \in Rides
        BY <2>2, <4>1, JobTypes DEF Control
      <4> QED BY <2>0, <2>2, <4>1, <4>2 DEF FareMeansPaid
    <3>2. CASE u = t /\ pc'[t] = "limits"
      BY <1>1, <3>2, CopyForAccept DEF FareMeansPaid
    <3>3. CASE u = t /\ pc'[t] = "write"
      <4>1. Reload(t) /\ job'[t] = job[t] /\ entity'[t] = entity[t]
            /\ ledger' = ledger
        BY <1>1, <3>3, Copies
      <4> QED BY <3>3, <4>1 DEF FareMeansPaid, Reload
    <3>4. CASE u = t /\ pc'[t] = "save"
      <4>1. CASE AcceptLimits(t) /\ job'[t] = job[t] /\ job[t].by \in Drivers
                 /\ entity'[t] = [entity[t] EXCEPT !.driver = job[t].by,
                                                   !.status = "accepted"]
        <5>1. entity[t] \in RideRow /\ "accepted" \in RideStatus
          BY DEF TypeOK, RideStatus
        <5>2. entity'[t].fare = entity[t].fare /\ entity'[t].status = "accepted"
          <6> DEFINE x == entity[t]  d == job[t].by
          <6>1. [x EXCEPT !.driver = d, !.status = "accepted"].fare = x.fare
                /\ [x EXCEPT !.driver = d, !.status = "accepted"].status
                      = "accepted"
            BY <5>1 DEF RideRow
          <6> QED BY <4>1, <6>1
        <5> QED BY <1>1, <3>4, <4>1, <5>2, Copies DEF FareMeansPaid, AcceptLimits
      <4>2. ASSUME NEW status \in {"arrived", "in_progress", "cancelled"},
                   entity'[t] = [row[job'[t].ride] EXCEPT !.status = status]
            PROVE  entity'[t].fare = row[job'[t].ride].fare
                   /\ entity'[t].status # "completed"
        <5>1. row[job'[t].ride] \in RideRow /\ status \in RideStatus
          BY <1>1, <3>4, <4>2, Copies DEF TypeOK, RideStatus
        <5> QED BY <4>2, <5>1 DEF RideRow
      <4>3. job'[t].ride \in Rides /\ ledger' = ledger
        BY <1>1, <3>4, Copies
      <4> QED BY <1>1, <3>4, <4>1, <4>2, <4>3, Copies DEF FareMeansPaid
    <3> QED BY <2>2, <3>1, <3>2, <3>3, <3>4
  <2>3. ASSUME NEW u \in Requests, pc'[u] = "write", reloaded'[u].fare
        PROVE  /\ ledger'[job'[u].ride] # None
               /\ reloaded'[u].status # "completed" =>
                     row'[job'[u].ride].status # "completed"
    <3>1. CASE u # t
      <4>1. pc'[u] = pc[u] /\ job'[u] = job[u] /\ reloaded'[u] = reloaded[u]
        BY <1>1, <3>1, OthersStand
      <4> DEFINE r == job[u].ride
      <4>2. r \in Rides
        BY <2>3, <4>1, JobTypes DEF Control
      <4>3. ledger[r] # None /\ ledger'[r] # None
        BY <2>0, <2>3, <4>1, <4>2 DEF FareMeansPaid
      <4>4. ASSUME row[r].status # "completed" PROVE row'[r].status # "completed"
        <5>1. CASE row'[r] = row[r]
          BY <4>4, <5>1
        <5>2. CASE Write(t) /\ job[t].ride = r
          <6>1. row'[r] = Updated(entity[t], reloaded[t], row[r])
                /\ entity[t] \in RideRow /\ reloaded[t] \in RideRow
                /\ row[r] \in RideRow /\ entity[t].status # "completed"
            BY <4>2, <5>2, WriteEffect DEF TypeOK, FareMeansPaid
          <6> QED BY <4>4, <6>1, SaveKeepsFare
        <5>3. CASE Write(t) /\ job[t].ride # r
          BY <4>2, <5>1, <5>3, WriteEffect DEF TypeOK
        <5>4. CASE Commit(t) /\ LedgerTakes(job[t].ride)
          <6>1. job[t].ride # r
            BY <4>3, <5>4 DEF LedgerTakes
          <6> QED BY <4>2, <5>1, <5>4, <6>1, CommitAt
        <5> QED BY <1>1, <5>1, <5>2, <5>3, <5>4, WhoWrites
      <4> QED BY <2>3, <4>1, <4>3, <4>4 DEF FareMeansPaid
    <3>2. CASE u = t
      <4>1. Reload(t) /\ job'[t] = job[t] /\ row' = row /\ ledger' = ledger
            /\ reloaded'[t] = row[job[t].ride] /\ job[t].ride \in Rides
        BY <1>1, <2>3, <3>2, Copies
      <4> QED BY <2>3, <3>2, <4>1 DEF FareMeansPaid
    <3> QED BY <3>1, <3>2
  <2> QED BY <2>1, <2>2, <2>3 DEF CompletedIsPaid, FareMeansPaid
<1>2. ASSUME NEW r \in Rides, Expire(r) PROVE CompletedIsPaid' /\ FareMeansPaid'
  BY <1>2, ExpiryMovesNothing DEF CompletedIsPaid, FareMeansPaid, money
<1>3. CASE UNCHANGED vars
  BY <1>3 DEF vars, CompletedIsPaid, FareMeansPaid
<1> QED BY <1>1, <1>2, <1>3, WhoMoves

LEMMA SettlementInit == Init => SettlementInv
<1> SUFFICES ASSUME Init PROVE SettlementInv
  OBVIOUS
<1>1. TypeOK /\ Control
  BY TypeInit
<1>2. MoneyFollowsLedger
  <2>1. \A d \in Drivers : d # None
    BY Distinct
  <2> QED BY <2>1 DEF Init, MoneyFollowsLedger
<1>3. RowHeld /\ CompletedIsPaid /\ FareMeansPaid
  BY DEF Init, RowHeld, CompletedIsPaid, FareMeansPaid, NewRow, TxLabels
<1> QED BY <1>1, <1>2, <1>3 DEF SettlementInv

LEMMA SettlementStep == SettlementInv /\ [Next]_vars => SettlementInv'
BY TypeStep, MoneyStep, RowHeldStep, FareStep DEF SettlementInv

LEMMA SettlementHolds == Spec => []SettlementInv
BY SettlementInit, SettlementStep, PTL DEF Spec

\* Whatever is retried, overwritten, rejected or killed, and whether or not
\* locks outlive their handlers, balances and ledger agree: one payout for each
\* ride the ledger names.
THEOREM MoneySafe == Spec => []MoneyFollowsLedger
<1>1. SettlementInv => MoneyFollowsLedger
  BY DEF SettlementInv
<1> QED BY <1>1, SettlementHolds, PTL

\* No stale save ever produces a completed ride that nobody was paid for.
THEOREM CompletionSafe == Spec => []CompletedIsPaid
<1>1. SettlementInv => CompletedIsPaid
  BY DEF SettlementInv
<1> QED BY <1>1, SettlementHolds, PTL

\* The driver who is paid is the one assigned at the instant of the commit, and
\* the ride was in progress until that instant: the row lock, not the Redis
\* lock, is what guarantees it.
THEOREM PaymentSafe == Spec => PaysAssignedDriver
<1> DEFINE A == \A r \in Rides : ledger'[r] # ledger[r] =>
                   /\ row[r].status = "in_progress"
                   /\ row[r].driver = ledger'[r]
                   /\ row'[r].status = "completed"
<1>1. SettlementInv /\ [Next]_vars => [A]_vars
  <2> SUFFICES ASSUME SettlementInv, [Next]_vars, NEW r \in Rides,
                      ledger'[r] # ledger[r]
               PROVE  /\ row[r].status = "in_progress"
                      /\ row[r].driver = ledger'[r]
                      /\ row'[r].status = "completed"
    OBVIOUS
  <2>1. PICK t \in Requests : Commit(t) /\ LedgerTakes(job[t].ride)
    BY WhoMoves, WhoWrites, ExpiryMovesNothing DEF vars, money
  <2>2. job[t].ride = r /\ pc[t] \in TxLabels
    BY <2>1, CommitAt DEF SettlementInv, Commit, TxLabels
  <2> QED BY <2>1, <2>2, CommitAt DEF SettlementInv, RowHeld
<1> QED BY <1>1, SettlementHolds, PTL DEF Spec, PaysAssignedDriver

-----------------------------------------------------------------------------
(* Award                                                                   *)

\* What a step of t does to a ride lock: it is taken free, freed by the handler
\* that has it, or left by the dead.
LEMMA WhoLocks ==
    ASSUME TypeOK, Control, NEW t \in Requests, StepOf(t), NEW r \in Rides
    PROVE  \/ lock'[r] = lock[r]
           \/ lock[r] = None /\ lock'[r] = t
           \/ lock[r] = t
           \/ pc[t] = "release" /\ job[t].ride = r
<1>1. Arrive(t) => lock' = lock \/ \E s \in Rides :
         lock[s] = None /\ lock' = [lock EXCEPT ![s] = t]
  BY DEF Arrive, AcceptLock, MarkArrived, StartRide, CompleteLock,
     CancelByRider, CancelByDriver, Load
<1>2. RequestFails(t) => lock' = lock
  BY DEF RequestFails
<1>3. Crash(t) => lock' = [s \in Rides |-> IF lock[s] = t THEN Orphan ELSE lock[s]]
  BY DEF Crash
<1>4. Step(t) => lock' = lock
         \/ (pc[t] = "release" /\ lock' = [lock EXCEPT ![job[t].ride] = None])
  BY DEF Step, AcceptRead, AcceptLimits, AcceptPointer, Reload, Write,
     CancelPointer, SettleRead, LockDriver, LockRider, LockBalance, Commit,
     CompletePointer, Unlock
<1>5. CASE lock' = lock
  BY <1>5
<1>6. CASE \E s \in Rides : lock[s] = None /\ lock' = [lock EXCEPT ![s] = t]
  BY <1>6 DEF TypeOK
<1>7. CASE Crash(t)
  BY <1>3, <1>7
<1>8. CASE pc[t] = "release" /\ lock' = [lock EXCEPT ![job[t].ride] = None]
  BY <1>8 DEF TypeOK
<1> QED BY <1>1, <1>2, <1>4, <1>5, <1>6, <1>7, <1>8 DEF StepOf

\* A handler that holds the lock took it at its start and frees it at its end.
LEMMA OwnLock ==
    ASSUME TypeOK, Control, LockOwned, NEW t \in Requests, StepOf(t),
           pc'[t] # "idle", job'[t].op \in LockingOps
    PROVE  lock'[job'[t].ride] = t
<1>1. CASE Arrive(t)
  <2>1. ASSUME NEW r \in Rides, NEW d \in Drivers,
               AcceptLock(t, r, d) \/ CompleteLock(t, r, d)
        PROVE  lock'[job'[t].ride] = t
    <3>1. lock' = [lock EXCEPT ![r] = t]
      BY <2>1 DEF AcceptLock, CompleteLock
    <3>2. job'[t].ride = r
      BY <2>1 DEF AcceptLock, CompleteLock, Begin, TypeOK
    <3> QED BY <3>1, <3>2 DEF TypeOK
  <2>2. ASSUME NEW r, NEW op \in Ops \ LockingOps, NEW who, NEW status,
               Load(t, op, r, who, status)
        PROVE  FALSE
    <3>1. job'[t] = [op |-> op, ride |-> r, by |-> who]
      BY <2>2 DEF Load, Begin, TypeOK
    <3> QED BY <3>1
  <2>3. {"arrive", "start", "riderCancel", "driverCancel"} \subseteq Ops \ LockingOps
    BY DEF Ops, LockingOps
  <2>4. ASSUME NEW r \in Rides, CancelByRider(t, r) PROVE FALSE
    BY <2>2, <2>3, <2>4 DEF CancelByRider
  <2>5. ASSUME NEW r \in Rides, NEW d \in Drivers,
               MarkArrived(t, r, d) \/ StartRide(t, r, d)
                  \/ CancelByDriver(t, r, d)
        PROVE  FALSE
    BY <2>2, <2>3, <2>5 DEF MarkArrived, StartRide, CancelByDriver
  <2> QED BY <1>1, <2>1, <2>4, <2>5 DEF Arrive
<1>2. CASE ~Arrive(t)
  <2>1. ~Finish(t)
    <3>1. Finish(t) => pc'[t] = "idle"
      BY DEF Finish, Goto, TypeOK
    <3> QED BY <3>1
  <2>2. job' = job /\ lock' = lock /\ pc[t] # "idle"
    BY <1>2, <2>1 DEF StepOf, RequestFails, Throw, Crash, Step, AcceptRead,
       AcceptLimits, AcceptPointer, Reload, Write, AfterSave, CancelPointer,
       SettleRead, LockDriver, LockRider, LockBalance, Commit,
       CompletePointer, Unlock
  <2> QED BY <2>2 DEF LockOwned
<1> QED BY <1>1, <1>2

LEMMA LockStep ==
    ASSUME TypeOK, Control, LockOwned, ~SlowHandlers, [Next]_vars
    PROVE  LockOwned'
<1>1. ASSUME NEW t \in Requests, StepOf(t), NEW u \in Requests,
             pc'[u] # "idle", job'[u].op \in LockingOps
      PROVE  lock'[job'[u].ride] = u
  <2>1. CASE u = t
    BY <1>1, <2>1, OwnLock
  <2>2. CASE u # t
    <3>1. pc'[u] = pc[u] /\ job'[u] = job[u]
      BY <1>1, <2>2, OthersStand
    <3>2. job[u].ride \in Rides /\ lock[job[u].ride] = u /\ u # None
      BY <1>1, <3>1, JobTypes, Distinct DEF LockOwned, Control
    <3>3. ~(pc[t] = "release" /\ job[t].ride = job[u].ride)
      BY <2>2, <3>2 DEF LockOwned, Control, Fits
    <3> QED BY <1>1, <2>2, <3>1, <3>2, <3>3, WhoLocks
  <2> QED BY <2>1, <2>2
<1>2. ASSUME NEW r \in Rides, Expire(r), NEW u \in Requests,
             pc'[u] # "idle", job'[u].op \in LockingOps
      PROVE  lock'[job'[u].ride] = u
  <2>1. pc' = pc /\ job' = job
    BY <1>2, ExpiryMovesNothing
  <2>2. job[u].ride \in Rides /\ lock[job[u].ride] = u /\ u # Orphan
    BY <1>2, <2>1, JobTypes, Distinct DEF LockOwned, Control
  <2>3. lock[r] = Orphan /\ lock' = [lock EXCEPT ![r] = None]
    BY <1>2 DEF Expire
  <2> QED BY <2>1, <2>2, <2>3 DEF TypeOK
<1>3. CASE UNCHANGED vars
  BY <1>3 DEF vars, LockOwned
<1>4. (\E t \in Requests : StepOf(t)) => LockOwned'
  BY <1>1 DEF LockOwned
<1>5. (\E r \in Rides : Expire(r)) => LockOwned'
  BY <1>2 DEF LockOwned
<1> QED BY <1>3, <1>4, <1>5, WhoMoves

\* Which rides a step gives away: the one an accept saves.
LEMMA AwardAt ==
    ASSUME TypeOK, Control, NEW t \in Requests, StepOf(t), NEW r \in Rides
    PROVE  /\ Write(t) /\ job[t].op = "accept" /\ job[t].ride = r =>
                 awarded'[r] = awarded[r] \cup {job[t].by}
           /\ ~(Write(t) /\ job[t].op = "accept" /\ job[t].ride = r) =>
                 awarded'[r] = awarded[r]
<1>1. CASE Write(t) /\ job[t].op = "accept"
  BY <1>1 DEF Write, TypeOK
<1>2. CASE Write(t) /\ job[t].op # "accept"
  BY <1>2 DEF Write
<1>3. CASE ~Write(t)
  BY <1>3, WhoWrites
<1> QED BY <1>1, <1>2, <1>3

\* A save never writes "requested", so a row only keeps it.
LEMMA RequestedOnlyKept ==
    ASSUME TypeOK, Control, NeverRequestedAgain, NEW t \in Requests, StepOf(t),
           NEW r \in Rides, row'[r].status = "requested"
    PROVE  row[r].status = "requested"
<1>1. CASE Write(t) /\ job[t].ride = r
  <2>1. row'[r].status = Column(entity[t].status, reloaded[t].status, row[r].status)
        /\ entity[t].status # "requested"
    BY <1>1, WriteAt, UpdatedColumns DEF NeverRequestedAgain
  <2> QED BY <2>1 DEF Column
<1>2. CASE Commit(t) /\ LedgerTakes(job[t].ride) /\ job[t].ride = r
  BY <1>2, CommitAt
<1>3. CASE row'[r] = row[r]
  BY <1>3
<1> QED BY <1>1, <1>2, <1>3, WriteAt, CommitAt, WhoWrites

LEMMA RequestedStep ==
    ASSUME TypeOK, Control, NeverRequestedAgain, [Next]_vars
    PROVE  NeverRequestedAgain'
<1>0. TypeOK' /\ Control'
  BY TypeStep
<1>1. ASSUME NEW t \in Requests, StepOf(t), NEW u \in Requests
      PROVE  /\ pc'[u] \in {"save", "write"} => entity'[u].status # "requested"
             /\ pc'[u] = "write" /\ reloaded'[u].status # "requested" =>
                   row'[job'[u].ride].status # "requested"
  <2>1. CASE u # t
    <3>1. pc'[u] = pc[u] /\ job'[u] = job[u] /\ entity'[u] = entity[u]
          /\ reloaded'[u] = reloaded[u]
      BY <1>1, <2>1, OthersStand
    <3>2. pc[u] = "write" => job[u].ride \in Rides
      BY JobTypes DEF Control
    <3> QED BY <1>1, <3>1, <3>2, RequestedOnlyKept DEF NeverRequestedAgain
  <2>2. CASE u = t /\ pc'[t] = "write"
    <3>1. Reload(t) /\ job'[t] = job[t] /\ entity'[t] = entity[t] /\ row' = row
          /\ reloaded'[t] = row[job[t].ride]
      BY <1>1, <2>2, Copies
    <3> QED BY <2>2, <3>1 DEF NeverRequestedAgain, Reload
  <2>3. CASE u = t /\ pc'[t] = "save"
    <3>1. CASE entity'[t] = [entity[t] EXCEPT !.driver = job[t].by,
                                              !.status = "accepted"]
      <4>1. entity[t] \in RideRow
        BY DEF TypeOK
      <4> QED BY <2>3, <3>1, <4>1 DEF RideRow
    <3>2. ASSUME NEW status \in {"arrived", "in_progress", "cancelled"},
                 entity'[t] = [row[job'[t].ride] EXCEPT !.status = status]
          PROVE  entity'[t].status # "requested"
      <4>1. row[job'[t].ride] \in RideRow
        BY <1>1, <2>3, Copies DEF TypeOK
      <4> QED BY <3>2, <4>1 DEF RideRow
    <3> QED BY <1>1, <2>3, <3>1, <3>2, Copies
  <2> QED BY <2>1, <2>2, <2>3
<1>2. (\E t \in Requests : StepOf(t)) => NeverRequestedAgain'
  BY <1>1 DEF NeverRequestedAgain
<1>3. ASSUME NEW r \in Rides, Expire(r) PROVE NeverRequestedAgain'
  BY <1>3, ExpiryMovesNothing DEF NeverRequestedAgain
<1>4. CASE UNCHANGED vars
  BY <1>4 DEF vars, NeverRequestedAgain
<1> QED BY <1>2, <1>3, <1>4, WhoMoves

LEMMA FirstStep ==
    ASSUME TypeOK, Control, LockOwned, NeverRequestedAgain, AcceptIsFirst,
           OneWinner, [Next]_vars
    PROVE  AcceptIsFirst' /\ OneWinner'
<1>1. ASSUME NEW t \in Requests, StepOf(t)
      PROVE  AcceptIsFirst' /\ OneWinner'
  <2>1. ASSUME NEW r \in Rides
        PROVE  /\ awarded'[r] # {} => row'[r].status # "requested"
               /\ \A d, e \in awarded'[r] : d = e
    <3>1. CASE awarded'[r] = awarded[r]
      BY <1>1, <3>1, RequestedOnlyKept DEF AcceptIsFirst, OneWinner
    <3>2. CASE Write(t) /\ job[t].op = "accept" /\ job[t].ride = r
      <4>1. pc[t] = "write"
        BY <3>2 DEF Write
      <4>2. awarded[r] = {}
        BY <3>2, <4>1 DEF AcceptIsFirst
      <4>3. awarded'[r] = awarded[r] \cup {job[t].by}
        BY <1>1, <3>2, AwardAt
      <4>4. awarded[r] = {} /\ awarded'[r] = {job[t].by}
        BY <4>2, <4>3
      <4>5. row'[r].status = Column(entity[t].status, reloaded[t].status,
                                    row[r].status)
        BY <3>2, WriteAt, UpdatedColumns
      <4>6. row'[r].status # "requested"
        BY <3>2, <4>5 DEF Column, NeverRequestedAgain, Write
      <4> QED BY <4>4, <4>6
    <3> QED BY <1>1, <3>1, <3>2, AwardAt
  <2>2. ASSUME NEW u \in Requests, pc'[u] \in {"limits", "save", "write"},
               job'[u].op = "accept"
        PROVE  awarded'[job'[u].ride] = {}
    <3>1. CASE u # t
      <4>1. pc'[u] = pc[u] /\ job'[u] = job[u]
        BY <1>1, <3>1, OthersStand
      <4>2. job[u].ride \in Rides /\ awarded[job[u].ride] = {}
            /\ lock[job[u].ride] = u
        BY <2>2, <4>1, JobTypes DEF Control, AcceptIsFirst, LockOwned, LockingOps
      <4>3. ~(Write(t) /\ job[t].op = "accept" /\ job[t].ride = job[u].ride)
        BY <3>1, <4>2 DEF LockOwned, LockingOps, Write
      <4> QED BY <1>1, <4>1, <4>2, <4>3, AwardAt
    <3>2. CASE u = t /\ pc'[t] = "limits"
      BY <1>1, <3>2, CopyForAccept DEF AcceptIsFirst
    <3>3. CASE u = t /\ pc'[t] \in {"save", "write"}
      <4>1. /\ AcceptLimits(t) \/ Reload(t)
            /\ job'[t] = job[t] /\ awarded' = awarded
        BY <1>1, <2>2, <3>3, Copies
      <4> QED BY <2>2, <3>3, <4>1 DEF AcceptIsFirst, AcceptLimits, Reload
    <3> QED BY <2>2, <3>1, <3>2, <3>3
  <2> QED BY <2>1, <2>2 DEF AcceptIsFirst, OneWinner
<1>2. ASSUME NEW r \in Rides, Expire(r) PROVE AcceptIsFirst' /\ OneWinner'
  BY <1>2, ExpiryMovesNothing DEF AcceptIsFirst, OneWinner
<1>3. CASE UNCHANGED vars
  BY <1>3 DEF vars, AcceptIsFirst, OneWinner
<1> QED BY <1>1, <1>2, <1>3, WhoMoves

LEMMA DriversStep ==
    ASSUME TypeOK, Control, DriversAreAwarded, [Next]_vars
    PROVE  DriversAreAwarded'
<1>1. ASSUME NEW t \in Requests, StepOf(t) PROVE DriversAreAwarded'
  <2>0. \A r \in Rides : awarded[r] \subseteq awarded'[r]
    BY <1>1, AwardAt
  <2>1. ASSUME NEW r \in Rides
        PROVE  row'[r].driver \in awarded'[r] \cup {None}
    <3>1. CASE row'[r].driver = row[r].driver
      BY <2>0, <3>1 DEF DriversAreAwarded
    <3>2. CASE Write(t) /\ job[t].ride = r
      <4>1. row'[r].driver = entity[t].driver \/ row'[r].driver = row[r].driver
        BY <3>2, WriteAt, UpdatedColumns DEF Column
      <4>2. entity[t].driver \in awarded'[r] \cup {None}
        <5>1. CASE job[t].op = "accept" /\ entity[t].driver = job[t].by
          BY <1>1, <3>2, <5>1, AwardAt
        <5>2. CASE entity[t].driver \in awarded[r] \cup {None}
          BY <2>0, <5>2
        <5> QED BY <3>2, <5>1, <5>2 DEF DriversAreAwarded, Write
      <4> QED BY <3>1, <4>1, <4>2
    <3> QED BY <1>1, <3>1, <3>2, WriteAt, CommitAt, WhoWrites
  <2>2. ASSUME NEW u \in Requests, pc'[u] \in {"save", "write"}
        PROVE  \/ job'[u].op = "accept" /\ entity'[u].driver = job'[u].by
               \/ entity'[u].driver \in awarded'[job'[u].ride] \cup {None}
    <3>1. CASE u # t
      <4>1. pc'[u] = pc[u] /\ job'[u] = job[u] /\ entity'[u] = entity[u]
        BY <1>1, <3>1, OthersStand
      <4>2. job[u].ride \in Rides
        BY <2>2, <4>1, JobTypes DEF Control
      <4> QED BY <2>0, <2>2, <4>1, <4>2 DEF DriversAreAwarded
    <3>2. CASE u = t /\ pc'[t] = "write"
      <4>1. Reload(t) /\ job'[t] = job[t] /\ entity'[t] = entity[t]
            /\ awarded' = awarded
        BY <1>1, <3>2, Copies
      <4> QED BY <3>2, <4>1 DEF DriversAreAwarded, Reload
    <3>3. CASE u = t /\ pc'[t] = "save"
      <4>1. CASE AcceptLimits(t) /\ job'[t] = job[t]
                 /\ entity'[t] = [entity[t] EXCEPT !.driver = job[t].by,
                                                   !.status = "accepted"]
        <5>1. entity[t] \in RideRow /\ job'[t].op = "accept"
          BY <4>1 DEF TypeOK, AcceptLimits, Control, Fits
        <5>2. entity'[t].driver = job[t].by
          BY <4>1, <5>1 DEF RideRow
        <5> QED BY <3>3, <4>1, <5>1, <5>2
      <4>2. ASSUME NEW status \in {"arrived", "in_progress", "cancelled"},
                   entity'[t] = [row[job'[t].ride] EXCEPT !.status = status]
            PROVE  entity'[t].driver \in awarded'[job'[t].ride] \cup {None}
        <5>1. job'[t].ride \in Rides /\ awarded' = awarded
          BY <1>1, <3>3, Copies
        <5>2. row[job'[t].ride] \in RideRow
          BY <5>1 DEF TypeOK
        <5>3. entity'[t].driver = row[job'[t].ride].driver
          BY <4>2, <5>2 DEF RideRow
        <5> QED BY <5>1, <5>3 DEF DriversAreAwarded
      <4> QED BY <1>1, <3>3, <4>1, <4>2, Copies
    <3> QED BY <2>2, <3>1, <3>2, <3>3
  <2> QED BY <2>1, <2>2 DEF DriversAreAwarded
<1>2. ASSUME NEW r \in Rides, Expire(r) PROVE DriversAreAwarded'
  BY <1>2, ExpiryMovesNothing DEF DriversAreAwarded
<1>3. CASE UNCHANGED vars
  BY <1>3 DEF vars, DriversAreAwarded
<1> QED BY <1>1, <1>2, <1>3, WhoMoves

LEMMA AwardInit == Init => AwardInv
<1> SUFFICES ASSUME Init PROVE AwardInv
  OBVIOUS
<1>1. OneWinner /\ LockOwned /\ AcceptIsFirst /\ NeverRequestedAgain
  BY DEF Init, OneWinner, LockOwned, AcceptIsFirst, NeverRequestedAgain
<1>2. DriversAreAwarded
  BY DEF Init, DriversAreAwarded, NewRow
<1> QED BY <1>1, <1>2 DEF AwardInv

LEMMA AwardStep ==
    SettlementInv /\ AwardInv /\ ~SlowHandlers /\ [Next]_vars => AwardInv'
BY LockStep, RequestedStep, FirstStep, DriversStep DEF AwardInv, SettlementInv

\* Every reachable state satisfies the inductive invariant.
THEOREM RideInvHolds == Spec => []RideInv
<1>1. Init => RideInv
  BY SettlementInit, AwardInit DEF RideInv
<1>2. RideInv /\ [Next]_vars => RideInv'
  BY SettlementStep, AwardStep DEF RideInv
<1> QED BY <1>1, <1>2, PTL DEF Spec

\* When no handler outlives its 10-second lock, a ride is never given to two
\* drivers, however stale the rows that are saved over it.
THEOREM AwardSafe == ASSUME ~SlowHandlers PROVE Spec => []OneWinner
<1>1. RideInv => OneWinner
  BY DEF RideInv, AwardInv
<1> QED BY <1>1, RideInvHolds, PTL

-----------------------------------------------------------------------------
(* The contract                                                            *)

LEMMA ContractStep ==
    ASSUME RideInv, ~SlowHandlers, [Next]_vars
    PROVE  [Contract!Next]_(Contract!vars)
<1>0. SettlementInv /\ AwardInv /\ TypeOK /\ Control
  BY DEF RideInv, SettlementInv
<1>1. ASSUME NEW t \in Requests, StepOf(t), Write(t), job[t].op = "accept"
      PROVE  Contract!Next
  <2> DEFINE r == job[t].ride  d == job[t].by
  <2>1. r \in Rides /\ d \in Drivers
    BY <1>0, <1>1, WriteEffect, JobTypes
  <2>2. awarded[r] = {}
    BY <1>0, <1>1 DEF AwardInv, AcceptIsFirst, Write
  <2>3. awarded' = [awarded EXCEPT ![r] = {d}]
    BY <1>0, <1>1, <2>1, <2>2 DEF Write, TypeOK
  <2>4. UNCHANGED <<ledger, credited, cashback>>
    BY <1>1 DEF Write, money
  <2>5. Contract!Award(r, d)
    BY <2>2, <2>3, <2>4 DEF Contract!Award
  <2> QED BY <2>1, <2>5 DEF Contract!Next
<1>2. ASSUME NEW t \in Requests, StepOf(t), Commit(t),
             LedgerTakes(job[t].ride)
      PROVE  Contract!Next
  <2> DEFINE r == job[t].ride  d == job[t].by
  <2>1. /\ r \in Rides /\ d \in Drivers /\ ledger[r] = None
        /\ ledger' = [ledger EXCEPT ![r] = d]
        /\ credited' = [credited EXCEPT ![d] = [credited[d] EXCEPT ![r] = @ + 1]]
        /\ cashback' = [cashback EXCEPT ![r] = @ + 1]
    BY <1>0, <1>2, CommitEffect
  <2>2. credited[d][r] = 0 /\ cashback[r] = 0
    <3>1. None # d
      BY <2>1, Distinct
    <3> QED BY <1>0, <2>1, <3>1 DEF SettlementInv, MoneyFollowsLedger
  <2>3. awarded[r] = {d}
    <3>1. row[r].driver = d
      BY <1>0, <1>2 DEF SettlementInv, RowHeld, Commit, TxLabels
    <3>2. d \in awarded[r]
      BY <1>0, <2>1, <3>1, Distinct DEF AwardInv, DriversAreAwarded
    <3> QED BY <1>0, <2>1, <3>2 DEF AwardInv, OneWinner
  <2>4. awarded' = awarded
    BY <1>2 DEF Commit
  <2> HIDE DEF r, d
  <2>5. credited[d] \in [Rides -> Nat] /\ cashback \in [Rides -> Nat]
    BY <1>0, <2>1 DEF TypeOK
  <2>6. [credited[d] EXCEPT ![r] = @ + 1] = [credited[d] EXCEPT ![r] = 1]
    BY <2>1, <2>2, <2>5
  <2>7. credited' = [credited EXCEPT ![d][r] = 1]
    BY <2>1, <2>6
  <2>8. cashback' = [cashback EXCEPT ![r] = 1]
    BY <2>1, <2>2, <2>5
  <2>9. Contract!Settle(r, d)
    BY <2>1, <2>3, <2>4, <2>7, <2>8 DEF Contract!Settle
  <2> QED BY <2>1, <2>9 DEF Contract!Next
<1>3. ASSUME NEW t \in Requests, StepOf(t)
      PROVE  [Contract!Next]_(Contract!vars)
  <2>1. CASE Write(t) /\ job[t].op # "accept"
    BY <2>1 DEF Write, money, Contract!vars
  <2>2. CASE ~Write(t) /\ ~(Commit(t) /\ LedgerTakes(job[t].ride))
    BY <1>3, <2>2, WhoWrites DEF money, Contract!vars
  <2> QED BY <1>1, <1>2, <1>3, <2>1, <2>2
<1>4. ASSUME NEW r \in Rides, Expire(r) PROVE UNCHANGED Contract!vars
  BY <1>4 DEF Expire, money, Contract!vars
<1>5. UNCHANGED vars => UNCHANGED Contract!vars
  BY DEF vars, Contract!vars
<1> QED BY <1>3, <1>4, <1>5, WhoMoves

\* When no handler outlives its lock, all the requests together do what
\* RideContract says and nothing else: award a ride to one driver, then pay that
\* driver once.
THEOREM ContractKept == ASSUME ~SlowHandlers PROVE Spec => ContractSpec
<1>1. Init => Contract!Init
  BY DEF Init, Contract!Init
<1>2. RideInv /\ [Next]_vars => [Contract!Next]_(Contract!vars)
  BY ContractStep
<1> QED BY <1>1, <1>2, RideInvHolds, PTL DEF Spec, ContractSpec, Contract!Spec

-----------------------------------------------------------------------------
(* RideRaces.  Between a request's load and its save, either somebody else *)
(* changed the row, which overtaken remembers, or the row is as loaded.    *)

\* A request that stays inside its handler forgets nobody who overtook it,
\* and sees every change to come.
LEMMA OvertakenGrows ==
    ASSUME RaceInv, Overtaking, TypeOK', NEW t \in Requests,
           Loaded(pc[t]), Loaded(pc'[t])
    PROVE  /\ overtaken[t] \subseteq overtaken'[t]
           /\ \A r \in Rides : r \notin overtaken'[t] => row'[r] = row[r]
           /\ \A d : ActiveRides(d)' \ overtaken'[t]
                        \subseteq ActiveRides(d) \ overtaken[t]
<1>1. overtaken'[t] = overtaken[t] \cup Changed
  BY DEF Overtaking
<1>2. \A r \in Rides : r \notin Changed => row'[r] = row[r]
  BY DEF Changed
<1>. QED  BY <1>1, <1>2 DEF ActiveRides

LEMMA OvertakenType ==
    ASSUME Overtaking, overtaken \in [Requests -> SUBSET Rides]
    PROVE  overtaken' \in [Requests -> SUBSET Rides]
BY DEF Overtaking, Changed

\* A smaller set of rides leaves as much room.
LEMMA RoomShrinks ==
    ASSUME NEW S, IsFiniteSet(S), NEW T, T \subseteq S
    PROVE  /\ IsFiniteSet(T) /\ Cardinality(T) \in Nat /\ Cardinality(S) \in Nat
           /\ Cardinality(T) <= Cardinality(S)
BY FS_Subset, FS_CardinalityType

\* Requests that do not move keep what they know.
LEMMA CopyStands ==
    ASSUME RaceInv, Overtaking, TypeOK', NEW t \in Requests,
           pc'[t] = pc[t], job'[t] = job[t], entity'[t] = entity[t],
           reloaded'[t] = reloaded[t]
    PROVE  FreshCopy(t)' /\ RoomFor(t)'
<1>. DEFINE r == job[t].ride  d == job[t].by
<1>1. SUFFICES ASSUME Loaded(pc[t]) PROVE FreshCopy(t)' /\ RoomFor(t)'
  BY DEF FreshCopy, RoomFor, Loaded
<1>2. job[t] \in Jobs /\ r \in Rides
  BY <1>1, JobTypes DEF RaceInv, SettlementInv, Control, Loaded
<1>3. FreshCopy(t) /\ RoomFor(t)
  BY DEF RaceInv
<1>4. FreshCopy(t)'
  <2>1. r \notin overtaken'[t] => r \notin overtaken[t] /\ row'[r] = row[r]
    BY <1>1, <1>2, OvertakenGrows
  <2>. QED  BY <1>3, <2>1 DEF FreshCopy
<1>5. RoomFor(t)'
  <2>. DEFINE A == ActiveRides(d) \ overtaken[t]
              B == ActiveRides(d)' \ overtaken'[t]
  <2>1. SUFFICES ASSUME pc[t] \in {"save", "write"}, job[t].op = "accept"
                 PROVE  /\ \A s \in B : ~isExclusiveCategory(Category[s])
                        /\ isExclusiveCategory(Category[r]) => B = {}
                        /\ Category[r] = "shared" =>
                              Cardinality(B) < MaxActiveSharedRides
    BY DEF RoomFor
  <2>2. B \subseteq A
    BY <1>1, OvertakenGrows
  <2>3. IsFiniteSet(A)
    <3>1. d \in Drivers
      BY <1>2, <2>1, JobTypes
    <3>. QED  BY <3>1, FS_Subset DEF RaceInv
  <2>4. /\ \A s \in A : ~isExclusiveCategory(Category[s])
        /\ isExclusiveCategory(Category[r]) => A = {}
        /\ Category[r] = "shared" => Cardinality(A) < MaxActiveSharedRides
    BY <1>3, <2>1 DEF RoomFor
  <2>5. Cardinality(B) \in Nat /\ Cardinality(A) \in Nat
        /\ Cardinality(B) <= Cardinality(A)
    BY <2>2, <2>3, RoomShrinks
  <2>. HIDE DEF A, B
  <2>6. Category[r] = "shared" => Cardinality(B) < MaxActiveSharedRides
    BY <2>4, <2>5, Tables
  <2>. QED  BY <2>2, <2>4, <2>6
<1>. QED  BY <1>4, <1>5

\* What a request loads, it is about to edit as its handler says.
LEMMA LoadEdits ==
    ASSUME TypeOK, Control, NEW t \in Requests, Arrive(t), pc'[t] = "save"
    PROVE  /\ row' = row /\ job'[t] \in Jobs /\ job'[t].op # "accept"
           /\ Edit(job'[t].op, job'[t].by, row[job'[t].ride], entity'[t])
<1>. DEFINE FromRow ==
        /\ row' = row /\ job'[t] \in Jobs /\ job'[t].op # "accept"
        /\ Edit(job'[t].op, job'[t].by, row[job'[t].ride], entity'[t])
<1>1. ASSUME NEW r \in Rides, NEW op, NEW who, NEW status \in RideStatus,
             Load(t, op, r, who, status)
      PROVE  /\ row' = row
             /\ job'[t] = [op |-> op, ride |-> r, by |-> who]
             /\ job'[t].op = op /\ job'[t].ride = r /\ job'[t].by = who
             /\ entity'[t] = [row[r] EXCEPT !.status = status]
             /\ entity'[t].status = status
             /\ entity'[t].driver = row[r].driver
             /\ row[r] \in RideRow
  <2>1. /\ row' = row /\ job'[t] = [op |-> op, ride |-> r, by |-> who]
        /\ entity'[t] = [row[r] EXCEPT !.status = status]
        /\ row[r] \in RideRow
    BY <1>1 DEF Load, Begin, Goto, TypeOK
  <2>. QED  BY <2>1 DEF RideRow
<1>2. ASSUME NEW r \in Rides, NEW d \in Drivers,
             AcceptLock(t, r, d) \/ CompleteLock(t, r, d)
      PROVE  FALSE
  BY <1>2 DEF AcceptLock, CompleteLock, Begin, Goto, TypeOK
<1>3. ASSUME NEW r \in Rides, CancelByRider(t, r) PROVE FromRow
  <2>1. Load(t, "riderCancel", r, Rider[r], "cancelled")
        /\ row[r].status # "completed"
    BY <1>3 DEF CancelByRider
  <2>2. [op |-> "riderCancel", ride |-> r, by |-> Rider[r]] \in Jobs
    BY Tables DEF Jobs
  <2>3. /\ row' = row /\ job'[t].op = "riderCancel" /\ job'[t].ride = r
        /\ job'[t] = [op |-> "riderCancel", ride |-> r, by |-> Rider[r]]
        /\ entity'[t].status = "cancelled" /\ entity'[t].driver = row[r].driver
    BY <1>1, <2>1 DEF RideStatus
  <2>4. Edit("riderCancel", job'[t].by, row[r], entity'[t])
    BY <2>1, <2>3 DEF Edit, Cancels
  <2>. QED  BY <2>2, <2>3, <2>4
<1>4. ASSUME NEW r \in Rides, NEW d \in Drivers, MarkArrived(t, r, d)
      PROVE  FromRow
  <2>1. Load(t, "arrive", r, d, "arrived") /\ row[r].status = "accepted"
    BY <1>4 DEF MarkArrived
  <2>2. [op |-> "arrive", ride |-> r, by |-> d] \in Jobs
    BY DEF Jobs, Ops
  <2>3. /\ row' = row /\ job'[t] = [op |-> "arrive", ride |-> r, by |-> d]
        /\ job'[t].op = "arrive" /\ job'[t].ride = r
        /\ entity'[t].status = "arrived" /\ entity'[t].driver = row[r].driver
    BY <1>1, <2>1 DEF RideStatus
  <2>4. Edit("arrive", job'[t].by, row[r], entity'[t])
    BY <2>1, <2>3 DEF Edit, Cancels
  <2>. QED  BY <2>2, <2>3, <2>4
<1>5. ASSUME NEW r \in Rides, NEW d \in Drivers, StartRide(t, r, d)
      PROVE  FromRow
  <2>1. Load(t, "start", r, d, "in_progress") /\ row[r].status = "arrived"
    BY <1>5 DEF StartRide
  <2>2. [op |-> "start", ride |-> r, by |-> d] \in Jobs
    BY DEF Jobs, Ops
  <2>3. /\ row' = row /\ job'[t] = [op |-> "start", ride |-> r, by |-> d]
        /\ job'[t].op = "start" /\ job'[t].ride = r
        /\ entity'[t].status = "in_progress" /\ entity'[t].driver = row[r].driver
    BY <1>1, <2>1 DEF RideStatus
  <2>4. Edit("start", job'[t].by, row[r], entity'[t])
    BY <2>1, <2>3 DEF Edit, Cancels
  <2>. QED  BY <2>2, <2>3, <2>4
<1>6. ASSUME NEW r \in Rides, NEW d \in Drivers, CancelByDriver(t, r, d)
      PROVE  FromRow
  <2>1. Load(t, "driverCancel", r, d, "cancelled")
        /\ row[r].status # "completed"
    BY <1>6 DEF CancelByDriver
  <2>2. [op |-> "driverCancel", ride |-> r, by |-> d] \in Jobs
    BY DEF Jobs, Ops
  <2>3. /\ row' = row /\ job'[t] = [op |-> "driverCancel", ride |-> r, by |-> d]
        /\ job'[t].op = "driverCancel" /\ job'[t].ride = r
        /\ entity'[t].status = "cancelled" /\ entity'[t].driver = row[r].driver
    BY <1>1, <2>1 DEF RideStatus
  <2>4. Edit("driverCancel", job'[t].by, row[r], entity'[t])
    BY <2>1, <2>3 DEF Edit, Cancels
  <2>. QED  BY <2>2, <2>3, <2>4
<1>. HIDE DEF FromRow
<1>7. FromRow
  BY <1>2, <1>3, <1>4, <1>5, <1>6 DEF Arrive
<1>. QED  BY <1>7 DEF FromRow

\* The request that moves knows its row by then.
LEMMA CopyMoves ==
    ASSUME RaceInv, Overtaking, TypeOK', NEW t \in Requests, StepOf(t)
    PROVE  FreshCopy(t)' /\ RoomFor(t)'
<1>. DEFINE r == job[t].ride  d == job[t].by
<1>1. TypeOK /\ Control /\ FreshCopy(t) /\ RoomFor(t)
  BY DEF RaceInv, SettlementInv
<1>2. CASE pc'[t] = "limits"
  <2>1. /\ row' = row /\ job'[t] = job[t]
        /\ row[job[t].ride].status = "requested"
    BY <1>1, <1>2, CopyForAccept
  <2>. QED  BY <1>2, <2>1 DEF FreshCopy, RoomFor
<1>3. CASE pc'[t] = "write"
  <2>1. /\ row' = row /\ Reload(t) /\ job'[t] = job[t]
        /\ entity'[t] = entity[t] /\ reloaded'[t] = row[r]
    BY <1>1, <1>3, Copies
  <2>2. pc[t] = "save" /\ Loaded(pc[t]) /\ Loaded(pc'[t])
    BY <1>3, <2>1 DEF Reload, Loaded
  <2>3. overtaken'[t] = overtaken[t]
    BY <2>1, <2>2 DEF Overtaking, Changed
  <2>. QED  BY <1>1, <1>3, <2>1, <2>2, <2>3
            DEF FreshCopy, RoomFor, ActiveRides
<1>4. CASE pc'[t] = "save" /\ Arrive(t)
  <2>1. /\ row' = row /\ job'[t].op # "accept"
        /\ Edit(job'[t].op, job'[t].by, row[job'[t].ride], entity'[t])
    BY <1>1, <1>4, LoadEdits
  <2>. QED  BY <1>4, <2>1 DEF FreshCopy, RoomFor
<1>5. CASE pc'[t] = "save" /\ ~Arrive(t)
  <2>1. /\ AcceptLimits(t) /\ job' = job /\ row' = row /\ d \in Drivers
        /\ entity'[t] = [entity[t] EXCEPT !.driver = d, !.status = "accepted"]
    <3>1. AcceptLimits(t)
      <4>1. RequestFails(t) \/ Crash(t) => pc'[t] \in {"idle", "release"}
        BY <1>1 DEF TypeOK, RequestFails, Crash, Throw, Finish, Goto
      <4>2. Reload(t) => pc'[t] = "write"
        BY <1>1 DEF TypeOK, Reload, Goto
      <4>3. AcceptRead(t) \/ AcceptPointer(t) => pc'[t] \in {"limits", "release"}
        BY <1>1 DEF TypeOK, AcceptRead, AcceptPointer, Goto
      <4>4. Write(t) \/ CancelPointer(t) \/ Unlock(t) \/ Commit(t)
               \/ CompletePointer(t) => pc'[t] \in {"idle", "pointer", "release"}
        BY <1>1 DEF TypeOK, Write, AfterSave, CancelPointer, Unlock, Finish,
           Goto, Commit, CompletePointer
      <4>5. SettleRead(t) \/ LockDriver(t) \/ LockRider(t)
               => pc'[t] \in TxLabels \cup {"release"}
        BY <1>1 DEF TypeOK, SettleRead, LockDriver, LockRider, LockBalance,
           Goto, TxLabels
      <4>. QED  BY <1>5, <4>1, <4>2, <4>3, <4>4, <4>5 DEF StepOf, Step, TxLabels
    <3>2. job' = job /\ row' = row
      BY <3>1 DEF AcceptLimits
    <3>3. pc'[t] \in {"save", "write"}
      BY <1>5
    <3>4. job[t].by \in Drivers /\
          entity'[t] = [entity[t] EXCEPT !.driver = job[t].by,
                                         !.status = "accepted"]
      <4>1. job[t].op = "accept" /\ job[t] \in Jobs
        BY <1>1, <3>1 DEF AcceptLimits, Control, Fits
      <4>2. pc[t] = "limits" /\ (pc'[t] = "save" \/ pc'[t] = "release")
        BY <1>1, <3>1 DEF AcceptLimits, Goto, TypeOK
      <4>. QED  BY <1>1, <1>5, <3>1, <4>1, <4>2, JobTypes
                DEF AcceptLimits, Goto, TypeOK
    <3>. QED  BY <3>1, <3>2, <3>4
  <2>2. /\ pc[t] = "limits" /\ job[t].op = "accept" /\ MayTake(d, r)
        /\ Loaded(pc[t]) /\ Loaded(pc'[t])
    BY <1>1, <1>5, <2>1 DEF AcceptLimits, Control, Fits, Goto, TypeOK, Loaded
  <2>3. overtaken'[t] = overtaken[t]
    BY <2>1, <2>2 DEF Overtaking, Changed
  <2>4. entity'[t].driver = d /\ entity'[t].status = "accepted"
    BY <1>1, <2>1 DEF TypeOK, RideRow
  <2>5. FreshCopy(t)'
    BY <1>1, <1>5, <2>1, <2>2, <2>3, <2>4 DEF FreshCopy, Edit, Cancels
  <2>6. RoomFor(t)'
    <3>. DEFINE A == ActiveRides(d)  B == ActiveRides(d) \ overtaken[t]
    <3>1. IsFiniteSet(A) /\ B \subseteq A
      BY <2>1 DEF RaceInv
    <3>2. Cardinality(B) \in Nat /\ Cardinality(A) \in Nat
          /\ Cardinality(B) <= Cardinality(A)
      BY <3>1, RoomShrinks
    <3>3. /\ \A s \in A : ~isExclusiveCategory(Category[s])
          /\ isExclusiveCategory(Category[r]) => A = {}
          /\ Category[r] = "shared" => Cardinality(A) < MaxActiveSharedRides
      BY <2>2 DEF MayTake
    <3>4. ActiveRides(d)' \ overtaken'[t] = B
      BY <2>1, <2>3 DEF ActiveRides
    <3>. HIDE DEF A, B
    <3>5. Category[r] = "shared" => Cardinality(B) < MaxActiveSharedRides
      BY <3>2, <3>3, Tables
    <3>. QED  BY <2>1, <3>1, <3>3, <3>4, <3>5 DEF RoomFor
  <2>. QED  BY <2>5, <2>6
<1>6. CASE pc'[t] \notin {"limits", "save", "write"}
  BY <1>6 DEF FreshCopy, RoomFor
<1>. QED  BY <1>2, <1>3, <1>4, <1>5, <1>6

\* A driver never holds infinitely many rides: a step gives one at most.
LEMMA FewActive ==
    ASSUME TypeOK, Control, [Next]_vars, NEW d \in Drivers,
           IsFiniteSet(ActiveRides(d))
    PROVE  IsFiniteSet(ActiveRides(d)')
<1>1. ASSUME NEW r, ActiveRides(d)' \subseteq ActiveRides(d) \cup {r}
      PROVE  IsFiniteSet(ActiveRides(d)')
  <2>1. IsFiniteSet(ActiveRides(d) \cup {r})
    BY FS_AddElement
  <2>. QED  BY <1>1, <2>1, FS_Subset
<1>2. CASE row' = row
  BY <1>2 DEF ActiveRides
<1>3. ASSUME NEW t \in Requests, StepOf(t), row' # row
      PROVE  IsFiniteSet(ActiveRides(d)')
  <2>1. \A r \in Rides : r # job[t].ride => row'[r] = row[r]
    BY <1>3, WhoWrites, WriteAt, CommitAt
  <2>2. ActiveRides(d)' \subseteq ActiveRides(d) \cup {job[t].ride}
    BY <2>1 DEF ActiveRides
  <2>. QED  BY <1>1, <2>2
<1>. QED  BY <1>2, <1>3, WhoMoves, ExpiryMovesNothing DEF vars

LEMMA RaceStart == RaceInit => RaceInv
<1>. SUFFICES ASSUME RaceInit PROVE RaceInv
  OBVIOUS
<1>1. Init /\ overtaken = [t \in Requests |-> {}]
  BY DEF RaceInit
<1>2. ASSUME NEW d \in Drivers PROVE ActiveRides(d) = {}
  BY <1>1, Distinct DEF Init, ActiveRides, NewRow, ActiveStatus
<1>3. \A t \in Requests : FreshCopy(t) /\ RoomFor(t)
  BY <1>1 DEF Init, FreshCopy, RoomFor
<1>. QED  BY <1>1, <1>2, <1>3, SettlementInit, FS_EmptySet DEF RaceInv

LEMMA RaceStep == RaceInv /\ [RaceNext]_raceVars => RaceInv'
<1>. SUFFICES ASSUME RaceInv, [RaceNext]_raceVars PROVE RaceInv'
  OBVIOUS
<1>1. TypeOK /\ Control
  BY DEF RaceInv, SettlementInv
<1>2. CASE UNCHANGED raceVars
  <2>1. [Next]_vars
    BY <1>2 DEF raceVars
  <2>2. SettlementInv'
    BY <2>1, SettlementStep DEF RaceInv
  <2>. QED  BY <1>2, <2>2 DEF raceVars, vars, RaceInv, FreshCopy, RoomFor,
                              ActiveRides
<1>3. CASE RaceNext
  <2>1. [Next]_vars /\ Overtaking
    BY <1>3 DEF RaceNext
  <2>2. SettlementInv' /\ TypeOK'
    BY <2>1, SettlementStep DEF RaceInv, SettlementInv
  <2>3. \A d \in Drivers : IsFiniteSet(ActiveRides(d)')
    BY <1>1, <2>1, FewActive DEF RaceInv
  <2>4. ASSUME NEW u \in Requests PROVE FreshCopy(u)' /\ RoomFor(u)'
    <3>1. ASSUME NEW t \in Requests, StepOf(t) PROVE FreshCopy(u)' /\ RoomFor(u)'
      BY <1>1, <2>1, <2>2, <3>1, CopyMoves, CopyStands, OthersStand
    <3>2. CASE UNCHANGED <<pc, job, entity, reloaded>>
      BY <2>1, <2>2, <3>2, CopyStands
    <3>. QED  BY <2>1, <3>1, <3>2, WhoMoves, ExpiryMovesNothing DEF vars
  <2>. QED  BY <2>1, <2>2, <2>3, <2>4, OvertakenType DEF RaceInv
<1>. QED  BY <1>2, <1>3

\* A request that was not overtaken since its load knows the row it saves, and
\* an accept that was not has room beside the rides it could not see change.
THEOREM RaceInvHolds == RaceSpec => []RaceInv
BY RaceStart, RaceStep, PTL DEF RaceSpec

\* A save that was not overtaken takes the ride along its diagram.
LEMMA SaveInOrder ==
    ASSUME RaceInv, NEW t \in Requests, Write(t), NEW r \in Rides,
           job[t].ride = r, r \notin overtaken[t]
    PROVE  /\ Edit(job[t].op, job[t].by, row[r], row'[r])
           /\ row[r] \in RideRow /\ job[t].op \in Ops \ {"complete"}
<1>1. TypeOK /\ Control /\ FreshCopy(t)
  BY DEF RaceInv, SettlementInv
<1>2. /\ row'[r] = Updated(entity[t], reloaded[t], row[r])
      /\ pc[t] = "write" /\ job[t] \in Jobs
      /\ entity[t] \in RideRow /\ row[r] \in RideRow
  BY <1>1, WriteAt
<1>3. Edit(job[t].op, job[t].by, row[r], entity[t]) /\ reloaded[t] = row[r]
  BY <1>1, <1>2 DEF FreshCopy
<1>4. row'[r].status = entity[t].status /\ row'[r].driver = entity[t].driver
  BY <1>2, <1>3, UpdatedColumns DEF Column
<1>5. job[t].op \in Ops \ {"complete"}
  BY <1>1, <1>2, JobTypes DEF Control, Fits
<1>. QED  BY <1>2, <1>3, <1>4, <1>5 DEF Edit

\* Saves, seen as a save.
LEMMA WriteSaves ==
    ASSUME TypeOK, Control, NEW t \in Requests, Write(t)
    PROVE  Saves(t)
<1>1. pc[t] = "write" /\ UNCHANGED rowLock
  BY DEF Write
<1>2. pc'[t] # "write"
  BY DEF Write, AfterSave, Finish, Goto, TypeOK
<1>. QED  BY <1>1, <1>2 DEF Saves

\* A ride leaves its diagram only by the save of a request that somebody
\* overtook on that very ride.
THEOREM OrderSafe == RaceSpec => OnlyRacesReorder
<1>1. ASSUME RaceInv, [RaceNext]_raceVars, NEW r \in Rides
      PROVE  \/ row'[r].status = row[r].status
             \/ <<row[r].status, row'[r].status>> \in LifecycleEdges
             \/ \E t \in Requests :
                   Saves(t) /\ job[t].ride = r /\ r \in overtaken[t]
  <2>1. TypeOK /\ Control /\ RowHeld
    BY <1>1 DEF RaceInv, SettlementInv
  <2>2. CASE row'[r] = row[r]
    BY <2>2
  <2>3. ASSUME NEW t \in Requests, Write(t), job[t].ride = r,
               r \notin overtaken[t]
        PROVE  \/ row'[r].status = row[r].status
               \/ <<row[r].status, row'[r].status>> \in LifecycleEdges
    <3>1. /\ Edit(job[t].op, job[t].by, row[r], row'[r])
          /\ row[r].status \in RideStatus /\ job[t].op \in Ops \ {"complete"}
      BY <1>1, <2>3, SaveInOrder DEF RideRow
    <3>2. CASE job[t].op \in {"accept", "arrive", "start"}
      BY <3>1, <3>2 DEF Edit, LifecycleEdges
    <3>3. CASE job[t].op \in Cancels
      <4>1. row[r].status # "completed" /\ row'[r].status = "cancelled"
        BY <3>1, <3>3 DEF Edit
      <4>. QED  BY <3>1, <4>1 DEF LifecycleEdges
    <3>. QED  BY <3>1, <3>2, <3>3 DEF Ops, Cancels
  <2>4. ASSUME NEW t \in Requests, Commit(t), LedgerTakes(job[t].ride),
               job[t].ride = r
        PROVE  <<row[r].status, row'[r].status>> \in LifecycleEdges
    <3>1. row'[r].status = "completed"
      BY <2>1, <2>4, CommitAt
    <3>2. row[r].status = "in_progress"
      BY <2>1, <2>4 DEF RowHeld, Commit, TxLabels
    <3>. QED  BY <3>1, <3>2 DEF LifecycleEdges
  <2>5. ASSUME NEW t \in Requests, StepOf(t), row'[r] # row[r]
        PROVE  /\ job[t].ride = r
               /\ Write(t) \/ (Commit(t) /\ LedgerTakes(job[t].ride))
    <3>1. CASE Write(t)
      BY <2>1, <2>5, <3>1, WriteAt
    <3>2. CASE Commit(t) /\ LedgerTakes(job[t].ride)
      BY <2>1, <2>5, <3>2, CommitAt
    <3>. QED  BY <2>5, <3>1, <3>2, WhoWrites
  <2>6. [Next]_vars
    BY <1>1 DEF RaceNext, raceVars
  <2>7. ASSUME row'[r] # row[r] PROVE \E t \in Requests : StepOf(t)
    BY <2>6, <2>7, WhoMoves, ExpiryMovesNothing DEF vars
  <2>8. ASSUME row'[r] # row[r], NEW t \in Requests, StepOf(t)
        PROVE  \/ row'[r].status = row[r].status
               \/ <<row[r].status, row'[r].status>> \in LifecycleEdges
               \/ Saves(t) /\ job[t].ride = r /\ r \in overtaken[t]
    BY <2>1, <2>3, <2>4, <2>5, <2>8, WriteSaves
  <2>. QED  BY <2>2, <2>7, <2>8
<1>2. RaceInv /\ [RaceNext]_raceVars
      => [\A r \in Rides :
             \/ row'[r].status = row[r].status
             \/ <<row[r].status, row'[r].status>> \in LifecycleEdges
             \/ \E t \in Requests :
                   Saves(t) /\ job[t].ride = r /\ r \in overtaken[t]]_raceVars
  BY <1>1
<1>. QED  BY <1>2, RaceInvHolds, PTL DEF RaceSpec, OnlyRacesReorder

\* Beside what the driver already holds within the limits, what was checked
\* for and what is left of it now.
LEMMA RoomTaken ==
    ASSUME NEW r \in Rides, NEW B, IsFiniteSet(B), NEW A, B \subseteq Rides,
           A \subseteq B \cup {r}, r \in A,
           \A s \in B : ~isExclusiveCategory(Category[s]),
           isExclusiveCategory(Category[r]) => B = {},
           Category[r] = "shared" => Cardinality(B) < MaxActiveSharedRides
    PROVE  /\ Cardinality({s \in A : Category[s] = "shared"})
                 <= MaxActiveSharedRides
           /\ \A s \in A : isExclusiveCategory(Category[s]) => A = {s}
<1>1. MaxActiveSharedRides \in Nat \ {0} /\ Category[r] \in Categories
  BY Tables
<1>. DEFINE P == {s \in A : Category[s] = "shared"}
<1>2. CASE isExclusiveCategory(Category[r])
  <2>1. A = {r} /\ Category[r] # "shared"
    BY <1>2 DEF isExclusiveCategory, EXCLUSIVE_CATEGORIES
  <2>2. P = {}
    BY <2>1
  <2>3. Cardinality(P) = 0
    BY <2>2, FS_EmptySet
  <2>. QED  BY <1>1, <2>1, <2>3
<1>3. CASE ~isExclusiveCategory(Category[r])
  <2>1. Category[r] = "shared"
    BY <1>1, <1>3 DEF isExclusiveCategory, EXCLUSIVE_CATEGORIES, Categories
  <2>2. /\ IsFiniteSet(B \cup {r}) /\ Cardinality(B) \in Nat
        /\ Cardinality(B \cup {r}) <= Cardinality(B) + 1
    <3>1. /\ IsFiniteSet(B \cup {r})
          /\ Cardinality(B \cup {r}) =
                IF r \in B THEN Cardinality(B) ELSE Cardinality(B) + 1
      BY FS_AddElement
    <3>2. Cardinality(B) \in Nat
      BY FS_CardinalityType
    <3>. QED  BY <3>1, <3>2
  <2>3. P \subseteq B \cup {r}
    OBVIOUS
  <2>4. Cardinality(P) \in Nat /\ Cardinality(B \cup {r}) \in Nat
        /\ Cardinality(P) <= Cardinality(B \cup {r})
    BY <2>2, <2>3, RoomShrinks
  <2>. HIDE DEF P
  <2>5. Cardinality(P) <= MaxActiveSharedRides
    BY <1>1, <2>1, <2>2, <2>4
  <2>. QED  BY <1>3, <2>5 DEF P
<1>. QED  BY <1>2, <1>3

\* Fewer rides stay within the limits.
LEMMA LimitsShrink ==
    ASSUME NEW d \in Drivers, WithinLimits(d), IsFiniteSet(ActiveRides(d)),
           ActiveRides(d)' \subseteq ActiveRides(d)
    PROVE  WithinLimits(d)'
<1>. DEFINE A == ActiveRides(d)  B == ActiveRides(d)'
            Pooled(S) == {s \in S : Category[s] = "shared"}
<1>1. MaxActiveSharedRides \in Nat
  BY Tables
<1>2. IsFiniteSet(Pooled(A)) /\ Pooled(B) \subseteq Pooled(A)
  BY FS_Subset
<1>3. /\ Cardinality(Pooled(B)) \in Nat /\ Cardinality(Pooled(A)) \in Nat
      /\ Cardinality(Pooled(B)) <= Cardinality(Pooled(A))
  BY <1>2, RoomShrinks
<1>4. /\ Cardinality(Pooled(A)) <= MaxActiveSharedRides
      /\ \A s \in A : isExclusiveCategory(Category[s]) => A = {s}
  BY DEF WithinLimits
<1>5. Cardinality(Pooled(B)) <= MaxActiveSharedRides
  BY <1>1, <1>3, <1>4
<1>6. \A s \in B : isExclusiveCategory(Category[s]) => B = {s}
  BY <1>4
<1>. QED  BY <1>5, <1>6 DEF WithinLimits

\* A driver exceeds acceptRide's limits only by a save that a change of one of
\* the driver's other rides, or of the same ride, overtook.
THEOREM RoomSafe == RaceSpec => OnlyRacesOverbook
<1>1. ASSUME RaceInv, [RaceNext]_raceVars, NEW d \in Drivers,
             WithinLimits(d), ~WithinLimits(d)'
      PROVE  \E t \in Requests :
                Saves(t) /\ overtaken[t] \cap ActiveRides(d)' # {}
  <2>1. TypeOK /\ Control /\ IsFiniteSet(ActiveRides(d))
    BY <1>1 DEF RaceInv, SettlementInv
  <2>2. ~(ActiveRides(d)' \subseteq ActiveRides(d))
    BY <1>1, <2>1, LimitsShrink
  <2>3. row' # row
    BY <2>2 DEF ActiveRides
  <2>4. [Next]_vars
    BY <1>1 DEF RaceNext, raceVars
  <2>5. PICK t \in Requests : StepOf(t)
    BY <2>3, <2>4, WhoMoves, ExpiryMovesNothing DEF vars
  <2>. DEFINE r == job[t].ride
  <2>6. Write(t)
    <3>1. ASSUME Commit(t), LedgerTakes(r) PROVE FALSE
      <4>1. \A s \in Rides : row'[s] = row[s] \/ row'[s].status = "completed"
        BY <2>1, <3>1, CommitAt
      <4>2. ActiveRides(d)' \subseteq ActiveRides(d)
        BY <4>1 DEF ActiveRides, ActiveStatus
      <4>. QED  BY <2>2, <4>2
    <3>. QED  BY <2>3, <2>5, <3>1, WhoWrites
  <2>7. r \in Rides /\ \A s \in Rides \ {r} : row'[s] = row[s]
    BY <2>1, <2>6, WriteEffect, WriteAt
  <2>8. ActiveRides(d)' \subseteq ActiveRides(d) \cup {r}
    BY <2>7 DEF ActiveRides
  <2>9. r \in ActiveRides(d)' /\ r \notin ActiveRides(d)
    BY <2>2, <2>8
  <2>10. SUFFICES ASSUME overtaken[t] \cap ActiveRides(d)' = {} PROVE FALSE
    BY <2>1, <2>6, WriteSaves
  <2>11. /\ Edit(job[t].op, job[t].by, row[r], row'[r])
         /\ job[t].op \in Ops \ {"complete"} /\ pc[t] = "write"
    BY <1>1, <2>6, <2>7, <2>9, <2>10, SaveInOrder DEF Write
  <2>12. row'[r].driver = d /\ row'[r].status \in ActiveStatus
         /\ ~(row[r].driver = d /\ row[r].status \in ActiveStatus)
    BY <2>7, <2>9 DEF ActiveRides
  <2>13. job[t].op = "accept" /\ job[t].by = d
    BY <2>11, <2>12 DEF Edit, Ops, Cancels, ActiveStatus
  <2>. DEFINE B == ActiveRides(d) \ overtaken[t]
  <2>14. /\ \A s \in B : ~isExclusiveCategory(Category[s])
         /\ isExclusiveCategory(Category[r]) => B = {}
         /\ Category[r] = "shared" => Cardinality(B) < MaxActiveSharedRides
    BY <1>1, <2>11, <2>13 DEF RaceInv, RoomFor
  <2>15. /\ ActiveRides(d)' \subseteq B \cup {r} /\ B \subseteq Rides
         /\ IsFiniteSet(B)
    <3>1. IsFiniteSet(B)
      BY <2>1, FS_Subset
    <3>. QED  BY <2>8, <2>10, <3>1 DEF ActiveRides
  <2>16. WithinLimits(d)'
    <3>. DEFINE A == ActiveRides(d)'
    <3>. HIDE DEF B, A
    <3>1. /\ A \subseteq B \cup {r} /\ r \in A
      BY <2>9, <2>15 DEF A
    <3>2. /\ Cardinality({s \in A : Category[s] = "shared"})
                 <= MaxActiveSharedRides
          /\ \A s \in A : isExclusiveCategory(Category[s]) => A = {s}
      BY <2>7, <2>14, <2>15, <3>1, RoomTaken
    <3>. QED  BY <3>2 DEF A, WithinLimits
  <2>. QED  BY <1>1, <2>16
<1>2. RaceInv /\ [RaceNext]_raceVars
      => [\A d \in Drivers :
             \/ ~WithinLimits(d)
             \/ WithinLimits(d)'
             \/ \E t \in Requests :
                   Saves(t) /\ overtaken[t] \cap ActiveRides(d)' # {}]_raceVars
  BY <1>1
<1>. QED  BY <1>2, RaceInvHolds, PTL DEF RaceSpec, OnlyRacesOverbook
=============================================================================

---------------------------- MODULE RideLifecycle ----------------------------
(***************************************************************************)
(* The life of a ride as RidesService handles it: accept, arrived, start,  *)
(* complete and cancel.  Each HTTP request is a process t of Requests that *)
(* runs one handler, one awaited call per step, and may then serve another *)
(* request.  Three stores are shared:                                      *)
(*                                                                         *)
(*   Postgres  row (the rides table), ledger, credited and cashback (the   *)
(*             money), rowLock (SELECT ... FOR UPDATE)                     *)
(*   Redis     lock (lock:ride:<id>), pointer (driver:active-ride:<id>)    *)
(*   memory    pc, job, entity and reloaded of each request                *)
(*                                                                         *)
(* repository.save(entity) is TypeORM's: it re-reads the row, compares it  *)
(* with the entity the handler loaded earlier, and updates the columns     *)
(* that differ.  Between the handler's read and the re-read, and between   *)
(* the re-read and the UPDATE, any other request may commit.               *)
(*                                                                         *)
(* A ride row keeps the columns the handlers decide on: status, driverId   *)
(* and whether finalFare is set.  A request that is turned away by its     *)
(* first call (lock taken, wrong state) changes nothing and is not a step. *)
(***************************************************************************)
EXTENDS Naturals, FiniteSets

CONSTANTS
    Rides, Drivers, Riders,
    Requests,              \* slots for requests in flight
    Rider,                 \* Rider[r]: the ride's userId
    Category,              \* Category[r]: the ride's category
    Garage,                \* Garage[d]: the types of d's active vehicles
    MaxActiveSharedRides,  \* MAX_ACTIVE_SHARED_RIDES, 4 in the code
    SlowHandlers,          \* may a handler outlive the 10 s of its Redis lock?
    Failures,              \* may calls be rejected and processes die?
    None,                  \* no driver, no ride, no owner
    Orphan                 \* owner of a Redis lock whose request has died

ASSUME Distinct ==
    /\ Rides \cap (Drivers \cup Riders) = {}
    /\ Drivers \cap Riders = {}
    /\ None \notin Rides \cup Drivers \cup Riders \cup Requests
    /\ Orphan \notin Requests \cup {None}

Categories == {"private", "shared", "okada", "car"}
EXCLUSIVE_CATEGORIES == {"private", "okada", "car"}
RIDE_CATEGORY_VEHICLE_TYPE ==
    [private |-> "keke", shared |-> "keke", okada |-> "bike", car |-> "car"]
VehicleTypes == {"keke", "bike", "car"}

ASSUME Tables ==
    /\ Rider \in [Rides -> Riders]
    /\ Category \in [Rides -> Categories]
    /\ Garage \in [Drivers -> SUBSET VehicleTypes]
    /\ MaxActiveSharedRides \in Nat \ {0}
    /\ SlowHandlers \in BOOLEAN
    /\ Failures \in BOOLEAN

RideStatus == {"requested", "accepted", "arrived", "in_progress",
               "completed", "cancelled"}
ActiveStatus == {"accepted", "arrived", "in_progress"}
RideRow == [status: RideStatus, driver: Drivers \cup {None}, fare: BOOLEAN]
NewRow == [status |-> "requested", driver |-> None, fare |-> FALSE]

Ops == {"accept", "arrive", "start", "complete", "riderCancel", "driverCancel"}
LockingOps == {"accept", "complete"}
Cancels == {"riderCancel", "driverCancel"}
Labels == {"idle", "read", "limits", "save", "write", "pointer", "settle",
           "creditDriver", "creditRider", "commit", "release"}
TxLabels == {"creditDriver", "creditRider", "commit"}
NoJob == [op |-> "none", ride |-> None, by |-> None]
Jobs == [op: Ops \ {"riderCancel"}, ride: Rides, by: Drivers]
          \cup [op: {"riderCancel"}, ride: Rides, by: Riders]
DbRows == Rides \cup Drivers \cup Riders

VARIABLES
    row,       \* rides table
    ledger,    \* ledger[r]: the driver named by the ride's RIDE_FARE_DRIVER
               \* entry (its platform and cashback entries commit with it)
    credited,  \* credited[d][r]: times d's walletBalance was raised for r
    cashback,  \* cashback[r]: times the rider's cashback was raised for r
    rowLock,   \* rowLock[x]: the transaction holding row x FOR UPDATE
    lock,      \* lock[r]: lock:ride:<r>; its owner, whom the code never reads
    pointer,   \* pointer[d]: driver:active-ride:<d>
    pc, job,   \* where each request is, and what it was asked
    entity,    \* the row object the handler loaded and edits
    reloaded,  \* what save() read back before its UPDATE
    awarded    \* history: the drivers whose accept of r was saved

money == <<ledger, credited, cashback>>
vars == <<row, ledger, credited, cashback, rowLock, lock, pointer,
          pc, job, entity, reloaded, awarded>>

TypeOK ==
    /\ row \in [Rides -> RideRow]
    /\ ledger \in [Rides -> Drivers \cup {None}]
    /\ credited \in [Drivers -> [Rides -> Nat]]
    /\ cashback \in [Rides -> Nat]
    /\ rowLock \in [DbRows -> Requests \cup {None}]
    /\ lock \in [Rides -> Requests \cup {None, Orphan}]
    /\ pointer \in [Drivers -> Rides \cup {None}]
    /\ pc \in [Requests -> Labels]
    /\ job \in [Requests -> Jobs \cup {NoJob}]
    /\ entity \in [Requests -> RideRow]
    /\ reloaded \in [Requests -> RideRow]
    /\ awarded \in [Rides -> SUBSET Drivers]

Init ==
    /\ row = [r \in Rides |-> NewRow]
    /\ ledger = [r \in Rides |-> None]
    /\ credited = [d \in Drivers |-> [r \in Rides |-> 0]]
    /\ cashback = [r \in Rides |-> 0]
    /\ rowLock = [x \in DbRows |-> None]
    /\ lock = [r \in Rides |-> None]
    /\ pointer = [d \in Drivers |-> None]
    /\ pc = [t \in Requests |-> "idle"]
    /\ job = [t \in Requests |-> NoJob]
    /\ entity = [t \in Requests |-> NewRow]
    /\ reloaded = [t \in Requests |-> NewRow]
    /\ awarded = [r \in Rides |-> {}]

-----------------------------------------------------------------------------
(* The control flow of one handler.                                        *)

Goto(t, label) == pc' = [pc EXCEPT ![t] = label]

Begin(t, op, r, who, label) ==
    /\ pc[t] = "idle"
    /\ job' = [job EXCEPT ![t] = [op |-> op, ride |-> r, by |-> who]]
    /\ Goto(t, label)

Finish(t) ==
    /\ Goto(t, "idle")
    /\ job' = [job EXCEPT ![t] = NoJob]
    /\ entity' = [entity EXCEPT ![t] = NewRow]
    /\ reloaded' = [reloaded EXCEPT ![t] = NewRow]

\* An exception: the handlers that took the Redis lock run their finally.
Throw(t) ==
    IF job[t].op \in LockingOps
    THEN Goto(t, "release") /\ UNCHANGED <<job, entity, reloaded>>
    ELSE Finish(t)

RowLocksDropped(t) ==
    [x \in DbRows |-> IF rowLock[x] = t THEN None ELSE rowLock[x]]

-----------------------------------------------------------------------------
(* acceptRide *)

\* Fault: SET without NX.
AcceptLockNoNX(t, r, d) ==
    /\ \A u \in Requests : job[u] # [op |-> "accept", ride |-> r, by |-> d]
    /\ Begin(t, "accept", r, d, "read")
    /\ lock' = [lock EXCEPT ![r] = t]
    /\ UNCHANGED <<row, money, rowLock, pointer, entity, reloaded, awarded>>

\* redis.set(lockKey, driverId, 'EX', 10, 'NX').  Bound: a driver has at most
\* one accept of the same ride in flight.
AcceptLock(t, r, d) ==
    /\ lock[r] = None
    /\ \A u \in Requests : job[u] # [op |-> "accept", ride |-> r, by |-> d]
    /\ Begin(t, "accept", r, d, "read")
    /\ lock' = [lock EXCEPT ![r] = t]
    /\ UNCHANGED <<row, money, rowLock, pointer, entity, reloaded, awarded>>

AcceptRead(t) ==
    LET r == job[t].ride IN
    /\ pc[t] = "read"
    /\ \/ /\ row[r].status = "requested"
          /\ entity' = [entity EXCEPT ![t] = row[r]]
          /\ Goto(t, "limits")
       \/ /\ row[r].status # "requested"
          /\ Goto(t, "release")
          /\ UNCHANGED entity
    /\ UNCHANGED <<row, money, rowLock, lock, pointer, job, reloaded, awarded>>

vehicleTypeMatchesCategory(type, category) ==
    RIDE_CATEGORY_VEHICLE_TYPE[category] = type

isExclusiveCategory(category) == category \in EXCLUSIVE_CATEGORIES

ActiveRides(d) ==
    {r \in Rides : row[r].driver = d /\ row[r].status \in ActiveStatus}

\* Fault: only an exclusive ride asks whether the driver has another.
MayTakeBesideExclusive(d, r) ==
    /\ \E type \in Garage[d] : vehicleTypeMatchesCategory(type, Category[r])
    /\ isExclusiveCategory(Category[r]) => ActiveRides(d) = {}
    /\ Category[r] = "shared" =>
         Cardinality(ActiveRides(d)) < MaxActiveSharedRides

MayTake(d, r) ==
    /\ \E type \in Garage[d] : vehicleTypeMatchesCategory(type, Category[r])
    /\ \A s \in ActiveRides(d) : ~isExclusiveCategory(Category[s])
    /\ isExclusiveCategory(Category[r]) => ActiveRides(d) = {}
    /\ Category[r] = "shared" =>
         Cardinality(ActiveRides(d)) < MaxActiveSharedRides

\* The driver's other rides are read, and the entity is filled in.  A driver
\* who is offline or suspended is refused: that refusal is RequestFails.
AcceptLimits(t) ==
    LET r == job[t].ride  d == job[t].by IN
    /\ pc[t] = "limits"
    /\ \/ /\ MayTake(d, r)
          /\ entity' = [entity EXCEPT ![t].driver = d,
                                      ![t].status = "accepted"]
          /\ Goto(t, "save")
       \/ /\ ~MayTake(d, r)
          /\ Goto(t, "release")
          /\ UNCHANGED entity
    /\ UNCHANGED <<row, money, rowLock, lock, pointer, job, reloaded, awarded>>

\* After the save: remember which ride the driver serves.
AcceptPointer(t) ==
    /\ pc[t] = "pointer"
    /\ job[t].op = "accept"
    /\ pointer' = [pointer EXCEPT ![job[t].by] = job[t].ride]
    /\ Goto(t, "release")
    /\ UNCHANGED <<row, money, rowLock, lock, job, entity, reloaded, awarded>>

-----------------------------------------------------------------------------
(* markArrived, startRide, cancelRide: read and check, no lock of any kind *)

Load(t, op, r, who, status) ==
    /\ Begin(t, op, r, who, "save")
    /\ entity' = [entity EXCEPT ![t] = [row[r] EXCEPT !.status = status]]
    /\ UNCHANGED <<row, money, rowLock, lock, pointer, reloaded, awarded>>

MarkArrived(t, r, d) ==
    /\ row[r].driver = d
    /\ row[r].status = "accepted"
    /\ Load(t, "arrive", r, d, "arrived")

StartRide(t, r, d) ==
    /\ row[r].driver = d
    /\ row[r].status = "arrived"
    /\ Load(t, "start", r, d, "in_progress")

\* The rider's own ride, in any state but completed and in_progress; a
\* cancelled one may be cancelled again.
CancelByRider(t, r) ==
    /\ row[r].status \notin {"completed", "in_progress"}
    /\ Load(t, "riderCancel", r, Rider[r], "cancelled")

\* Fault: a completed ride may be cancelled.
CancelByDriverAlways(t, r, d) ==
    /\ row[r].driver = d
    /\ Load(t, "driverCancel", r, d, "cancelled")

CancelByDriver(t, r, d) ==
    /\ row[r].status # "completed"
    /\ row[r].driver = d
    /\ Load(t, "driverCancel", r, d, "cancelled")

\* Free the pointer of the driver named by the entity the handler saved.
CancelPointer(t) ==
    /\ pc[t] = "pointer"
    /\ job[t].op \in Cancels
    /\ pointer' = [pointer EXCEPT ![entity[t].driver] = None]
    /\ Finish(t)
    /\ UNCHANGED <<row, money, rowLock, lock, awarded>>

-----------------------------------------------------------------------------
(* repository.save(entity)                                                 *)

Reload(t) ==
    /\ pc[t] = "save"
    /\ reloaded' = [reloaded EXCEPT ![t] = row[job[t].ride]]
    /\ Goto(t, "write")
    /\ UNCHANGED <<row, money, rowLock, lock, pointer, job, entity, awarded>>

Column(mine, read, now) == IF mine # read THEN mine ELSE now

\* UPDATE of the columns in which the entity differs from the re-read row.
Updated(mine, read, now) ==
    [status |-> Column(mine.status, read.status, now.status),
     driver |-> Column(mine.driver, read.driver, now.driver),
     fare   |-> Column(mine.fare, read.fare, now.fare)]

AfterSave(t) ==
    IF \/ job[t].op = "accept"
       \/ job[t].op \in Cancels /\ entity[t].driver # None
    THEN Goto(t, "pointer") /\ UNCHANGED <<job, entity, reloaded>>
    ELSE Finish(t)

\* Fault: completeRide reads the ride without a row lock.
WriteAtOnce(t) ==
    LET r == job[t].ride IN
    /\ pc[t] = "write"
    /\ row' = [row EXCEPT ![r] = Updated(entity[t], reloaded[t], row[r])]
    /\ awarded' = IF job[t].op = "accept"
                  THEN [awarded EXCEPT ![r] = @ \cup {job[t].by}]
                  ELSE awarded
    /\ AfterSave(t)
    /\ UNCHANGED <<money, rowLock, lock, pointer>>

\* The UPDATE waits for the transaction that holds the row, if there is one.
Write(t) ==
    LET r == job[t].ride IN
    /\ pc[t] = "write"
    /\ rowLock[r] = None
    /\ row' = [row EXCEPT ![r] = Updated(entity[t], reloaded[t], row[r])]
    /\ awarded' = IF job[t].op = "accept"
                  THEN [awarded EXCEPT ![r] = @ \cup {job[t].by}]
                  ELSE awarded
    /\ AfterSave(t)
    /\ UNCHANGED <<money, rowLock, lock, pointer>>

-----------------------------------------------------------------------------
(* completeRide                                                            *)

CompleteLock(t, r, d) ==
    /\ lock[r] = None
    /\ Begin(t, "complete", r, d, "settle")
    /\ lock' = [lock EXCEPT ![r] = t]
    /\ UNCHANGED <<row, money, rowLock, pointer, entity, reloaded, awarded>>

\* Fault: the ride is saved outside the transaction.
SettleReadSaving(t) ==
    LET r == job[t].ride  d == job[t].by IN
    /\ pc[t] = "settle"
    /\ rowLock[r] = None
    /\ \/ /\ row[r].driver = d /\ row[r].status = "in_progress"
          /\ row' = [row EXCEPT ![r].status = "completed", ![r].fare = TRUE]
          /\ rowLock' = [rowLock EXCEPT ![r] = t]
          /\ Goto(t, "creditDriver")
       \/ /\ row[r].driver # d \/ row[r].status # "in_progress"
          /\ Goto(t, "release")
          /\ UNCHANGED <<row, rowLock>>
    /\ UNCHANGED <<money, lock, pointer, job, entity, reloaded, awarded>>

\* Fault: the assigned driver is not compared with the caller.
SettleReadAnyone(t) ==
    LET r == job[t].ride IN
    /\ pc[t] = "settle"
    /\ rowLock[r] = None
    /\ row[r].status = "in_progress"
    /\ rowLock' = [rowLock EXCEPT ![r] = t]
    /\ Goto(t, "creditDriver")
    /\ UNCHANGED <<row, money, lock, pointer, job, entity, reloaded, awarded>>

\* Fault: a completion that comes too early waits for the ride to be ready.
SettleReadPolling(t) ==
    LET r == job[t].ride  d == job[t].by IN
    /\ pc[t] = "settle"
    /\ rowLock[r] = None
    /\ \/ /\ row[r].driver = d
          /\ row[r].status = "in_progress"
          /\ rowLock' = [rowLock EXCEPT ![r] = t]
          /\ Goto(t, "creditDriver")
       \/ /\ row[r].driver # d \/ row[r].status \in {"completed", "cancelled"}
          /\ Goto(t, "release")
          /\ UNCHANGED rowLock
       \/ /\ row[r].driver = d
          /\ row[r].status \in {"requested", "accepted", "arrived"}
          /\ UNCHANGED <<pc, rowLock>>
    /\ UNCHANGED <<row, money, lock, pointer, job, entity, reloaded, awarded>>

\* SELECT ... FOR UPDATE of the ride.  Another driver's ride, a completed ride
\* (the idempotent answer) and a wrong state end the transaction at once.
SettleRead(t) ==
    LET r == job[t].ride  d == job[t].by IN
    /\ pc[t] = "settle"
    /\ rowLock[r] = None
    /\ \/ /\ row[r].driver = d
          /\ row[r].status = "in_progress"
          /\ rowLock' = [rowLock EXCEPT ![r] = t]
          /\ Goto(t, "creditDriver")
       \/ /\ row[r].driver # d \/ row[r].status # "in_progress"
          /\ Goto(t, "release")
          /\ UNCHANGED rowLock
    /\ UNCHANGED <<row, money, lock, pointer, job, entity, reloaded, awarded>>

LockBalance(t, label, x, next) ==
    /\ pc[t] = label
    /\ rowLock[x] = None
    /\ rowLock' = [rowLock EXCEPT ![x] = t]
    /\ Goto(t, next)
    /\ UNCHANGED <<row, money, lock, pointer, job, entity, reloaded, awarded>>

LockDriver(t) == LockBalance(t, "creditDriver", job[t].by, "creditRider")
LockRider(t) == LockBalance(t, "creditRider", Rider[job[t].ride], "commit")

\* Fault: no unique index.
LedgerTakesAll(r) == TRUE

\* The unique index on (rideId, type) of the ledger.
LedgerTakes(r) == ledger[r] = None

\* writeEntries and COMMIT: status, fare, both balances and the ledger appear
\* together, or the insert meets the index and everything is rolled back.
Commit(t) ==
    LET r == job[t].ride  d == job[t].by IN
    /\ pc[t] = "commit"
    /\ \/ /\ LedgerTakes(r)
          /\ row' = [row EXCEPT ![r].status = "completed", ![r].fare = TRUE]
          /\ ledger' = [ledger EXCEPT ![r] = d]
          /\ credited' = [credited EXCEPT ![d][r] = @ + 1]
          /\ cashback' = [cashback EXCEPT ![r] = @ + 1]
          /\ Goto(t, "pointer")
       \/ /\ ~LedgerTakes(r)
          /\ Goto(t, "release")
          /\ UNCHANGED <<row, money>>
    /\ rowLock' = RowLocksDropped(t)
    /\ UNCHANGED <<lock, pointer, job, entity, reloaded, awarded>>

CompletePointer(t) ==
    /\ pc[t] = "pointer"
    /\ job[t].op = "complete"
    /\ pointer' = [pointer EXCEPT ![job[t].by] = None]
    /\ Goto(t, "release")
    /\ UNCHANGED <<row, money, rowLock, lock, job, entity, reloaded, awarded>>

-----------------------------------------------------------------------------
(* The end of a handler, and its failures                                  *)

\* finally { redis.del(lockKey) }, whoever holds the key by then.
Unlock(t) ==
    /\ pc[t] = "release"
    /\ lock' = [lock EXCEPT ![job[t].ride] = None]
    /\ Finish(t)
    /\ UNCHANGED <<row, money, rowLock, pointer, awarded>>

\* The awaited call rejects (a lost connection, or a refusal for a reason kept
\* out of this module, such as an offline driver): the transaction, if any,
\* rolls back and the exception leaves the handler.
RequestFails(t) ==
    /\ Failures
    /\ pc[t] \notin {"idle", "release"}
    /\ rowLock' = RowLocksDropped(t)
    /\ Throw(t)
    /\ UNCHANGED <<row, money, lock, pointer, awarded>>

\* The process serving the request dies (or its last del fails): Postgres
\* rolls back, Redis keeps the lock until it expires.
Crash(t) ==
    /\ Failures
    /\ pc[t] # "idle"
    /\ rowLock' = RowLocksDropped(t)
    /\ lock' = [r \in Rides |-> IF lock[r] = t THEN Orphan ELSE lock[r]]
    /\ Finish(t)
    /\ UNCHANGED <<row, money, pointer, awarded>>

\* EX 10.
Expire(r) ==
    /\ lock[r] # None
    /\ SlowHandlers \/ lock[r] = Orphan
    /\ lock' = [lock EXCEPT ![r] = None]
    /\ UNCHANGED <<row, money, rowLock, pointer, pc, job, entity, reloaded,
                   awarded>>

Step(t) ==
    \/ AcceptRead(t) \/ AcceptLimits(t) \/ AcceptPointer(t)
    \/ Reload(t) \/ Write(t) \/ CancelPointer(t)
    \/ SettleRead(t) \/ LockDriver(t) \/ LockRider(t) \/ Commit(t)
    \/ CompletePointer(t) \/ Unlock(t)

Arrive(t) ==
    \E r \in Rides :
        \/ CancelByRider(t, r)
        \/ \E d \in Drivers :
              \/ AcceptLock(t, r, d) \/ MarkArrived(t, r, d)
              \/ StartRide(t, r, d) \/ CompleteLock(t, r, d)
              \/ CancelByDriver(t, r, d)

Next ==
    \/ \E t \in Requests : Arrive(t) \/ Step(t) \/ RequestFails(t) \/ Crash(t)
    \/ \E r \in Rides : Expire(r)

Spec == Init /\ [][Next]_vars

\* A handler that can go on does; one that waits for a row lock is served,
\* since Postgres queues the waiters of a row; Redis expires its keys.
FairSpec ==
    /\ Spec
    /\ \A t \in Requests : SF_vars(Step(t))
    /\ \A r \in Rides : WF_vars(Expire(r))

-----------------------------------------------------------------------------
(* Properties                                                              *)

\* A ride is never given to two drivers: whatever is cancelled, retried, lost
\* or crashes meanwhile, at most one driver's accept of it is ever saved.
OneWinner ==
    \A r \in Rides : \A d, e \in awarded[r] : d = e

\* The balances are what the ledger says: a driver's wallet has been raised
\* once for each ride the ledger pays to that driver, the rider's cashback once
\* for each ride the ledger pays at all, and never otherwise, though a ride may
\* be completed over and over after a stale save undid its status.
MoneyFollowsLedger ==
    \A r \in Rides :
        /\ \A d \in Drivers : credited[d][r] = IF ledger[r] = d THEN 1 ELSE 0
        /\ cashback[r] = IF ledger[r] = None THEN 0 ELSE 1

\* A ride shown as completed has been paid for, to the last entry, and has its
\* final fare: no interleaving of saves brings the status without the money.
CompletedIsPaid ==
    \A r \in Rides :
        row[r].status = "completed" => row[r].fare /\ ledger[r] # None

\* Money moves only for a ride that is still in progress at that moment and to
\* the driver assigned at that moment: nobody changes the row between the read
\* completeRide decides on and its commit.
PaysAssignedDriver ==
    [][\A r \in Rides : ledger'[r] # ledger[r] =>
          /\ row[r].status = "in_progress"
          /\ row[r].driver = ledger'[r]
          /\ row'[r].status = "completed"]_vars

\* The edges of the ride diagram.
LifecycleEdges ==
    {<<"requested", "accepted">>, <<"accepted", "arrived">>,
     <<"arrived", "in_progress">>, <<"in_progress", "completed">>}
    \cup (RideStatus \ {"completed", "cancelled"}) \X {"cancelled"}

\* What acceptRide's activeRides query is for: a driver on an exclusive ride
\* holds no other ride, and pooled rides stay within the limit.
WithinLimits(d) ==
    /\ Cardinality({r \in ActiveRides(d) : Category[r] = "shared"})
         <= MaxActiveSharedRides
    /\ \A r \in ActiveRides(d) :
         isExclusiveCategory(Category[r]) => ActiveRides(d) = {r}

Contract == INSTANCE RideContract
    WITH awarded <- awarded, ledger <- ledger, credited <- credited,
         cashback <- cashback

\* Requests, stale saves, failures and crashes implement the contract.
ContractSpec == Contract!Spec

\* Every request ends: no two of them wait for each other's row locks, and a
\* finished or dead request leaves no row locked behind it.
EveryRequestEnds ==
    \A t \in Requests : pc[t] # "idle" ~> pc[t] = "idle"

-----------------------------------------------------------------------------
(* The inductive invariant behind the theorems of RideLifecycleProofs      *)

\* Where a handler can be, given what it was asked.
Fits(op, label) ==
    /\ label \in {"read", "limits"} => op = "accept"
    /\ label \in {"settle"} \cup TxLabels => op = "complete"
    /\ label \in {"save", "write"} => op # "complete"
    /\ label = "pointer" => op \in LockingOps \cup Cancels
    /\ label = "release" => op \in LockingOps

Control ==
    \A t \in Requests :
        /\ pc[t] = "idle" => job[t] = NoJob
        /\ pc[t] # "idle" => job[t] \in Jobs /\ Fits(job[t].op, pc[t])

\* Inside completeRide's transaction the ride's row is locked and unchanged.
RowHeld ==
    \A t \in Requests : pc[t] \in TxLabels =>
        /\ rowLock[job[t].ride] = t
        /\ row[job[t].ride].status = "in_progress"
        /\ row[job[t].ride].driver = job[t].by

\* No copy of a row has a final fare that was not paid out, and a save that
\* read an undone settlement can no longer meet a completed row.
FareMeansPaid ==
    /\ \A r \in Rides : row[r].fare => ledger[r] # None
    /\ \A t \in Requests : pc[t] \in {"limits", "save", "write"} =>
          /\ entity[t].status # "completed"
          /\ entity[t].fare => ledger[job[t].ride] # None
    /\ \A t \in Requests : pc[t] = "write" /\ reloaded[t].fare =>
          /\ ledger[job[t].ride] # None
          /\ reloaded[t].status # "completed" =>
                row[job[t].ride].status # "completed"

\* As long as locks outlive their handlers, the owner is the handler inside.
LockOwned ==
    \A t \in Requests :
        pc[t] # "idle" /\ job[t].op \in LockingOps => lock[job[t].ride] = t

\* Before its save an accept is alone: nobody has been given the ride.
AcceptIsFirst ==
    /\ \A r \in Rides : awarded[r] # {} => row[r].status # "requested"
    /\ \A t \in Requests :
          pc[t] \in {"limits", "save", "write"} /\ job[t].op = "accept" =>
              awarded[job[t].ride] = {}

\* Nothing brings a ride back to requested.
NeverRequestedAgain ==
    \A t \in Requests :
        /\ pc[t] \in {"save", "write"} => entity[t].status # "requested"
        /\ pc[t] = "write" /\ reloaded[t].status # "requested" =>
              row[job[t].ride].status # "requested"

\* Whoever a row, or a copy of it about to be saved, names as driver has been
\* given the ride, the accept in hand apart.
DriversAreAwarded ==
    /\ \A r \in Rides : row[r].driver \in awarded[r] \cup {None}
    /\ \A t \in Requests : pc[t] \in {"save", "write"} =>
          \/ job[t].op = "accept" /\ entity[t].driver = job[t].by
          \/ entity[t].driver \in awarded[job[t].ride] \cup {None}

SettlementInv ==
    TypeOK /\ Control /\ MoneyFollowsLedger /\ RowHeld
    /\ CompletedIsPaid /\ FareMeansPaid

\* The part that needs locks to outlive their handlers.
AwardInv ==
    OneWinner /\ LockOwned /\ AcceptIsFirst /\ NeverRequestedAgain
    /\ DriversAreAwarded

RideInv == SettlementInv /\ (~SlowHandlers => AwardInv)

=============================================================================

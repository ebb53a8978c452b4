----------------------------- MODULE DriverProofs -----------------------------
(***************************************************************************)
(* Proofs about the driver accounts and ratings, for any number of         *)
(* requests, drivers, vehicles, votes and movements of money.              *)
(*                                                                         *)
(* AccountInv is the invariant of Ratings that carries all the others: the *)
(* tables agree, every request stands at an await of its operation, the    *)
(* row object an edit holds is a row with an average that was once true    *)
(* and is active only while the account is (or the edit is an admin's      *)
(* reinstatement, or had arrived before the account was put out of order), *)
(* and the ids of a registration are its own.                              *)
(***************************************************************************)
EXTENDS Ratings, TLAPS

\* A step of request t leaves the other requests alone.
Others(t) ==
    \A u \in Requests \ {t} :
        pc'[u] = pc[u] /\ job'[u] = job[u] /\ entity'[u] = entity[u]

\* Only a registration makes an id known, and a known id stays known.
RowsMove(t) ==
    \A d \in Drivers :
        /\ driver[d] # None => driver'[d] # None
        /\ driver[d] = None /\ driver'[d] # None => Registering(t) /\ job[t].d = d

\* The parts a handler that neither rates nor books leaves alone.
Beside == UNCHANGED <<moved, ratings, userRated, once>> /\ Outlive

-----------------------------------------------------------------------------
(* Steps and the parts they keep                                           *)

LEMMA NoJobIsJob == NoJob \in Job /\ NoJob.op = "none"
  BY DEF NoJob, Job, Ops, VerificationStatus

LEMMA RowIsNotAbsent ==
  ASSUME NEW row \in DriverRow
  PROVE  row # None /\ row # Removed /\ row \notin Absent
  BY AbsentIsNoRow DEF Absent

\* A step of another request, which may grow the history of votes and may
\* suspend or delete drivers.
LEMMA RequestKept ==
  ASSUME AccountInv, NEW u \in Requests,
         pc'[u] = pc[u], job'[u] = job[u], entity'[u] = entity[u],
         once \subseteq once', Outlive,
         \A d \in Drivers : driver[d] # None => driver'[d] # None
  PROVE  RequestOK(u)'
<1>1. RequestOK(u)
  BY DEF AccountInv
<1>2. job[u] \in Job /\ pc[u] \in Waits /\ Complete(job[u]) /\ InPlace(pc[u], job[u].op)
  BY <1>1 DEF RequestOK
<1>3. (job[u] \in Job /\ pc[u] \in Waits /\ Complete(job[u]) /\ InPlace(pc[u], job[u].op))'
  BY <1>2 DEF Complete, InPlace
<1>4. (job[u].op \in DriverEdits => driver[job[u].d] # None)'
  BY <1>1 DEF RequestOK, Complete
<1>5. (job[u].op \in VehicleEdits /\ pc[u] \in {"save", "write"} => entity[u] \in VehicleRow)'
  BY <1>1 DEF RequestOK
<1>6. Held(u)'
  <2> SUFFICES ASSUME job[u].op \in DriverEdits, pc[u] \in {"phone", "save", "write"}
               PROVE  /\ entity[u] \in DriverRow
                      /\ DriverAverage(job[u].d, entity[u].rated, once')
                      /\ entity[u].active =>
                            \/ job[u].op = "active" /\ job[u].on
                            \/ resolvePrincipal(job[u].d)' \/ u \in outlived'
    BY DEF Held, DriverAverage, resolvePrincipal
  <2>1. /\ entity[u] \in DriverRow
        /\ DriverAverage(job[u].d, entity[u].rated, once)
        /\ entity[u].active =>
              \/ job[u].op = "active" /\ job[u].on
              \/ resolvePrincipal(job[u].d) \/ u \in outlived
    BY <1>1 DEF RequestOK, Held
  <2>2. DriverAverage(job[u].d, entity[u].rated, once')
    BY <2>1 DEF DriverAverage
  <2>3. resolvePrincipal(job[u].d) \/ u \in outlived =>
           resolvePrincipal(job[u].d)' \/ u \in outlived'
    BY DEF Outlive, GoesOut, resolvePrincipal
  <2> QED  BY <2>1, <2>2, <2>3
<1>7. Averaged(u)'
  <2> SUFFICES ASSUME pc[u] = "avgWrite"
               PROVE  /\ entity[u].rated \in SUBSET Votes
                      /\ IF job[u].about = "driver"
                         THEN DriverAverage(Ratee(u), entity[u].rated, once')
                         ELSE UserAverage(Ratee(u), entity[u].rated, once')
    BY DEF Averaged, DriverAverage, UserAverage, Ratee
  <2>1. /\ entity[u].rated \in SUBSET Votes
        /\ IF job[u].about = "driver" THEN DriverAverage(Ratee(u), entity[u].rated, once)
                                      ELSE UserAverage(Ratee(u), entity[u].rated, once)
    BY <1>1 DEF RequestOK, Averaged
  <2> QED  BY <2>1 DEF DriverAverage, UserAverage
<1> QED  BY <1>3, <1>4, <1>5, <1>6, <1>7 DEF RequestOK

\* What a step of request t has to show.
LEMMA Carried ==
  ASSUME AccountInv, NEW t \in Requests, Others(t), RowsMove(t),
         SlotTables', Tables', VotesOK', once \subseteq once', Outlive,
         moved' \in [Moves -> Drivers \cup {None}], session' \in [Drivers -> BOOLEAN],
         RequestOK(t)', OwnIds(t)'
  PROVE  AccountInv'
<1>1. ASSUME NEW u \in Requests \ {t}
      PROVE  RequestOK(u)'
  BY RequestKept DEF Others, RowsMove
<1>2. ASSUME NEW u \in Requests \ {t}
      PROVE  OwnIds(u)'
  <2> SUFFICES ASSUME Registering(u)'
               PROVE  /\ (driver[job[u].d] = None)'
                      /\ \A w \in Requests \ {u} : Registering(w)' => (job[w].d # job[u].d)'
    BY DEF OwnIds
  <2>1. OwnIds(u) /\ OwnIds(t) /\ RequestOK(u) /\ RequestOK(t)
    BY DEF AccountInv
  <2>2. Registering(u) /\ job'[u] = job[u] /\ job[u].d \in Drivers
    BY <2>1 DEF Others, Registering, RequestOK, Complete
  <2>3. driver[job[u].d] = None /\ \A w \in Requests \ {u} : Registering(w) => job[w].d # job[u].d
    BY <2>1, <2>2 DEF OwnIds
  <2>4. (driver[job[u].d] = None)'
    BY <2>2, <2>3 DEF RowsMove
  <2>5. ASSUME NEW w \in Requests \ {u}, Registering(w)'
        PROVE  (job[w].d # job[u].d)'
    <3>1. CASE w = t
      BY <2>5, <3>1 DEF OwnIds
    <3>2. CASE w # t
      <4>1. Registering(w) /\ job'[w] = job[w]
        BY <2>5, <3>2 DEF Others, Registering
      <4> QED  BY <2>2, <2>3, <4>1
    <3> QED  BY <3>1, <3>2
  <2> QED  BY <2>4, <2>5
<1> QED  BY <1>1, <1>2 DEF AccountInv

LEMMA TablesSame ==
  ASSUME AccountInv, NEW t, UNCHANGED <<driver, vehicle>>, once \subseteq once'
  PROVE  Tables' /\ RowsMove(t)
<1>1. Tables
  BY DEF AccountInv
<1>2. IdentityIsUnique' /\ VehiclesHaveOwners'
  BY <1>1 DEF Tables, IdentityIsUnique, VehiclesHaveOwners, PhoneFree, PlateFree
<1>3. \A d \in Drivers : driver'[d] \notin Absent => DriverAverage(d, driver'[d].rated, once')
  BY <1>1 DEF Tables, DriverAverage
<1>4. RowsMove(t)
  BY DEF RowsMove
<1> QED  BY <1>1, <1>2, <1>3, <1>4 DEF Tables

LEMMA VotesSame ==
  ASSUME AccountInv, UNCHANGED <<ratings, userRated, once>>
  PROVE  VotesOK'
<1>1. VotesOK
  BY DEF AccountInv
<1> QED  BY <1>1 DEF VotesOK, OneVotePerRater, UserAverage

\* The last step of a handler.
LEMMA Leaves ==
  ASSUME AccountInv, NEW t \in Requests, Leave(t), RowsMove(t),
         Tables', VotesOK', once \subseteq once', Outlive,
         moved' = moved, session' \in [Drivers -> BOOLEAN]
  PROVE  AccountInv'
<1>1. SlotTables
  BY DEF AccountInv
<1>2. SlotTables' /\ Others(t)
  BY <1>1 DEF Leave, Goto, SlotTables, Others
<1>3. pc'[t] = "done" /\ job'[t] = NoJob
  BY <1>1 DEF Leave, Goto, SlotTables
<1>4. RequestOK(t)'
  BY <1>3, NoJobIsJob DEF RequestOK, Complete, InPlace, Waits, Held, Averaged, DriverEdits, VehicleEdits
<1>5. OwnIds(t)'
  BY <1>3, NoJobIsJob DEF OwnIds, Registering
<1>6. moved' \in [Moves -> Drivers \cup {None}]
  BY DEF AccountInv
<1> QED  BY <1>2, <1>4, <1>5, <1>6, Carried

LEMMA Refuses ==
  ASSUME AccountInv, NEW t \in Requests, Refuse(t), Beside
  PROVE  AccountInv'
<1>1. Tables' /\ RowsMove(t)
  BY TablesSame DEF Refuse, Beside
<1>2. VotesOK'
  BY VotesSame DEF Beside
<1>3. session' \in [Drivers -> BOOLEAN]
  BY DEF Refuse, AccountInv
<1>4. Leave(t) /\ Outlive /\ moved' = moved /\ once \subseteq once'
  BY DEF Refuse, Beside
<1> QED  BY <1>1, <1>2, <1>3, <1>4, Leaves

\* A step to the next await that changes no table and no job.
LEMMA GoesOn ==
  ASSUME AccountInv, NEW t \in Requests, NEW w \in Waits, Goto(t, w), Beside,
         UNCHANGED <<driver, vehicle, session, job, entity>>, DOMAIN reloaded' = Requests,
         InPlace(w, job[t].op), w # "avgWrite",
         w \in {"phone", "save", "write"} => pc[t] \in {"phone", "save", "write"},
         job[t].op \in VehicleEdits /\ w \in {"save", "write"} => pc[t] \in {"save", "write"},
         w \in {"check", "insert"} => pc[t] \in {"check", "insert", "owner"}
  PROVE  AccountInv'
<1>1. Tables' /\ RowsMove(t)
  BY TablesSame DEF Beside
<1>2. VotesOK'
  BY VotesSame DEF Beside
<1>3. SlotTables /\ RequestOK(t) /\ OwnIds(t)
  BY DEF AccountInv
<1>4. SlotTables' /\ Others(t) /\ pc'[t] = w
  BY <1>3 DEF Goto, SlotTables, Others
<1>5. Held(t)'
  <2>1. pc[t] # "idle" /\ job[t].op \in DriverEdits /\ t \in outlived => t \in outlived'
    BY DEF Beside, Outlive
  <2>2. once' = once
    BY DEF Beside
  <2> QED  BY <1>3, <1>4, <2>1, <2>2 DEF Held, RequestOK, DriverAverage, resolvePrincipal
<1>6. RequestOK(t)'
  BY <1>3, <1>4, <1>5 DEF RequestOK, Complete, InPlace, Averaged
<1>7. OwnIds(t)'
  <2> SUFFICES ASSUME Registering(t)'
               PROVE  /\ (driver[job[t].d] = None)'
                      /\ \A u \in Requests \ {t} : Registering(u)' => (job[u].d # job[t].d)'
    BY DEF OwnIds
  <2>1. Registering(t)
    BY <1>3, <1>4 DEF Registering, RequestOK, InPlace
  <2> QED  BY <1>3, <1>4, <2>1 DEF OwnIds, Registering, Others
<1>8. moved' \in [Moves -> Drivers \cup {None}] /\ session' \in [Drivers -> BOOLEAN]
  BY DEF AccountInv, Beside
<1>9. Outlive /\ once \subseteq once'
  BY DEF Beside
<1> QED  BY <1>1, <1>2, <1>4, <1>6, <1>7, <1>8, <1>9, Carried

-----------------------------------------------------------------------------
(* The tables                                                              *)

\* A driver's row is written: nobody else has its phone, its average was once
\* true, and it does not go absent under its vehicles.
LEMMA RowWritten ==
  ASSUME AccountInv, NEW d \in Drivers, NEW new \in DriverRow \cup Absent,
         driver' = [driver EXCEPT ![d] = new], UNCHANGED <<vehicle, once>>,
         new \notin Absent => new \in DriverRow /\ PhoneFree(d, new.phone)
                              /\ DriverAverage(d, new.rated, once),
         new \in Absent => driver[d] \in Absent
  PROVE  Tables'
<1>1. Tables
  BY DEF AccountInv
<1>2. /\ driver \in [Drivers -> DriverRow \cup Absent]
      /\ driver'[d] = new /\ \A e \in Drivers \ {d} : driver'[e] = driver[e]
  BY <1>1 DEF Tables
<1>3. driver' \in [Drivers -> DriverRow \cup Absent]
  BY <1>2
<1>4. ASSUME NEW e \in Drivers, driver'[e] \notin Absent
      PROVE  PhoneFree(e, driver[e].phone)'
  <2>1. CASE e = d
    BY <1>2, <2>1, <1>4 DEF PhoneFree
  <2>2. CASE e # d
    <3>1. driver'[e] = driver[e] /\ PhoneFree(e, driver[e].phone)
      BY <1>1, <1>2, <1>4, <2>2 DEF Tables, IdentityIsUnique
    <3>2. new \in Absent \/ new.phone # driver[e].phone
      BY <1>2, <1>4, <2>2, <3>1 DEF PhoneFree
    <3> QED  BY <1>2, <3>1, <3>2 DEF PhoneFree
  <2> QED  BY <2>1, <2>2
<1>5. \A v \in Vehicles : vehicle'[v] # None => PlateFree(v, vehicle[v].plate)'
  BY <1>1 DEF Tables, IdentityIsUnique, PlateFree
<1>6. VehiclesHaveOwners'
  <2> SUFFICES ASSUME NEW v \in Vehicles, vehicle[v] # None
               PROVE  driver'[vehicle[v].owner] \notin Absent
    BY DEF VehiclesHaveOwners
  <2>1. vehicle[v] \in VehicleRow /\ driver[vehicle[v].owner] \notin Absent
    BY <1>1 DEF Tables, VehiclesHaveOwners
  <2>2. vehicle[v].owner \in Drivers
    BY <2>1 DEF VehicleRow
  <2> QED  BY <1>2, <2>1, <2>2
<1>7. \A e \in Drivers : driver'[e] \notin Absent => DriverAverage(e, driver'[e].rated, once')
  BY <1>1, <1>2 DEF Tables, DriverAverage
<1>8. vehicle' \in [Vehicles -> VehicleRow \cup {None}]
  BY <1>1 DEF Tables
<1> QED  BY <1>3, <1>4, <1>5, <1>6, <1>7, <1>8 DEF Tables, IdentityIsUnique

\* A vehicle's row is written or removed.
LEMMA VehicleWritten ==
  ASSUME AccountInv, NEW v \in Vehicles, NEW new \in VehicleRow \cup {None},
         vehicle' = [vehicle EXCEPT ![v] = new], UNCHANGED <<driver, once>>,
         new # None => driver[new.owner] \notin Absent /\ PlateFree(v, new.plate)
  PROVE  Tables'
<1>1. Tables
  BY DEF AccountInv
<1>2. /\ vehicle \in [Vehicles -> VehicleRow \cup {None}]
      /\ vehicle'[v] = new /\ \A w \in Vehicles \ {v} : vehicle'[w] = vehicle[w]
  BY <1>1 DEF Tables
<1>3. vehicle' \in [Vehicles -> VehicleRow \cup {None}]
  BY <1>2
<1>4. ASSUME NEW w \in Vehicles, vehicle'[w] # None
      PROVE  PlateFree(w, vehicle[w].plate)'
  <2>1. CASE w = v
    BY <1>2, <1>4, <2>1 DEF PlateFree
  <2>2. CASE w # v
    <3>1. vehicle'[w] = vehicle[w] /\ PlateFree(w, vehicle[w].plate)
      BY <1>1, <1>2, <1>4, <2>2 DEF Tables, IdentityIsUnique
    <3>2. new = None \/ new.plate # vehicle[w].plate
      BY <1>2, <1>4, <2>2, <3>1 DEF PlateFree
    <3> QED  BY <1>2, <3>1, <3>2 DEF PlateFree
  <2> QED  BY <2>1, <2>2
<1>5. \A d \in Drivers : driver'[d] \notin Absent => PhoneFree(d, driver[d].phone)'
  BY <1>1 DEF Tables, IdentityIsUnique, PhoneFree
<1>6. VehiclesHaveOwners'
  BY <1>1, <1>2 DEF Tables, VehiclesHaveOwners
<1>7. /\ driver' \in [Drivers -> DriverRow \cup Absent]
      /\ \A d \in Drivers : driver'[d] \notin Absent => DriverAverage(d, driver'[d].rated, once')
  BY <1>1 DEF Tables
<1> QED  BY <1>3, <1>4, <1>5, <1>6, <1>7 DEF Tables, IdentityIsUnique

\* A driver is deleted together with the vehicles.
LEMMA RowDeleted ==
  ASSUME AccountInv, NEW d \in Drivers, UNCHANGED once,
         driver' = [driver EXCEPT ![d] = IF @ = None THEN None ELSE Removed],
         vehicle' = CascadeVehicles(d)
  PROVE  Tables'
<1>1. Tables
  BY DEF AccountInv
<1>2. /\ driver \in [Drivers -> DriverRow \cup Absent]
      /\ vehicle \in [Vehicles -> VehicleRow \cup {None}]
      /\ driver'[d] \in Absent /\ \A e \in Drivers \ {d} : driver'[e] = driver[e]
  BY <1>1 DEF Tables, Absent
<1>3. driver' \in [Drivers -> DriverRow \cup Absent]
  BY <1>2 DEF Absent
<1>4. \A v \in Vehicles :
         /\ vehicle'[v] \in {None, vehicle[v]}
         /\ vehicle'[v] # None => vehicle'[v] = vehicle[v] /\ vehicle[v].owner # d
  BY DEF CascadeVehicles
<1>5. vehicle' \in [Vehicles -> VehicleRow \cup {None}]
  BY <1>2 DEF CascadeVehicles
<1>6. \A e \in Drivers : driver'[e] \notin Absent =>
         driver'[e] = driver[e] /\ PhoneFree(e, driver[e].phone)'
  BY <1>1, <1>2 DEF Tables, IdentityIsUnique, PhoneFree
<1>7. \A v \in Vehicles : vehicle'[v] # None => PlateFree(v, vehicle[v].plate)'
  BY <1>1, <1>4 DEF Tables, IdentityIsUnique, PlateFree
<1>8. VehiclesHaveOwners'
  <2> SUFFICES ASSUME NEW v \in Vehicles, vehicle'[v] # None
               PROVE  driver'[vehicle'[v].owner] \notin Absent
    BY DEF VehiclesHaveOwners
  <2>1. vehicle'[v] = vehicle[v] /\ vehicle[v] # None /\ vehicle[v].owner # d
    BY <1>4
  <2>2. vehicle[v] \in VehicleRow /\ driver[vehicle[v].owner] \notin Absent
    BY <1>1, <1>2, <2>1 DEF Tables, VehiclesHaveOwners
  <2>3. vehicle[v].owner \in Drivers
    BY <2>2 DEF VehicleRow
  <2> QED  BY <1>2, <2>1, <2>2, <2>3
<1>9. \A e \in Drivers : driver'[e] \notin Absent => DriverAverage(e, driver'[e].rated, once')
  BY <1>1, <1>6 DEF Tables
<1> QED  BY <1>3, <1>5, <1>6, <1>7, <1>8, <1>9 DEF Tables, IdentityIsUnique

\* Columns of mine and of now.
MixedFrom(new, mine, read, now) ==
    /\ new.phone \in {mine.phone, now.phone}
    /\ new.active \in {mine.active, now.active}
    /\ new.rated \in {mine.rated, now.rated}
    /\ new.paid = IF mine.paid # read.paid THEN mine.paid ELSE now.paid

\* What a partial UPDATE leaves in a driver's row: every column is the
\* entity's or the row's, and the balance is the entity's only where it
\* differs from what was read back.
LEMMA DriverMerged ==
  ASSUME NEW mine \in DriverRow, NEW now \in DriverRow, NEW read, read \notin Absent,
         NEW new, new = Saved(mine, read, now)
  PROVE  new \in DriverRow /\ MixedFrom(new, mine, read, now)
<1>1. DOMAIN mine = {"status", "online", "active", "phone", "rated", "paid"}
  BY DEF DriverRow
<1>2. now \notin Absent
  BY RowIsNotAbsent
<1>3. new = [c \in {"status", "online", "active", "phone", "rated", "paid"} |->
                IF mine[c] # read[c] THEN mine[c] ELSE now[c]]
  BY <1>1, <1>2 DEF Saved
<1>4. /\ new.status \in {mine.status, now.status}
      /\ new.online \in {mine.online, now.online}
      /\ new.phone \in {mine.phone, now.phone}
      /\ new.active \in {mine.active, now.active}
      /\ new.rated \in {mine.rated, now.rated}
      /\ new.paid = IF mine.paid # read.paid THEN mine.paid ELSE now.paid
  BY <1>3
<1>5. new = [status |-> new.status, online |-> new.online, active |-> new.active,
             phone |-> new.phone, rated |-> new.rated, paid |-> new.paid]
  BY <1>3
<1>6. new \in DriverRow
  BY <1>4, <1>5 DEF DriverRow
<1> QED  BY <1>4, <1>6 DEF MixedFrom

LEMMA VehicleMerged ==
  ASSUME NEW mine \in VehicleRow, NEW now \in VehicleRow \cup {None}, NEW read,
         NEW new, new = Saved(mine, read, now)
  PROVE  new \in VehicleRow \cup {None}
<1>1. CASE read \in Absent \/ now \in Absent
  BY <1>1 DEF Saved
<1>2. CASE read \notin Absent /\ now \notin Absent
  <2>1. DOMAIN mine = {"owner", "plate", "active"} /\ now \in VehicleRow
    BY <1>2 DEF VehicleRow, Absent
  <2>2. new = [c \in {"owner", "plate", "active"} |->
                  IF mine[c] # read[c] THEN mine[c] ELSE now[c]]
    BY <1>2, <2>1 DEF Saved
  <2>3. /\ new.owner \in {mine.owner, now.owner} /\ new.plate \in {mine.plate, now.plate}
        /\ new.active \in {mine.active, now.active}
    BY <2>2
  <2>4. new = [owner |-> new.owner, plate |-> new.plate, active |-> new.active]
    BY <2>2
  <2> QED  BY <2>1, <2>3, <2>4 DEF VehicleRow
<1> QED  BY <1>1, <1>2

\* What the handlers of DriversService make of a row.
LEMMA RowEdited ==
  ASSUME NEW j \in Job, NEW row \in DriverRow, j.op \in DriverEdits, Complete(j)
  PROVE  /\ Edited(j, row) \in DriverRow
         /\ Edited(j, row).rated = row.rated /\ Edited(j, row).paid = row.paid
         /\ Edited(j, row).active => row.active \/ (j.op = "active" /\ j.on)
<1>1. j.on \in BOOLEAN /\ j.status \in VerificationStatus
  BY DEF Job
<1>2. CASE j.op = "online"
  BY <1>1, <1>2 DEF Edited, DriverRow
<1>3. CASE j.op = "verify"
  BY <1>1, <1>3 DEF Edited, DriverRow
<1>4. CASE j.op = "active"
  BY <1>1, <1>4 DEF Edited, DriverRow
<1>5. CASE j.op = "update"
  BY <1>1, <1>5 DEF Edited, DriverRow, Complete
<1> QED  BY <1>2, <1>3, <1>4, <1>5 DEF DriverEdits

-----------------------------------------------------------------------------
(* Arrivals                                                                *)

LEMMA Admitted ==
  ASSUME AccountInv, NEW t \in Requests, NEW j \in Job, NEW w \in Waits,
         pc[t] = "idle", job' = [job EXCEPT ![t] = j], Goto(t, w), Beside,
         UNCHANGED <<driver, vehicle, session, entity, reloaded>>,
         Complete(j), InPlace(w, j.op), w \notin {"phone", "save", "write", "avgWrite"},
         j.op \in DriverEdits => driver[j.d] # None,
         j.op = "register" => driver[j.d] = None /\ \A u \in Requests : job[u].d # j.d
  PROVE  AccountInv'
<1>1. Tables' /\ RowsMove(t)
  BY TablesSame DEF Beside
<1>2. VotesOK'
  BY VotesSame DEF Beside
<1>3. SlotTables
  BY DEF AccountInv
<1>4. SlotTables' /\ Others(t) /\ pc'[t] = w /\ job'[t] = j
  BY <1>3 DEF Goto, SlotTables, Others
<1>5. RequestOK(t)'
  BY <1>4 DEF RequestOK, Complete, InPlace, Held, Averaged
<1>6. OwnIds(t)'
  BY <1>4 DEF OwnIds, Registering, Others
<1>7. moved' \in [Moves -> Drivers \cup {None}] /\ session' \in [Drivers -> BOOLEAN]
  BY DEF AccountInv, Beside
<1>8. Outlive /\ once \subseteq once'
  BY DEF Beside
<1> QED  BY <1>1, <1>2, <1>4, <1>5, <1>6, <1>7, <1>8, Carried

LEMMA DriverRouted ==
  ASSUME AccountInv, NEW t \in Requests, DriverRoutes(t), Beside
  PROVE  AccountInv'
<1>1. ASSUME NEW d \in Drivers, NEW j \in Job, NEW admin, Admit(t, admin, j, "load"),
             j.op \in DriverEdits \cup {"remove"}, j.d = d,
             j.op = "update" => j.phone \in Phones
      PROVE  AccountInv'
  <2>1. Complete(j) /\ InPlace("load", j.op) /\ "load" \in Waits
    BY <1>1 DEF Complete, InPlace, Waits, DriverEdits, VehicleEdits
  <2>2. j.op # "register" /\ (j.op \in DriverEdits => driver[j.d] # None)
    BY <1>1 DEF Admit, DriverEdits
  <2> QED  BY <1>1, <2>1, <2>2, Admitted DEF Admit
<1>2. PICK d \in Drivers, admin \in BOOLEAN :
        LET ask(op) == [NoJob EXCEPT !.op = op, !.d = d] IN
        \/ \E on \in BOOLEAN :
              \/ ~admin /\ Admit(t, admin, [ask("online") EXCEPT !.on = on], "load")
              \/ admin /\ Admit(t, admin, [ask("active") EXCEPT !.on = on], "load")
        \/ \E status \in VerificationStatus :
              admin /\ Admit(t, admin, [ask("verify") EXCEPT !.status = status], "load")
        \/ \E phone \in Phones :
              Admit(t, admin, [ask("update") EXCEPT !.phone = phone], "load")
        \/ admin /\ Admit(t, admin, ask("remove"), "load")
  BY DEF DriverRoutes
<1> DEFINE ask(op) == [NoJob EXCEPT !.op = op, !.d = d]
<1>3. ASSUME NEW on \in BOOLEAN, NEW op \in {"online", "active"},
             Admit(t, admin, [ask(op) EXCEPT !.on = on], "load")
      PROVE  AccountInv'
  <2>1. /\ [ask(op) EXCEPT !.on = on] \in Job
        /\ [ask(op) EXCEPT !.on = on].op = op /\ [ask(op) EXCEPT !.on = on].d = d
    BY DEF NoJob, Job, Ops, DriverEdits, VehicleEdits, VerificationStatus
  <2> QED  BY <1>1, <1>3, <2>1 DEF DriverEdits
<1>4. ASSUME NEW status \in VerificationStatus,
             Admit(t, admin, [ask("verify") EXCEPT !.status = status], "load")
      PROVE  AccountInv'
  <2>1. /\ [ask("verify") EXCEPT !.status = status] \in Job
        /\ [ask("verify") EXCEPT !.status = status].op = "verify"
        /\ [ask("verify") EXCEPT !.status = status].d = d
    BY DEF NoJob, Job, Ops, DriverEdits, VehicleEdits
  <2> QED  BY <1>1, <1>4, <2>1 DEF DriverEdits
<1>5. ASSUME NEW phone \in Phones,
             Admit(t, admin, [ask("update") EXCEPT !.phone = phone], "load")
      PROVE  AccountInv'
  <2>1. /\ [ask("update") EXCEPT !.phone = phone] \in Job
        /\ [ask("update") EXCEPT !.phone = phone].op = "update"
        /\ [ask("update") EXCEPT !.phone = phone].d = d
        /\ [ask("update") EXCEPT !.phone = phone].phone = phone
    BY DEF NoJob, Job, Ops, DriverEdits, VehicleEdits, VerificationStatus
  <2> QED  BY <1>1, <1>5, <2>1 DEF DriverEdits
<1>6. ASSUME Admit(t, admin, ask("remove"), "load")
      PROVE  AccountInv'
  <2>1. ask("remove") \in Job /\ ask("remove").op = "remove" /\ ask("remove").d = d
    BY DEF NoJob, Job, Ops, DriverEdits, VehicleEdits, VerificationStatus
  <2> QED  BY <1>1, <1>6, <2>1
<1> QED  BY <1>2, <1>3, <1>4, <1>5, <1>6

LEMMA VehicleRouted ==
  ASSUME AccountInv, NEW t \in Requests, VehicleRoutes(t), Beside
  PROVE  AccountInv'
<1>1. ASSUME NEW j \in Job, NEW admin, NEW w \in {"owner", "owns"}, Admit(t, admin, j, w),
             j.op \in VehicleEdits \cup {"removeVehicle", "addVehicle"},
             w = IF j.op = "addVehicle" THEN "owner" ELSE "owns",
             j.d \in Drivers, j.v \in Vehicles,
             j.op \in {"plate", "addVehicle"} => j.plate \in Plates
      PROVE  AccountInv'
  <2>1. Complete(j) /\ InPlace(w, j.op) /\ w \in Waits
    BY <1>1 DEF Complete, InPlace, Waits, DriverEdits, VehicleEdits
  <2>2. j.op # "register" /\ j.op \notin DriverEdits
    BY <1>1 DEF VehicleEdits, DriverEdits
  <2> QED  BY <1>1, <2>1, <2>2, Admitted DEF Admit
<1>2. PICK d \in Drivers, v \in Vehicles, admin \in BOOLEAN :
        LET ask(op) == [NoJob EXCEPT !.op = op, !.d = d, !.v = v]
            edit(op) == [ask(op) EXCEPT !.admin = admin]
        IN
        \/ \E plate \in Plates :
              \/ /\ FreshVehicle(v)
                 /\ Admit(t, admin, [ask("addVehicle") EXCEPT !.plate = plate], "owner")
              \/ Admit(t, admin, [edit("plate") EXCEPT !.plate = plate], "owns")
        \/ \E on \in BOOLEAN : Admit(t, admin, [edit("activate") EXCEPT !.on = on], "owns")
        \/ Admit(t, admin, edit("removeVehicle"), "owns")
  BY DEF VehicleRoutes
<1> DEFINE ask(op) == [NoJob EXCEPT !.op = op, !.d = d, !.v = v]
<1> DEFINE edit(op) == [ask(op) EXCEPT !.admin = admin]
<1>3. ASSUME NEW plate \in Plates,
             Admit(t, admin, [ask("addVehicle") EXCEPT !.plate = plate], "owner")
      PROVE  AccountInv'
  <2>1. /\ [ask("addVehicle") EXCEPT !.plate = plate] \in Job
        /\ [ask("addVehicle") EXCEPT !.plate = plate].op = "addVehicle"
        /\ [ask("addVehicle") EXCEPT !.plate = plate].d = d
        /\ [ask("addVehicle") EXCEPT !.plate = plate].v = v
        /\ [ask("addVehicle") EXCEPT !.plate = plate].plate = plate
    BY DEF NoJob, Job, Ops, DriverEdits, VehicleEdits, VerificationStatus
  <2> QED  BY <1>1, <1>3, <2>1
<1>4. ASSUME NEW plate \in Plates,
             Admit(t, admin, [edit("plate") EXCEPT !.plate = plate], "owns")
      PROVE  AccountInv'
  <2>1. /\ [edit("plate") EXCEPT !.plate = plate] \in Job
        /\ [edit("plate") EXCEPT !.plate = plate].op = "plate"
        /\ [edit("plate") EXCEPT !.plate = plate].d = d
        /\ [edit("plate") EXCEPT !.plate = plate].v = v
        /\ [edit("plate") EXCEPT !.plate = plate].plate = plate
    BY DEF NoJob, Job, Ops, DriverEdits, VehicleEdits, VerificationStatus
  <2> QED  BY <1>1, <1>4, <2>1 DEF VehicleEdits
<1>5. ASSUME NEW on \in BOOLEAN,
             Admit(t, admin, [edit("activate") EXCEPT !.on = on], "owns")
      PROVE  AccountInv'
  <2>1. /\ [edit("activate") EXCEPT !.on = on] \in Job
        /\ [edit("activate") EXCEPT !.on = on].op = "activate"
        /\ [edit("activate") EXCEPT !.on = on].d = d
        /\ [edit("activate") EXCEPT !.on = on].v = v
    BY DEF NoJob, Job, Ops, DriverEdits, VehicleEdits, VerificationStatus
  <2> QED  BY <1>1, <1>5, <2>1 DEF VehicleEdits
<1>6. ASSUME Admit(t, admin, edit("removeVehicle"), "owns")
      PROVE  AccountInv'
  <2>1. /\ edit("removeVehicle") \in Job
        /\ edit("removeVehicle").op = "removeVehicle"
        /\ edit("removeVehicle").d = d /\ edit("removeVehicle").v = v
    BY DEF NoJob, Job, Ops, DriverEdits, VehicleEdits, VerificationStatus
  <2> QED  BY <1>1, <1>6, <2>1
<1> QED  BY <1>2, <1>3, <1>4, <1>5, <1>6

LEMMA PublicRouted ==
  ASSUME AccountInv, NEW t \in Requests, PublicRoutes(t), Beside
  PROVE  AccountInv'
<1>1. ASSUME NEW d \in Drivers,
             job' = [job EXCEPT ![t] = [NoJob EXCEPT !.op = "login", !.d = d]],
             Goto(t, "login")
      PROVE  AccountInv'
  <2>1. PICK j : j = [NoJob EXCEPT !.op = "login", !.d = d]
    OBVIOUS
  <2>2. j \in Job /\ j.op = "login" /\ j.d = d
    BY <2>1 DEF NoJob, Job, Ops, VerificationStatus
  <2>3. Complete(j) /\ InPlace("login", j.op) /\ "login" \in Waits /\ j.op \notin DriverEdits
    BY <2>2 DEF Complete, InPlace, Waits, DriverEdits, VehicleEdits
  <2> QED  BY <1>1, <2>1, <2>2, <2>3, Admitted DEF PublicRoutes
<1>2. ASSUME NEW d \in Drivers, NEW v \in Vehicles, NEW phone \in Phones, NEW plate \in Plates,
             driver[d] = None, \A u \in Requests : job[u].d # d,
             job' = [job EXCEPT ![t] =
                        [NoJob EXCEPT !.op = "register", !.d = d, !.v = v,
                                      !.phone = phone, !.plate = plate]],
             Goto(t, "check")
      PROVE  AccountInv'
  <2>1. PICK j : j = [NoJob EXCEPT !.op = "register", !.d = d, !.v = v,
                                   !.phone = phone, !.plate = plate]
    OBVIOUS
  <2>2. /\ j \in Job /\ j.op = "register" /\ j.d = d /\ j.v = v
        /\ j.phone = phone /\ j.plate = plate
    BY <2>1 DEF NoJob, Job, Ops, VerificationStatus
  <2>3. Complete(j) /\ InPlace("check", j.op) /\ "check" \in Waits /\ j.op \notin DriverEdits
    BY <2>2 DEF Complete, InPlace, Waits, DriverEdits, VehicleEdits
  <2> QED  BY <1>2, <2>1, <2>2, <2>3, Admitted DEF PublicRoutes
<1> QED  BY <1>1, <1>2 DEF PublicRoutes

LEMMA Rated ==
  ASSUME AccountInv, NEW t \in Requests, Rate(t), Beside
  PROVE  AccountInv'
<1>1. PICK r \in Rides, about \in {"driver", "user"} :
        Admit(t, about = "driver",
              [NoJob EXCEPT !.op = "rate", !.d = DriverOf[r], !.ride = r, !.about = about],
              "rateCheck")
  BY DEF Rate
<1>2. PICK j : j = [NoJob EXCEPT !.op = "rate", !.d = DriverOf[r], !.ride = r, !.about = about]
  OBVIOUS
<1>3. DriverOf[r] \in Drivers
  BY RatingNames, DeskNames
<1>4. j \in Job /\ j.op = "rate" /\ j.d \in Drivers /\ j.ride = r
  BY <1>2, <1>3 DEF NoJob, Job, Ops, VerificationStatus
<1>5. Complete(j) /\ InPlace("rateCheck", j.op) /\ "rateCheck" \in Waits /\ j.op \notin DriverEdits
  BY <1>4 DEF Complete, InPlace, Waits, DriverEdits, VehicleEdits
<1>6. /\ pc[t] = "idle" /\ job' = [job EXCEPT ![t] = j] /\ Goto(t, "rateCheck")
      /\ UNCHANGED <<driver, vehicle, session, entity, reloaded>>
  BY <1>1, <1>2 DEF Admit
<1> QED  BY <1>4, <1>5, <1>6, Admitted

-----------------------------------------------------------------------------
(* The handlers' steps                                                     *)

\* Steps that only look and go on, or refuse.
LEMMA LookedOn ==
  ASSUME AccountInv, NEW t \in Requests, Beside,
         \/ CheckPhone(t) \/ Reload(t) \/ LoadRemoved(t) \/ RegisterCheck(t)
         \/ LoginRead(t) \/ VehicleOwner(t) \/ RateCheck(t)
  PROVE  AccountInv'
<1>1. CASE Refuse(t)
  BY <1>1, Refuses
<1>2. CASE ~Refuse(t)
  <2>1. RequestOK(t) /\ DOMAIN reloaded = Requests
    BY DEF AccountInv, SlotTables
  <2>2. InPlace(pc[t], job[t].op)
    BY <2>1 DEF RequestOK
  <2>3. CASE CheckPhone(t)
    <3>1. Goto(t, "save") /\ UNCHANGED <<driver, vehicle, session, job, entity, reloaded>>
      BY <1>2, <2>3 DEF CheckPhone
    <3>2. pc[t] = "phone" /\ job[t].op = "update" /\ InPlace("save", job[t].op) /\ "save" \in Waits
      BY <2>2, <2>3 DEF CheckPhone, InPlace, Waits, DriverEdits
    <3>3. job[t].op \notin VehicleEdits
      BY <3>2 DEF VehicleEdits
    <3> QED  BY <2>1, <3>1, <3>2, <3>3, GoesOn
  <2>4. CASE Reload(t)
    <3>1. /\ Goto(t, "write") /\ UNCHANGED <<driver, vehicle, session, job, entity>>
          /\ DOMAIN reloaded' = Requests
      BY <2>1, <2>4 DEF Reload
    <3>2. pc[t] = "save" /\ InPlace("write", job[t].op) /\ "write" \in Waits
      BY <2>2, <2>4 DEF Reload, InPlace, Waits
    <3> QED  BY <2>1, <3>1, <3>2, GoesOn
  <2>5. CASE LoadRemoved(t)
    <3>1. Goto(t, "revoke") /\ UNCHANGED <<driver, vehicle, session, job, entity, reloaded>>
      BY <1>2, <2>5 DEF LoadRemoved
    <3>2. InPlace("revoke", job[t].op) /\ "revoke" \in Waits
      BY <2>5 DEF LoadRemoved, InPlace, Waits
    <3> QED  BY <2>1, <3>1, <3>2, GoesOn
  <2>6. CASE RegisterCheck(t)
    <3>1. Goto(t, "insert") /\ UNCHANGED <<driver, vehicle, session, job, entity, reloaded>>
      BY <1>2, <2>6 DEF RegisterCheck
    <3>2. pc[t] = "check" /\ InPlace("insert", job[t].op) /\ "insert" \in Waits
      BY <2>2, <2>6 DEF RegisterCheck, InPlace, Waits
    <3> QED  BY <2>1, <3>1, <3>2, GoesOn
  <2>7. CASE LoginRead(t)
    <3>1. Goto(t, "issue") /\ UNCHANGED <<driver, vehicle, session, job, entity, reloaded>>
      BY <1>2, <2>7 DEF LoginRead
    <3>2. InPlace("issue", job[t].op) /\ "issue" \in Waits
      BY <2>2, <2>7 DEF LoginRead, InPlace, Waits
    <3> QED  BY <2>1, <3>1, <3>2, GoesOn
  <2>8. CASE VehicleOwner(t)
    <3>1. Goto(t, "insert") /\ UNCHANGED <<driver, vehicle, session, job, entity, reloaded>>
      BY <1>2, <2>8 DEF VehicleOwner
    <3>2. pc[t] = "owner" /\ InPlace("insert", job[t].op) /\ "insert" \in Waits
      BY <2>2, <2>8 DEF VehicleOwner, InPlace, Waits
    <3> QED  BY <2>1, <3>1, <3>2, GoesOn
  <2>9. CASE RateCheck(t)
    <3>1. Goto(t, "rateInsert") /\ UNCHANGED <<driver, vehicle, session, job, entity, reloaded>>
      BY <1>2, <2>9 DEF RateCheck
    <3>2. InPlace("rateInsert", job[t].op) /\ "rateInsert" \in Waits
      BY <2>2, <2>9 DEF RateCheck, InPlace, Waits
    <3> QED  BY <2>1, <3>1, <3>2, GoesOn
  <2> QED  BY <2>3, <2>4, <2>5, <2>6, <2>7, <2>8, <2>9
<1> QED  BY <1>1, <1>2

LEMMA DriverLoaded ==
  ASSUME AccountInv, NEW t \in Requests, LoadDriver(t), Beside
  PROVE  AccountInv'
<1>1. CASE Refuse(t)
  BY <1>1, Refuses
<1>2. CASE ~Refuse(t)
  <2>1. RequestOK(t) /\ SlotTables /\ Tables
    BY DEF AccountInv
  <2>2. /\ pc[t] = "load" /\ job[t].op \in DriverEdits /\ driver[job[t].d] \notin Absent
        /\ Hold(t, Edited(job[t], driver[job[t].d]))
        /\ Goto(t, IF job[t].op = "update" THEN "phone" ELSE "save")
        /\ UNCHANGED <<driver, vehicle, session, job, reloaded>>
    BY <1>2 DEF LoadDriver
  <2>3. PICK d, j, row : d = job[t].d /\ j = job[t] /\ row = driver[job[t].d]
    OBVIOUS
  <2>4. j \in Job /\ Complete(j) /\ d \in Drivers
    BY <2>1, <2>2, <2>3 DEF RequestOK, Complete
  <2>5. row \in DriverRow /\ DriverAverage(d, row.rated, once)
    BY <2>1, <2>2, <2>3, <2>4 DEF Tables
  <2>6. PICK held : held = Edited(j, row)
    OBVIOUS
  <2>7. /\ held \in DriverRow /\ held.rated = row.rated
        /\ held.active => row.active \/ (j.op = "active" /\ j.on)
    BY <2>2, <2>3, <2>4, <2>5, <2>6, RowEdited
  <2>8. /\ SlotTables' /\ Others(t) /\ job'[t] = j /\ entity'[t] = held
        /\ pc'[t] = IF j.op = "update" THEN "phone" ELSE "save"
    BY <2>1, <2>2, <2>3, <2>6 DEF SlotTables, Others, Hold, Goto
  <2>9. driver'[d] = row /\ row \notin Absent /\ once' = once
    BY <2>2, <2>3 DEF Beside
  <2>10. Held(t)'
    <3>1. DriverAverage(d, held.rated, once')
      BY <2>5, <2>7, <2>9
    <3>2. resolvePrincipal(d)' <=> row.active
      BY <2>9 DEF resolvePrincipal
    <3> QED  BY <2>3, <2>7, <2>8, <3>1, <3>2 DEF Held
  <2>11. RequestOK(t)'
    <3>1. (job[t] \in Job /\ Complete(job[t]))'
      BY <2>4, <2>8
    <3>2. (pc[t] \in Waits /\ InPlace(pc[t], job[t].op))'
      BY <2>2, <2>3, <2>8 DEF Waits, InPlace, DriverEdits
    <3>3. (/\ job[t].op \in DriverEdits => driver[job[t].d] # None
           /\ job[t].op \in VehicleEdits /\ pc[t] \in {"save", "write"} => entity[t] \in VehicleRow)'
      BY <2>2, <2>3, <2>8, <2>9 DEF Absent, VehicleEdits, DriverEdits
    <3>4. Averaged(t)'
      BY <2>8 DEF Averaged
    <3> QED  BY <2>10, <3>1, <3>2, <3>3, <3>4 DEF RequestOK
  <2>12. OwnIds(t)'
    BY <2>8 DEF OwnIds, Registering
  <2>13. Tables' /\ RowsMove(t)
    BY <2>2, TablesSame DEF Beside
  <2>14. VotesOK'
    BY VotesSame DEF Beside
  <2>15. moved' \in [Moves -> Drivers \cup {None}] /\ session' \in [Drivers -> BOOLEAN]
    BY <2>2 DEF AccountInv, Beside
  <2>16. Outlive /\ once \subseteq once'
    BY DEF Beside
  <2> QED  BY <2>8, <2>11, <2>12, <2>13, <2>14, <2>15, <2>16, Carried
<1> QED  BY <1>1, <1>2

\* A step that changes a table and goes on.
LEMMA Advances ==
  ASSUME AccountInv, NEW t \in Requests, NEW w \in {"revoke", "delete", "vehicle", "issue", "avgRead"},
         Goto(t, w), UNCHANGED <<job, entity, reloaded>>, InPlace(w, job[t].op),
         RowsMove(t), Tables', VotesOK', once \subseteq once', Outlive,
         moved' = moved, session' \in [Drivers -> BOOLEAN]
  PROVE  AccountInv'
<1>1. SlotTables /\ RequestOK(t)
  BY DEF AccountInv
<1>2. SlotTables' /\ Others(t) /\ pc'[t] = w /\ w \in Waits
  BY <1>1 DEF Goto, SlotTables, Others, Waits
<1>3. job[t].op \in DriverEdits => driver'[job[t].d] # None
  BY <1>1 DEF RequestOK, Complete, RowsMove
<1>4. RequestOK(t)'
  BY <1>1, <1>2, <1>3 DEF RequestOK, Complete, InPlace, Held, Averaged
<1>5. OwnIds(t)'
  BY <1>2 DEF OwnIds, Registering
<1>6. moved' \in [Moves -> Drivers \cup {None}]
  BY DEF AccountInv
<1> QED  BY <1>2, <1>4, <1>5, <1>6, Carried

\* What WriteDriver writes when it does not refuse.
LEMMA WrittenRow ==
  ASSUME AccountInv, NEW t \in Requests, pc[t] = "write", ~IsVehicle(t),
         NEW d, NEW now, NEW new, d = job[t].d, now = driver[d],
         new = Saved(entity[t], reloaded[t], now),
         reloaded[t] \in Absent => now \in Absent
  PROVE  /\ job[t].op \in DriverEdits /\ d \in Drivers /\ now # None
         /\ entity[t] \in DriverRow /\ new \in DriverRow \cup Absent
         /\ new \notin Absent => new \in DriverRow /\ DriverAverage(d, new.rated, once)
         /\ new \in Absent => now \in Absent /\ new = now
         /\ now \in Absent /\ new \notin Absent => new = entity[t]
         /\ now \notin Absent =>
               /\ new \notin Absent /\ now \in DriverRow /\ reloaded[t] \notin Absent
               /\ new.active \in {entity[t].active, now.active}
               /\ new.paid = IF entity[t].paid # reloaded[t].paid THEN entity[t].paid
                                                                  ELSE now.paid
<1>1. RequestOK(t) /\ Tables
  BY DEF AccountInv
<1>2. job[t].op \in DriverEdits
  BY <1>1 DEF RequestOK, InPlace, IsVehicle
<1>3. d \in Drivers /\ now # None
  BY <1>1, <1>2 DEF RequestOK, Complete
<1>4. entity[t] \in DriverRow /\ DriverAverage(d, entity[t].rated, once)
  BY <1>1, <1>2 DEF RequestOK, Held
<1>5. now \in DriverRow \cup Absent
  BY <1>1, <1>3 DEF Tables
<1>6. CASE reloaded[t] \in Absent
  <2>1. new = entity[t] /\ new \notin Absent
    BY <1>4, <1>6, RowIsNotAbsent DEF Saved
  <2> QED  BY <1>2, <1>3, <1>4, <1>6, <2>1
<1>7. CASE reloaded[t] \notin Absent /\ now \in Absent
  <2>1. new = now
    BY <1>7 DEF Saved
  <2> QED  BY <1>2, <1>3, <1>4, <1>7, <2>1
<1>8. CASE reloaded[t] \notin Absent /\ now \notin Absent
  <2>1. now \in DriverRow /\ DriverAverage(d, now.rated, once)
    BY <1>1, <1>3, <1>5, <1>8 DEF Tables
  <2>2. PICK mine, read : mine = entity[t] /\ read = reloaded[t]
    OBVIOUS
  <2>3. mine \in DriverRow /\ read \notin Absent /\ new = Saved(mine, read, now)
    BY <1>4, <1>8, <2>2
  <2>4. new \in DriverRow /\ MixedFrom(new, mine, read, now)
    BY <2>1, <2>3, DriverMerged
  <2>5. new \notin Absent
    BY <2>4, RowIsNotAbsent
  <2> QED  BY <1>2, <1>3, <1>4, <1>8, <2>1, <2>2, <2>4, <2>5 DEF MixedFrom
<1> QED  BY <1>6, <1>7, <1>8

LEMMA DriverWritten ==
  ASSUME AccountInv, NEW t \in Requests, WriteDriver(t), Beside
  PROVE  AccountInv'
<1>1. CASE Refuse(t)
  BY <1>1, Refuses
<1>2. CASE ~Refuse(t)
  <2>1. PICK d, now, new : /\ d = job[t].d /\ now = driver[d]
                           /\ new = Saved(entity[t], reloaded[t], now)
    OBVIOUS
  <2>2. /\ pc[t] = "write" /\ ~IsVehicle(t)
        /\ reloaded[t] \in Absent => now \in Absent
        /\ new \notin Absent => PhoneFree(d, new.phone)
        /\ driver' = [driver EXCEPT ![d] = new]
        /\ UNCHANGED <<vehicle, session>>
        /\ IF EndsSession(job[t]) THEN Goto(t, "revoke") /\ UNCHANGED <<job, entity, reloaded>>
                                  ELSE Leave(t)
    BY <1>2, <2>1 DEF WriteDriver
  <2>3. /\ job[t].op \in DriverEdits /\ d \in Drivers /\ now # None
        /\ new \in DriverRow \cup Absent
        /\ new \notin Absent => new \in DriverRow /\ DriverAverage(d, new.rated, once)
        /\ new \in Absent => now \in Absent /\ new = now
    BY <2>1, <2>2, WrittenRow
  <2>4. once' = once /\ Outlive /\ moved' = moved
    BY DEF Beside
  <2>5. Tables'
    BY <2>1, <2>2, <2>3, <2>4, RowWritten
  <2>6. RowsMove(t)
    <3>1. DOMAIN driver = Drivers /\ driver = [e \in Drivers |-> driver[e]]
      BY DEF AccountInv, Tables
    <3>2. driver'[d] # None /\ \A e \in Drivers \ {d} : driver'[e] = driver[e]
      BY <2>2, <2>3, <3>1, RowIsNotAbsent
    <3> QED  BY <2>1, <2>3, <3>2 DEF RowsMove
  <2>7. VotesOK'
    BY VotesSame DEF Beside
  <2>8. session' \in [Drivers -> BOOLEAN]
    BY <2>2 DEF AccountInv
  <2>9. CASE EndsSession(job[t])
    <3>1. InPlace("revoke", job[t].op)
      BY <2>9 DEF EndsSession, InPlace
    <3> QED  BY <2>2, <2>4, <2>5, <2>6, <2>7, <2>8, <2>9, <3>1, Advances
  <2>10. CASE ~EndsSession(job[t])
    BY <2>2, <2>4, <2>5, <2>6, <2>7, <2>8, <2>10, Leaves
  <2> QED  BY <2>9, <2>10
<1> QED  BY <1>1, <1>2

LEMMA VehicleSaved ==
  ASSUME AccountInv, NEW t \in Requests, WriteVehicle(t), Beside
  PROVE  AccountInv'
<1>1. CASE Refuse(t)
  BY <1>1, Refuses
<1>2. CASE ~Refuse(t)
  <2>1. PICK v, now, new, mine : /\ v = job[t].v /\ now = vehicle[v] /\ mine = entity[t]
                                 /\ new = Saved(mine, reloaded[t], now)
    OBVIOUS
  <2>2. /\ pc[t] = "write" /\ IsVehicle(t) /\ Leave(t) /\ UNCHANGED <<driver, session>>
        /\ new # None => driver[new.owner] \notin Absent /\ PlateFree(v, new.plate)
        /\ vehicle' = [vehicle EXCEPT ![v] = new]
    BY <1>2, <2>1 DEF WriteVehicle
  <2>3. RequestOK(t) /\ Tables
    BY DEF AccountInv
  <2>4. mine \in VehicleRow /\ v \in Vehicles
    BY <2>1, <2>2, <2>3 DEF RequestOK, Complete, IsVehicle
  <2>5. now \in VehicleRow \cup {None}
    BY <2>1, <2>3, <2>4 DEF Tables
  <2>6. new \in VehicleRow \cup {None}
    BY <2>1, <2>4, <2>5, VehicleMerged
  <2>7. once' = once /\ Outlive /\ moved' = moved
    BY DEF Beside
  <2>8. Tables'
    BY <2>2, <2>4, <2>6, <2>7, VehicleWritten
  <2>9. VotesOK' /\ RowsMove(t)
    BY <2>2, VotesSame DEF Beside, RowsMove
  <2>10. session' \in [Drivers -> BOOLEAN]
    BY <2>2 DEF AccountInv
  <2> QED  BY <2>2, <2>7, <2>8, <2>9, <2>10, Leaves
<1> QED  BY <1>1, <1>2

LEMMA SessionsChanged ==
  ASSUME AccountInv, NEW t \in Requests, Revoke(t) \/ IssueSession(t), Beside
  PROVE  AccountInv'
<1>1. RequestOK(t) /\ session \in [Drivers -> BOOLEAN]
  BY DEF AccountInv
<1>2. session' \in [Drivers -> BOOLEAN] /\ UNCHANGED <<driver, vehicle>>
  BY <1>1 DEF Revoke, IssueSession
<1>3. Tables' /\ RowsMove(t)
  BY <1>2, TablesSame DEF Beside
<1>4. VotesOK'
  BY VotesSame DEF Beside
<1>5. once \subseteq once' /\ Outlive /\ moved' = moved
  BY DEF Beside
<1>6. CASE Leave(t)
  BY <1>2, <1>3, <1>4, <1>5, <1>6, Leaves
<1>7. CASE Goto(t, "delete") /\ job[t].op = "remove" /\ UNCHANGED <<job, entity, reloaded>>
  <2>1. InPlace("delete", job[t].op)
    BY <1>7 DEF InPlace
  <2> QED  BY <1>2, <1>3, <1>4, <1>5, <1>7, <2>1, Advances
<1> QED  BY <1>6, <1>7 DEF Revoke, IssueSession

LEMMA Removal ==
  ASSUME AccountInv, NEW t \in Requests, Delete(t) \/ RemoveVehicle(t), Beside
  PROVE  AccountInv'
<1>1. RequestOK(t) /\ Tables /\ session \in [Drivers -> BOOLEAN]
  BY DEF AccountInv
<1>2. VotesOK'
  BY VotesSame DEF Beside
<1>3. once' = once /\ Outlive /\ moved' = moved
  BY DEF Beside
<1>4. CASE Delete(t)
  <2>1. PICK d : d = job[t].d
    OBVIOUS
  <2>2. d \in Drivers
    BY <1>1, <1>4, <2>1 DEF Delete, RequestOK, Complete
  <2>3. /\ driver' = [driver EXCEPT ![d] = IF @ = None THEN None ELSE Removed]
        /\ vehicle' = CascadeVehicles(d) /\ Leave(t) /\ session' = session
    BY <1>4, <2>1 DEF Delete
  <2>4. Tables'
    BY <1>3, <2>2, <2>3, RowDeleted
  <2>5. RowsMove(t)
    BY <1>1, <2>2, <2>3, DeskNames DEF Tables, RowsMove
  <2> QED  BY <1>1, <1>2, <1>3, <2>3, <2>4, <2>5, Leaves
<1>5. CASE RemoveVehicle(t)
  <2>1. PICK v : v = job[t].v
    OBVIOUS
  <2>2. v \in Vehicles
    BY <1>1, <1>5, <2>1 DEF RemoveVehicle, RequestOK, Complete
  <2>3. /\ vehicle' = [vehicle EXCEPT ![v] = None] /\ Leave(t)
        /\ UNCHANGED <<driver, session>>
    BY <1>5, <2>1 DEF RemoveVehicle
  <2>4. Tables'
    BY <1>3, <2>2, <2>3, VehicleWritten
  <2>5. RowsMove(t)
    BY <2>3 DEF RowsMove
  <2> QED  BY <1>1, <1>2, <1>3, <2>3, <2>4, <2>5, Leaves
<1> QED  BY <1>4, <1>5

LEMMA DriverRegistered ==
  ASSUME AccountInv, NEW t \in Requests, RegisterInsert(t), Beside
  PROVE  AccountInv'
<1>1. CASE Refuse(t)
  BY <1>1, Refuses
<1>2. CASE ~Refuse(t)
  <2>1. PICK d, new : /\ d = job[t].d
                      /\ new = [status |-> "pending", online |-> FALSE, active |-> TRUE,
                                phone |-> job[t].phone, rated |-> {}, paid |-> {}]
    OBVIOUS
  <2>2. /\ pc[t] = "insert" /\ job[t].op = "register" /\ PhoneFree(d, new.phone)
        /\ driver' = [driver EXCEPT ![d] = new] /\ Goto(t, "vehicle")
        /\ UNCHANGED <<vehicle, session, job, entity, reloaded>>
    BY <1>2, <2>1 DEF RegisterInsert
  <2>3. RequestOK(t) /\ OwnIds(t) /\ Tables /\ VotesOK
    BY DEF AccountInv
  <2>4. d \in Drivers /\ job[t].phone \in Phones
    BY <2>1, <2>2, <2>3 DEF RequestOK, Complete
  <2>5. Registering(t) /\ driver[d] = None
    BY <2>1, <2>2, <2>3 DEF OwnIds, Registering
  <2>6. new \in DriverRow
    BY <2>1, <2>4 DEF DriverRow, VerificationStatus
  <2>7. DriverAverage(d, new.rated, once)
    <3>1. new.rated = {} /\ {} \in once
      BY <2>1, <2>3 DEF VotesOK
    <3>2. {x \in {} : x.rateeType = "driver" /\ DriverOf[x.ride] = d} = {}
      OBVIOUS
    <3> QED  BY <3>1, <3>2 DEF DriverAverage
  <2>8. once' = once /\ Outlive /\ moved' = moved
    BY DEF Beside
  <2>9. new \notin Absent /\ new # None
    BY <2>6, RowIsNotAbsent
  <2>10. Tables'
    BY <2>2, <2>4, <2>6, <2>7, <2>8, <2>9, RowWritten
  <2>11. RowsMove(t)
    <3>1. driver = [e \in Drivers |-> driver[e]]
      BY <2>3 DEF Tables
    <3>2. driver'[d] = new /\ \A e \in Drivers \ {d} : driver'[e] = driver[e]
      BY <2>2, <2>4, <3>1
    <3> QED  BY <2>1, <2>5, <2>9, <3>2 DEF RowsMove
  <2>12. VotesOK'
    BY VotesSame DEF Beside
  <2>13. session' \in [Drivers -> BOOLEAN] /\ InPlace("vehicle", job[t].op)
    BY <2>2 DEF AccountInv, InPlace
  <2> QED  BY <2>2, <2>8, <2>10, <2>11, <2>12, <2>13, Advances
<1> QED  BY <1>1, <1>2

LEMMA VehicleInserted ==
  ASSUME AccountInv, NEW t \in Requests, RegisterVehicle(t) \/ AddVehicle(t), Beside
  PROVE  AccountInv'
<1>1. CASE Refuse(t)
  BY <1>1, Refuses
<1>2. CASE ~Refuse(t)
  <2>1. PICK d, v, new : /\ d = job[t].d /\ v = job[t].v
                         /\ new = [owner |-> d, plate |-> job[t].plate, active |-> TRUE]
    OBVIOUS
  <2>2. /\ driver[d] \notin Absent /\ PlateFree(v, job[t].plate)
        /\ vehicle' = [vehicle EXCEPT ![v] = new] /\ UNCHANGED <<driver, session>>
        /\ IF job[t].op = "register"
           THEN Goto(t, "issue") /\ UNCHANGED <<job, entity, reloaded>>
           ELSE Leave(t)
    BY <1>2, <2>1 DEF RegisterVehicle, AddVehicle, InsertVehicle
  <2>3. RequestOK(t)
    BY DEF AccountInv
  <2>4. job[t].op \in {"register", "addVehicle"}
    BY <2>3 DEF RequestOK, InPlace, RegisterVehicle, AddVehicle
  <2>5. d \in Drivers /\ v \in Vehicles /\ job[t].plate \in Plates
    BY <2>1, <2>3, <2>4 DEF RequestOK, Complete
  <2>6. new \in VehicleRow /\ new.owner = d /\ new.plate = job[t].plate
    BY <2>1, <2>5 DEF VehicleRow
  <2>7. once' = once /\ Outlive /\ moved' = moved
    BY DEF Beside
  <2>8. Tables'
    BY <2>2, <2>5, <2>6, <2>7, VehicleWritten
  <2>9. VotesOK' /\ RowsMove(t)
    BY <2>2, VotesSame DEF Beside, RowsMove
  <2>10. session' \in [Drivers -> BOOLEAN]
    BY <2>2 DEF AccountInv
  <2>11. CASE job[t].op = "register"
    <3>1. InPlace("issue", job[t].op)
      BY <2>11 DEF InPlace
    <3> QED  BY <2>2, <2>7, <2>8, <2>9, <2>10, <2>11, <3>1, Advances
  <2>12. CASE job[t].op # "register"
    BY <2>2, <2>7, <2>8, <2>9, <2>10, <2>12, Leaves
  <2> QED  BY <2>11, <2>12
<1> QED  BY <1>1, <1>2

LEMMA VehicleOwned ==
  ASSUME AccountInv, NEW t \in Requests, OwnsVehicle(t), Beside
  PROVE  AccountInv'
<1>1. CASE Refuse(t)
  BY <1>1, Refuses
<1>2. CASE ~Refuse(t)
  <2>1. /\ pc[t] = "owns"
        /\ Goto(t, IF IsVehicle(t) THEN "loadVehicle" ELSE "delete")
        /\ job' = [job EXCEPT ![t].d = None, ![t].admin = FALSE]
        /\ UNCHANGED <<driver, vehicle, session, entity, reloaded>>
    BY <1>2 DEF OwnsVehicle
  <2>2. RequestOK(t) /\ SlotTables
    BY DEF AccountInv
  <2>3. job[t].op \in VehicleEdits \cup {"removeVehicle"} /\ job[t] \in Job
    BY <2>1, <2>2 DEF RequestOK, InPlace
  <2>4. PICK j : j = [job[t] EXCEPT !.d = None, !.admin = FALSE]
    OBVIOUS
  <2>5. /\ j \in Job /\ j.op = job[t].op /\ j.v = job[t].v /\ j.phone = job[t].phone
        /\ j.plate = job[t].plate /\ j.ride = job[t].ride
    BY <2>3, <2>4 DEF Job
  <2>6. job'[t] = j
    BY <2>1, <2>2, <2>4 DEF SlotTables
  <2>7. SlotTables' /\ Others(t)
    BY <2>1, <2>2 DEF SlotTables, Others, Goto
  <2>8. pc'[t] = IF job[t].op \in VehicleEdits THEN "loadVehicle" ELSE "delete"
    BY <2>1, <2>2 DEF SlotTables, Goto, IsVehicle
  <2>9. Complete(j)
    BY <2>2, <2>3, <2>5 DEF RequestOK, Complete, DriverEdits, VehicleEdits
  <2>10. InPlace(pc'[t], j.op) /\ pc'[t] \in Waits
    BY <2>3, <2>5, <2>8 DEF InPlace, Waits
  <2>11. j.op \notin DriverEdits /\ j.op # "register"
    BY <2>3, <2>5 DEF DriverEdits, VehicleEdits
  <2>12. RequestOK(t)'
    BY <2>5, <2>6, <2>8, <2>9, <2>10, <2>11
       DEF RequestOK, Complete, InPlace, Held, Averaged
  <2>13. OwnIds(t)'
    BY <2>6, <2>11 DEF OwnIds, Registering
  <2>14. Tables' /\ RowsMove(t)
    BY <2>1, TablesSame DEF Beside
  <2>15. VotesOK'
    BY VotesSame DEF Beside
  <2>16. moved' \in [Moves -> Drivers \cup {None}] /\ session' \in [Drivers -> BOOLEAN]
    BY <2>1 DEF AccountInv, Beside
  <2>17. Outlive /\ once \subseteq once'
    BY DEF Beside
  <2> QED  BY <2>7, <2>12, <2>13, <2>14, <2>15, <2>16, <2>17, Carried
<1> QED  BY <1>1, <1>2

LEMMA VehicleLoaded ==
  ASSUME AccountInv, NEW t \in Requests, LoadVehicle(t), Beside
  PROVE  AccountInv'
<1>1. CASE Refuse(t)
  BY <1>1, Refuses
<1>2. CASE ~Refuse(t)
  <2>1. PICK v, row, held :
          /\ v = job[t].v /\ row = vehicle[v]
          /\ held = IF job[t].op = "plate" THEN [row EXCEPT !.plate = job[t].plate]
                                           ELSE [row EXCEPT !.active = job[t].on]
    OBVIOUS
  <2>2. /\ pc[t] = "loadVehicle" /\ row # None
        /\ Hold(t, held) /\ Goto(t, "save")
        /\ UNCHANGED <<driver, vehicle, session, job, reloaded>>
    BY <1>2, <2>1 DEF LoadVehicle
  <2>3. RequestOK(t) /\ SlotTables /\ Tables
    BY DEF AccountInv
  <2>4. job[t].op \in VehicleEdits /\ job[t] \in Job /\ Complete(job[t])
    BY <2>2, <2>3 DEF RequestOK, InPlace
  <2>5. v \in Vehicles /\ job[t].on \in BOOLEAN
        /\ (job[t].op = "plate" => job[t].plate \in Plates)
    BY <2>1, <2>4 DEF Complete, Job
  <2>6. row \in VehicleRow
    BY <2>1, <2>2, <2>3, <2>5 DEF Tables
  <2>7. held \in VehicleRow
    BY <2>1, <2>5, <2>6 DEF VehicleRow
  <2>8. SlotTables' /\ Others(t) /\ pc'[t] = "save" /\ entity'[t] = held
    BY <2>2, <2>3 DEF SlotTables, Others, Goto, Hold
  <2>9. job[t].op \notin DriverEdits /\ job[t].op # "register"
    BY <2>4 DEF DriverEdits, VehicleEdits
  <2>10. RequestOK(t)'
    BY <2>2, <2>4, <2>7, <2>8, <2>9
       DEF RequestOK, Complete, InPlace, Waits, Held, Averaged
  <2>11. OwnIds(t)'
    BY <2>8 DEF OwnIds, Registering
  <2>12. Tables' /\ RowsMove(t)
    BY <2>2, TablesSame DEF Beside
  <2>13. VotesOK'
    BY VotesSame DEF Beside
  <2>14. moved' \in [Moves -> Drivers \cup {None}] /\ session' \in [Drivers -> BOOLEAN]
    BY <2>2 DEF AccountInv, Beside
  <2>15. Outlive /\ once \subseteq once'
    BY DEF Beside
  <2> QED  BY <2>8, <2>10, <2>11, <2>12, <2>13, <2>14, <2>15, Carried
<1> QED  BY <1>1, <1>2

-----------------------------------------------------------------------------
(* Ratings and money                                                       *)

LEMMA VoteInserted ==
  ASSUME AccountInv, NEW t \in Requests, RateInsert(t), Outlive, moved' = moved
  PROVE  AccountInv'
<1>1. RequestOK(t) /\ VotesOK
  BY DEF AccountInv
<1>2. CASE Refuse(t) /\ UNCHANGED ratingVars
  BY <1>2, Refuses DEF Beside, ratingVars
<1>3. CASE ~(Refuse(t) /\ UNCHANGED ratingVars)
  <2>1. /\ pc[t] = "rateInsert" /\ ~Taken(t) /\ ratings' = ratings \cup {Vote(t)}
        /\ once' = once \cup {ratings'} /\ Goto(t, "avgRead")
        /\ UNCHANGED <<driver, vehicle, session, job, entity, reloaded, userRated>>
    BY <1>3 DEF RateInsert
  <2>2. job[t].ride \in Rides /\ job[t].about \in {"driver", "user"}
    BY <1>1, <2>1 DEF RequestOK, InPlace, Complete, Job
  <2>3. PICK vote : vote = Vote(t)
    OBVIOUS
  <2>4. vote \in Votes /\ vote.ride = job[t].ride /\ vote.rateeType = job[t].about
    BY <2>2, <2>3, RatingNames DEF Vote
  <2>5. VotesOK'
    <3>1. ratings' \subseteq Votes /\ ratings' \in once' /\ {} \in once' /\ once \subseteq once'
      BY <1>1, <2>1, <2>3, <2>4 DEF VotesOK
    <3>2. OneVotePerRater'
      <4>1. \A x, y \in ratings : x.ride = y.ride /\ x.rateeType = y.rateeType => x = y
        BY <1>1 DEF VotesOK, OneVotePerRater
      <4>2. \A x \in ratings : ~(x.ride = vote.ride /\ x.rateeType = vote.rateeType)
        BY <2>1, <2>4 DEF Taken
      <4> QED  BY <2>1, <2>3, <4>1, <4>2 DEF OneVotePerRater
    <3>3. DOMAIN userRated' = Riders /\ \A u \in Riders : UserAverage(u, userRated'[u], once')
      BY <1>1, <2>1, <3>1 DEF VotesOK, UserAverage
    <3> QED  BY <3>1, <3>2, <3>3 DEF VotesOK
  <2>6. Tables' /\ RowsMove(t)
    BY <2>1, TablesSame
  <2>7. once \subseteq once' /\ session' \in [Drivers -> BOOLEAN]
    BY <2>1 DEF AccountInv
  <2>8. InPlace("avgRead", job[t].op)
    BY <1>1, <2>1 DEF RequestOK, InPlace
  <2> QED  BY <2>1, <2>5, <2>6, <2>7, <2>8, Advances
<1> QED  BY <1>2, <1>3

LEMMA AverageRead ==
  ASSUME AccountInv, NEW t \in Requests, AvgRead(t), Outlive, moved' = moved
  PROVE  AccountInv'
<1>1. RequestOK(t) /\ VotesOK /\ SlotTables
  BY DEF AccountInv
<1>2. PICK held : held = [rated |-> IF job[t].about = "driver" THEN AboutDriver(Ratee(t))
                                                               ELSE AboutUser(Ratee(t))]
  OBVIOUS
<1>3. /\ pc[t] = "avgRead" /\ Hold(t, held) /\ Goto(t, "avgWrite")
      /\ UNCHANGED <<driver, vehicle, session, job, reloaded, rideDriver, ratings, userRated, once>>
  BY <1>2 DEF AvgRead, ratingVars
<1>4. SlotTables' /\ Others(t) /\ pc'[t] = "avgWrite" /\ entity'[t] = held
  BY <1>1, <1>3 DEF SlotTables, Others, Goto, Hold
<1>5. job[t].op = "rate"
  BY <1>1, <1>3 DEF RequestOK, InPlace
<1>6. Averaged(t)'
  <2>1. held.rated \in SUBSET Votes
    BY <1>1, <1>2 DEF VotesOK, AboutDriver, AboutUser
  <2>2. IF job[t].about = "driver" THEN DriverAverage(Ratee(t), held.rated, once)
                                   ELSE UserAverage(Ratee(t), held.rated, once)
    BY <1>1, <1>2 DEF VotesOK, AboutDriver, AboutUser, DriverAverage, UserAverage
  <2>3. Ratee(t)' = Ratee(t)
    BY <1>3 DEF Ratee
  <2> QED  BY <1>3, <1>4, <2>1, <2>2, <2>3 DEF Averaged, DriverAverage, UserAverage
<1>7. RequestOK(t)'
  BY <1>1, <1>3, <1>4, <1>5, <1>6
     DEF RequestOK, Complete, InPlace, Waits, Held, DriverEdits, VehicleEdits
<1>8. OwnIds(t)'
  BY <1>4 DEF OwnIds, Registering
<1>9. Tables' /\ RowsMove(t)
  BY <1>3, TablesSame
<1>10. VotesOK'
  BY <1>3, VotesSame
<1>11. /\ moved' \in [Moves -> Drivers \cup {None}] /\ session' \in [Drivers -> BOOLEAN]
       /\ once \subseteq once'
  BY <1>3 DEF AccountInv
<1> QED  BY <1>4, <1>7, <1>8, <1>9, <1>10, <1>11, Carried

LEMMA AverageWritten ==
  ASSUME AccountInv, NEW t \in Requests, AvgWrite(t), Outlive, moved' = moved
  PROVE  AccountInv'
<1>1. RequestOK(t) /\ VotesOK /\ Tables
  BY DEF AccountInv
<1>2. /\ pc[t] = "avgWrite" /\ Leave(t)
      /\ UNCHANGED <<vehicle, session, rideDriver, ratings, once>>
  BY DEF AvgWrite
<1>3. PICK who, votes : who = Ratee(t) /\ votes = entity[t].rated
  OBVIOUS
<1>4. job[t].ride \in Rides /\ votes \in SUBSET Votes
  BY <1>1, <1>2, <1>3 DEF RequestOK, InPlace, Complete, Averaged
<1>5. session' \in [Drivers -> BOOLEAN]
  BY <1>2 DEF AccountInv
<1>6. CASE job[t].about = "driver"
  <2>1. who \in Drivers /\ DriverAverage(who, votes, once)
    BY <1>1, <1>2, <1>3, <1>4, <1>6, RatingNames, DeskNames DEF RequestOK, Averaged, Ratee
  <2>2. PICK now, new : /\ now = driver[who]
                        /\ new = IF now \in Absent THEN now ELSE [now EXCEPT !.rated = votes]
    OBVIOUS
  <2>3. driver' = [driver EXCEPT ![who] = new] /\ userRated' = userRated
    BY <1>3, <1>6, <2>2 DEF AvgWrite
  <2>4. now \in DriverRow \cup Absent /\ driver = [e \in Drivers |-> driver[e]]
    BY <1>1, <2>1, <2>2 DEF Tables
  <2>5. new \notin Absent => now \notin Absent /\ new \in DriverRow
                             /\ new.phone = now.phone /\ new.rated = votes
    BY <1>4, <2>2, <2>4 DEF DriverRow
  <2>6. now \notin Absent => PhoneFree(who, now.phone)
    BY <1>1, <2>1, <2>2 DEF Tables, IdentityIsUnique
  <2>7. now \notin Absent => new \notin Absent
    <3>1. CASE now \notin Absent
      <4>1. new \in DriverRow
        BY <1>4, <2>2, <2>4, <3>1 DEF DriverRow
      <4> QED  BY <4>1, RowIsNotAbsent
    <3> QED  BY <3>1
  <2>8. new \in DriverRow \cup Absent /\ (new \in Absent => driver[who] \in Absent)
    BY <2>2, <2>5, <2>7
  <2>9. new \notin Absent => new \in DriverRow /\ PhoneFree(who, new.phone)
                             /\ DriverAverage(who, new.rated, once)
    BY <2>1, <2>5, <2>6
  <2>10. Tables'
    BY <1>2, <2>1, <2>3, <2>8, <2>9, RowWritten
  <2>11. RowsMove(t)
    <3>1. driver'[who] = new /\ \A e \in Drivers \ {who} : driver'[e] = driver[e]
      BY <2>1, <2>3, <2>4
    <3>2. now = None <=> new = None
      BY <2>2, <2>7 DEF Absent
    <3> QED  BY <2>2, <3>1, <3>2 DEF RowsMove
  <2>12. VotesOK'
    BY <1>2, <2>3, VotesSame
  <2> QED  BY <1>2, <1>5, <2>10, <2>11, <2>12, Leaves
<1>7. CASE job[t].about # "driver"
  <2>1. who \in Riders /\ UserAverage(who, votes, once)
    BY <1>1, <1>2, <1>3, <1>4, <1>7, RatingNames DEF RequestOK, Averaged, Ratee
  <2>2. userRated' = [userRated EXCEPT ![who] = votes] /\ UNCHANGED driver
    BY <1>3, <1>7 DEF AvgWrite
  <2>3. VotesOK'
    BY <1>1, <1>2, <2>1, <2>2 DEF VotesOK, OneVotePerRater, UserAverage
  <2>4. Tables' /\ RowsMove(t)
    BY <1>2, <2>2, TablesSame
  <2> QED  BY <1>2, <1>5, <2>3, <2>4, Leaves
<1> QED  BY <1>6, <1>7

\* Money moves beside the requests.
LEMMA MoneyBooked ==
  ASSUME AccountInv, NEW m \in Moves, NEW d \in Registered, Book(m, d), Outlive,
         UNCHANGED <<ratings, userRated, once>>
  PROVE  AccountInv'
<1>1. Tables /\ SlotTables
  BY DEF AccountInv
<1>2. d \in Drivers
  BY DeskNames
<1>3. PICK now, new : now = driver[d] /\ new = [now EXCEPT !.paid = @ \cup {m}]
  OBVIOUS
<1>4. /\ now \notin Absent /\ moved' = [moved EXCEPT ![m] = d]
      /\ driver' = [driver EXCEPT ![d] = new]
      /\ UNCHANGED <<vehicle, session, pc, job, entity, reloaded>>
  BY <1>3 DEF Book
<1>5. now \in DriverRow /\ DriverAverage(d, now.rated, once) /\ PhoneFree(d, now.phone)
  BY <1>1, <1>2, <1>3, <1>4 DEF Tables, IdentityIsUnique
<1>6. new \in DriverRow /\ new.phone = now.phone /\ new.rated = now.rated
  BY <1>3, <1>5 DEF DriverRow
<1>7. new \notin Absent /\ new # None
  BY <1>6, RowIsNotAbsent
<1>8. Tables'
  BY <1>2, <1>4, <1>5, <1>6, <1>7, RowWritten
<1>9. \A e \in Drivers : (driver'[e] = None <=> driver[e] = None)
  <2>1. driver = [e \in Drivers |-> driver[e]]
    BY <1>1 DEF Tables
  <2>2. driver'[d] = new /\ \A e \in Drivers \ {d} : driver'[e] = driver[e]
    BY <1>2, <1>4, <2>1
  <2> QED  BY <1>3, <1>4, <1>7, <2>2 DEF Absent
<1>10. VotesOK' /\ SlotTables'
  BY <1>1, <1>4, VotesSame DEF SlotTables
<1>11. moved' \in [Moves -> Drivers \cup {None}] /\ session' \in [Drivers -> BOOLEAN]
  BY <1>2, <1>4 DEF AccountInv
<1>12. ASSUME NEW u \in Requests
       PROVE  RequestOK(u)'
  BY <1>4, <1>9, RequestKept
<1>13. ASSUME NEW u \in Requests
       PROVE  OwnIds(u)'
  <2>1. OwnIds(u) /\ (Registering(u) => job[u].d \in Drivers)
    BY DEF AccountInv, RequestOK, Complete, Registering
  <2> QED  BY <1>4, <1>9, <2>1 DEF OwnIds, Registering
<1> QED  BY <1>8, <1>10, <1>11, <1>12, <1>13 DEF AccountInv

-----------------------------------------------------------------------------
(* The invariant                                                           *)

LEMMA AccountInit == RatingInit => AccountInv
<1> SUFFICES ASSUME RatingInit
             PROVE  AccountInv
  OBVIOUS
<1>1. /\ driver = [d \in Drivers |->
                      IF d \in Registered
                      THEN [status |-> "approved", online |-> FALSE, active |-> TRUE,
                            phone |-> PhoneOf[d], rated |-> {}, paid |-> {}]
                      ELSE None]
      /\ moved = [m \in Moves |-> None] /\ session = [d \in Drivers |-> d \in Registered]
      /\ pc = [t \in Requests |-> "idle"] /\ job = [t \in Requests |-> NoJob]
      /\ entity = [t \in Requests |-> None] /\ reloaded = [t \in Requests |-> None]
      /\ ratings = {} /\ userRated = [u \in Riders |-> {}] /\ once = {{}}
  BY DEF RatingInit, Init
<1>2. \A d \in Drivers \ Registered : driver[d] \in Absent
  BY <1>1 DEF Absent
<1>3. \A d \in Registered : driver[d] \in DriverRow /\ driver[d].phone = PhoneOf[d]
                            /\ driver[d].rated = {}
  BY <1>1, DeskNames DEF DriverRow, VerificationStatus
<1>4. \A d \in Registered : driver[d] \notin Absent
  BY <1>3, RowIsNotAbsent
<1>5. driver \in [Drivers -> DriverRow \cup Absent]
  <2>1. \A d \in Drivers : driver[d] \in DriverRow \cup Absent
    BY <1>2, <1>3
  <2>2. driver = [d \in Drivers |-> driver[d]]
    BY <1>1
  <2> QED  BY <2>1, <2>2
<1>6. \A d \in Drivers : driver[d] \notin Absent => PhoneFree(d, driver[d].phone)
  BY <1>2, <1>3, DeskIndexes DEF PhoneFree
<1>7. \A votes : votes = {} => \A d : /\ DriverAverage(d, votes, once)
                                      /\ UserAverage(d, votes, once)
  <2>1. ASSUME NEW d
        PROVE  /\ {x \in {} : x.rateeType = "driver" /\ DriverOf[x.ride] = d} = {}
               /\ {x \in {} : x.rateeType = "user" /\ RiderOf[x.ride] = d} = {}
    OBVIOUS
  <2>2. {} \in once
    BY <1>1
  <2> QED  BY <2>1, <2>2 DEF DriverAverage, UserAverage
<1>8. \A d \in Drivers : driver[d] \notin Absent => DriverAverage(d, driver[d].rated, once)
  BY <1>2, <1>3, <1>7
<1>9. PICK owner \in [Vehicles -> Registered] :
        vehicle = [v \in Vehicles |->
                      IF PlateOf[v] = None THEN None
                      ELSE [owner |-> owner[v], plate |-> PlateOf[v], active |-> TRUE]]
  BY DEF RatingInit, Init
<1>10. \A v \in Vehicles :
          /\ PlateOf[v] = None => vehicle[v] = None
          /\ PlateOf[v] # None => /\ vehicle[v] \in VehicleRow /\ vehicle[v].plate = PlateOf[v]
                                  /\ vehicle[v].owner \in Registered
  BY <1>9, DeskNames DEF VehicleRow
<1>11. vehicle \in [Vehicles -> VehicleRow \cup {None}]
  <2>1. vehicle = [v \in Vehicles |-> vehicle[v]]
    BY <1>9
  <2> QED  BY <1>10, <2>1
<1>12. \A v \in Vehicles : vehicle[v] # None => PlateFree(v, vehicle[v].plate)
  BY <1>10, DeskIndexes DEF PlateFree
<1>13. VehiclesHaveOwners
  BY <1>4, <1>10 DEF VehiclesHaveOwners
<1>14. Tables
  BY <1>5, <1>6, <1>8, <1>11, <1>12, <1>13 DEF Tables, IdentityIsUnique
<1>15. VotesOK
  BY <1>1, <1>7 DEF VotesOK, OneVotePerRater
<1>16. SlotTables /\ moved \in [Moves -> Drivers \cup {None}] /\ session \in [Drivers -> BOOLEAN]
  BY <1>1 DEF SlotTables
<1>17. ASSUME NEW t \in Requests
       PROVE  RequestOK(t) /\ OwnIds(t)
  <2>1. pc[t] = "idle" /\ job[t] = NoJob
    BY <1>1
  <2> QED  BY <2>1, NoJobIsJob DEF RequestOK, Complete, InPlace, Waits, Held, Averaged,
                                   DriverEdits, VehicleEdits, OwnIds, Registering
<1> QED  BY <1>14, <1>15, <1>16, <1>17 DEF AccountInv

LEMMA AccountStep == AccountInv /\ [RatingNext]_allVars => AccountInv'
<1> SUFFICES ASSUME AccountInv, [RatingNext]_allVars
             PROVE  AccountInv'
  OBVIOUS
<1>1. CASE UNCHANGED allVars
  <2>1. UNCHANGED <<driver, vehicle, moved, session, pc, job, entity, reloaded, outlived,
                    ratings, userRated, once>>
    BY <1>1 DEF allVars, vars, ratingVars
  <2>2. Tables' /\ VotesOK'
    BY <2>1, TablesSame, VotesSame
  <2> QED  BY <2>1, <2>2 DEF AccountInv, SlotTables, RequestOK, Complete, InPlace, Held,
                             Averaged, DriverAverage, UserAverage, Ratee, resolvePrincipal,
                             OwnIds, Registering
<1>2. CASE Next /\ RidesFollow
  <2>1. UNCHANGED <<ratings, userRated, once>> /\ Outlive
    BY <1>2 DEF Next, RidesFollow
  <2>2. ASSUME NEW t \in Requests, moved' = moved,
               DriverRoutes(t) \/ VehicleRoutes(t) \/ PublicRoutes(t) \/ Step(t) \/ RequestFails(t)
        PROVE  AccountInv'
    <3>1. Beside
      BY <2>1, <2>2 DEF Beside
    <3>2. CASE RequestFails(t)
      BY <3>1, <3>2, Refuses DEF RequestFails
    <3>3. CASE Step(t)
      BY <3>1, <3>3, LookedOn, DriverLoaded, DriverWritten, VehicleSaved, SessionsChanged,
         Removal, DriverRegistered, VehicleInserted, VehicleOwned, VehicleLoaded DEF Step
    <3> QED  BY <2>2, <3>1, <3>2, <3>3, DriverRouted, VehicleRouted, PublicRouted
  <2>3. ASSUME NEW m \in Moves, NEW d \in Registered, Book(m, d)
        PROVE  AccountInv'
    BY <2>1, <2>3, MoneyBooked
  <2> QED  BY <1>2, <2>2, <2>3 DEF Next
<1>3. ASSUME NEW t \in Requests, RatingStep(t), Outlive, moved' = moved
      PROVE  AccountInv'
  <2>1. CASE Rate(t) \/ RateCheck(t)
    <3>1. Beside
      BY <1>3, <2>1 DEF Beside, Rate, RateCheck, ratingVars
    <3> QED  BY <2>1, <3>1, Rated, LookedOn
  <2>2. CASE RateInsert(t)
    BY <1>3, <2>2, VoteInserted
  <2>3. CASE AvgRead(t)
    BY <1>3, <2>3, AverageRead
  <2>4. CASE AvgWrite(t)
    BY <1>3, <2>4, AverageWritten
  <2> QED  BY <1>3, <2>1, <2>2, <2>3, <2>4 DEF RatingStep
<1> QED  BY <1>1, <1>2, <1>3 DEF RatingNext

\* AccountInv holds in every reachable state: whatever number of requests edit,
\* remove, register and rate at once, each row object in flight was read from
\* the row, and an average is one the votes had.
THEOREM AccountInvHolds == RatingSpec => []AccountInv
<1>1. RatingInit => AccountInv
  BY AccountInit
<1>2. AccountInv /\ [RatingNext]_allVars => AccountInv'
  BY AccountStep
<1> QED  BY <1>1, <1>2, PTL DEF RatingSpec

\* Drivers' phones and vehicles' plates stay unique, every vehicle has an owner
\* and a rater one vote on a ride, whatever requests race.
THEOREM RowsSound == RatingSpec => []RowsAgree
<1>1. AccountInv => RowsAgree
  <2> SUFFICES ASSUME AccountInv
               PROVE  RowsAgree
    OBVIOUS
  <2>1. Tables /\ VotesOK /\ SlotTables /\ \A t \in Requests : RequestOK(t)
    BY DEF AccountInv
  <2>2. pc \in [Requests -> Waits]
    BY <2>1 DEF SlotTables, RequestOK
  <2>3. ASSUME NEW t \in Requests, pc[t] \in {"save", "write"}
        PROVE  entity[t] \in IF IsVehicle(t) THEN VehicleRow ELSE DriverRow
    <3>1. RequestOK(t) /\ job[t].op \in DriverEdits \cup VehicleEdits
      BY <2>1, <2>3 DEF RequestOK, InPlace
    <3> QED  BY <2>3, <3>1 DEF RequestOK, Held, IsVehicle
  <2>4. TypeOK
    BY <2>1, <2>2, <2>3 DEF TypeOK, Tables, AccountInv
  <2> QED  BY <2>1, <2>4 DEF RowsAgree, Tables, VotesOK
<1> QED  BY <1>1, AccountInvHolds, PTL

\* No average is ever one its votes did not have at some moment, although the
\* AVG and the UPDATE are two statements and whole rows are saved beside them.
THEOREM AveragesSound == RatingSpec => []AverageWasOnceTrue
<1>1. AccountInv => AverageWasOnceTrue
  BY DEF AccountInv, Tables, VotesOK, AverageWasOnceTrue, DriverAverage, UserAverage
<1> QED  BY <1>1, AccountInvHolds, PTL

-----------------------------------------------------------------------------
(* What a step may do to a driver's row                                    *)

\* A save of another row object than a refused one wrote d's row.
SavedBy(t, d) ==
    /\ pc[t] = "write" /\ ~IsVehicle(t) /\ job[t].d = d
    /\ reloaded[t] \in Absent => driver[d] \in Absent
    /\ driver'[d] = Saved(entity[t], reloaded[t], driver[d])

\* The other steps: the row goes or comes, or keeps what the account is worth.
KeptWorth(d) ==
    \/ driver'[d] = driver[d]
    \/ driver'[d] \in Absent
    \/ driver[d] = None
    \/ driver[d] \notin Absent /\ driver'[d].active = driver[d].active
                               /\ driver'[d].paid = driver[d].paid

LEMMA RowOfAStep ==
  ASSUME AccountInv, RatingNext, moved' = moved, NEW d \in Drivers
  PROVE  KeptWorth(d) \/ \E t \in Requests : SavedBy(t, d)
<1>1. driver = [e \in Drivers |-> driver[e]] /\ Tables
  BY DEF AccountInv, Tables
<1>2. CASE UNCHANGED driver
  BY <1>2 DEF KeptWorth
<1>3. ASSUME NEW t \in Requests, WriteDriver(t), driver' # driver
      PROVE  KeptWorth(d) \/ SavedBy(t, d)
  <2>1. /\ pc[t] = "write" /\ ~IsVehicle(t)
        /\ reloaded[t] \in Absent => driver[job[t].d] \in Absent
        /\ driver' = [driver EXCEPT ![job[t].d] = Saved(entity[t], reloaded[t], driver[job[t].d])]
    BY <1>3 DEF WriteDriver, Refuse
  <2> QED  BY <1>1, <2>1 DEF KeptWorth, SavedBy
<1>4. ASSUME NEW t \in Requests, Delete(t)
      PROVE  KeptWorth(d)
  <2>1. driver' = [driver EXCEPT ![job[t].d] = IF @ = None THEN None ELSE Removed]
    BY <1>4 DEF Delete
  <2> QED  BY <1>1, <2>1 DEF KeptWorth, Absent
<1>5. ASSUME NEW t \in Requests, RegisterInsert(t), driver' # driver
      PROVE  KeptWorth(d)
  <2>1. /\ pc[t] = "insert" /\ job[t].op = "register"
        /\ driver' = [driver EXCEPT ![job[t].d] =
              [status |-> "pending", online |-> FALSE, active |-> TRUE,
               phone |-> job[t].phone, rated |-> {}, paid |-> {}]]
    BY <1>5 DEF RegisterInsert, Refuse
  <2>2. driver[job[t].d] = None
    BY <2>1 DEF AccountInv, OwnIds, Registering
  <2>3. CASE d = job[t].d
    BY <2>2, <2>3 DEF KeptWorth
  <2>4. CASE d # job[t].d
    BY <1>1, <2>1, <2>4 DEF KeptWorth
  <2> QED  BY <2>3, <2>4
<1>6. ASSUME NEW t \in Requests, AvgWrite(t), driver' # driver
      PROVE  KeptWorth(d)
  <2>1. PICK who : who = Ratee(t)
    OBVIOUS
  <2>2. driver' = [driver EXCEPT ![who] =
                      IF @ \in Absent THEN @ ELSE [@ EXCEPT !.rated = entity[t].rated]]
    BY <1>6, <2>1 DEF AvgWrite
  <2>3. CASE who = d /\ driver[d] \notin Absent
    <3>1. driver[d] \in DriverRow
      BY <1>1, <2>3 DEF Tables
    <3>2. driver'[d] = [driver[d] EXCEPT !.rated = entity[t].rated]
      BY <1>1, <2>2, <2>3
    <3>3. driver'[d].active = driver[d].active /\ driver'[d].paid = driver[d].paid
      BY <3>1, <3>2 DEF DriverRow
    <3> QED  BY <2>3, <3>3 DEF KeptWorth
  <2>4. CASE ~(who = d /\ driver[d] \notin Absent)
    BY <1>1, <2>2, <2>4 DEF KeptWorth
  <2> QED  BY <2>3, <2>4
<1>7. ASSUME NEW m \in Moves, NEW e \in Registered, Book(m, e)
      PROVE  FALSE
  <2>1. moved[m] = None /\ moved' = [moved EXCEPT ![m] = e] /\ e # None
    BY <1>7, DeskNames DEF Book
  <2>2. moved \in [Moves -> Drivers \cup {None}]
    BY DEF AccountInv
  <2> QED  BY <2>1, <2>2
<1>8. ASSUME NEW t \in Requests, driver' # driver,
             DriverRoutes(t) \/ VehicleRoutes(t) \/ PublicRoutes(t) \/ Step(t) \/ RequestFails(t)
      PROVE  WriteDriver(t) \/ Delete(t) \/ RegisterInsert(t)
  <2>1. ~(DriverRoutes(t) \/ VehicleRoutes(t) \/ PublicRoutes(t) \/ RequestFails(t))
    <3>1. ~(PublicRoutes(t) \/ RequestFails(t))
      BY <1>8 DEF PublicRoutes, RequestFails, Refuse
    <3>2. \A admin, j, w : ~Admit(t, admin, j, w)
      BY <1>8 DEF Admit
    <3>3. ~DriverRoutes(t)
      BY <3>2, Zenon DEF DriverRoutes
    <3>4. ~VehicleRoutes(t)
      BY <3>2, Zenon DEF VehicleRoutes
    <3> QED  BY <3>1, <3>3, <3>4
  <2>2. ~(LoadDriver(t) \/ CheckPhone(t) \/ Reload(t) \/ WriteVehicle(t) \/ Revoke(t)
          \/ LoadRemoved(t))
    BY <1>8 DEF LoadDriver, CheckPhone, Reload, WriteVehicle, Revoke, LoadRemoved, Refuse
  <2>3. ~(RegisterCheck(t) \/ RegisterVehicle(t) \/ LoginRead(t) \/ IssueSession(t)
          \/ VehicleOwner(t) \/ AddVehicle(t))
    BY <1>8 DEF RegisterCheck, RegisterVehicle, LoginRead, IssueSession, VehicleOwner,
                AddVehicle, InsertVehicle, Refuse
  <2>4. ~(OwnsVehicle(t) \/ LoadVehicle(t) \/ RemoveVehicle(t))
    BY <1>8 DEF OwnsVehicle, LoadVehicle, RemoveVehicle, Refuse
  <2> QED  BY <1>8, <2>1, <2>2, <2>3, <2>4 DEF Step
<1>9. ASSUME NEW t \in Requests, driver' # driver, RatingStep(t)
      PROVE  AvgWrite(t)
  <2>1. ~(Rate(t) \/ RateCheck(t) \/ RateInsert(t) \/ AvgRead(t))
    BY <1>9 DEF Rate, Admit, RateCheck, RateInsert, AvgRead, Refuse
  <2> QED  BY <1>9, <2>1 DEF RatingStep
<1>10. CASE driver' # driver
  BY <1>3, <1>4, <1>5, <1>6, <1>7, <1>8, <1>9, <1>10 DEF RatingNext, Next
<1> QED  BY <1>2, <1>10

LEMMA NothingReinstated ==
  AccountInv /\ [RatingNext]_allVars =>
    [\A d \in Drivers :
        driver[d] # None /\ ~resolvePrincipal(d) /\ resolvePrincipal(d)' =>
            \E t \in Requests :
                /\ pc[t] = "write" /\ job[t].d = d
                /\ \/ t \in outlived
                   \/ job[t].op = "active" /\ job[t].on]_vars
<1> SUFFICES ASSUME AccountInv, RatingNext, NEW d \in Drivers, driver[d] # None,
                    ~resolvePrincipal(d), resolvePrincipal(d)'
             PROVE  \E t \in Requests :
                       /\ pc[t] = "write" /\ job[t].d = d
                       /\ \/ t \in outlived
                          \/ job[t].op = "active" /\ job[t].on
  BY DEF allVars, vars
<1>1. driver'[d] \notin Absent /\ driver'[d].active
  BY DEF resolvePrincipal
<1>2. Tables
  BY DEF AccountInv
<1>3. ASSUME NEW t \in Requests, SavedBy(t, d)
      PROVE  /\ pc[t] = "write" /\ job[t].d = d
             /\ \/ t \in outlived
                \/ job[t].op = "active" /\ job[t].on
  <2>1. PICK now, new : now = driver[d] /\ new = Saved(entity[t], reloaded[t], now)
    OBVIOUS
  <2>2. /\ job[t].op \in DriverEdits
        /\ now \in Absent /\ new \notin Absent => new = entity[t]
        /\ now \notin Absent => new.active \in {entity[t].active, now.active}
    BY <1>3, <2>1, WrittenRow DEF SavedBy
  <2>3. new \notin Absent /\ new.active
    BY <1>1, <1>3, <2>1 DEF SavedBy
  <2>4. now \in Absent \/ ~now.active
    BY <2>1 DEF resolvePrincipal
  <2>5. entity[t].active
    BY <2>2, <2>3, <2>4
  <2>6. Held(t)
    BY DEF AccountInv, RequestOK
  <2> QED  BY <1>3, <2>2, <2>5, <2>6 DEF SavedBy, Held
<1>4. CASE KeptWorth(d)
  BY <1>1, <1>4 DEF KeptWorth, resolvePrincipal
<1>5. CASE moved' = moved
  BY <1>3, <1>4, <1>5, RowOfAStep
<1>6. CASE moved' # moved
  <2>1. PICK m \in Moves, e \in Registered : Book(m, e)
    BY <1>6 DEF RatingNext, Next
  <2>2. e \in Drivers /\ driver = [x \in Drivers |-> driver[x]]
    BY <1>2, DeskNames DEF Tables
  <2>3. /\ driver[e] \notin Absent
        /\ driver' = [driver EXCEPT ![e] = [driver[e] EXCEPT !.paid = @ \cup {m}]]
    BY <2>1 DEF Book
  <2>4. CASE e = d
    <3>1. driver[d] \in DriverRow /\ driver'[d] = [driver[d] EXCEPT !.paid = @ \cup {m}]
      BY <1>2, <2>2, <2>3, <2>4 DEF Tables
    <3>2. driver'[d].active = driver[d].active
      BY <3>1 DEF DriverRow
    <3> QED  BY <1>1, <2>3, <2>4, <3>2 DEF resolvePrincipal
  <2>5. CASE e # d
    <3>1. driver'[d] = driver[d]
      BY <2>2, <2>3, <2>5
    <3> QED  BY <3>1 DEF resolvePrincipal
  <2> QED  BY <2>4, <2>5
<1> QED  BY <1>5, <1>6

\* A suspended or deleted driver comes back only by an admin's reinstatement
\* or by the save of an edit that had arrived before.
THEOREM NobodyReinstated == RatingSpec => OnlyRacesReinstate
<1> QED  BY AccountInvHolds, NothingReinstated, PTL DEF RatingSpec, OnlyRacesReinstate

LEMMA NoMoneyLost ==
  AccountInv /\ [RatingNext]_allVars =>
    [\A d \in Drivers :
        driver[d] \notin Absent /\ BalanceIsBooked(d) =>
            \/ driver'[d] \in Absent
            \/ BalanceIsBooked(d)'
            \/ \E t \in Requests :
                  /\ pc[t] = "write" /\ ~IsVehicle(t) /\ job[t].d = d
                  /\ reloaded[t] \notin Absent
                  /\ entity[t].paid # reloaded[t].paid]_vars
<1> SUFFICES ASSUME AccountInv, RatingNext, NEW d \in Drivers, driver[d] \notin Absent,
                    BalanceIsBooked(d)
             PROVE  \/ driver'[d] \in Absent
                    \/ BalanceIsBooked(d)'
                    \/ \E t \in Requests :
                          /\ pc[t] = "write" /\ ~IsVehicle(t) /\ job[t].d = d
                          /\ reloaded[t] \notin Absent
                          /\ entity[t].paid # reloaded[t].paid
  BY DEF allVars, vars
<1>1. Tables /\ moved \in [Moves -> Drivers \cup {None}]
  BY DEF AccountInv
<1>2. CASE moved' = moved
  <2>1. CASE KeptWorth(d)
    BY <1>2, <2>1 DEF KeptWorth, BalanceIsBooked, Absent
  <2>2. ASSUME NEW t \in Requests, SavedBy(t, d)
        PROVE  \/ driver'[d].paid = driver[d].paid
               \/ /\ pc[t] = "write" /\ ~IsVehicle(t) /\ job[t].d = d
                  /\ reloaded[t] \notin Absent
                  /\ entity[t].paid # reloaded[t].paid
    <3>1. PICK now, new : now = driver[d] /\ new = Saved(entity[t], reloaded[t], now)
      OBVIOUS
    <3>2. /\ reloaded[t] \notin Absent
          /\ new.paid = IF entity[t].paid # reloaded[t].paid THEN entity[t].paid ELSE now.paid
      BY <2>2, <3>1, WrittenRow DEF SavedBy
    <3> QED  BY <2>2, <3>1, <3>2 DEF SavedBy
  <2> QED  BY <1>2, <2>1, <2>2, RowOfAStep DEF BalanceIsBooked
<1>3. CASE moved' # moved
  <2>1. PICK m \in Moves, e \in Registered : Book(m, e)
    BY <1>3 DEF RatingNext, Next
  <2>2. e \in Drivers /\ e # None /\ driver = [x \in Drivers |-> driver[x]]
    BY <1>1, DeskNames DEF Tables
  <2>3. /\ driver[e] \notin Absent /\ moved[m] = None /\ moved' = [moved EXCEPT ![m] = e]
        /\ driver' = [driver EXCEPT ![e] = [driver[e] EXCEPT !.paid = @ \cup {m}]]
    BY <2>1 DEF Book
  <2>4. moved'[m] = e /\ \A x \in Moves \ {m} : moved'[x] = moved[x]
    BY <1>1, <2>3
  <2>5. CASE e = d
    <3>1. driver[d] \in DriverRow /\ driver'[d] = [driver[d] EXCEPT !.paid = @ \cup {m}]
      BY <1>1, <2>2, <2>3, <2>5 DEF Tables
    <3>2. driver'[d].paid = driver[d].paid \cup {m}
      BY <3>1 DEF DriverRow
    <3>3. {x \in Moves : moved'[x] = d} = {x \in Moves : moved[x] = d} \cup {m}
      BY <2>4, <2>5
    <3> QED  BY <3>2, <3>3 DEF BalanceIsBooked
  <2>6. CASE e # d
    <3>1. driver'[d] = driver[d]
      BY <2>2, <2>3, <2>6
    <3>2. {x \in Moves : moved'[x] = d} = {x \in Moves : moved[x] = d}
      BY <2>2, <2>3, <2>4, <2>6, DeskNames
    <3> QED  BY <3>1, <3>2 DEF BalanceIsBooked
  <2> QED  BY <2>5, <2>6
<1> QED  BY <1>2, <1>3

\* The balance column leaves the ledger only by a save whose row object was
\* loaded before money moved and whose re-read came after.
THEOREM MoneySafe == RatingSpec => OnlyStaleSavesLoseMoney
<1> QED  BY AccountInvHolds, NoMoneyLost, PTL DEF RatingSpec, OnlyStaleSavesLoseMoney
=============================================================================

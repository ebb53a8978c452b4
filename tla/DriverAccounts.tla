--------------------------- MODULE DriverAccounts ---------------------------
(***************************************************************************)
(* Driver accounts and their vehicles: DriversService and VehiclesService  *)
(* behind the guards of their controllers.  A request t is one HTTP call:  *)
(* the guards admit it (Admit), then its handler runs one awaited call per *)
(* step.  No handler takes a lock.                                         *)
(*                                                                         *)
(* As in RideLifecycle, repository.save(entity) is TypeORM's: it re-reads  *)
(* the row (Reload) and then updates the columns in which the entity       *)
(* differs from it, or inserts the entity when the row is gone (Write).    *)
(*                                                                         *)
(* Abstractions.  phone stands for the three unique columns of a driver    *)
(* (phone, email, licence), which are checked and indexed alike, plate for *)
(* the columns of a vehicle's update.  rated is ratingAverage, as the set  *)
(* of votes it averages, and paid is walletBalance, as the set of the      *)
(* movements it sums up.  session[d] says whether a refresh token of d is  *)
(* live.  Wallet and TokenSessions have the detail of these tables.  A     *)
(* request slot serves one request.                                        *)
(***************************************************************************)
EXTENDS Naturals, FiniteSets

CONSTANTS
    Requests,         \* slots, one request each
    Drivers,          \* driver ids
    Registered,       \* the drivers there are at first
    Vehicles,         \* vehicle ids
    Phones, Plates,
    PhoneOf, PlateOf, \* what the registered drivers and their vehicles have
    Votes,            \* ratings that may be given
    Moves,            \* movements of money that may be booked
    Failures,         \* may calls be rejected and processes die?
    None,             \* no row, no value
    Removed           \* the row of a deleted driver

ASSUME DeskNames ==
    /\ Registered \subseteq Drivers
    /\ PhoneOf \in [Registered -> Phones]
    /\ PlateOf \in [Vehicles -> Plates \cup {None}]
    /\ None \notin Drivers \cup Vehicles \cup Phones \cup Plates
    /\ Removed # None
    /\ Failures \in BOOLEAN

\* The unique indexes hold of the rows there are at first.
ASSUME DeskIndexes ==
    /\ \A d, e \in Registered : PhoneOf[d] = PhoneOf[e] => d = e
    /\ \A v, w \in Vehicles : PlateOf[v] = PlateOf[w] /\ PlateOf[v] # None => v = w

\* pending stands for rejected too: no handler asks which of the two.
VerificationStatus == {"pending", "approved"}
DriverRow == [status: VerificationStatus, online: BOOLEAN, active: BOOLEAN,
              phone: Phones, rated: SUBSET Votes, paid: SUBSET Moves]
VehicleRow == [owner: Drivers, plate: Plates, active: BOOLEAN]
Absent == {None, Removed}

ASSUME AbsentIsNoRow == Absent \cap DriverRow = {}

DriverEdits == {"online", "verify", "active", "update"}
VehicleEdits == {"plate", "activate"}

VARIABLES
    driver,    \* driver[d]: row of drivers
    vehicle,   \* vehicle[v]: row of vehicles
    moved,     \* moved[m]: the driver the ledger books m to, or None
    session,   \* session[d]: d has a live refresh token
    pc,        \* pc[t]: the await the request stands at
    job,       \* job[t]: what it was asked, by whom
    entity,    \* entity[t]: the row object it loaded and edits
    reloaded,  \* reloaded[t]: what save read back
    outlived   \* history: the edits of a driver in flight that arrived before
               \* the driver was suspended or deleted; no guard reads it

vars == <<driver, vehicle, moved, session, pc, job, entity, reloaded, outlived>>

\* What a request asks: the operation, the driver and vehicle it names, and
\* the values in its body.
NoJob == [op |-> "none", d |-> None, v |-> None, on |-> FALSE, status |-> "pending",
          phone |-> None, plate |-> None, ride |-> None, about |-> "driver",
          admin |-> FALSE]

Init ==
    /\ driver = [d \in Drivers |->
                    IF d \in Registered
                    THEN [status |-> "approved", online |-> FALSE,
                          active |-> TRUE, phone |-> PhoneOf[d], rated |-> {},
                          paid |-> {}]
                    ELSE None]
    /\ \E owner \in [Vehicles -> Registered] :
          vehicle = [v \in Vehicles |->
                        IF PlateOf[v] = None THEN None
                        ELSE [owner |-> owner[v], plate |-> PlateOf[v],
                              active |-> TRUE]]
    /\ moved = [m \in Moves |-> None]
    /\ session = [d \in Drivers |-> d \in Registered]
    /\ pc = [t \in Requests |-> "idle"]
    /\ job = [t \in Requests |-> NoJob]
    /\ entity = [t \in Requests |-> None]
    /\ reloaded = [t \in Requests |-> None]
    /\ outlived = {}

PhoneFree(d, phone) ==
    \A e \in Drivers \ {d} : driver[e] \in Absent \/ driver[e].phone # phone
PlateFree(v, plate) ==
    \A w \in Vehicles \ {v} : vehicle[w] = None \/ vehicle[w].plate # plate

\* Steps of one request.
Goto(t, where) == pc' = [pc EXCEPT ![t] = where]
Leave(t) ==
    /\ Goto(t, "done")
    /\ job' = [job EXCEPT ![t] = NoJob]
    /\ entity' = [entity EXCEPT ![t] = None]
    /\ reloaded' = [reloaded EXCEPT ![t] = None]
Refuse(t) == Leave(t) /\ UNCHANGED <<driver, vehicle, session>>
Hold(t, e) == entity' = [entity EXCEPT ![t] = e]

-----------------------------------------------------------------------------
(* Guards and arrivals                                                     *)

\* assertOwnership: an admin may act on anything, a driver on what is theirs.
canActOnBehalfOf(admin, me, owner) == admin \/ me = owner

\* findForAuth: a driver's token is good while the row is there and active.
resolvePrincipal(d) == driver[d] \notin Absent /\ driver[d].active

\* JwtAuthGuard, RolesGuard and the ownership of the id in the path, which is
\* one that was handed out.
Admit(t, admin, j, first) ==
    /\ pc[t] = "idle"
    /\ driver[j.d] # None
    /\ ~admin => resolvePrincipal(j.d)
    /\ job' = [job EXCEPT ![t] = j]
    /\ Goto(t, first)
    /\ UNCHANGED <<driver, vehicle, session, entity, reloaded>>

DriverRoutes(t) ==
    \E d \in Drivers, admin \in BOOLEAN :
        LET ask(op) == [NoJob EXCEPT !.op = op, !.d = d] IN
        \/ \E on \in BOOLEAN :
              \/ ~admin /\ Admit(t, admin, [ask("online") EXCEPT !.on = on], "load")
              \/ admin /\ Admit(t, admin, [ask("active") EXCEPT !.on = on], "load")
        \/ \E status \in VerificationStatus :
              admin /\ Admit(t, admin, [ask("verify") EXCEPT !.status = status], "load")
        \/ \E phone \in Phones :
              Admit(t, admin, [ask("update") EXCEPT !.phone = phone], "load")
        \/ admin /\ Admit(t, admin, ask("remove"), "load")

\* A row that is inserted has an id nobody knows yet.
FreshVehicle(v) == vehicle[v] = None /\ \A u \in Requests : job[u].v # v

VehicleRoutes(t) ==
    \E d \in Drivers, v \in Vehicles, admin \in BOOLEAN :
        LET ask(op) == [NoJob EXCEPT !.op = op, !.d = d, !.v = v]
            edit(op) == [ask(op) EXCEPT !.admin = admin]
        IN
        \/ \E plate \in Plates :
              \/ /\ FreshVehicle(v)
                 /\ Admit(t, admin, [ask("addVehicle") EXCEPT !.plate = plate], "owner")
              \/ Admit(t, admin, [edit("plate") EXCEPT !.plate = plate], "owns")
        \/ \E on \in BOOLEAN : Admit(t, admin, [edit("activate") EXCEPT !.on = on], "owns")
        \/ Admit(t, admin, edit("removeVehicle"), "owns")

\* register and login carry no token.
PublicRoutes(t) ==
    /\ pc[t] = "idle"
    /\ \E d \in Drivers :
          \/ /\ job' = [job EXCEPT ![t] = [NoJob EXCEPT !.op = "login", !.d = d]]
             /\ Goto(t, "login")
          \/ \E v \in Vehicles, phone \in Phones, plate \in Plates :
                /\ driver[d] = None /\ \A u \in Requests : job[u].d # d
                /\ FreshVehicle(v)
                /\ job' = [job EXCEPT ![t] =
                      [NoJob EXCEPT !.op = "register", !.d = d, !.v = v,
                                    !.phone = phone, !.plate = plate]]
                /\ Goto(t, "check")
    /\ UNCHANGED <<driver, vehicle, session, entity, reloaded>>

-----------------------------------------------------------------------------
(* repository.save(entity)                                                 *)

IsVehicle(t) == job[t].op \in VehicleEdits
RowOf(t) == IF IsVehicle(t) THEN vehicle[job[t].v] ELSE driver[job[t].d]

Reload(t) ==
    /\ pc[t] = "save"
    /\ reloaded' = [reloaded EXCEPT ![t] = RowOf(t)]
    /\ Goto(t, "write")
    /\ UNCHANGED <<driver, vehicle, session, job, entity>>

\* Fault: every column of the entity is written.
SavedWhole(mine, read, now) ==
    IF read \in Absent THEN mine ELSE IF now \in Absent THEN now ELSE mine

\* The row after an UPDATE of the columns that differ from the re-read row;
\* a row deleted meanwhile stays so, a row that was gone already is inserted.
Saved(mine, read, now) ==
    IF read \in Absent THEN mine
    ELSE IF now \in Absent THEN now
    ELSE [c \in DOMAIN mine |-> IF mine[c] # read[c] THEN mine[c] ELSE now[c]]

\* Losing approval or the account ends the session.
EndsSession(j) ==
    \/ j.op = "verify" /\ j.status # "approved"
    \/ j.op = "active" /\ ~j.on

WriteDriver(t) ==
    LET d == job[t].d
        new == Saved(entity[t], reloaded[t], driver[d])
    IN  /\ pc[t] = "write" /\ ~IsVehicle(t)
        /\ IF \/ reloaded[t] \in Absent /\ driver[d] \notin Absent
              \/ new \notin Absent /\ ~PhoneFree(d, new.phone)
           THEN Refuse(t)
           ELSE /\ driver' = [driver EXCEPT ![d] = new]
                /\ UNCHANGED <<vehicle, session>>
                /\ IF EndsSession(job[t])
                   THEN Goto(t, "revoke") /\ UNCHANGED <<job, entity, reloaded>>
                   ELSE Leave(t)

WriteVehicle(t) ==
    LET v == job[t].v
        new == Saved(entity[t], reloaded[t], vehicle[v])
    IN  /\ pc[t] = "write" /\ IsVehicle(t)
        /\ IF \/ reloaded[t] = None /\ vehicle[v] # None
              \/ new # None /\ (driver[new.owner] \in Absent \/ ~PlateFree(v, new.plate))
           THEN Refuse(t)
           ELSE /\ vehicle' = [vehicle EXCEPT ![v] = new]
                /\ Leave(t)
                /\ UNCHANGED <<driver, session>>

-----------------------------------------------------------------------------
(* DriversService                                                          *)

\* Fault: approving a driver reinstates them.
EditedReinstating(j, row) ==
    CASE j.op = "online" -> [row EXCEPT !.online = j.on]
      [] j.op = "verify" -> [row EXCEPT !.status = j.status, !.active = TRUE,
                                        !.online = @ /\ j.status = "approved"]
      [] j.op = "active" -> [row EXCEPT !.active = j.on, !.online = @ /\ j.on]
      [] j.op = "update" -> [row EXCEPT !.phone = j.phone]

\* What the handler sets in the row it loaded.
Edited(j, row) ==
    CASE j.op = "online" -> [row EXCEPT !.online = j.on]
      [] j.op = "verify" -> [row EXCEPT !.status = j.status,
                                        !.online = @ /\ j.status = "approved"]
      [] j.op = "active" -> [row EXCEPT !.active = j.on, !.online = @ /\ j.on]
      [] j.op = "update" -> [row EXCEPT !.phone = j.phone]

\* Only approved, active drivers go online; going offline is always allowed.
MayGoOnline(row) == row.status = "approved" /\ row.active

LoadDriver(t) ==
    LET d == job[t].d  row == driver[d] IN
    /\ pc[t] = "load" /\ job[t].op \in DriverEdits
    /\ IF row \in Absent \/ (job[t].op = "online" /\ job[t].on /\ ~MayGoOnline(row))
       THEN Refuse(t)
       ELSE /\ Hold(t, Edited(job[t], row))
            /\ Goto(t, IF job[t].op = "update" THEN "phone" ELSE "save")
            /\ UNCHANGED <<driver, vehicle, session, job, reloaded>>

\* update looks for the phone only when it changes.
CheckPhone(t) ==
    LET d == job[t].d IN
    /\ pc[t] = "phone"
    /\ IF PhoneFree(d, job[t].phone)
       THEN Goto(t, "save") /\ UNCHANGED <<driver, vehicle, session, job, entity, reloaded>>
       ELSE Refuse(t)

\* revokeAllForSubject: after the save, or before the removal.
Revoke(t) ==
    LET d == job[t].d IN
    /\ pc[t] = "revoke"
    /\ session' = [session EXCEPT ![d] = FALSE]
    /\ UNCHANGED <<driver, vehicle>>
    /\ IF job[t].op = "remove"
       THEN Goto(t, "delete") /\ UNCHANGED <<job, entity, reloaded>>
       ELSE Leave(t)

LoadRemoved(t) ==
    /\ pc[t] = "load" /\ job[t].op = "remove"
    /\ IF driver[job[t].d] \in Absent
       THEN Refuse(t)
       ELSE Goto(t, "revoke") /\ UNCHANGED <<driver, vehicle, session, job, entity, reloaded>>

\* The vehicles go with their driver: what the foreign key cascades to.
CascadeVehicles(d) ==
    [v \in Vehicles |-> IF vehicle[v] # None /\ vehicle[v].owner = d
                        THEN None ELSE vehicle[v]]

\* Fault: the vehicles stay.
DeleteAlone(t) ==
    /\ pc[t] = "delete" /\ job[t].op = "remove"
    /\ driver' = [driver EXCEPT ![job[t].d] = IF @ = None THEN None ELSE Removed]
    /\ Leave(t)
    /\ UNCHANGED <<vehicle, session>>

Delete(t) ==
    LET d == job[t].d IN
    /\ pc[t] = "delete" /\ job[t].op = "remove"
    /\ driver' = [driver EXCEPT ![d] = IF @ = None THEN None ELSE Removed]
    /\ vehicle' = CascadeVehicles(d)
    /\ Leave(t)
    /\ UNCHANGED session

\* create: the four look-ups, each of which its unique column repeats.
RegisterCheck(t) ==
    LET d == job[t].d  v == job[t].v IN
    /\ pc[t] = "check"
    /\ IF PhoneFree(d, job[t].phone) /\ PlateFree(v, job[t].plate)
       THEN Goto(t, "insert") /\ UNCHANGED <<driver, vehicle, session, job, entity, reloaded>>
       ELSE Refuse(t)

RegisterInsert(t) ==
    LET d == job[t].d IN
    /\ pc[t] = "insert" /\ job[t].op = "register"
    /\ IF PhoneFree(d, job[t].phone)
       THEN /\ driver' = [driver EXCEPT ![d] =
                  [status |-> "pending", online |-> FALSE, active |-> TRUE,
                   phone |-> job[t].phone, rated |-> {}, paid |-> {}]]
            /\ Goto(t, "vehicle")
            /\ UNCHANGED <<vehicle, session, job, entity, reloaded>>
       ELSE Refuse(t)

\* The unique plate and the foreign key to the driver decide.
InsertVehicle(t) ==
    LET d == job[t].d  v == job[t].v IN
    IF driver[d] \in Absent \/ ~PlateFree(v, job[t].plate)
    THEN Refuse(t)
    ELSE /\ vehicle' = [vehicle EXCEPT ![v] =
                [owner |-> d, plate |-> job[t].plate, active |-> TRUE]]
         /\ UNCHANGED <<driver, session>>
         /\ IF job[t].op = "register"
            THEN Goto(t, "issue") /\ UNCHANGED <<job, entity, reloaded>>
            ELSE Leave(t)

RegisterVehicle(t) == pc[t] = "vehicle" /\ InsertVehicle(t)

\* The password has been compared; the row says whether the account is active.
LoginRead(t) ==
    /\ pc[t] = "login"
    /\ IF resolvePrincipal(job[t].d)
       THEN Goto(t, "issue") /\ UNCHANGED <<driver, vehicle, session, job, entity, reloaded>>
       ELSE Refuse(t)

IssueSession(t) ==
    /\ pc[t] = "issue"
    /\ session' = [session EXCEPT ![job[t].d] = TRUE]
    /\ Leave(t)
    /\ UNCHANGED <<driver, vehicle>>

-----------------------------------------------------------------------------
(* VehiclesService                                                         *)

\* create: the driver must be there and active, the plate free.
VehicleOwner(t) ==
    /\ pc[t] = "owner"
    /\ IF resolvePrincipal(job[t].d) /\ PlateFree(job[t].v, job[t].plate)
       THEN Goto(t, "insert") /\ UNCHANGED <<driver, vehicle, session, job, entity, reloaded>>
       ELSE Refuse(t)

AddVehicle(t) ==
    pc[t] = "insert" /\ job[t].op = "addVehicle" /\ InsertVehicle(t)

\* assertOwnsVehicle: past it nobody asks who sent the request.
OwnsVehicle(t) ==
    LET row == vehicle[job[t].v] IN
    /\ pc[t] = "owns"
    /\ IF row # None /\ canActOnBehalfOf(job[t].admin, job[t].d, row.owner)
       THEN /\ Goto(t, IF IsVehicle(t) THEN "loadVehicle" ELSE "delete")
            /\ job' = [job EXCEPT ![t].d = None, ![t].admin = FALSE]
            /\ UNCHANGED <<driver, vehicle, session, entity, reloaded>>
       ELSE Refuse(t)

LoadVehicle(t) ==
    LET v == job[t].v  row == vehicle[v] IN
    /\ pc[t] = "loadVehicle"
    /\ IF row = None \/ (job[t].op = "plate" /\ ~PlateFree(v, job[t].plate))
       THEN Refuse(t)
       ELSE /\ Hold(t, IF job[t].op = "plate"
                       THEN [row EXCEPT !.plate = job[t].plate]
                       ELSE [row EXCEPT !.active = job[t].on])
            /\ Goto(t, "save")
            /\ UNCHANGED <<driver, vehicle, session, job, reloaded>>

RemoveVehicle(t) ==
    /\ pc[t] = "delete" /\ job[t].op = "removeVehicle"
    /\ vehicle' = [vehicle EXCEPT ![job[t].v] = None]
    /\ Leave(t)
    /\ UNCHANGED <<driver, session>>

-----------------------------------------------------------------------------

\* A wallet transaction, which locks the driver's row while it reads, checks
\* and writes the balance and the ledger entry.  Bound: money moves while some
\* request saves the driver's row; at any other time no request could tell.
Book(m, d) ==
    /\ moved[m] = None
    /\ \E t \in Requests : pc[t] \in {"save", "write"} /\ job[t].d = d /\ ~IsVehicle(t)
    /\ driver[d] \notin Absent
    /\ moved' = [moved EXCEPT ![m] = d]
    /\ driver' = [driver EXCEPT ![d].paid = @ \cup {m}]
    /\ UNCHANGED <<vehicle, session, pc, job, entity, reloaded>>

\* A call is rejected or the process dies: what was committed stays.
RequestFails(t) ==
    /\ Failures
    /\ pc[t] \notin {"idle", "done"}
    /\ Refuse(t)

Step(t) ==
    \/ LoadDriver(t) \/ CheckPhone(t) \/ Reload(t)
    \/ WriteDriver(t) \/ WriteVehicle(t)
    \/ Revoke(t) \/ LoadRemoved(t) \/ Delete(t)
    \/ RegisterCheck(t) \/ RegisterInsert(t) \/ RegisterVehicle(t)
    \/ LoginRead(t) \/ IssueSession(t)
    \/ VehicleOwner(t) \/ AddVehicle(t) \/ OwnsVehicle(t)
    \/ LoadVehicle(t) \/ RemoveVehicle(t)

GoesOut(d) == resolvePrincipal(d) /\ ~resolvePrincipal(d)'

Outlive ==
    outlived' = {t \in Requests :
                    /\ job'[t].op \in DriverEdits
                    /\ t \in outlived \/ (pc[t] # "idle" /\ GoesOut(job[t].d))}

Next ==
    /\ \/ /\ \E t \in Requests :
                \/ DriverRoutes(t) \/ VehicleRoutes(t) \/ PublicRoutes(t)
                \/ Step(t) \/ RequestFails(t)
          /\ UNCHANGED moved
       \/ \E m \in Moves, d \in Registered : Book(m, d)
    /\ Outlive

Spec == Init /\ [][Next]_vars

-----------------------------------------------------------------------------
(* Properties                                                              *)

Waits == {"idle", "done", "load", "phone", "save", "write", "revoke", "delete",
          "check", "insert", "vehicle", "login", "issue", "owner", "owns",
          "loadVehicle", "rateCheck", "rateInsert", "avgRead", "avgWrite"}

\* Rows, sessions and requests keep their types, and what a save holds is a
\* row of the table it saves to.
TypeOK ==
    /\ driver \in [Drivers -> DriverRow \cup Absent]
    /\ vehicle \in [Vehicles -> VehicleRow \cup {None}]
    /\ moved \in [Moves -> Drivers \cup {None}]
    /\ session \in [Drivers -> BOOLEAN]
    /\ pc \in [Requests -> Waits]
    /\ \A t \in Requests :
          pc[t] \in {"save", "write"} =>
              entity[t] \in IF IsVehicle(t) THEN VehicleRow ELSE DriverRow

\* No two drivers have one phone and no two vehicles one plate, although every
\* handler looks first and inserts or saves later, and a stale save may bring
\* back what its owner has changed meanwhile.
IdentityIsUnique ==
    /\ \A d \in Drivers : driver[d] \notin Absent => PhoneFree(d, driver[d].phone)
    /\ \A v \in Vehicles : vehicle[v] # None => PlateFree(v, vehicle[v].plate)

\* Every vehicle belongs to a driver there is: a driver's removal meets
\* vehicles that are being added or saved.
VehiclesHaveOwners ==
    \A v \in Vehicles : vehicle[v] # None => driver[vehicle[v].owner] \notin Absent

\* A suspended or deleted driver is back only by an admin's reinstatement, or
\* by a save of a request that arrived before they were.  (Such a save does
\* bring them back: it writes the row it loaded.)
OnlyRacesReinstate ==
    [][\A d \in Drivers :
          driver[d] # None /\ ~resolvePrincipal(d) /\ resolvePrincipal(d)' =>
              \E t \in Requests :
                  /\ pc[t] = "write" /\ job[t].d = d
                  /\ \/ t \in outlived
                     \/ job[t].op = "active" /\ job[t].on]_vars

BalanceIsBooked(d) == driver[d].paid = {m \in Moves : moved[m] = d}

\* The balance column stays what the ledger says, whatever is saved beside the
\* wallet, but for a save whose handler loaded the row before money moved and
\* whose re-read came after: that one writes the old balance back.
OnlyStaleSavesLoseMoney ==
    [][\A d \in Drivers :
          driver[d] \notin Absent /\ BalanceIsBooked(d) =>
              \/ driver'[d] \in Absent
              \/ BalanceIsBooked(d)'
              \/ \E t \in Requests :
                    /\ pc[t] = "write" /\ ~IsVehicle(t) /\ job[t].d = d
                    /\ reloaded[t] \notin Absent
                    /\ entity[t].paid # reloaded[t].paid]_vars
=============================================================================

------------------------------ MODULE LiveRide ------------------------------
(***************************************************************************)
(* What is pushed to the apps: RidesGateway with its socket rooms, the     *)
(* ride events of RidesService and EmergencyService that it fans out, and  *)
(* DriverLocationsService, whose positions it forwards to the ride the     *)
(* driver's active-ride pointer names.                                     *)
(*                                                                         *)
(* A request slot t runs one handler, one awaited call per step: it loads  *)
(* a ride, checks it, saves it (TypeORM reads the row again and updates    *)
(* the columns that differ), moves the pointer, and announces the entity   *)
(* it saved.  Requests overtake each other at every step, as they do in    *)
(* RideLifecycle; only completeRide, which holds the row lock from its     *)
(* read to its commit, is one step up to the commit.  A fan-out is one     *)
(* step: it runs without an await.  A socket stands for an app of the      *)
(* account it connects as; when it drops, its rooms are gone.              *)
(*                                                                         *)
(* Abstractions.  The driver's and the vehicle's own checks in acceptRide  *)
(* (DriverAccounts) are left out: one who fails them is refused, which     *)
(* Abandon covers.  Drivers are not removed here (DriverAccounts, again).  *)
(***************************************************************************)
EXTENDS Naturals, FiniteSets

CONSTANTS
    Rides, Users, Drivers, Admins,
    RiderOf,       \* RiderOf[r]: the ride's userId
    CategoryOf,    \* CategoryOf[r]
    Serves,        \* Serves[d]: the categories d's active vehicles allow
    Requests,      \* slots for requests in flight
    Sockets,
    MaxActiveSharedRides,
    SlowHandlers,  \* may a handler outlive the 10 s of its Redis lock?
    None

ASSUME LiveNames ==
    /\ RiderOf \in [Rides -> Users]
    /\ None \notin Rides \cup Drivers \cup Users \cup Admins
    /\ Users \cap Drivers = {}
    /\ SlowHandlers \in BOOLEAN

Status == {"none", "requested", "accepted", "arrived", "in_progress", "completed", "cancelled"}
Active == {"accepted", "arrived", "in_progress"}
Accounts == Users \cup Drivers \cup Admins

VARIABLES
    row,     \* row[r]: status and driver of the ride's row
    work,    \* work[t]: the handler in slot t
    pointer, \* pointer[d]: d's active-ride key in Redis
    heading, \* heading[d]: the ride d's position update read in the pointer
    who,     \* who[s]: the account the connected socket has proven to be
    rooms,   \* rooms[s]: the rooms it is in
    asking,  \* asking[s]: the ride room it was let into, before the join
    sent,    \* the event that was sent in this step, and to whom
    served,  \* history: served[r]: the drivers the ride has had
    raced    \* history: the rides written by a save that was overtaken

ride == <<row, work, pointer, served, raced>>
socket == <<who, rooms, asking>>
vars == <<ride, heading, socket, sent>>

NoRow == [status |-> "none", driver |-> None]

\* wants is the entity, read what save read back, stale says whether the row
\* was written since the entity was loaded.
Idle == [at |-> "idle", ride |-> None, wants |-> NoRow, read |-> NoRow, stale |-> FALSE]

Silence == [event |-> "none", ride |-> None, from |-> None, to |-> {}]
Quiet == sent' = Silence

Init ==
    /\ row = [r \in Rides |-> NoRow]
    /\ work = [t \in Requests |-> Idle]
    /\ pointer = [d \in Drivers |-> None]
    /\ heading = [d \in Drivers |-> None]
    /\ who = [s \in Sockets |-> None]
    /\ rooms = [s \in Sockets |-> {}]
    /\ asking = [s \in Sockets |-> None]
    /\ sent = Silence
    /\ served = [r \in Rides |-> {}]
    /\ raced = {}

\* ROOMS.
RideRoom(r) == <<"ride", r>>
UserRoom(u) == <<"user", u>>
DriverRoom(d) == <<"driver", d>>
Available(category) == <<"available", category>>
OpsEmergency == <<"ops", "emergency">>

-----------------------------------------------------------------------------
(* Connections                                                             *)

\* handleConnection: the token is good and the account in order, and the socket
\* enters the account's own room, with no await between.
Connect(s) ==
    /\ who[s] = None
    /\ \E a \in Accounts :
          /\ who' = [who EXCEPT ![s] = a]
          /\ rooms' = [rooms EXCEPT ![s] = {IF a \in Drivers THEN DriverRoom(a) ELSE UserRoom(a)}]
    /\ UNCHANGED <<ride, heading, asking>> /\ Quiet

Enter(s, more) == rooms' = [rooms EXCEPT ![s] = @ \cup more]

\* joinDriverRooms: when the driver's vehicles have been looked up, the rooms of
\* the categories they can serve.
JoinDriverRooms(s) ==
    /\ who[s] \in Drivers
    /\ Enter(s, {Available(c) : c \in Serves[who[s]]})
    /\ UNCHANGED <<ride, heading, who, asking>> /\ Quiet

\* The network is lost, the app closed, or a step of the connection fails.
Disconnect(s) ==
    /\ who[s] # None
    /\ who' = [who EXCEPT ![s] = None]
    /\ rooms' = [rooms EXCEPT ![s] = {}]
    /\ asking' = [asking EXCEPT ![s] = None]
    /\ UNCHANGED <<ride, heading>> /\ Quiet

\* Fault: whoever is connected may listen to any ride.
AnybodyIsParty(a, r) == a \in Accounts

isPartyToRide(a, r) == a \in Admins \/ a = RiderOf[r] \/ a = row[r].driver

\* join:ride is checked against the ride's parties as they were read, then done.
\* Bound: one at a time.
handleJoinRide(s, r) ==
    /\ who[s] # None /\ row[r].status # "none"
    /\ asking[s] = None /\ RideRoom(r) \notin rooms[s]
    /\ isPartyToRide(who[s], r)
    /\ asking' = [asking EXCEPT ![s] = r]
    /\ UNCHANGED <<ride, heading, who, rooms>> /\ Quiet

JoinRideRoom(s) ==
    /\ asking[s] # None
    /\ Enter(s, {RideRoom(asking[s])})
    /\ asking' = [asking EXCEPT ![s] = None]
    /\ UNCHANGED <<ride, heading, who>> /\ Quiet

handleLeaveRide(s, r) ==
    /\ who[s] # None /\ RideRoom(r) \in rooms[s]
    /\ rooms' = [rooms EXCEPT ![s] = @ \ {RideRoom(r)}]
    /\ UNCHANGED <<ride, heading, who, asking>> /\ Quiet

-----------------------------------------------------------------------------
(* Changes of a ride                                                       *)

Stage(t, h) == work' = [work EXCEPT ![t] = h]
Aside == UNCHANGED <<heading, socket>> /\ Quiet

\* A request is about to make wants of ride r.
Handler(r, wants, at) == [Idle EXCEPT !.ride = r, !.wants = wants, !.at = at]
Begin(t, r, wants, at) == work[t] = Idle /\ Stage(t, Handler(r, wants, at))

Loaded(h) == h.at \in {"limits", "save", "write"}

\* The row of r becomes new, and t goes on as h; whoever has loaded r before is
\* overtaken.
Commit(t, r, new, h) ==
    /\ row' = [row EXCEPT ![r] = new]
    /\ served' = [served EXCEPT ![r] = @ \cup ({new.driver} \ {None})]
    /\ work' = [u \in Requests |->
                   IF u = t THEN h
                   ELSE IF work[u].ride = r /\ Loaded(work[u]) /\ new # row[r]
                        THEN [work[u] EXCEPT !.stale = TRUE] ELSE work[u]]

\* createRide's INSERT (Booking has what comes before).
CreateRide(t, r) ==
    LET new == [status |-> "requested", driver |-> None] IN
    /\ work[t] = Idle /\ row[r].status = "none"
    /\ Commit(t, r, new, Handler(r, new, "emit"))
    /\ UNCHANGED <<pointer, raced>> /\ Aside

\* lock:ride:<id>, which acceptRide and completeRide take.
LockFree(r) ==
    SlowHandlers \/ \A u \in Requests :
        work[u].ride = r => work[u].wants.status \notin {"accepted", "completed"}

\* acceptRide loads the ride,
AcceptRide(t, r, d) ==
    /\ LockFree(r)
    /\ row[r].status = "requested"
    /\ Begin(t, r, [status |-> "accepted", driver |-> d], "limits")
    /\ UNCHANGED <<row, pointer, served, raced>> /\ Aside

\* vehicleTypeMatchesCategory and the limits on the driver's active rides:
\* pooled rides go together, up to a number, any other goes alone.
MayTake(d, r) ==
    LET held == {q \in Rides : row[q].driver = d /\ row[q].status \in Active} IN
    /\ CategoryOf[r] \in Serves[d]
    /\ held # {} => \A q \in held \cup {r} : CategoryOf[q] = "shared"
    /\ CategoryOf[r] = "shared" => Cardinality(held) < MaxActiveSharedRides

\* and then the driver's other rides.
AcceptLimits(t) ==
    /\ work[t].at = "limits"
    /\ \/ /\ MayTake(work[t].wants.driver, work[t].ride)
          /\ Stage(t, [work[t] EXCEPT !.at = "save"])
       \/ /\ ~MayTake(work[t].wants.driver, work[t].ride)
          /\ Stage(t, Idle)
    /\ UNCHANGED <<row, pointer, served, raced>> /\ Aside

\* The other handlers load and check the ride in one call, without a lock.
Load(t, r, status) ==
    /\ Begin(t, r, [row[r] EXCEPT !.status = status], "save")
    /\ UNCHANGED <<row, pointer, served, raced>> /\ Aside

\* By the ride's driver, as startRide.
MarkArrived(t, r) ==
    /\ row[r].status = "accepted" /\ row[r].driver # None
    /\ Load(t, r, "arrived")
StartRide(t, r) ==
    /\ row[r].status = "arrived" /\ row[r].driver # None
    /\ Load(t, r, "in_progress")

\* By the rider unless the ride is in progress, or by its driver.
CancelRide(t, r) ==
    /\ row[r].status \notin {"none", "completed"}
    /\ row[r].status # "in_progress" \/ row[r].driver # None
    /\ Load(t, r, "cancelled")

\* repository.save reads the row again
Reload(t) ==
    /\ work[t].at = "save"
    /\ Stage(t, [work[t] EXCEPT !.at = "write", !.read = row[work[t].ride]])
    /\ UNCHANGED <<row, pointer, served, raced>> /\ Aside

Column(mine, read, now) == IF mine # read THEN mine ELSE now

\* and updates the columns that differ.
Updated(h, now) ==
    [status |-> Column(h.wants.status, h.read.status, now.status),
     driver |-> Column(h.wants.driver, h.read.driver, now.driver)]

\* The pointer is moved by an accept, and by a cancellation whose entity has a
\* driver.
AfterSave(h) ==
    Handler(h.ride, h.wants,
            IF \/ h.wants.status = "accepted"
               \/ h.wants.status = "cancelled" /\ h.wants.driver # None
            THEN "pointer" ELSE "emit")

Write(t) ==
    LET h == work[t] IN
    /\ h.at = "write"
    /\ Commit(t, h.ride, Updated(h, row[h.ride]), AfterSave(h))
    /\ raced' = IF h.stale THEN raced \cup {h.ride} ELSE raced
    /\ UNCHANGED pointer /\ Aside

\* Fault: a completion is announced though its transaction may yet be undone.
CompleteRideUndone(t, r) ==
    /\ row[r].status = "in_progress" /\ row[r].driver # None
    /\ Begin(t, r, [row[r] EXCEPT !.status = "completed"], "pointer")
    /\ UNCHANGED <<row, pointer, served, raced>> /\ Aside

\* The settlement, by the ride's driver.  It holds the row from its read on.
CompleteRide(t, r) ==
    LET new == [row[r] EXCEPT !.status = "completed"] IN
    /\ work[t] = Idle /\ LockFree(r)
    /\ row[r].status = "in_progress" /\ row[r].driver # None
    /\ Commit(t, r, new, Handler(r, new, "pointer"))
    /\ UNCHANGED <<pointer, raced>> /\ Aside

\* The active-ride key: set by an accept, deleted by a completion or a
\* cancellation, whichever ride it names.
MovePointer(t) ==
    LET h == work[t] IN
    /\ h.at = "pointer"
    /\ pointer' = [pointer EXCEPT ![h.wants.driver] =
                      IF h.wants.status = "accepted" THEN h.ride ELSE None]
    /\ Stage(t, [h EXCEPT !.at = "emit"])
    /\ UNCHANGED <<row, served, raced>> /\ Aside

\* A check or a call fails, or the process dies: the handler goes no further.
Abandon(t) ==
    /\ work[t] # Idle
    /\ Stage(t, Idle)
    /\ UNCHANGED <<row, pointer, served, raced>> /\ Aside

\* The safety expiry of the key, six hours after the accept.
LapsePointer(d) ==
    /\ pointer[d] # None
    /\ pointer' = [pointer EXCEPT ![d] = None]
    /\ UNCHANGED <<row, work, served, raced>> /\ Aside

-----------------------------------------------------------------------------
(* The fan-out                                                             *)

\* Who is in one of the rooms when the event goes out.
Reached(inRooms, to) == {s \in Sockets : inRooms[s] \cap to # {}}
Emit(event, r, from, to, inRooms) ==
    sent' = [event |-> event, ride |-> r, from |-> from, to |-> Reached(inRooms, to)]

\* joinPartiesToRideRoom: the apps of both parties are moved into the room.
WithParties(r, d) ==
    [s \in Sockets |->
        IF UserRoom(RiderOf[r]) \in rooms[s] \/ (d # None /\ DriverRoom(d) \in rooms[s])
        THEN rooms[s] \cup {RideRoom(r)} ELSE rooms[s]]

\* Fault: only those who joined the ride room are told.
broadcastToRideRoom(r, what, d) ==
    /\ Emit(what, r, d, {RideRoom(r)}, rooms)
    /\ UNCHANGED rooms

\* broadcastToRide: the ride room and the rider.
broadcastToRide(r, what, d) ==
    /\ Emit(what, r, d, {RideRoom(r), UserRoom(RiderOf[r])}, rooms)
    /\ UNCHANGED rooms

handleRideRequested(r) ==
    LET joined == WithParties(r, None) IN
    /\ rooms' = joined
    /\ Emit("requested", r, None, {Available(CategoryOf[r]), UserRoom(RiderOf[r])}, joined)

\* The other drivers are told by ride:taken, which is not told apart here.
handleRideAccepted(r, d) ==
    LET joined == WithParties(r, d) IN
    /\ rooms' = joined
    /\ Emit("accepted", r, d,
            {RideRoom(r), UserRoom(RiderOf[r]), Available(CategoryOf[r])}, joined)

DriverRooms(d) == IF d = None THEN {} ELSE {DriverRoom(d)}
EmergencyRooms(r, d) == {RideRoom(r), OpsEmergency, UserRoom(RiderOf[r])} \cup DriverRooms(d)

\* The SOS names the driver the ride had when it was checked.
handleEmergency(r, d) ==
    /\ Emit("sos", r, d, EmergencyRooms(r, d), rooms)
    /\ UNCHANGED rooms

\* What the handler has saved is announced.
Announce(t) ==
    LET r == work[t].ride  what == work[t].wants.status  d == work[t].wants.driver IN
    /\ work[t].at = "emit"
    /\ Stage(t, Idle)
    /\ \/ what = "requested" /\ handleRideRequested(r)
       \/ what = "accepted" /\ handleRideAccepted(r, d)
       \/ what = "sos" /\ handleEmergency(r, d)
       \/ what \notin {"requested", "accepted", "sos"} /\ broadcastToRide(r, what, d)
    /\ UNCHANGED <<row, pointer, served, raced, heading, who, asking>>

\* POST /emergency/trigger by a party to a ride in progress; Alerts has what
\* happens before and after the event.
Trigger(t, r) ==
    /\ row[r].status = "in_progress"
    /\ Begin(t, r, [row[r] EXCEPT !.status = "sos"], "emit")
    /\ UNCHANGED <<row, pointer, served, raced>> /\ Aside

-----------------------------------------------------------------------------
(* Positions                                                               *)

\* POST /driver-locations.  The geo set and the active key are written first, and
\* nothing that is pushed depends on them; then the pointer is read,
updateLocation(d) ==
    /\ heading[d] = None /\ pointer[d] # None
    /\ heading' = [heading EXCEPT ![d] = pointer[d]]
    /\ UNCHANGED <<ride, socket>> /\ Quiet

\* and the position goes to the room of the ride it named.
handleDriverLocation(d) ==
    /\ heading[d] # None
    /\ Emit("position", heading[d], d, {RideRoom(heading[d])}, rooms)
    /\ heading' = [heading EXCEPT ![d] = None]
    /\ UNCHANGED <<ride, socket>>

-----------------------------------------------------------------------------
RequestStep(t) ==
    \/ \E r \in Rides :
          \/ CreateRide(t, r) \/ MarkArrived(t, r) \/ StartRide(t, r)
          \/ CompleteRide(t, r) \/ CancelRide(t, r) \/ Trigger(t, r)
          \/ \E d \in Drivers : AcceptRide(t, r, d)
    \/ AcceptLimits(t) \/ Reload(t) \/ Write(t)
    \/ MovePointer(t) \/ Announce(t) \/ Abandon(t)
SocketStep(s) ==
    \/ Connect(s) \/ JoinDriverRooms(s) \/ Disconnect(s) \/ JoinRideRoom(s)
    \/ \E r \in Rides : handleJoinRide(s, r) \/ handleLeaveRide(s, r)
DriverStep(d) ==
    updateLocation(d) \/ handleDriverLocation(d) \/ LapsePointer(d)

Next ==
    \/ \E t \in Requests : RequestStep(t)
    \/ \E s \in Sockets : SocketStep(s)
    \/ \E d \in Drivers : DriverStep(d)

Spec == Init /\ [][Next]_vars

-----------------------------------------------------------------------------
(* Properties                                                              *)

\* Those who may listen to r; a driver it has had may be out of the row again,
\* but only where a save of the ride was overtaken.
Parties(r) ==
    Admins \cup {RiderOf[r], row[r].driver} \cup (IF r \in raced THEN served[r] ELSE {})

Row == [status: Status, driver: Drivers \cup {None}]
Entity == [status: Status \cup {"sos"}, driver: Drivers \cup {None}]
Handlers == [at: {"limits", "save", "write", "pointer", "emit"}, ride: Rides,
             wants: Entity, read: Row, stale: BOOLEAN]

TypeOK ==
    /\ row \in [Rides -> Row]
    /\ work \in [Requests -> Handlers \cup {Idle}]
    /\ pointer \in [Drivers -> Rides \cup {None}]
    /\ heading \in [Drivers -> Rides \cup {None}]
    /\ who \in [Sockets -> Accounts \cup {None}]
    /\ asking \in [Sockets -> Rides \cup {None}]
    /\ \A s \in Sockets : who[s] = None => rooms[s] = {} /\ asking[s] = None
    /\ served \in [Rides -> SUBSET Drivers]
    /\ raced \subseteq Rides

\* Whoever sits in a ride's room, by join:ride, moved there by an event, or
\* there since before a reconnect, is a party to the ride or an admin.  A
\* driver the ride lost again is one only after an overtaken save.
RoomsHoldParties ==
    \A s \in Sockets, r \in Rides : RideRoom(r) \in rooms[s] => who[s] \in Parties(r)

\* Where a driver is, is told to nobody but the parties of a ride that is the
\* driver's own, though the pointer may name a ride that has ended; of a ride
\* that was the driver's only after an overtaken save.
PositionsStayWithTheRide ==
    sent.event = "position" =>
        /\ sent.from \in served[sent.ride] \cap Parties(sent.ride)
        /\ \A s \in sent.to : who[s] \in Parties(sent.ride)

\* Nobody but the parties of a ride is in its room or hears where its driver is.
OnlyPartiesHear == TypeOK /\ RoomsHoldParties /\ PositionsStayWithTheRide

\* Whatever is announced of a ride reaches every connected app of its rider,
\* whether or not it rejoined the ride's room after a reconnect.
RiderHearsOfTheRide ==
    sent.event \notin {"none", "position", "sos"} =>
        \A s \in Sockets : who[s] = RiderOf[sent.ride] => s \in sent.to

\* An SOS reaches the connected apps of the rider and of the driver the ride
\* had when it was raised, also of one who reconnected in mid-ride.
SosReachesBoth ==
    sent.event = "sos" =>
        \A s \in Sockets : who[s] \in {RiderOf[sent.ride], sent.from} \ {None} => s \in sent.to

\* Both parties hear what concerns them, after a reconnect too.
PartiesHear == RiderHearsOfTheRide /\ SosReachesBoth

\* Where a ride can be once it has had a status.
From(status) ==
    CASE status = "requested"   -> Status \ {"none"}
      [] status = "accepted"    -> Active \cup {"completed", "cancelled"}
      [] status = "arrived"     -> {"arrived", "in_progress", "completed", "cancelled"}
      [] status = "in_progress" -> {"in_progress", "completed", "cancelled"}
      [] OTHER                  -> {status}

\* What is announced has happened, and has not been taken back: the driver an
\* accept names was given the ride, and unless a save of the ride was overtaken
\* it is still the ride's driver, and the ride has the status announced or one
\* that comes after it; an end that is announced still stands.  After an
\* overtaken save a cancellation may be announced of a ride that goes on.
EventsFollowCommits ==
    LET r == sent.ride IN
    sent.event \in Status \ {"none"} =>
        /\ sent.event = "accepted" => sent.from \in served[r]
        /\ r \notin raced =>
              /\ row[r].status \in From(sent.event)
              /\ sent.event = "accepted" => row[r].driver = sent.from

-----------------------------------------------------------------------------
(* The inductive invariant behind the theorems of LiveRideProofs           *)

RoomTable == DOMAIN rooms = Sockets /\ rooms = [s \in Sockets |-> rooms[s]]

\* A ride has had the driver it has; and unless a save of it was overtaken, no
\* other one.
RowsAreServed ==
    \A r \in Rides :
        /\ row[r].driver # None => row[r].driver \in served[r]
        /\ r \notin raced => served[r] \subseteq {row[r].driver}
        /\ r \notin raced /\ row[r].status \in {"none", "requested"} => row[r].driver = None

\* What a handler at work on an existing ride may want at each stage.
Fits(h) ==
    LET what == h.wants.status IN
    h # Idle =>
        /\ row[h.ride].status # "none" /\ what # "none"
        /\ what = "accepted" => h.wants.driver # None
        /\ h.at = "limits" => what = "accepted"
        /\ h.at \in {"save", "write"} => what \in {"accepted", "arrived", "in_progress", "cancelled"}
        /\ h.at = "pointer" => what \in {"accepted", "completed", "cancelled"} /\ h.wants.driver # None
        /\ h.at = "write" => h.read.driver \in served[h.ride] \cup {None}

\* While nobody has written the row since the handler loaded it, its checks hold.
IsFresh(h) ==
    LET now == row[h.ride]  what == h.wants.status IN
    Loaded(h) /\ ~h.stale =>
        /\ what = "accepted" => now.status = "requested"
        /\ what # "accepted" => h.wants.driver = now.driver
        /\ what = "arrived" => now.status = "accepted"
        /\ what = "in_progress" => now.status = "arrived"
        /\ what = "cancelled" => now.status # "completed"
        /\ h.at = "write" => h.read = now

\* What is about to be announced has been saved, and stands.
Stands(h) ==
    LET r == h.ride  what == h.wants.status IN
    h.at \in {"pointer", "emit"} /\ what # "sos" =>
        /\ what = "accepted" => h.wants.driver \in served[r]
        /\ r \notin raced =>
              /\ row[r].status \in From(what)
              /\ what = "accepted" => row[r].driver = h.wants.driver

HandlersFit == \A t \in Requests : Fits(work[t]) /\ IsFresh(work[t]) /\ Stands(work[t])

\* A pointer, and a position on its way, name a ride the driver has had.
PointersAreOwn ==
    \A d \in Drivers :
        /\ pointer[d] # None => d \in served[pointer[d]]
        /\ heading[d] # None => d \in served[heading[d]]

\* Every connected socket is in its account's own room and in nobody else's.
OwnRooms ==
    \A s \in Sockets :
        /\ who[s] \in Drivers => DriverRoom(who[s]) \in rooms[s]
        /\ who[s] \in Users => UserRoom(who[s]) \in rooms[s]
        /\ \A d \in Drivers : DriverRoom(d) \in rooms[s] => who[s] = d
        /\ \A u \in Users : UserRoom(u) \in rooms[s] => who[s] = u

AskersAreParties == \A s \in Sockets : asking[s] # None => who[s] \in Parties(asking[s])

RideState == RowsAreServed /\ HandlersFit /\ PointersAreOwn
RoomState == RoomTable /\ OwnRooms /\ AskersAreParties /\ RoomsHoldParties
Heard == PositionsStayWithTheRide /\ PartiesHear /\ EventsFollowCommits

LiveInv == TypeOK /\ RideState /\ RoomState /\ Heard
=============================================================================

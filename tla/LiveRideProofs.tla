--------------------------- MODULE LiveRideProofs ---------------------------
(***************************************************************************)
(* Proofs about LiveRide, for every set of rides, accounts, sockets and    *)
(* requests in flight, however long a handler outlives its lock.           *)
(***************************************************************************)
EXTENDS LiveRide, TLAPS

\* Rooms of different kinds, and of different rides, are different rooms.
LEMMA RoomsDiffer ==
    /\ \A q, r : RideRoom(q) = RideRoom(r) => q = r
    /\ \A q, r : UserRoom(q) = UserRoom(r) => q = r
    /\ \A q, r : DriverRoom(q) = DriverRoom(r) => q = r
    /\ \A r, u : RideRoom(r) # UserRoom(u) /\ RideRoom(r) # DriverRoom(u)
    /\ \A r, c : RideRoom(r) # Available(c)
    /\ \A u, d : UserRoom(u) # DriverRoom(d)
    /\ \A u, c : UserRoom(u) # Available(c) /\ DriverRoom(u) # Available(c)
    /\ \A r : RideRoom(r) # OpsEmergency
BY DEF RideRoom, UserRoom, DriverRoom, Available, OpsEmergency

LEMMA SentFields ==
    ASSUME NEW event, NEW r, NEW from, NEW to, NEW inRooms,
           Emit(event, r, from, to, inRooms)
    PROVE  /\ sent'.event = event /\ sent'.ride = r /\ sent'.from = from
           /\ sent'.to = Reached(inRooms, to)
BY DEF Emit

\* When nothing is sent there is nothing to hear.
LEMMA QuietIsHeard == ASSUME Quiet PROVE Heard'
BY DEF Quiet, Silence, Heard, PositionsStayWithTheRide, PartiesHear,
       RiderHearsOfTheRide, SosReachesBoth, EventsFollowCommits

RideTypes ==
    /\ row \in [Rides -> Row]
    /\ work \in [Requests -> Handlers \cup {Idle}]
    /\ pointer \in [Drivers -> Rides \cup {None}]
    /\ heading \in [Drivers -> Rides \cup {None}]
    /\ served \in [Rides -> SUBSET Drivers]
    /\ raced \subseteq Rides

SocketTypes ==
    /\ who \in [Sockets -> Accounts \cup {None}]
    /\ asking \in [Sockets -> Rides \cup {None}]
    /\ \A s \in Sockets : who[s] = None => rooms[s] = {} /\ asking[s] = None

LEMMA TypesAreBoth ==
    /\ TypeOK <=> RideTypes /\ SocketTypes
    /\ TypeOK' <=> RideTypes' /\ SocketTypes'
BY DEF TypeOK, RideTypes, SocketTypes

\* A status is among those it may go to, and what those may go to it may, too.
LEMMA FromGoesOn ==
    /\ \A x \in Status : x \in From(x)
    /\ \A x \in Status : \A y \in From(x) : \A z \in From(y) : z \in From(x)
BY DEF From, Status, Active

-----------------------------------------------------------------------------
(* Parties                                                                 *)

\* A ride that has a driver keeps that driver, unless a save is overtaken.
PartiesKept ==
    /\ raced \subseteq raced'
    /\ \A r \in Rides :
          /\ served[r] \subseteq served'[r]
          /\ \/ row[r].driver = None \/ row'[r].driver = row[r].driver
             \/ r \in raced' /\ row[r].driver \in served'[r]

LEMMA PartyStays ==
    ASSUME PartiesKept, NEW r \in Rides, NEW a \in Parties(r), a # None
    PROVE  a \in Parties(r)'
BY DEF Parties, PartiesKept

LEMMA RoomsStand ==
    ASSUME TypeOK, RoomState, PartiesKept, UNCHANGED socket
    PROVE  RoomState' /\ SocketTypes'
<1>1. UNCHANGED <<who, rooms, asking>>
  BY DEF socket
<1>2. RoomTable' /\ OwnRooms' /\ SocketTypes'
  BY <1>1, TypesAreBoth DEF RoomState, RoomTable, OwnRooms, SocketTypes
<1>3. AskersAreParties'
  <2>. SUFFICES ASSUME NEW s \in Sockets, NEW r \in Rides, asking[s] = r
               PROVE  who[s] \in Parties(r)'
    BY <1>1 DEF AskersAreParties, TypeOK, Parties
  <2>1. who[s] \in Parties(r) /\ who[s] # None
    BY LiveNames DEF TypeOK, RoomState, AskersAreParties
  <2>. QED  BY <2>1, PartyStays
<1>4. RoomsHoldParties'
  <2>. SUFFICES ASSUME NEW s \in Sockets, NEW r \in Rides, RideRoom(r) \in rooms[s]
               PROVE  who[s] \in Parties(r)'
    BY <1>1 DEF RoomsHoldParties
  <2>1. who[s] \in Parties(r) /\ who[s] # None
    BY DEF TypeOK, RoomState, RoomsHoldParties
  <2>. QED  BY <2>1, PartyStays
<1>. QED  BY <1>1, <1>2, <1>3, <1>4 DEF RoomState

LEMMA RowsStand ==
    ASSUME UNCHANGED <<row, served, raced>>
    PROVE  PartiesKept
BY DEF PartiesKept

-----------------------------------------------------------------------------
(* Handlers                                                                *)

\* A handler's stage that writes no row.
LEMMA StageKeeps ==
    ASSUME LiveInv, NEW t \in Requests, NEW h \in Handlers \cup {Idle},
           Stage(t, h), UNCHANGED <<row, served, raced>>,
           Fits(h), IsFresh(h), Stands(h)
    PROVE  RowsAreServed' /\ HandlersFit' /\ PartiesKept
           /\ work' \in [Requests -> Handlers \cup {Idle}]
<1>1. work' = [work EXCEPT ![t] = h] /\ work \in [Requests -> Handlers \cup {Idle}]
  BY DEF Stage, LiveInv, TypeOK
<1>2. RowsAreServed'
  BY DEF LiveInv, RideState, RowsAreServed
<1>3. HandlersFit'
  <2>. SUFFICES ASSUME NEW u \in Requests
               PROVE  Fits(work[u])' /\ IsFresh(work[u])' /\ Stands(work[u])'
    BY DEF HandlersFit
  <2>1. Fits(work'[u]) /\ IsFresh(work'[u]) /\ Stands(work'[u])
    BY <1>1 DEF LiveInv, RideState, HandlersFit
  <2>. QED  BY <2>1 DEF Fits, IsFresh, Stands
<1>. QED  BY <1>1, <1>2, <1>3, RowsStand

\* What a save that nobody overtook may make of a ride.
Orderly(r, new) ==
    /\ row[r].status # "none" => new.status \in From(row[r].status)
    /\ row[r].driver # None => new.driver = row[r].driver
    /\ new.status = "requested" => new.driver = None

\* A handler's stage that writes the row.
LEMMA CommitKeeps ==
    ASSUME LiveInv, NEW t \in Requests, NEW r \in Rides, NEW new \in Row,
           NEW h \in Handlers, Commit(t, r, new, h),
           raced' \in {raced, raced \cup {r}}, r \in raced' \/ Orderly(r, new),
           new.status # "none", h.ride = r, ~Loaded(h), Fits(h)', Stands(h)'
    PROVE  RowsAreServed' /\ HandlersFit' /\ PartiesKept
           /\ row' \in [Rides -> Row] /\ served' \in [Rides -> SUBSET Drivers]
           /\ raced' \subseteq Rides
           /\ work' \in [Requests -> Handlers \cup {Idle}]
<1>1. /\ row \in [Rides -> Row] /\ served \in [Rides -> SUBSET Drivers] /\ raced \subseteq Rides
      /\ work \in [Requests -> Handlers \cup {Idle}]
      /\ RowsAreServed /\ HandlersFit
  BY DEF LiveInv, TypeOK, RideState
<1>2. /\ row' = [row EXCEPT ![r] = new]
      /\ served' = [served EXCEPT ![r] = @ \cup ({new.driver} \ {None})]
      /\ work' = [u \in Requests |->
                     IF u = t THEN h
                     ELSE IF work[u].ride = r /\ Loaded(work[u]) /\ new # row[r]
                          THEN [work[u] EXCEPT !.stale = TRUE] ELSE work[u]]
  BY DEF Commit
<1>3. new.status \in Status /\ new.driver \in Drivers \cup {None} /\ raced \subseteq raced'
  BY DEF Row
<1>4. row' \in [Rides -> Row] /\ served' \in [Rides -> SUBSET Drivers] /\ raced' \subseteq Rides
  BY <1>1, <1>2, <1>3
<1>5. ASSUME NEW u \in Requests, u # t
      PROVE  \/ work'[u] = work[u] /\ (work[u].ride = r /\ Loaded(work[u]) => new = row[r])
             \/ /\ work[u] \in Handlers /\ Loaded(work[u]) /\ work[u].ride = r
                /\ work'[u] = [work[u] EXCEPT !.stale = TRUE]
  <2>1. ~Loaded(Idle)
    BY DEF Loaded, Idle
  <2>. QED  BY <1>1, <1>2, <1>5, <2>1
<1>6. work' \in [Requests -> Handlers \cup {Idle}]
  <2>1. ASSUME NEW g \in Handlers PROVE [g EXCEPT !.stale = TRUE] \in Handlers
    BY DEF Handlers
  <2>. QED  BY <1>1, <1>2, <1>5, <2>1
<1>7. RowsAreServed'
  <2>. SUFFICES ASSUME NEW q \in Rides
               PROVE  /\ row'[q].driver # None => row'[q].driver \in served'[q]
                      /\ q \notin raced' => served'[q] \subseteq {row'[q].driver}
                      /\ q \notin raced' /\ row'[q].status \in {"none", "requested"} => row'[q].driver = None
    BY DEF RowsAreServed
  <2>1. CASE q # r
    BY <1>1, <1>2, <1>3, <2>1 DEF RowsAreServed
  <2>2. CASE q = r
    <3>1. row'[q] = new /\ served'[q] = served[r] \cup ({new.driver} \ {None})
      BY <1>1, <1>2, <2>2
    <3>2. ASSUME q \notin raced'
          PROVE  served[r] \subseteq {new.driver} /\ (new.status = "requested" => new.driver = None)
      <4>1. Orderly(r, new) /\ served[r] \subseteq {row[r].driver}
        BY <1>1, <1>3, <2>2, <3>2 DEF RowsAreServed
      <4>. QED  BY <1>1, <4>1, LiveNames DEF Orderly
    <3>. QED  BY <3>1, <3>2
  <2>. QED  BY <2>1, <2>2
<1>8. PartiesKept
  <2>. SUFFICES ASSUME NEW q \in Rides
               PROVE  /\ served[q] \subseteq served'[q]
                      /\ \/ row[q].driver = None \/ row'[q].driver = row[q].driver
                         \/ q \in raced' /\ row[q].driver \in served'[q]
    BY <1>3 DEF PartiesKept
  <2>1. served[q] \subseteq served'[q] /\ (row[q].driver # None => row[q].driver \in served[q])
    BY <1>1, <1>2 DEF RowsAreServed
  <2>2. q # r \/ q \in raced' \/ row[q].driver = None \/ row'[q].driver = row[q].driver
    BY <1>1, <1>2 DEF Orderly
  <2>. QED  BY <1>1, <1>2, <2>1, <2>2
<1>9. HandlersFit'
  <2>. SUFFICES ASSUME NEW u \in Requests
               PROVE  Fits(work[u])' /\ IsFresh(work[u])' /\ Stands(work[u])'
    BY DEF HandlersFit
  <2>1. CASE u = t
    <3>1. work'[u] = h
      BY <1>2, <2>1
    <3>. QED  BY <3>1 DEF Fits, IsFresh, Stands, Loaded
  <2>2. CASE u # t
    <3>. DEFINE g == work[u]
    <3>1. Fits(g) /\ IsFresh(g) /\ Stands(g) /\ g \in Handlers \cup {Idle}
      BY <1>1 DEF HandlersFit
    <3>2. CASE g = Idle
      <4>1. ~Loaded(Idle)
        BY DEF Loaded, Idle
      <4>2. work'[u] = Idle
        BY <1>5, <2>2, <3>2, <4>1
      <4>. QED  BY <4>2 DEF Fits, IsFresh, Stands, Loaded, Idle
    <3>3. CASE g # Idle /\ g.ride # r
      <4>1. work'[u] = g /\ g.ride \in Rides
        BY <1>5, <2>2, <3>1, <3>3 DEF Handlers
      <4>2. row'[g.ride] = row[g.ride] /\ served'[g.ride] = served[g.ride]
        BY <1>1, <1>2, <3>3, <4>1
      <4>. QED  BY <1>3, <3>1, <4>1, <4>2 DEF Fits, IsFresh, Stands
    <3>4. CASE g # Idle /\ g.ride = r
      <4>1. /\ row[r].status # "none" /\ row'[r] = new /\ served[r] \subseteq served'[r]
            /\ row[r].status \in Status
        BY <1>1, <1>2, <3>1, <3>4 DEF Fits, Row
      <4>2. Fits(work[u])'
        BY <1>5, <2>2, <3>1, <3>4, <4>1 DEF Fits, Handlers
      <4>3. IsFresh(work[u])'
        <5>1. CASE work'[u] = g /\ (Loaded(g) => new = row[r])
          BY <3>1, <3>4, <4>1, <5>1 DEF IsFresh
        <5>2. CASE g \in Handlers /\ work'[u] = [g EXCEPT !.stale = TRUE]
          <6>1. work'[u].stale
            BY <5>2 DEF Handlers
          <6>. QED  BY <6>1 DEF IsFresh
        <5>. QED  BY <1>5, <2>2, <3>4, <5>1, <5>2
      <4>4. Stands(work[u])'
        <5>1. /\ work'[u].ride = r /\ work'[u].at = g.at /\ work'[u].wants = g.wants
              /\ g.wants.status \in Status \cup {"sos"}
          BY <1>5, <2>2, <3>1, <3>4 DEF Handlers, Entity
        <5>. SUFFICES ASSUME g.at \in {"pointer", "emit"}, g.wants.status # "sos"
                     PROVE  /\ g.wants.status = "accepted" => g.wants.driver \in served'[r]
                            /\ r \notin raced' =>
                                  /\ row'[r].status \in From(g.wants.status)
                                  /\ g.wants.status = "accepted" => row'[r].driver = g.wants.driver
          BY <5>1 DEF Stands
        <5>2. g.wants.status = "accepted" => g.wants.driver \in served'[r]
          BY <3>1, <3>4, <4>1 DEF Stands
        <5>3. ASSUME r \notin raced'
              PROVE  /\ new.status \in From(g.wants.status)
                     /\ g.wants.status = "accepted" => new.driver = g.wants.driver
          <6>1. /\ row[r].status \in From(g.wants.status)
                /\ g.wants.status = "accepted" => row[r].driver = g.wants.driver /\ row[r].driver # None
                /\ new.status \in From(row[r].status)
                /\ row[r].driver # None => new.driver = row[r].driver
            BY <1>3, <3>1, <3>4, <4>1, <5>3 DEF Stands, Fits, Orderly
          <6>. QED  BY <5>1, <6>1, FromGoesOn
        <5>. QED  BY <4>1, <5>2, <5>3
      <4>. QED  BY <4>2, <4>3, <4>4
    <3>. QED  BY <3>2, <3>3, <3>4
  <2>. QED  BY <2>1, <2>2
<1>. QED  BY <1>4, <1>6, <1>7, <1>8, <1>9

LEMMA IdleFits == Fits(Idle) /\ IsFresh(Idle) /\ Stands(Idle)
BY DEF Idle, Fits, IsFresh, Stands, Loaded

\* A step of a request that tells nobody anything.
LEMMA AsideKeeps ==
    ASSUME LiveInv, Aside, RideTypes', RideState', PartiesKept
    PROVE  LiveInv'
<1>1. UNCHANGED socket /\ Quiet
  BY DEF Aside
<1>2. RoomState' /\ SocketTypes'
  BY <1>1, RoomsStand DEF LiveInv
<1>. QED  BY <1>1, <1>2, QuietIsHeard, TypesAreBoth DEF LiveInv

LEMMA OnlyStageKeeps ==
    ASSUME LiveInv, NEW t \in Requests, NEW h \in Handlers \cup {Idle},
           Stage(t, h), UNCHANGED <<row, pointer, served, raced>>, Aside,
           Fits(h), IsFresh(h), Stands(h)
    PROVE  LiveInv'
<1>1. RowsAreServed' /\ HandlersFit' /\ PartiesKept
      /\ work' \in [Requests -> Handlers \cup {Idle}]
  BY StageKeeps
<1>2. UNCHANGED heading
  BY DEF Aside
<1>3. RideTypes'
  BY <1>1, <1>2, TypesAreBoth DEF LiveInv, RideTypes
<1>4. PointersAreOwn'
  BY <1>2 DEF LiveInv, RideState, PointersAreOwn
<1>. QED  BY <1>1, <1>3, <1>4, AsideKeeps DEF RideState

\* A handler that has just loaded its ride.
LEMMA BeginKeeps ==
    ASSUME LiveInv, NEW t \in Requests, NEW r \in Rides, NEW wants \in Entity, NEW at,
           Begin(t, r, wants, at), UNCHANGED <<row, pointer, served, raced>>, Aside,
           row[r].status # "none",
           \/ /\ at = "limits" /\ wants.status = "accepted"
              /\ wants.driver # None /\ row[r].status = "requested"
           \/ /\ at = "save" /\ wants.status \in {"arrived", "in_progress", "cancelled"}
              /\ wants.driver = row[r].driver
              /\ wants.status = "arrived" => row[r].status = "accepted"
              /\ wants.status = "in_progress" => row[r].status = "arrived"
              /\ wants.status = "cancelled" => row[r].status # "completed"
           \/ at = "emit" /\ wants.status = "sos"
    PROVE  LiveInv'
<1>. DEFINE h == Handler(r, wants, at)
<1>1. at \in {"limits", "save", "emit"}
  OBVIOUS
<1>2. /\ h.ride = r /\ h.wants = wants /\ h.at = at /\ h \in Handlers
  BY <1>1 DEF Handler, Idle, Handlers, Entity, Row, NoRow, Status
<1>3. Stage(t, h)
  BY DEF Begin
<1>. HIDE DEF h
<1>4. h # Idle /\ Fits(h)
  BY <1>1, <1>2 DEF Fits, Idle
<1>5. IsFresh(h)
  BY <1>1, <1>2 DEF IsFresh, Loaded
<1>6. Stands(h)
  BY <1>1, <1>2 DEF Stands
<1>. QED  BY <1>2, <1>3, <1>4, <1>5, <1>6, OnlyStageKeeps

LEMMA AcceptKeeps ==
    ASSUME LiveInv, NEW t \in Requests, NEW r \in Rides, NEW d \in Drivers,
           AcceptRide(t, r, d)
    PROVE  LiveInv'
<1>. DEFINE wants == [status |-> "accepted", driver |-> d]
<1>1. wants \in Entity /\ wants.status = "accepted" /\ wants.driver # None
  BY LiveNames DEF Entity, Status
<1>2. /\ row[r].status = "requested" /\ Begin(t, r, wants, "limits")
      /\ UNCHANGED <<row, pointer, served, raced>> /\ Aside
  BY DEF AcceptRide
<1>. HIDE DEF wants
<1>. QED  BY <1>1, <1>2, BeginKeeps

LEMMA LoadKeeps ==
    ASSUME LiveInv, NEW t \in Requests, NEW r \in Rides, NEW status,
           Load(t, r, status), row[r].status # "none",
           \/ status = "arrived" /\ row[r].status = "accepted"
           \/ status = "in_progress" /\ row[r].status = "arrived"
           \/ status = "cancelled" /\ row[r].status # "completed"
    PROVE  LiveInv'
<1>. DEFINE wants == [row[r] EXCEPT !.status = status]
<1>1. wants \in Entity /\ wants.status = status /\ wants.driver = row[r].driver
  BY DEF LiveInv, TypeOK, Row, Entity, Status
<1>2. /\ Begin(t, r, wants, "save")
      /\ UNCHANGED <<row, pointer, served, raced>> /\ Aside
  BY DEF Load
<1>. HIDE DEF wants
<1>. QED  BY <1>1, <1>2, BeginKeeps

LEMMA TriggerKeeps ==
    ASSUME LiveInv, NEW t \in Requests, NEW r \in Rides, Trigger(t, r)
    PROVE  LiveInv'
<1>. DEFINE wants == [row[r] EXCEPT !.status = "sos"]
<1>1. wants \in Entity /\ wants.status = "sos"
  BY DEF LiveInv, TypeOK, Row, Entity, Status
<1>2. /\ row[r].status = "in_progress" /\ Begin(t, r, wants, "emit")
      /\ UNCHANGED <<row, pointer, served, raced>> /\ Aside
  BY DEF Trigger
<1>. HIDE DEF wants
<1>. QED  BY <1>1, <1>2, BeginKeeps

LEMMA AtWork ==
    ASSUME LiveInv, NEW t \in Requests, work[t].at # "idle"
    PROVE  work[t] \in Handlers /\ work[t] # Idle
           /\ Fits(work[t]) /\ IsFresh(work[t]) /\ Stands(work[t])
BY DEF LiveInv, TypeOK, RideState, HandlersFit, Idle

LEMMA LimitsKeep ==
    ASSUME LiveInv, NEW t \in Requests, AcceptLimits(t)
    PROVE  LiveInv'
<1>. DEFINE g == work[t]  h == [work[t] EXCEPT !.at = "save"]
<1>1. g.at = "limits" /\ UNCHANGED <<row, pointer, served, raced>> /\ Aside
      /\ (Stage(t, h) \/ Stage(t, Idle))
  BY DEF AcceptLimits
<1>2. g \in Handlers /\ g # Idle /\ Fits(g) /\ IsFresh(g)
  BY <1>1, AtWork
<1>3. /\ h \in Handlers /\ h.at = "save" /\ h.ride = g.ride /\ h.wants = g.wants
      /\ h.stale = g.stale
  BY <1>2 DEF Handlers
<1>. HIDE DEF h, g
<1>4. Fits(h)
  BY <1>1, <1>2, <1>3 DEF Fits
<1>5. IsFresh(h) /\ Stands(h)
  BY <1>1, <1>2, <1>3 DEF IsFresh, Stands, Loaded
<1>. QED  BY <1>1, <1>3, <1>4, <1>5, IdleFits, OnlyStageKeeps

LEMMA ReloadKeeps ==
    ASSUME LiveInv, NEW t \in Requests, Reload(t)
    PROVE  LiveInv'
<1>. DEFINE g == work[t]  h == [work[t] EXCEPT !.at = "write", !.read = row[work[t].ride]]
<1>1. g.at = "save" /\ UNCHANGED <<row, pointer, served, raced>> /\ Aside /\ Stage(t, h)
  BY DEF Reload
<1>2. g \in Handlers /\ g # Idle /\ Fits(g) /\ IsFresh(g)
  BY <1>1, AtWork
<1>3. /\ h \in Handlers /\ h.at = "write" /\ h.ride = g.ride /\ h.wants = g.wants
      /\ h.stale = g.stale /\ h.read = row[g.ride]
  BY <1>2 DEF Handlers, LiveInv, TypeOK
<1>. HIDE DEF h, g
<1>4. Fits(h)
  <2>1. row[g.ride].driver # None => row[g.ride].driver \in served[g.ride]
    BY <1>2 DEF LiveInv, RideState, RowsAreServed, Handlers
  <2>. QED  BY <1>1, <1>2, <1>3, <2>1 DEF Fits
<1>5. IsFresh(h) /\ Stands(h)
  BY <1>1, <1>2, <1>3 DEF IsFresh, Stands, Loaded
<1>. QED  BY <1>1, <1>3, <1>4, <1>5, OnlyStageKeeps

LEMMA AbandonKeeps ==
    ASSUME LiveInv, NEW t \in Requests, Abandon(t)
    PROVE  LiveInv'
BY IdleFits, OnlyStageKeeps DEF Abandon

LEMMA OnlyCommitKeeps ==
    ASSUME LiveInv, NEW t \in Requests, NEW r \in Rides, NEW new \in Row,
           NEW h \in Handlers, Commit(t, r, new, h),
           raced' \in {raced, raced \cup {r}}, r \in raced' \/ Orderly(r, new),
           new.status # "none", h.ride = r, ~Loaded(h), Fits(h)', Stands(h)',
           UNCHANGED pointer, Aside
    PROVE  LiveInv'
<1>1. /\ RowsAreServed' /\ HandlersFit' /\ PartiesKept
      /\ row' \in [Rides -> Row] /\ served' \in [Rides -> SUBSET Drivers]
      /\ raced' \subseteq Rides
      /\ work' \in [Requests -> Handlers \cup {Idle}]
  BY CommitKeeps
<1>2. UNCHANGED heading
  BY DEF Aside
<1>3. RideTypes'
  BY <1>1, <1>2, TypesAreBoth DEF LiveInv, RideTypes
<1>4. PointersAreOwn'
  BY <1>1, <1>2 DEF LiveInv, RideState, PointersAreOwn, PartiesKept, TypeOK
<1>. QED  BY <1>1, <1>3, <1>4, AsideKeeps DEF RideState

LEMMA WriteKeeps ==
    ASSUME LiveInv, NEW t \in Requests, Write(t)
    PROVE  LiveInv'
<1>a. PICK g : g = work[t]
  OBVIOUS
<1>b. PICK new : new = Updated(g, row[g.ride])
  OBVIOUS
<1>. DEFINE r == g.ride  h == AfterSave(g)
<1>1. /\ g.at = "write" /\ Commit(t, r, new, h)
      /\ raced' = (IF g.stale THEN raced \cup {r} ELSE raced)
      /\ UNCHANGED pointer /\ Aside
  BY <1>a, <1>b DEF Write
<1>2. g \in Handlers /\ g # Idle /\ Fits(g) /\ IsFresh(g)
  BY <1>1, <1>a, AtWork
<1>3. /\ r \in Rides /\ row[r] \in Row /\ g.wants \in Entity /\ g.read \in Row
      /\ g.stale \in BOOLEAN /\ row \in [Rides -> Row] /\ served \in [Rides -> SUBSET Drivers]
      /\ RowsAreServed
  BY <1>2 DEF Handlers, LiveInv, TypeOK, RideState
<1>4. /\ row[r].status # "none"
      /\ g.wants.status \in {"accepted", "arrived", "in_progress", "cancelled"}
      /\ g.wants.status = "accepted" => g.wants.driver # None
      /\ g.read.driver \in served[r] \cup {None}
  BY <1>1, <1>2 DEF Fits
<1>5. /\ new.status \in {g.wants.status, row[r].status}
      /\ new.driver = g.wants.driver \/ (g.wants.driver = g.read.driver /\ new.driver = row[r].driver)
      /\ new \in Row
  BY <1>b, <1>3, <1>4 DEF Updated, Column, Row, Entity, Status
<1>6. /\ h.ride = r /\ h.wants = g.wants /\ h \in Handlers /\ h # Idle
      /\ \/ h.at = "emit"
         \/ h.at = "pointer" /\ g.wants.status = "accepted"
         \/ h.at = "pointer" /\ g.wants.status = "cancelled" /\ g.wants.driver # None
  BY <1>3 DEF AfterSave, Handler, Idle, Handlers, Entity, Row, NoRow, Status
<1>7. /\ row'[r] = new
      /\ served'[r] = served[r] \cup ({new.driver} \ {None})
  BY <1>1, <1>3 DEF Commit
<1>8. ASSUME ~g.stale
      PROVE  /\ new.status = g.wants.status /\ new.driver = g.wants.driver
             /\ g.wants.status = "accepted" => row[r].status = "requested"
             /\ g.wants.status # "accepted" => g.wants.driver = row[r].driver
             /\ g.wants.status = "arrived" => row[r].status = "accepted"
             /\ g.wants.status = "in_progress" => row[r].status = "arrived"
             /\ g.wants.status = "cancelled" => row[r].status # "completed"
  <2>1. g.read = row[r]
    BY <1>1, <1>2, <1>8 DEF IsFresh, Loaded
  <2>2. new.status = g.wants.status /\ new.driver = g.wants.driver
    BY <1>b, <2>1 DEF Updated, Column
  <2>. QED  BY <1>1, <1>2, <1>8, <2>2 DEF IsFresh, Loaded
<1>9. r \in raced' \/ Orderly(r, new)
  <2>. SUFFICES ASSUME ~g.stale, r \notin raced PROVE Orderly(r, new)
    BY <1>1, <1>3
  <2>1. row[r].status \in {"requested"} => row[r].driver = None
    BY <1>3 DEF RowsAreServed
  <2>2. row[r].status \in Status
    BY <1>3 DEF Row
  <2>3. new.status \in From(row[r].status)
    BY <1>4, <1>8, <2>2 DEF From, Status, Active
  <2>4. row[r].driver # None => new.driver = row[r].driver
    BY <1>8, <2>1
  <2>. QED  BY <1>4, <1>8, <2>3, <2>4 DEF Orderly
<1>10. new.status # "none" /\ raced' \in {raced, raced \cup {r}}
  BY <1>1, <1>4, <1>5
<1>. HIDE DEF h
<1>11. Fits(h)'
  BY <1>4, <1>6, <1>7, <1>10 DEF Fits
<1>12. Stands(h)'
  <2>1. g.wants.status = "accepted" => g.wants.driver \in served'[r]
    BY <1>4, <1>5, <1>7
  <2>2. ASSUME r \notin raced'
        PROVE  new.status \in From(g.wants.status) /\ new.driver = g.wants.driver
    <3>1. new.status = g.wants.status /\ new.driver = g.wants.driver
      BY <1>1, <1>3, <1>8, <2>2
    <3>. QED  BY <1>4, <3>1 DEF From, Active
  <2>. QED  BY <1>6, <1>7, <2>1, <2>2 DEF Stands
<1>13. ~Loaded(h)
  BY <1>6 DEF Loaded
<1>. HIDE DEF r
<1>. QED  BY <1>1, <1>3, <1>5, <1>6, <1>9, <1>10, <1>11, <1>12, <1>13, OnlyCommitKeeps

LEMMA CompleteKeeps ==
    ASSUME LiveInv, NEW t \in Requests, NEW r \in Rides, CompleteRide(t, r)
    PROVE  LiveInv'
<1>a. PICK new : new = [row[r] EXCEPT !.status = "completed"]
  OBVIOUS
<1>. DEFINE h == Handler(r, new, "pointer")
<1>1. /\ row[r].status = "in_progress" /\ row[r].driver # None
      /\ Commit(t, r, new, h) /\ UNCHANGED <<pointer, raced>> /\ Aside
  BY <1>a DEF CompleteRide
<1>2. row \in [Rides -> Row]
  BY DEF LiveInv, TypeOK
<1>3. new \in Row /\ new.status = "completed" /\ new.driver = row[r].driver
  BY <1>2, <1>a DEF Row, Status
<1>4. /\ h.ride = r /\ h.wants = new /\ h.at = "pointer" /\ h \in Handlers /\ h # Idle
  BY <1>3 DEF Handler, Idle, Handlers, Entity, Row, NoRow, Status
<1>5. row'[r] = new
  BY <1>1, <1>2 DEF Commit
<1>. HIDE DEF h
<1>6. Orderly(r, new)
  BY <1>1, <1>3 DEF Orderly, From
<1>7. Fits(h)' /\ ~Loaded(h)
  BY <1>1, <1>3, <1>4, <1>5 DEF Fits, Loaded
<1>8. Stands(h)'
  BY <1>3, <1>4, <1>5 DEF Stands, From
<1>. QED  BY <1>1, <1>3, <1>4, <1>6, <1>7, <1>8, OnlyCommitKeeps

LEMMA CreateKeeps ==
    ASSUME LiveInv, NEW t \in Requests, NEW r \in Rides, CreateRide(t, r)
    PROVE  LiveInv'
<1>. DEFINE new == [status |-> "requested", driver |-> None]  h == Handler(r, new, "emit")
<1>1. /\ row[r].status = "none"
      /\ Commit(t, r, new, h) /\ UNCHANGED <<pointer, raced>> /\ Aside
  BY DEF CreateRide
<1>2. row \in [Rides -> Row] /\ RowsAreServed
  BY DEF LiveInv, TypeOK, RideState
<1>3. new \in Row /\ new.status = "requested" /\ new.driver = None
  BY DEF Row, Status
<1>4. /\ h.ride = r /\ h.wants = new /\ h.at = "emit" /\ h \in Handlers /\ h # Idle
  BY DEF Handler, Idle, Handlers, Entity, Row, NoRow, Status
<1>5. row'[r] = new
  BY <1>1, <1>2 DEF Commit
<1>. HIDE DEF new, h
<1>6. r \in raced' \/ Orderly(r, new)
  BY <1>1, <1>2, <1>3 DEF Orderly, RowsAreServed
<1>7. Fits(h)' /\ ~Loaded(h)
  BY <1>1, <1>3, <1>4, <1>5 DEF Fits, Loaded
<1>8. Stands(h)'
  BY <1>3, <1>4, <1>5 DEF Stands, From, Status
<1>. QED  BY <1>1, <1>3, <1>4, <1>6, <1>7, <1>8, OnlyCommitKeeps

LEMMA MovePointerKeeps ==
    ASSUME LiveInv, NEW t \in Requests, MovePointer(t)
    PROVE  LiveInv'
<1>. DEFINE g == work[t]  h == [work[t] EXCEPT !.at = "emit"]
<1>1. /\ g.at = "pointer" /\ Stage(t, h) /\ UNCHANGED <<row, served, raced>> /\ Aside
      /\ pointer' = [pointer EXCEPT ![g.wants.driver] =
                        IF g.wants.status = "accepted" THEN g.ride ELSE None]
  BY DEF MovePointer
<1>2. g \in Handlers /\ g # Idle /\ Fits(g) /\ Stands(g)
  BY <1>1, AtWork
<1>3. h \in Handlers /\ h.at = "emit" /\ h.ride = g.ride /\ h.wants = g.wants
  BY <1>2 DEF Handlers
<1>. HIDE DEF h, g
<1>4. Fits(h)
  BY <1>1, <1>2, <1>3 DEF Fits
<1>5. IsFresh(h) /\ Stands(h)
  BY <1>1, <1>2, <1>3 DEF IsFresh, Stands, Loaded
<1>6. RowsAreServed' /\ HandlersFit' /\ PartiesKept
      /\ work' \in [Requests -> Handlers \cup {Idle}]
  BY <1>1, <1>3, <1>4, <1>5, StageKeeps
<1>7. UNCHANGED heading /\ g.ride \in Rides /\ g.wants.driver \in Drivers \cup {None}
  BY <1>1, <1>2 DEF Aside, Handlers, Entity
<1>8. RideTypes'
  BY <1>1, <1>6, <1>7, TypesAreBoth DEF LiveInv, RideTypes
<1>9. g.wants.status = "accepted" => g.wants.driver \in served[g.ride]
  BY <1>1, <1>2 DEF Stands
<1>10. PointersAreOwn'
  BY <1>1, <1>7, <1>9 DEF LiveInv, TypeOK, RideState, PointersAreOwn
<1>. QED  BY <1>1, <1>6, <1>8, <1>10, AsideKeeps DEF RideState

-----------------------------------------------------------------------------
(* Drivers                                                                 *)

LEMMA DriverStepKeeps ==
    ASSUME LiveInv, NEW d \in Drivers, DriverStep(d)
    PROVE  LiveInv'
<1>1. /\ UNCHANGED <<row, work, served, raced, socket>>
      /\ \/ pointer' = pointer \/ pointer' = [pointer EXCEPT ![d] = None]
      /\ \/ heading' = heading \/ heading' = [heading EXCEPT ![d] = None]
         \/ pointer[d] # None /\ heading' = [heading EXCEPT ![d] = pointer[d]]
  BY DEF DriverStep, updateLocation, handleDriverLocation, LapsePointer, Aside, ride, socket
<1>2. RideTypes'
  BY <1>1, TypesAreBoth DEF LiveInv, RideTypes
<1>3. PointersAreOwn'
  BY <1>1 DEF LiveInv, RideState, PointersAreOwn, TypeOK
<1>4. RowsAreServed' /\ HandlersFit'
  BY <1>1 DEF LiveInv, RideState, RowsAreServed, HandlersFit, Fits, IsFresh, Stands
<1>5. PartiesKept
  BY <1>1, RowsStand
<1>6. RoomState' /\ SocketTypes'
  BY <1>1, <1>5, RoomsStand DEF LiveInv
<1>7. Heard'
  <2>1. CASE Quiet
    BY <2>1, QuietIsHeard
  <2>2. CASE handleDriverLocation(d)
    <3>1. /\ heading[d] # None /\ Emit("position", heading[d], d, {RideRoom(heading[d])}, rooms)
          /\ rooms' = rooms /\ who' = who
      BY <2>2 DEF handleDriverLocation, socket
    <3>2. /\ sent'.event = "position" /\ sent'.ride = heading[d] /\ sent'.from = d
          /\ sent'.to = Reached(rooms, {RideRoom(heading[d])})
      BY <3>1 DEF Emit
    <3>3. heading[d] \in Rides /\ d \in served[heading[d]]
      BY <3>1 DEF LiveInv, TypeOK, RideState, PointersAreOwn
    <3>4. d \in Parties(heading[d])
      BY <3>3 DEF LiveInv, RideState, RowsAreServed, Parties
    <3>5. \A s \in Reached(rooms, {RideRoom(heading[d])}) : who[s] \in Parties(heading[d])
      BY <3>3 DEF Reached, LiveInv, RoomState, RoomsHoldParties
    <3>6. \A r \in Rides : Parties(r)' = Parties(r)
      BY <1>1 DEF Parties
    <3>7. PositionsStayWithTheRide'
      BY <1>1, <3>1, <3>2, <3>3, <3>4, <3>5 DEF PositionsStayWithTheRide, Parties
    <3>. QED  BY <3>2, <3>7 DEF Heard, PartiesHear, RiderHearsOfTheRide, SosReachesBoth,
                              EventsFollowCommits, Status
  <2>. QED  BY <2>1, <2>2 DEF DriverStep, updateLocation, LapsePointer, Aside
<1>. QED  BY <1>2, <1>3, <1>4, <1>6, <1>7, TypesAreBoth DEF LiveInv, RideState

-----------------------------------------------------------------------------
(* Sockets                                                                 *)

\* What a step of one socket has to establish.
SocketOK(s) ==
    /\ who'[s] \in Accounts \cup {None} /\ asking'[s] \in Rides \cup {None}
    /\ who'[s] = None => rooms'[s] = {} /\ asking'[s] = None
    /\ who'[s] \in Drivers => DriverRoom(who'[s]) \in rooms'[s]
    /\ who'[s] \in Users => UserRoom(who'[s]) \in rooms'[s]
    /\ \A d \in Drivers : DriverRoom(d) \in rooms'[s] => who'[s] = d
    /\ \A u \in Users : UserRoom(u) \in rooms'[s] => who'[s] = u
    /\ \A r \in Rides : asking'[s] = r => who'[s] \in Parties(r)
    /\ \A r \in Rides : RideRoom(r) \in rooms'[s] => who'[s] \in Parties(r)

LEMMA SocketBefore ==
    ASSUME LiveInv, NEW s \in Sockets
    PROVE  /\ who[s] \in Accounts \cup {None} /\ asking[s] \in Rides \cup {None}
           /\ who[s] = None => rooms[s] = {} /\ asking[s] = None
           /\ who[s] \in Drivers => DriverRoom(who[s]) \in rooms[s]
           /\ who[s] \in Users => UserRoom(who[s]) \in rooms[s]
           /\ \A d \in Drivers : DriverRoom(d) \in rooms[s] => who[s] = d
           /\ \A u \in Users : UserRoom(u) \in rooms[s] => who[s] = u
           /\ \A r \in Rides : asking[s] = r => who[s] \in Parties(r)
           /\ \A r \in Rides : RideRoom(r) \in rooms[s] => who[s] \in Parties(r)
<1>1. \A r \in Rides : asking[s] = r => who[s] \in Parties(r)
  BY LiveNames DEF LiveInv, RoomState, AskersAreParties, Parties
<1>. QED  BY <1>1 DEF LiveInv, TypeOK, RoomState, OwnRooms, RoomsHoldParties

LEMMA SocketMoves ==
    ASSUME LiveInv, NEW s \in Sockets, SocketOK(s), UNCHANGED <<ride, heading>>, Quiet,
           NEW w, NEW m, NEW a,
           who' = [who EXCEPT ![s] = w], rooms' = [rooms EXCEPT ![s] = m],
           asking' = [asking EXCEPT ![s] = a]
    PROVE  LiveInv'
<1>1. UNCHANGED <<row, work, pointer, served, raced, heading>>
  BY DEF ride
<1>2. RideTypes' /\ RideState'
  BY <1>1, TypesAreBoth DEF LiveInv, RideTypes, RideState, RowsAreServed, HandlersFit,
     Fits, IsFresh, Stands, PointersAreOwn
<1>3. /\ who \in [Sockets -> Accounts \cup {None}] /\ asking \in [Sockets -> Rides \cup {None}]
      /\ DOMAIN rooms = Sockets /\ rooms = [x \in Sockets |-> rooms[x]]
  BY DEF LiveInv, TypeOK, RoomState, RoomTable
<1>4. RoomTable'
  BY <1>3 DEF RoomTable
<1>5. \A x \in Sockets : x # s => who'[x] = who[x] /\ rooms'[x] = rooms[x] /\ asking'[x] = asking[x]
  BY <1>3
<1>6. who'[s] = w /\ rooms'[s] = m /\ asking'[s] = a
  BY <1>3
<1>7. \A x \in Sockets : SocketOK(x)
  BY <1>5, SocketBefore DEF SocketOK
<1>8. SocketTypes'
  BY <1>3, <1>6, <1>7 DEF SocketTypes, SocketOK
<1>9. OwnRooms'
  BY <1>7 DEF OwnRooms, SocketOK
<1>10. RoomsHoldParties'
  BY <1>1, <1>7 DEF RoomsHoldParties, SocketOK, Parties
<1>11. AskersAreParties'
  BY <1>1, <1>7 DEF AskersAreParties, SocketOK, Parties
<1>. QED  BY <1>2, <1>4, <1>8, <1>9, <1>10, <1>11, QuietIsHeard, TypesAreBoth
          DEF LiveInv, RoomState

LEMMA SocketStepKeeps ==
    ASSUME LiveInv, NEW s \in Sockets, SocketStep(s)
    PROVE  LiveInv'
<1>1. /\ who \in [Sockets -> Accounts \cup {None}] /\ asking \in [Sockets -> Rides \cup {None}]
      /\ DOMAIN rooms = Sockets /\ rooms = [x \in Sockets |-> rooms[x]]
  BY DEF LiveInv, TypeOK, RoomState, RoomTable
<1>2. who = [who EXCEPT ![s] = who[s]] /\ asking = [asking EXCEPT ![s] = asking[s]]
  BY <1>1
<1>3. CASE Connect(s)
  <2>1. PICK a \in Accounts :
           /\ who' = [who EXCEPT ![s] = a]
           /\ rooms' = [rooms EXCEPT ![s] = {IF a \in Drivers THEN DriverRoom(a) ELSE UserRoom(a)}]
    BY <1>3 DEF Connect
  <2>2. who[s] = None /\ asking' = asking /\ UNCHANGED <<ride, heading>> /\ Quiet
    BY <1>3 DEF Connect
  <2>3. /\ who'[s] = a /\ a # None /\ asking'[s] = None
        /\ rooms'[s] = {IF a \in Drivers THEN DriverRoom(a) ELSE UserRoom(a)}
    BY <1>1, <2>1, <2>2, SocketBefore, LiveNames DEF Accounts
  <2>4. SocketOK(s)
    <3>1. CASE a \in Drivers
      BY <2>3, <3>1, RoomsDiffer, LiveNames DEF SocketOK
    <3>2. CASE a \notin Drivers
      BY <2>3, <3>2, RoomsDiffer, LiveNames DEF SocketOK
    <3>. QED  BY <3>1, <3>2
  <2>. QED  BY <1>2, <2>1, <2>2, <2>4, SocketMoves
<1>4. CASE JoinDriverRooms(s)
  <2>. DEFINE m == rooms[s] \cup {Available(c) : c \in Serves[who[s]]}
  <2>1. /\ rooms' = [rooms EXCEPT ![s] = m] /\ who' = who /\ asking' = asking
        /\ UNCHANGED <<ride, heading>> /\ Quiet /\ who[s] # None
    BY <1>4, LiveNames DEF JoinDriverRooms, Enter
  <2>2. rooms'[s] = m
    BY <1>1, <2>1
  <2>3. SocketOK(s)
    BY <2>1, <2>2, SocketBefore, RoomsDiffer DEF SocketOK
  <2>. QED  BY <1>2, <2>1, <2>3, SocketMoves
<1>5. CASE Disconnect(s)
  <2>1. /\ who' = [who EXCEPT ![s] = None] /\ rooms' = [rooms EXCEPT ![s] = {}]
        /\ asking' = [asking EXCEPT ![s] = None]
        /\ UNCHANGED <<ride, heading>> /\ Quiet
    BY <1>5 DEF Disconnect
  <2>2. who'[s] = None /\ rooms'[s] = {} /\ asking'[s] = None
    BY <1>1, <2>1
  <2>3. SocketOK(s)
    BY <2>2, LiveNames DEF SocketOK
  <2>. QED  BY <2>1, <2>3, SocketMoves
<1>6. CASE JoinRideRoom(s)
  <2>1. /\ asking[s] # None /\ rooms' = [rooms EXCEPT ![s] = @ \cup {RideRoom(asking[s])}]
        /\ asking' = [asking EXCEPT ![s] = None] /\ who' = who
        /\ UNCHANGED <<ride, heading>> /\ Quiet
    BY <1>6 DEF JoinRideRoom, Enter
  <2>2. rooms'[s] = rooms[s] \cup {RideRoom(asking[s])} /\ asking'[s] = None
    BY <1>1, <2>1
  <2>3. asking[s] \in Rides /\ who[s] \in Parties(asking[s])
    BY <2>1, SocketBefore
  <2>4. SocketOK(s)
    BY <2>1, <2>2, <2>3, SocketBefore, RoomsDiffer, LiveNames DEF SocketOK
  <2>. QED  BY <1>2, <2>1, <2>4, SocketMoves
<1>7. CASE \E r \in Rides : handleJoinRide(s, r)
  <2>1. PICK r \in Rides : handleJoinRide(s, r)
    BY <1>7
  <2>2. /\ who[s] # None /\ asking' = [asking EXCEPT ![s] = r] /\ who' = who /\ rooms' = rooms
        /\ UNCHANGED <<ride, heading>> /\ Quiet /\ who[s] \in Parties(r)
    BY <2>1 DEF handleJoinRide, isPartyToRide, Parties
  <2>3. asking'[s] = r
    BY <1>1, <2>2
  <2>4. SocketOK(s)
    BY <2>2, <2>3, SocketBefore DEF SocketOK
  <2>5. rooms' = [rooms EXCEPT ![s] = rooms[s]]
    BY <1>1, <2>2
  <2>. QED  BY <1>2, <2>2, <2>4, <2>5, SocketMoves
<1>8. CASE \E r \in Rides : handleLeaveRide(s, r)
  <2>1. PICK r \in Rides : handleLeaveRide(s, r)
    BY <1>8
  <2>2. /\ rooms' = [rooms EXCEPT ![s] = @ \ {RideRoom(r)}] /\ who' = who /\ asking' = asking
        /\ UNCHANGED <<ride, heading>> /\ Quiet /\ who[s] # None
    BY <2>1 DEF handleLeaveRide
  <2>3. rooms'[s] = rooms[s] \ {RideRoom(r)}
    BY <1>1, <2>2
  <2>4. SocketOK(s)
    BY <2>2, <2>3, SocketBefore, RoomsDiffer DEF SocketOK
  <2>. QED  BY <1>2, <2>2, <2>4, SocketMoves
<1>. QED  BY <1>3, <1>4, <1>5, <1>6, <1>7, <1>8 DEF SocketStep

-----------------------------------------------------------------------------
(* The fan-out                                                             *)

\* Whose apps are moved into the ride's room are parties to it.
LEMMA MovedAreParties ==
    ASSUME LiveInv, NEW r \in Rides, NEW d, d = None \/ d \in served[r],
           rooms' = WithParties(r, d), UNCHANGED <<row, served, raced, who, asking>>
    PROVE  RoomState' /\ SocketTypes'
<1>1. d = None \/ (d \in Drivers /\ d \in Parties(r))
  BY DEF LiveInv, TypeOK, RideState, RowsAreServed, Parties
<1>2. RiderOf[r] \in Users /\ RiderOf[r] \in Parties(r)
  BY LiveNames DEF Parties
<1>3. \A s \in Sockets :
         \/ rooms'[s] = rooms[s]
         \/ rooms'[s] = rooms[s] \cup {RideRoom(r)} /\ who[s] \in Parties(r) /\ who[s] # None
  BY <1>1, <1>2, SocketBefore, LiveNames DEF WithParties
<1>4. RoomTable'
  BY DEF RoomTable, WithParties
<1>5. \A s \in Sockets : SocketOK(s)
  BY <1>3, SocketBefore, RoomsDiffer DEF SocketOK
<1>6. RoomsHoldParties' /\ AskersAreParties'
  BY <1>5 DEF RoomsHoldParties, AskersAreParties, SocketOK, Parties, LiveInv, TypeOK
<1>7. OwnRooms' /\ SocketTypes'
  BY <1>5 DEF OwnRooms, SocketTypes, SocketOK, LiveInv, TypeOK
<1>. QED  BY <1>4, <1>6, <1>7 DEF RoomState

LEMMA AnnounceKeeps ==
    ASSUME LiveInv, NEW t \in Requests, Announce(t)
    PROVE  LiveInv'
<1>1. PICK r, what, d : r = work[t].ride /\ what = work[t].wants.status /\ d = work[t].wants.driver
  OBVIOUS
<1>2. /\ work[t].at = "emit" /\ Stage(t, Idle)
      /\ UNCHANGED <<row, pointer, served, raced, heading, who, asking>>
      /\ \/ what = "requested" /\ handleRideRequested(r)
         \/ what = "accepted" /\ handleRideAccepted(r, d)
         \/ what = "sos" /\ handleEmergency(r, d)
         \/ what \notin {"requested", "accepted", "sos"} /\ broadcastToRide(r, what, d)
  BY <1>1 DEF Announce
<1>3. /\ r \in Rides /\ d \in Drivers \cup {None} /\ what \in (Status \cup {"sos"}) \ {"none"}
      /\ what = "accepted" => d \in served[r] /\ d # None
      /\ what # "sos" /\ r \notin raced =>
            row[r].status \in From(what) /\ (what = "accepted" => row[r].driver = d)
  BY <1>1, <1>2, AtWork DEF Handlers, Entity, Fits, Stands
<1>4. RowsAreServed' /\ HandlersFit' /\ PartiesKept
      /\ work' \in [Requests -> Handlers \cup {Idle}]
  BY <1>2, IdleFits, StageKeeps
<1>5. RideTypes' /\ PointersAreOwn'
  BY <1>2, <1>4, TypesAreBoth DEF LiveInv, RideTypes, RideState, PointersAreOwn
<1>6. /\ rooms' \in {rooms, WithParties(r, None), WithParties(r, d)}
      /\ rooms' = rooms \/ rooms' = WithParties(r, None) \/ what = "accepted"
  BY <1>2 DEF handleRideRequested, handleRideAccepted, handleEmergency, broadcastToRide
<1>7. RoomState' /\ SocketTypes'
  <2>1. CASE rooms' = rooms
    BY <1>2, <1>4, <2>1, RoomsStand DEF socket, LiveInv
  <2>2. CASE rooms' = WithParties(r, None)
    BY <1>2, <1>3, <2>2, MovedAreParties
  <2>3. CASE rooms' = WithParties(r, d) /\ what = "accepted"
    BY <1>2, <1>3, <2>3, MovedAreParties
  <2>. QED  BY <1>6, <2>1, <2>2, <2>3
<1>8. \A s \in Sockets : rooms[s] \subseteq rooms'[s]
  BY <1>6 DEF WithParties
<1>9. PICK to :
         /\ sent'.event = what /\ sent'.ride = r /\ sent'.to = Reached(rooms', to)
         /\ UserRoom(RiderOf[r]) \in to
         /\ what = "sos" /\ d # None => DriverRoom(d) \in to
         /\ what \in {"sos", "accepted"} => sent'.from = d
  <2>1. CASE what = "requested" /\ handleRideRequested(r)
    BY <2>1 DEF handleRideRequested, Emit
  <2>2. CASE what = "accepted" /\ handleRideAccepted(r, d)
    BY <2>2 DEF handleRideAccepted, Emit
  <2>3. CASE what = "sos" /\ handleEmergency(r, d)
    <3>1. sent' = [event |-> "sos", ride |-> r, from |-> d, to |-> Reached(rooms, EmergencyRooms(r, d))]
          /\ rooms' = rooms
      BY <2>3 DEF handleEmergency, Emit
    <3>. QED  BY <2>3, <3>1 DEF EmergencyRooms, DriverRooms
  <2>4. CASE what \notin {"requested", "accepted", "sos"} /\ broadcastToRide(r, what, d)
    BY <2>4 DEF broadcastToRide, Emit
  <2>. QED  BY <1>2, <2>1, <2>2, <2>3, <2>4
<1>10. PartiesHear'
  <2>. SUFFICES ASSUME NEW s \in Sockets, who[s] # None,
                       who[s] = RiderOf[r] \/ (what = "sos" /\ who[s] = d)
               PROVE  s \in sent'.to
    BY <1>2, <1>3, <1>9, LiveNames DEF PartiesHear, RiderHearsOfTheRide, SosReachesBoth
  <2>1. CASE who[s] = RiderOf[r]
    <3>1. UserRoom(RiderOf[r]) \in rooms[s]
      BY <1>3, <2>1, SocketBefore, LiveNames
    <3>. QED  BY <1>8, <1>9, <3>1 DEF Reached
  <2>2. CASE what = "sos" /\ who[s] = d
    <3>1. DriverRoom(d) \in rooms[s] /\ d # None
      BY <1>3, <2>2, SocketBefore
    <3>. QED  BY <1>8, <1>9, <2>2, <3>1 DEF Reached
  <2>. QED  BY <2>1, <2>2
<1>11. PositionsStayWithTheRide'
  BY <1>3, <1>9 DEF PositionsStayWithTheRide, Status
<1>12. EventsFollowCommits'
  BY <1>2, <1>3, <1>9 DEF EventsFollowCommits, Status
<1>. QED  BY <1>4, <1>5, <1>7, <1>10, <1>11, <1>12, TypesAreBoth DEF LiveInv, RideState, Heard

-----------------------------------------------------------------------------
(* Every step                                                              *)

LEMMA RequestStepKeeps ==
    ASSUME LiveInv, NEW t \in Requests, RequestStep(t)
    PROVE  LiveInv'
<1>1. ASSUME NEW r \in Rides, MarkArrived(t, r) \/ StartRide(t, r) \/ CancelRide(t, r)
      PROVE  LiveInv'
  BY <1>1, LoadKeeps DEF MarkArrived, StartRide, CancelRide
<1>2. ASSUME NEW r \in Rides, CreateRide(t, r) \/ CompleteRide(t, r) \/ Trigger(t, r)
      PROVE  LiveInv'
  BY <1>2, CreateKeeps, CompleteKeeps, TriggerKeeps
<1>. QED  BY <1>1, <1>2, AcceptKeeps, LimitsKeep, ReloadKeeps, WriteKeeps, MovePointerKeeps,
             AnnounceKeeps, AbandonKeeps DEF RequestStep

LEMMA LiveInit == Init => LiveInv
<1>. SUFFICES ASSUME Init PROVE LiveInv
  OBVIOUS
<1>1. TypeOK /\ RoomTable
  BY DEF Init, TypeOK, Row, NoRow, Status, RoomTable
<1>2. HandlersFit
  BY IdleFits DEF Init, HandlersFit
<1>3. RowsAreServed /\ PointersAreOwn
  BY DEF Init, NoRow, RowsAreServed, PointersAreOwn
<1>4. RoomState
  BY <1>1, LiveNames DEF Init, RoomState, OwnRooms, AskersAreParties, RoomsHoldParties
<1>5. Heard
  BY DEF Init, Silence, Heard, PositionsStayWithTheRide, PartiesHear,
         RiderHearsOfTheRide, SosReachesBoth, EventsFollowCommits
<1>. QED  BY <1>1, <1>2, <1>3, <1>4, <1>5 DEF LiveInv, RideState

LEMMA LiveStutter == ASSUME LiveInv, UNCHANGED vars PROVE LiveInv'
<1>1. UNCHANGED <<row, work, pointer, served, raced, heading, who, rooms, asking, sent>>
  BY DEF vars, ride, socket
<1>2. TypeOK' /\ RideState'
  BY <1>1 DEF LiveInv, TypeOK, RideState, RowsAreServed, HandlersFit, Fits, IsFresh, Stands,
     PointersAreOwn
<1>3. RoomState'
  BY <1>1 DEF LiveInv, RoomState, RoomTable, OwnRooms, AskersAreParties, RoomsHoldParties, Parties
<1>4. Heard'
  BY <1>1 DEF LiveInv, Heard, PositionsStayWithTheRide, PartiesHear, RiderHearsOfTheRide,
     SosReachesBoth, EventsFollowCommits, Parties
<1>. QED  BY <1>2, <1>3, <1>4 DEF LiveInv

LEMMA LiveStep == LiveInv /\ [Next]_vars => LiveInv'
BY RequestStepKeeps, SocketStepKeeps, DriverStepKeeps, LiveStutter DEF Next

\* The inductive invariant holds in every reachable state.
THEOREM LiveInvHolds == Spec => []LiveInv
BY LiveInit, LiveStep, PTL DEF Spec

\* Nobody but a ride's parties and the admins is in its room or is told where its
\* driver is; a driver the ride lost again counts as a party only where a save of
\* the ride was overtaken.
THEOREM Discreet == Spec => []OnlyPartiesHear
<1>1. LiveInv => OnlyPartiesHear
  BY DEF LiveInv, RoomState, Heard, OnlyPartiesHear
<1>. QED  BY <1>1, LiveInvHolds, PTL

\* A connected rider hears every event of the ride, and both parties an SOS.
THEOREM NobodyLeftOut == Spec => []PartiesHear
<1>1. LiveInv => PartiesHear
  BY DEF LiveInv, Heard
<1>. QED  BY <1>1, LiveInvHolds, PTL

\* What an event says has been saved, and unless a save of the ride was overtaken
\* it has not been taken back when the event goes out.
THEOREM NothingPremature == Spec => []EventsFollowCommits
<1>1. LiveInv => EventsFollowCommits
  BY DEF LiveInv, Heard
<1>. QED  BY <1>1, LiveInvHolds, PTL
=============================================================================

------------------------------- MODULE Ratings -------------------------------
(***************************************************************************)
(* Ratings beside the driver accounts: RatingsService stores one vote per  *)
(* rater and ride and then recomputes the ratee's average in two           *)
(* statements, an AVG and an UPDATE.  The UPDATE of a driver's average     *)
(* meets the whole-row saves of DriverAccounts.  Rides here are completed. *)
(***************************************************************************)
EXTENDS DriverAccounts

CONSTANTS
    Rides, Riders,
    RiderOf, DriverOf   \* the parties of each ride

ASSUME RatingNames ==
    /\ RiderOf \in [Rides -> Riders]
    /\ DriverOf \in [Rides -> Registered]
    /\ Votes = [ride: Rides, rateeType: {"driver", "user"}, request: Requests]

VARIABLES
    rideDriver,  \* rideDriver[r]: the ride's driverId
    ratings,     \* rows of ratings
    userRated,   \* userRated[u]: the votes u's ratingAverage averages
    once         \* history: all the sets of votes there have been

ratingVars == <<rideDriver, ratings, userRated, once>>
allVars == <<vars, ratingVars>>

RatingInit ==
    /\ Init
    /\ rideDriver = DriverOf
    /\ ratings = {}
    /\ userRated = [u \in Riders |-> {}]
    /\ once = {{}}

AboutDriver(d) == {x \in ratings : x.rateeType = "driver" /\ DriverOf[x.ride] = d}
AboutUser(u) == {x \in ratings : x.rateeType = "user" /\ RiderOf[x.ride] = u}

Vote(t) == [ride |-> job[t].ride, rateeType |-> job[t].about, request |-> t]
Ratee(t) == IF job[t].about = "driver" THEN DriverOf[job[t].ride]
                                               ELSE RiderOf[job[t].ride]
Taken(t) == \E x \in ratings : /\ x.ride = job[t].ride
                               /\ x.rateeType = job[t].about

\* POST /ratings: by the rider, about the driver, or the other way round; a
\* rider's token, like an admin's, does not depend on the driver's row.
Rate(t) ==
    \E r \in Rides, about \in {"driver", "user"} :
        /\ Admit(t, about = "driver",
                 [NoJob EXCEPT !.op = "rate", !.d = DriverOf[r], !.ride = r,
                               !.about = about], "rateCheck")
        /\ UNCHANGED ratingVars

\* The rater must be of the ride, the ride have a counterparty, and the rater
\* not have voted.
RateCheck(t) ==
    /\ pc[t] = "rateCheck"
    /\ IF rideDriver[job[t].ride] # None /\ ~Taken(t)
       THEN Goto(t, "rateInsert") /\ UNCHANGED <<driver, vehicle, session, job, entity, reloaded>>
       ELSE Refuse(t)
    /\ UNCHANGED ratingVars

\* The unique index on (rideId, raterId) has the last word.
RateInsert(t) ==
    /\ pc[t] = "rateInsert"
    /\ IF Taken(t)
       THEN Refuse(t) /\ UNCHANGED ratingVars
       ELSE /\ ratings' = ratings \cup {Vote(t)}
            /\ once' = once \cup {ratings'}
            /\ Goto(t, "avgRead")
            /\ UNCHANGED <<driver, vehicle, session, job, entity, reloaded, rideDriver, userRated>>

\* SELECT AVG(rating) of the ratee.
AvgRead(t) ==
    /\ pc[t] = "avgRead"
    /\ Hold(t, [rated |-> IF job[t].about = "driver" THEN AboutDriver(Ratee(t))
                                                     ELSE AboutUser(Ratee(t))])
    /\ Goto(t, "avgWrite")
    /\ UNCHANGED <<driver, vehicle, session, job, reloaded, ratingVars>>

\* Fault: the vote is folded into the average the row has.
AvgWriteFolding(t) ==
    LET d == Ratee(t) IN
    /\ pc[t] = "avgWrite"
    /\ IF job[t].about = "driver"
       THEN /\ driver' = [driver EXCEPT ![d] =
                  IF @ \in Absent THEN @ ELSE [@ EXCEPT !.rated = @ \cup {Vote(t)}]]
            /\ UNCHANGED userRated
       ELSE /\ userRated' = [userRated EXCEPT ![Ratee(t)] = @ \cup {Vote(t)}]
            /\ UNCHANGED driver
    /\ Leave(t)
    /\ UNCHANGED <<vehicle, session, rideDriver, ratings, once>>

\* UPDATE of ratingAverage alone; nothing, if the ratee's row is gone.
AvgWrite(t) ==
    LET d == Ratee(t) IN
    /\ pc[t] = "avgWrite"
    /\ IF job[t].about = "driver"
       THEN /\ driver' = [driver EXCEPT ![d] =
                  IF @ \in Absent THEN @ ELSE [@ EXCEPT !.rated = entity[t].rated]]
            /\ UNCHANGED userRated
       ELSE /\ userRated' = [userRated EXCEPT ![Ratee(t)] = entity[t].rated]
            /\ UNCHANGED driver
    /\ Leave(t)
    /\ UNCHANGED <<vehicle, session, rideDriver, ratings, once>>

\* A removal sets the driverId of the driver's rides to NULL.
RidesFollow ==
    /\ rideDriver' = [r \in Rides |->
                         IF rideDriver[r] # None /\ driver'[rideDriver[r]] = Removed
                         THEN None ELSE rideDriver[r]]
    /\ UNCHANGED <<ratings, userRated, once>>

RatingStep(t) ==
    Rate(t) \/ RateCheck(t) \/ RateInsert(t) \/ AvgRead(t) \/ AvgWrite(t)

RatingNext ==
    \/ Next /\ RidesFollow
    \/ \E t \in Requests : RatingStep(t) /\ Outlive /\ UNCHANGED moved

RatingSpec == RatingInit /\ [][RatingNext]_allVars

-----------------------------------------------------------------------------
(* Properties                                                              *)

\* A rater has one vote on a ride, however many requests carry one at once.
OneVotePerRater ==
    \A x, y \in ratings : x.ride = y.ride /\ x.rateeType = y.rateeType => x = y

\* The tables agree with each other under all requests at once: a phone, a
\* plate and a vote are there once, and every vehicle has its owner.
RowsAgree ==
    TypeOK /\ IdentityIsUnique /\ VehiclesHaveOwners /\ OneVotePerRater

\* An average is at every moment one the votes had once, complete up to some
\* vote, whichever of two recomputations is written last and whatever a stale
\* save of the driver's row brings back.  (It may lag behind: the AVG read
\* first may be written last.)
AverageWasOnceTrue ==
    /\ \A d \in Drivers : driver[d] \notin Absent =>
          \E s \in once : driver[d].rated =
              {x \in s : x.rateeType = "driver" /\ DriverOf[x.ride] = d}
    /\ \A u \in Riders :
          \E s \in once : userRated[u] =
              {x \in s : x.rateeType = "user" /\ RiderOf[x.ride] = u}

-----------------------------------------------------------------------------
(* The inductive invariant behind the theorems of DriverProofs             *)

Ops == {"none", "remove", "removeVehicle", "addVehicle", "register", "login", "rate"}
          \cup DriverEdits \cup VehicleEdits
Job == [op: Ops, d: Drivers \cup {None}, v: Vehicles \cup {None}, on: BOOLEAN,
        status: VerificationStatus, phone: Phones \cup {None},
        plate: Plates \cup {None}, ride: Rides \cup {None},
        about: {"driver", "user"}, admin: BOOLEAN]

\* A request names what its operation is about.
Complete(j) ==
    /\ j.op \in DriverEdits \cup {"remove", "addVehicle", "register", "login", "rate"} =>
          j.d \in Drivers
    /\ j.op \in VehicleEdits \cup {"removeVehicle", "addVehicle", "register"} =>
          j.v \in Vehicles
    /\ j.op \in {"update", "register"} => j.phone \in Phones
    /\ j.op \in {"plate", "addVehicle", "register"} => j.plate \in Plates
    /\ j.op = "rate" => j.ride \in Rides

\* Where a handler of an operation may be.
InPlace(w, op) ==
    /\ w = "load" => op \in DriverEdits \cup {"remove"}
    /\ w = "phone" => op = "update"
    /\ w \in {"save", "write"} => op \in DriverEdits \cup VehicleEdits
    /\ w = "revoke" => op \in {"verify", "active", "remove"}
    /\ w = "delete" => op \in {"remove", "removeVehicle"}
    /\ w \in {"check", "vehicle"} => op = "register"
    /\ w = "insert" => op \in {"register", "addVehicle"}
    /\ w \in {"login", "issue"} => op \in {"login", "register"}
    /\ w = "owner" => op = "addVehicle"
    /\ w = "owns" => op \in VehicleEdits \cup {"removeVehicle"}
    /\ w = "loadVehicle" => op \in VehicleEdits
    /\ w \in {"rateCheck", "rateInsert", "avgRead", "avgWrite"} => op = "rate"

\* votes is what all the votes about d, or u, were at one of the times.
DriverAverage(d, votes, times) ==
    \E s \in times : votes = {x \in s : x.rateeType = "driver" /\ DriverOf[x.ride] = d}
UserAverage(u, votes, times) ==
    \E s \in times : votes = {x \in s : x.rateeType = "user" /\ RiderOf[x.ride] = u}

\* What an edit of a driver holds was read from the row of an account that is
\* still in order, or was when the request arrived.
Held(t) ==
    job[t].op \in DriverEdits /\ pc[t] \in {"phone", "save", "write"} =>
        /\ entity[t] \in DriverRow
        /\ DriverAverage(job[t].d, entity[t].rated, once)
        /\ entity[t].active =>
              \/ job[t].op = "active" /\ job[t].on
              \/ resolvePrincipal(job[t].d) \/ t \in outlived

\* The average a rating is about to write.
Averaged(t) ==
    pc[t] = "avgWrite" =>
        /\ entity[t].rated \in SUBSET Votes
        /\ IF job[t].about = "driver" THEN DriverAverage(Ratee(t), entity[t].rated, once)
                                      ELSE UserAverage(Ratee(t), entity[t].rated, once)

\* The ids of a registration are nobody else's yet.
Registering(t) == job[t].op = "register" /\ pc[t] \in {"check", "insert"}
OwnIds(t) ==
    Registering(t) =>
        /\ driver[job[t].d] = None
        /\ \A u \in Requests \ {t} : Registering(u) => job[u].d # job[t].d

RequestOK(t) ==
    /\ job[t] \in Job /\ pc[t] \in Waits
    /\ Complete(job[t]) /\ InPlace(pc[t], job[t].op)
    /\ job[t].op \in DriverEdits => driver[job[t].d] # None
    /\ job[t].op \in VehicleEdits /\ pc[t] \in {"save", "write"} => entity[t] \in VehicleRow
    /\ Held(t) /\ Averaged(t)

Tables ==
    /\ driver \in [Drivers -> DriverRow \cup Absent]
    /\ vehicle \in [Vehicles -> VehicleRow \cup {None}]
    /\ IdentityIsUnique /\ VehiclesHaveOwners
    /\ \A d \in Drivers : driver[d] \notin Absent => DriverAverage(d, driver[d].rated, once)

VotesOK ==
    /\ ratings \subseteq Votes /\ ratings \in once /\ {} \in once
    /\ OneVotePerRater
    /\ DOMAIN userRated = Riders /\ \A u \in Riders : UserAverage(u, userRated[u], once)

SlotTables ==
    /\ pc = [t \in Requests |-> pc[t]] /\ DOMAIN job = Requests
    /\ DOMAIN entity = Requests /\ DOMAIN reloaded = Requests

AccountInv ==
    /\ moved \in [Moves -> Drivers \cup {None}]
    /\ session \in [Drivers -> BOOLEAN]
    /\ SlotTables /\ Tables /\ VotesOK
    /\ \A t \in Requests : RequestOK(t) /\ OwnIds(t)
=============================================================================

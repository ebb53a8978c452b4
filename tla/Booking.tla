------------------------------ MODULE Booking ------------------------------
(***************************************************************************)
(* How rides come to be: RidesService.createRide behind the rider's app    *)
(* (POST /rides) and behind BookingChannelsService (a WhatsApp or voice    *)
(* agent that sends what a caller said).  A request slot serves one call,  *)
(* one awaited call of its handler per step.                               *)
(*                                                                         *)
(* A double booking is kept off by a Redis key per rider and pickup, set   *)
(* with NX and EX 30, that any failing createRide deletes.                 *)
(*                                                                         *)
(* Abstractions.  A text is the set of things the parser and the geocoder  *)
(* make out in it; a pickup is a model value, a trip a category and a      *)
(* distance.  Digits is what is left of a phone number without its "+",    *)
(* of which a guest's placeholder e-mail is made.                          *)
(***************************************************************************)
EXTENDS Fares, FiniteSets

CONSTANTS
    Requests, Users,
    Registered,    \* the riders there are at first
    Phones, PhoneOf,
    Digits,        \* Digits[p]: the digits of phone p
    Places,        \* pickups
    Trips,         \* [category, distance] records that may be asked for
    Failures,      \* may calls be rejected?
    None

ASSUME BookingNames ==
    /\ Registered \subseteq Users
    /\ PhoneOf \in [Registered -> Phones]
    /\ \A u, v \in Registered : PhoneOf[u] = PhoneOf[v] => u = v
    /\ DOMAIN Digits = Phones
    /\ \A trip \in Trips : trip.category \in Categories /\ trip.distance \in Nat
    /\ None \notin Requests \cup Users \cup Phones \cup Places
    /\ Failures \in BOOLEAN

Intents == Users \X Places

VARIABLES
    user,    \* user[u]: row of users, phone |-> None while there is none
    locked,  \* the idempotency keys there are in Redis
    rides,   \* rows of rides, each with the request that saved it
    offered, \* the requests whose ride was announced to the drivers
    pc, job,
    reply,   \* reply[t]: what the caller was told
    setter,  \* history: setter[i]: who set the key of i that is there
    expired, \* history: the requests whose key ran out
    outlasted \* history: the intents of which it ran out under a handler

vars == <<user, locked, rides, offered, pc, job, reply, setter, expired, outlasted>>
rows == <<user, rides, offered>>
past == <<expired, outlasted>>
keys == <<locked, setter, past>>

NoUser == [phone |-> None, mail |-> None, blocked |-> FALSE]
NoJob == [channel |-> "app", phone |-> None, user |-> None, place |-> None, trip |-> None]
Replies == {"none", "booked", "clarification", "duplicate", "refused", "error"}

Init ==
    /\ user = [u \in Users |-> IF u \in Registered
                               THEN [NoUser EXCEPT !.phone = PhoneOf[u]] ELSE NoUser]
    /\ locked = {}
    /\ rides = {}
    /\ offered = {}
    /\ pc = [t \in Requests |-> "idle"]
    /\ job = [t \in Requests |-> NoJob]
    /\ reply = [t \in Requests |-> "none"]
    /\ setter = [i \in Intents |-> None]
    /\ expired = {}
    /\ outlasted = {}

Known(u) == user[u].phone # None
Intent(t) == <<job[t].user, job[t].place>>

Goto(t, where) == pc' = [pc EXCEPT ![t] = where]
Answer(t, what) ==
    /\ Goto(t, "done")
    /\ job' = [job EXCEPT ![t] = NoJob]
    /\ reply' = [reply EXCEPT ![t] = what]

-----------------------------------------------------------------------------
(* The rider's app                                                         *)

\* POST /rides by a rider whose token is good; the body may name a rider.
CreateRide(t) ==
    \E u \in Users, named \in Users \cup {None}, p \in Places, trip \in Trips :
        /\ pc[t] = "idle"
        /\ Known(u) /\ ~user[u].blocked
        /\ IF named \in {None, u}
           THEN /\ job' = [job EXCEPT ![t] = [NoJob EXCEPT !.user = u, !.place = p, !.trip = trip]]
                /\ Goto(t, "setKey")
                /\ UNCHANGED reply
           ELSE Answer(t, "refused")
        /\ UNCHANGED <<rows, keys>>

-----------------------------------------------------------------------------
(* The booking channels                                                    *)

Parts == {"category", "pickup", "dropoff"}
Ends == {"pickup", "dropoff"}

\* What the parser needs said; it is not told of the pins.
parse(said) == Parts \subseteq said

\* An end of the trip is resolved by the caller's pin or from the text.
Resolved(pins, landmarks) == Ends \subseteq pins \cup landmarks

Said(phone, p, trip) ==
    [channel |-> "agent", phone |-> phone, user |-> None, place |-> p, trip |-> trip]

\* POST /booking-channels/parse-and-book with the internal key: what is not
\* understood, or not found on the map, is asked for.
ParseAndBook(t) ==
    \E phone \in Phones \cup {None}, said \in SUBSET Parts,
       pins, landmarks \in SUBSET Ends, p \in Places, trip \in Trips :
        /\ pc[t] = "idle"
        /\ \/ /\ ~(parse(said) /\ Resolved(pins, landmarks))
              /\ Answer(t, "clarification")
           \/ /\ parse(said) /\ Resolved(pins, landmarks)
              /\ job' = [job EXCEPT ![t] = Said(phone, p, trip)]
              /\ Goto(t, "findRider")
              /\ UNCHANGED reply
        /\ UNCHANGED <<rows, keys>>

\* Fault: a call without a phone number is not turned away, and the lookup of
\* an undefined phone returns the first rider of the table.
FindRiderUndefined(t) ==
    /\ pc[t] = "findRider"
    /\ \E u \in Users :
          /\ Known(u) /\ (job[t].phone = None \/ user[u].phone = job[t].phone)
          /\ job' = [job EXCEPT ![t].user = u]
          /\ Goto(t, "setKey")
    /\ UNCHANGED <<rows, keys, reply>>

\* resolveRider: the rider whose phone it is, or else a new one.
FindRider(t) ==
    /\ pc[t] = "findRider"
    /\ \/ /\ job[t].phone = None
          /\ Answer(t, "refused")
       \/ \E u \in Users :
             /\ job[t].phone # None /\ user[u].phone = job[t].phone
             /\ job' = [job EXCEPT ![t].user = u]
             /\ Goto(t, "setKey")
             /\ UNCHANGED reply
       \/ /\ job[t].phone # None
          /\ \A u \in Users : user[u].phone # job[t].phone
          /\ Goto(t, "insertRider")
          /\ UNCHANGED <<job, reply>>
    /\ UNCHANGED <<rows, keys>>

Guest(phone) == [phone |-> phone, mail |-> Digits[phone], blocked |-> FALSE]

\* users has unique indexes on phone and on email.
GuestFits(phone) ==
    \A u \in Users : user[u].phone # phone /\ user[u].mail # Digits[phone]

\* The guest's row is inserted, or the insert is rejected.  Bound: a guest
\* takes one of Users.
InsertRider(t) ==
    /\ pc[t] = "insertRider"
    /\ \/ \E u \in Users :
             /\ GuestFits(job[t].phone) /\ ~Known(u)
             /\ user' = [user EXCEPT ![u] = Guest(job[t].phone)]
             /\ job' = [job EXCEPT ![t].user = u]
             /\ Goto(t, "setKey")
             /\ UNCHANGED reply
       \/ /\ ~GuestFits(job[t].phone) \/ Failures
          /\ Answer(t, "error")
          /\ UNCHANGED user
    /\ UNCHANGED <<rides, offered, keys>>

-----------------------------------------------------------------------------
(* createRide                                                              *)

\* Fault: the key is looked up and then set, without NX.
SetKeyPlain(t) ==
    /\ pc[t] = "setKey"
    /\ locked' = locked \cup {Intent(t)}
    /\ setter' = [setter EXCEPT ![Intent(t)] = t]
    /\ Goto(t, "checkUser")
    /\ UNCHANGED <<rows, past, job, reply>>

\* Fault: the SET stands inside the try.
SetKeyInsideTry(t) ==
    /\ pc[t] = "setKey"
    /\ \/ /\ Intent(t) \notin locked
          /\ locked' = locked \cup {Intent(t)}
          /\ setter' = [setter EXCEPT ![Intent(t)] = t]
          /\ Goto(t, "checkUser")
       \/ /\ Intent(t) \in locked
          /\ Goto(t, "delKey")
          /\ UNCHANGED <<locked, setter>>
    /\ UNCHANGED <<rows, past, job, reply>>

\* SET key locked EX 30 NX; outside the try.
SetKey(t) ==
    /\ pc[t] = "setKey"
    /\ \/ /\ Intent(t) \notin locked
          /\ locked' = locked \cup {Intent(t)}
          /\ setter' = [setter EXCEPT ![Intent(t)] = t]
          /\ Goto(t, "checkUser")
          /\ UNCHANGED <<past, job, reply>>
       \/ /\ Intent(t) \in locked
          /\ Answer(t, "duplicate")
          /\ UNCHANGED keys
       \/ /\ Failures
          /\ Answer(t, "error")
          /\ UNCHANGED keys
    /\ UNCHANGED rows

\* Fault: the key is given back as soon as the rider is checked.
CheckUserReleasing(t) ==
    /\ pc[t] = "checkUser"
    /\ IF Known(job[t].user) /\ ~user[job[t].user].blocked
       THEN /\ Goto(t, "saveRide")
            /\ locked' = locked \ {Intent(t)}
            /\ setter' = [setter EXCEPT ![Intent(t)] = None]
       ELSE Goto(t, "delKey") /\ UNCHANGED <<locked, setter>>
    /\ UNCHANGED <<rows, past, job, reply>>

\* The rider must exist and not be blocked.
CheckUser(t) ==
    /\ pc[t] = "checkUser"
    /\ \/ /\ Known(job[t].user) /\ ~user[job[t].user].blocked
          /\ Goto(t, "saveRide")
       \/ /\ ~Known(job[t].user) \/ user[job[t].user].blocked \/ Failures
          /\ Goto(t, "delKey")
    /\ UNCHANGED <<rows, keys, job, reply>>

\* channel is the ride's originChannel, caller the phone the call came from.
Ride(t) == [request |-> t, channel |-> job[t].channel, caller |-> job[t].phone,
            user |-> job[t].user, place |-> job[t].place,
            fare |-> calculateFare(job[t].trip.distance, job[t].trip.category)]

\* The insert is committed and the ride announced, or the call is rejected,
\* also after the commit.
SaveRide(t) ==
    /\ pc[t] = "saveRide"
    /\ \/ /\ rides' = rides \cup {Ride(t)}
          /\ offered' = offered \cup {t}
          /\ Answer(t, "booked")
       \/ /\ Failures
          /\ rides' \in {rides, rides \cup {Ride(t)}}
          /\ Goto(t, "delKey")
          /\ UNCHANGED <<offered, job, reply>>
    /\ UNCHANGED <<user, keys>>

\* The catch block: whoever set the key, it is deleted; or DEL fails as well.
DelKey(t) ==
    /\ pc[t] = "delKey"
    /\ \/ /\ locked' = locked \ {Intent(t)}
          /\ setter' = [setter EXCEPT ![Intent(t)] = None]
       \/ Failures /\ UNCHANGED <<locked, setter>>
    /\ Answer(t, "error")
    /\ UNCHANGED <<rows, past>>

InCreateRide(t) == pc[t] \in {"checkUser", "saveRide", "delKey"}

\* EX 30, also while a handler is at work.
Expire(i) ==
    /\ i \in locked
    /\ locked' = locked \ {i}
    /\ expired' = expired \cup {setter[i]}
    /\ outlasted' = outlasted \cup
                      {l \in {i} : \E t \in Requests : InCreateRide(t) /\ Intent(t) = l}
    /\ setter' = [setter EXCEPT ![i] = None]
    /\ UNCHANGED <<rows, pc, job, reply>>

\* isBlocked is set in the database by the operators.
Block(u) ==
    /\ Known(u) /\ ~user[u].blocked
    /\ user' = [user EXCEPT ![u].blocked = TRUE]
    /\ UNCHANGED <<rides, offered, keys, pc, job, reply>>

Step(t) ==
    \/ CreateRide(t) \/ ParseAndBook(t) \/ FindRider(t) \/ InsertRider(t)
    \/ SetKey(t) \/ CheckUser(t) \/ SaveRide(t) \/ DelKey(t)

Next ==
    \/ \E t \in Requests : Step(t)
    \/ \E i \in Intents : Expire(i)
    \/ \E u \in Users : Block(u)

Spec == Init /\ [][Next]_vars

-----------------------------------------------------------------------------
(* Properties                                                              *)

RideRow == [request: Requests, channel: {"app", "agent"}, caller: Phones \cup {None},
            user: Users, place: Places, fare: Nat]

Waits == {"idle", "findRider", "insertRider", "setKey", "checkUser",
          "saveRide", "delKey", "done"}
Jobs == [channel: {"app", "agent"}, phone: Phones \cup {None},
         user: Users \cup {None}, place: Places \cup {None}, trip: Trips \cup {None}]

TypeOK ==
    /\ user \in [Users -> [phone: Phones \cup {None},
                           mail: {Digits[p] : p \in Phones} \cup {None},
                           blocked: BOOLEAN]]
    /\ locked \subseteq Intents
    /\ \A r \in rides : r \in RideRow
    /\ offered \subseteq Requests
    /\ pc \in [Requests -> Waits]
    /\ job \in [Requests -> Jobs]
    /\ reply \in [Requests -> Replies]
    /\ setter \in [Intents -> Requests \cup {None}]
    /\ expired \subseteq Requests \cup {None}
    /\ outlasted \subseteq Intents

\* A phone number, however it is written, has one rider, whichever of two
\* first messages is stored first: users' unique indexes settle what the
\* lookup before the insert cannot.
OneGuestPerNumber ==
    \A u, v \in Users :
        /\ Known(u)
        /\ \/ user[u].phone = user[v].phone
           \/ user[u].mail = user[v].mail /\ user[u].mail # None
        => u = v

\* A rider is created for a call only once the call is understood: there are
\* no more guests than calls that were not answered with a question.
GuestsAreCallers ==
    Cardinality({u \in Users \ Registered : Known(u)})
        <= Cardinality({t \in Requests : pc[t] # "idle" /\ reply[t] # "clarification"})

\* A ride an agent books is of the rider whose phone the call came from, and
\* a call without a phone books nothing, least of all for somebody else.
RidesAreTheCallers ==
    \A r \in rides :
        r.channel = "agent" => r.caller # None /\ user[r.user].phone = r.caller

\* A ride is of a rider that exists, and the ones that were announced are
\* exactly the ones answered as booked: an error never leaves an offer.
OffersAreBookings ==
    /\ \A r \in rides : Known(r.user)
    /\ \A t \in Requests : t \in offered <=> reply[t] = "booked"
    /\ \A t \in offered : \E r \in rides : r.request = t

\* What calls leave behind is theirs: one guest per number and none for a text
\* that was not understood, rides for the caller alone, offers for bookings.
CallsAreServed ==
    /\ TypeOK
    /\ OneGuestPerNumber /\ GuestsAreCallers
    /\ RidesAreTheCallers /\ OffersAreBookings

\* Two bookings of one rider at one pickup are apart: before the second was
\* accepted the key of the first had run out, or the first was answered with
\* an error.  A double tap that is answered as booked twice does not exist, but
\* after a handler took more than the 30 s of its key.
DoubleTapBooksOnce ==
    \A x, y \in rides :
        x # y /\ x.user = y.user /\ x.place = y.place =>
            \/ {x.request, y.request} \cap expired # {}
            \/ "error" \in {reply[x.request], reply[y.request]}
            \/ "delKey" \in {pc[x.request], pc[y.request]}
            \/ <<x.user, x.place>> \in outlasted

\* A key is taken away by its time or by the request that set it, and by another
\* one only after a key of that intent ran out under its handler: a request that
\* is turned away as a duplicate leaves the first one's key.
OnlyItsSetterUnlocks ==
    [][\A i \in locked : i \notin locked' =>
          \/ setter[i] \in expired'
          \/ pc[setter[i]] = "delKey" /\ pc'[setter[i]] = "done"
          \/ i \in outlasted]_vars

\* What a ride's fare is split into adds up, the platform has its 4% and less
\* than two kobo more, and nobody pays in.
SharesAddUp ==
    \A r \in rides :
        LET s == splitFareKobo(r.fare) IN
        /\ s.driver + s.platform + s.rider = r.fare
        /\ 100 * s.platform >= 4 * r.fare
        /\ 100 * s.platform < 4 * r.fare + 200
        /\ s.driver >= 0 /\ s.rider >= 0

\* Requests are served one at a time for an intent until a handler outlasts its
\* key, as BookingContract says.
Holder(i) == IF i \in locked THEN setter[i] ELSE None
Contract == INSTANCE BookingContract WITH
    Intents <- Intents, Requests <- Requests, None <- None,
    holder <- [i \in Intents |-> Holder(i)],
    booked <- {r.request : r \in rides}, open <- outlasted
KeepsTheContract == Contract!Spec

-----------------------------------------------------------------------------
(* The inductive invariants behind the theorems of BookingProofs           *)

Fits ==
    /\ locked \subseteq Intents
    /\ pc \in [Requests -> Waits]
    /\ job \in [Requests -> Jobs]
    /\ reply \in [Requests -> Replies]
    /\ setter \in [Intents -> Requests \cup {None}]

\* A call that is under way knows the trip, and in createRide the rider too.
Asked(t) ==
    /\ pc[t] \notin {"idle", "done"} => job[t].trip \in Trips /\ job[t].place \in Places
    /\ InCreateRide(t) \/ pc[t] = "setKey" => job[t].user \in Users

CallInv ==
    /\ Fits
    /\ \A t \in Requests : Asked(t)
    /\ \A r \in rides : r.fare \in Nat

\* Whoever is inside createRide holds the key of the intent, unless one has run
\* out under its handler.
KeyHeld(t) ==
    InCreateRide(t) =>
        \/ Intent(t) \in outlasted
        \/ Intent(t) \in locked /\ setter[Intent(t)] = t

Of(x) == <<x.user, x.place>>

\* A ride's key stays until its time is over or its request fails.
KeyKept(x) ==
    \/ x.request \in expired
    \/ reply[x.request] = "error" \/ pc[x.request] = "delKey"
    \/ Of(x) \in outlasted
    \/ Of(x) \in locked /\ setter[Of(x)] = x.request

\* The request that saved a ride is through with it, and has no other.
RideServed(x) ==
    /\ x.request \in Requests /\ Of(x) \in Intents
    /\ pc[x.request] \in {"delKey", "done"}
    /\ \A y \in rides : x.request = y.request => x = y

KeyInv ==
    /\ \A i \in locked : setter[i] \in Requests
    /\ \A t \in Requests : KeyHeld(t)
    /\ \A x \in rides : RideServed(x) /\ KeyKept(x)

\* What is known of the caller at each stage of a call, and what it was told.
CallerKnown(t) ==
    /\ pc[t] = "insertRider" => job[t].phone # None
    /\ InCreateRide(t) \/ pc[t] = "setKey" =>
          /\ Known(job[t].user)
          /\ job[t].channel = "agent" =>
                job[t].phone # None /\ user[job[t].user].phone = job[t].phone
    /\ pc[t] # "done" => reply[t] = "none"
    /\ t \in offered <=> reply[t] = "booked"

\* The calls that have been answered or have their rider; each guest is one's.
Begun == {t \in Requests : pc[t] # "idle"}
Understood ==
    {t \in Requests : pc[t] \notin {"idle", "findRider", "insertRider"}
                      /\ reply[t] # "clarification"}
Guests == {u \in Users \ Registered : Known(u)}
GuestsCounted ==
    /\ IsFiniteSet(Begun) /\ IsFiniteSet(Guests)
    /\ Cardinality(Guests) <= Cardinality(Understood)

DeskInv ==
    /\ TypeOK /\ OneGuestPerNumber
    /\ \A t \in Requests : CallerKnown(t)
    /\ GuestsCounted /\ RidesAreTheCallers /\ OffersAreBookings
=============================================================================

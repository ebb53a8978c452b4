--------------------------- MODULE BookingProofs ---------------------------
(***************************************************************************)
(* Proofs about Booking: the split of every fare, the idempotency key, and *)
(* what calls leave behind, for any number of calls, riders and pickups.   *)
(***************************************************************************)
EXTENDS Booking, FiniteSetTheorems, TLAPS

-----------------------------------------------------------------------------
(* Money                                                                   *)

\* Whatever the total, its shares add up to it, the platform has its 4% and
\* less than two kobo more.
LEMMA SplitAdds ==
    ASSUME NEW total \in Nat
    PROVE  LET s == splitFareKobo(total) IN
           /\ s.driver + s.platform + s.rider = total
           /\ 100 * s.platform >= 4 * total
           /\ 100 * s.platform < 4 * total + 200
           /\ s.driver >= 0 /\ s.rider >= 0
<1>. DEFINE driver == (total * 95) \div 100
            rider == total \div 100
<1>1. driver \in Int /\ 100 * driver <= total * 95 /\ total * 95 < 100 * driver + 100
  BY SMT
<1>2. rider \in Int /\ 100 * rider <= total /\ total < 100 * rider + 100
  BY SMT
<1>3. splitFareKobo(total) =
         [driver |-> driver, platform |-> total - driver - rider, rider |-> rider]
  BY DEF splitFareKobo
<1>. HIDE DEF driver, rider
<1>. QED  BY <1>1, <1>2, <1>3

LEMMA FareIsNat ==
    ASSUME NEW trip \in Trips
    PROVE  calculateFare(trip.distance, trip.category) \in Nat
<1>1. PICK d \in Nat : d = trip.distance
  BY BookingNames
<1>2. PICK c \in Categories : c = trip.category
  BY BookingNames
<1>3. PICK b \in Nat : b = Base[c]
  BY <1>2 DEF Categories, Base
<1>4. PICK k \in Nat : k = PerKm[c]
  BY <1>2 DEF Categories, PerKm
<1>5. calculateFare(d, c) = 100 * b + d * k
  BY <1>3, <1>4 DEF calculateFare
<1>6. d * k \in Nat
  BY SMT
<1>. QED  BY <1>1, <1>2, <1>5, <1>6

-----------------------------------------------------------------------------
(* What a step does to its own request, and that it leaves the others be.  *)

Others(t) == \A u \in Requests \ {t} :
                pc'[u] = pc[u] /\ job'[u] = job[u] /\ reply'[u] = reply[u]

LEMMA AnswerEffect ==
    ASSUME Fits, NEW t \in Requests, NEW what \in Replies, Answer(t, what)
    PROVE  /\ pc' \in [Requests -> Waits] /\ job' \in [Requests -> Jobs]
           /\ reply' \in [Requests -> Replies]
           /\ pc'[t] = "done" /\ reply'[t] = what
           /\ Others(t)
<1>1. NoJob \in Jobs
  BY DEF NoJob, Jobs
<1>. QED  BY <1>1 DEF Answer, Goto, Fits, Waits, Others

LEMMA GotoEffect ==
    ASSUME Fits, NEW t \in Requests, NEW label \in Waits, Goto(t, label),
           UNCHANGED <<job, reply>>
    PROVE  /\ pc' \in [Requests -> Waits] /\ job' \in [Requests -> Jobs]
           /\ reply' \in [Requests -> Replies]
           /\ pc'[t] = label /\ job'[t] = job[t] /\ reply'[t] = reply[t]
           /\ Others(t)
BY DEF Goto, Fits, Others

LEMMA TakeEffect ==
    ASSUME Fits, NEW t \in Requests, NEW label \in Waits, Goto(t, label),
           NEW j \in Jobs, job' = [job EXCEPT ![t] = j], UNCHANGED reply
    PROVE  /\ pc' \in [Requests -> Waits] /\ job' \in [Requests -> Jobs]
           /\ reply' \in [Requests -> Replies]
           /\ pc'[t] = label /\ job'[t] = j /\ reply'[t] = reply[t]
           /\ Others(t)
BY DEF Goto, Fits, Others

\* A request that is answered.
LEMMA Answered ==
    ASSUME CallInv, NEW t \in Requests, NEW what \in Replies, Answer(t, what),
           locked' \subseteq Intents, setter' \in [Intents -> Requests \cup {None}],
           \A r \in rides' : r.fare \in Nat
    PROVE  CallInv'
<1>1. /\ pc' \in [Requests -> Waits] /\ job' \in [Requests -> Jobs]
      /\ reply' \in [Requests -> Replies] /\ pc'[t] = "done" /\ Others(t)
  BY AnswerEffect DEF CallInv
<1>2. Fits'
  BY <1>1 DEF Fits
<1>3. ASSUME NEW u \in Requests PROVE Asked(u)'
  <2>1. CASE u = t
    BY <1>1, <2>1 DEF Asked, InCreateRide
  <2>2. CASE u # t
    BY <1>1, <2>2 DEF Others, CallInv, Asked, InCreateRide
  <2>. QED  BY <2>1, <2>2
<1>. QED  BY <1>2, <1>3 DEF CallInv

\* A request that goes on, knowing what it has to.
LEMMA Proceeds ==
    ASSUME CallInv, NEW t \in Requests, NEW label \in Waits, Goto(t, label),
           NEW j \in Jobs, job' = [job EXCEPT ![t] = j], UNCHANGED reply,
           j.trip \in Trips, j.place \in Places,
           label \in {"setKey", "checkUser", "saveRide", "delKey"} => j.user \in Users,
           locked' \subseteq Intents, setter' \in [Intents -> Requests \cup {None}],
           \A r \in rides' : r.fare \in Nat
    PROVE  CallInv'
<1>1. /\ pc' \in [Requests -> Waits] /\ job' \in [Requests -> Jobs]
      /\ reply' \in [Requests -> Replies]
      /\ pc'[t] = label /\ job'[t] = j /\ Others(t)
  BY TakeEffect DEF CallInv
<1>2. Fits'
  BY <1>1 DEF Fits
<1>3. ASSUME NEW u \in Requests PROVE Asked(u)'
  <2>1. CASE u = t
    BY <1>1, <2>1 DEF Asked, InCreateRide
  <2>2. CASE u # t
    BY <1>1, <2>2 DEF Others, CallInv, Asked, InCreateRide
  <2>. QED  BY <2>1, <2>2
<1>. QED  BY <1>2, <1>3 DEF CallInv

\* A request that goes on with the job it has.
LEMMA Advances ==
    ASSUME CallInv, NEW t \in Requests, pc[t] \notin {"idle", "done"},
           NEW label \in Waits, Goto(t, label), UNCHANGED <<job, reply>>,
           label \in {"setKey", "checkUser", "saveRide", "delKey"} => job[t].user \in Users,
           locked' \subseteq Intents, setter' \in [Intents -> Requests \cup {None}],
           \A r \in rides' : r.fare \in Nat
    PROVE  CallInv'
<1>1. job[t] \in Jobs /\ job' = [job EXCEPT ![t] = job[t]]
  BY DEF CallInv, Fits
<1>2. job[t].trip \in Trips /\ job[t].place \in Places
  BY DEF CallInv, Asked
<1>. QED  BY <1>1, <1>2, Proceeds

\* The tables and the keys are what other steps leave them.
LEMMA Kept ==
    ASSUME CallInv
    PROVE  /\ UNCHANGED keys => /\ locked' \subseteq Intents
                                /\ setter' \in [Intents -> Requests \cup {None}]
           /\ UNCHANGED rides => \A r \in rides' : r.fare \in Nat
BY DEF CallInv, Fits, keys

\* In createRide a request is about an intent there is.
LEMMA IntentIs ==
    ASSUME CallInv, NEW t \in Requests, InCreateRide(t) \/ pc[t] = "setKey"
    PROVE  /\ job[t].user \in Users /\ job[t].place \in Places /\ job[t].trip \in Trips
           /\ Intent(t) \in Intents
<1>1. job[t].user \in Users /\ job[t].place \in Places /\ job[t].trip \in Trips
  BY DEF CallInv, Asked, InCreateRide
<1>. QED  BY <1>1 DEF Intent, Intents

LEMMA CreateRideCall ==
    ASSUME CallInv, NEW t \in Requests, CreateRide(t)
    PROVE  CallInv'
<1>1. PICK u \in Users, named \in Users \cup {None}, p \in Places, trip \in Trips :
         /\ IF named \in {None, u}
            THEN /\ job' = [job EXCEPT ![t] =
                               [NoJob EXCEPT !.user = u, !.place = p, !.trip = trip]]
                 /\ Goto(t, "setKey")
                 /\ UNCHANGED reply
            ELSE Answer(t, "refused")
         /\ UNCHANGED <<rows, keys>>
  BY DEF CreateRide
<1>2. /\ locked' \subseteq Intents /\ setter' \in [Intents -> Requests \cup {None}]
      /\ \A r \in rides' : r.fare \in Nat
  BY <1>1, Kept DEF rows
<1>3. CASE named \in {None, u}
  <2>. DEFINE j == [NoJob EXCEPT !.user = u, !.place = p, !.trip = trip]
  <2>1. j \in Jobs /\ j.trip \in Trips /\ j.place \in Places /\ j.user \in Users
    BY DEF NoJob, Jobs
  <2>2. job' = [job EXCEPT ![t] = j] /\ Goto(t, "setKey") /\ UNCHANGED reply
    BY <1>1, <1>3
  <2>3. "setKey" \in Waits
    BY DEF Waits
  <2>. HIDE DEF j
  <2>. QED  BY <1>2, <2>1, <2>2, <2>3, Proceeds
<1>4. CASE named \notin {None, u}
  BY <1>1, <1>2, <1>4, Answered DEF Replies
<1>. QED  BY <1>3, <1>4

LEMMA ParseAndBookCall ==
    ASSUME CallInv, NEW t \in Requests, ParseAndBook(t)
    PROVE  CallInv'
<1>1. /\ locked' \subseteq Intents /\ setter' \in [Intents -> Requests \cup {None}]
      /\ \A r \in rides' : r.fare \in Nat
  BY Kept DEF ParseAndBook, rows
<1>2. CASE Answer(t, "clarification")
  BY <1>1, <1>2, Answered DEF Replies
<1>3. ASSUME NEW phone \in Phones \cup {None}, NEW p \in Places, NEW trip \in Trips,
             job' = [job EXCEPT ![t] = Said(phone, p, trip)],
             Goto(t, "findRider"), UNCHANGED reply
      PROVE  CallInv'
  <2>1. /\ Said(phone, p, trip) \in Jobs
        /\ Said(phone, p, trip).trip \in Trips /\ Said(phone, p, trip).place \in Places
    BY DEF Said, Jobs
  <2>2. "findRider" \in Waits
    BY DEF Waits
  <2>. QED  BY <1>1, <1>3, <2>1, <2>2, Proceeds
<1>. QED  BY <1>2, <1>3 DEF ParseAndBook

\* The rider has been found, or put into the table.
LEMMA RiderTaken ==
    ASSUME CallInv, NEW t \in Requests, pc[t] \in {"findRider", "insertRider"},
           NEW u \in Users, job' = [job EXCEPT ![t].user = u], Goto(t, "setKey"),
           UNCHANGED <<reply, rides, keys>>
    PROVE  CallInv'
<1>. DEFINE j == [job[t] EXCEPT !.user = u]
<1>1. job[t] \in Jobs /\ job[t].trip \in Trips /\ job[t].place \in Places
  BY DEF CallInv, Fits, Asked
<1>2. /\ j \in Jobs /\ j.trip \in Trips /\ j.place \in Places /\ j.user \in Users
      /\ job' = [job EXCEPT ![t] = j]
  BY <1>1 DEF Jobs
<1>3. "setKey" \in Waits
  BY DEF Waits
<1>. HIDE DEF j
<1>. QED  BY <1>2, <1>3, Kept, Proceeds

LEMMA FindRiderCall ==
    ASSUME CallInv, NEW t \in Requests, FindRider(t)
    PROVE  CallInv'
<1>1. pc[t] = "findRider" /\ UNCHANGED <<rides, keys>>
  BY DEF FindRider, rows
<1>2. CASE Answer(t, "refused")
  BY <1>1, <1>2, Kept, Answered DEF Replies
<1>3. ASSUME NEW u \in Users, job' = [job EXCEPT ![t].user = u],
             Goto(t, "setKey"), UNCHANGED reply
      PROVE  CallInv'
  BY <1>1, <1>3, RiderTaken
<1>4. CASE Goto(t, "insertRider") /\ UNCHANGED <<job, reply>>
  BY <1>1, <1>4, Kept, Advances DEF Waits
<1>. QED  BY <1>2, <1>3, <1>4 DEF FindRider

LEMMA InsertRiderCall ==
    ASSUME CallInv, NEW t \in Requests, InsertRider(t)
    PROVE  CallInv'
<1>1. pc[t] = "insertRider" /\ UNCHANGED <<rides, keys>>
  BY DEF InsertRider
<1>2. CASE Answer(t, "error")
  BY <1>1, <1>2, Kept, Answered DEF Replies
<1>3. ASSUME NEW u \in Users, job' = [job EXCEPT ![t].user = u],
             Goto(t, "setKey"), UNCHANGED reply
      PROVE  CallInv'
  BY <1>1, <1>3, RiderTaken
<1>. QED  BY <1>2, <1>3 DEF InsertRider

LEMMA SetKeyCall ==
    ASSUME CallInv, NEW t \in Requests, SetKey(t)
    PROVE  CallInv'
<1>1. pc[t] = "setKey" /\ UNCHANGED rides
  BY DEF SetKey, rows
<1>2. ASSUME NEW what \in {"duplicate", "error"}, Answer(t, what), UNCHANGED keys
      PROVE  CallInv'
  BY <1>1, <1>2, Kept, Answered DEF Replies
<1>3. CASE /\ locked' = locked \cup {Intent(t)}
           /\ setter' = [setter EXCEPT ![Intent(t)] = t]
           /\ Goto(t, "checkUser")
           /\ UNCHANGED <<job, reply>>
  <2>1. Intent(t) \in Intents /\ job[t].user \in Users
    BY <1>1, IntentIs
  <2>2. locked' \subseteq Intents /\ setter' \in [Intents -> Requests \cup {None}]
    BY <1>3, <2>1 DEF CallInv, Fits
  <2>. QED  BY <1>1, <1>3, <2>1, <2>2, Kept, Advances DEF Waits
<1>. QED  BY <1>2, <1>3 DEF SetKey

LEMMA CheckUserCall ==
    ASSUME CallInv, NEW t \in Requests, CheckUser(t)
    PROVE  CallInv'
<1>1. pc[t] = "checkUser" /\ UNCHANGED <<rides, keys, job, reply>>
  BY DEF CheckUser, rows
<1>2. PICK label \in {"saveRide", "delKey"} : Goto(t, label)
  BY DEF CheckUser
<1>3. job[t].user \in Users /\ label \in Waits
  BY <1>1, IntentIs DEF InCreateRide, Waits
<1>. QED  BY <1>1, <1>2, <1>3, Kept, Advances

LEMMA SaveRideCall ==
    ASSUME CallInv, NEW t \in Requests, SaveRide(t)
    PROVE  CallInv'
<1>1. pc[t] = "saveRide" /\ UNCHANGED keys /\ rides' \in {rides, rides \cup {Ride(t)}}
  BY DEF SaveRide
<1>2. job[t].user \in Users /\ job[t].trip \in Trips
  BY <1>1, IntentIs DEF InCreateRide
<1>3. Ride(t).fare \in Nat
  BY <1>2, FareIsNat DEF Ride
<1>4. /\ \A r \in rides' : r.fare \in Nat
      /\ locked' \subseteq Intents /\ setter' \in [Intents -> Requests \cup {None}]
  BY <1>1, <1>3, Kept DEF CallInv
<1>5. CASE Answer(t, "booked")
  BY <1>4, <1>5, Answered DEF Replies
<1>6. CASE Goto(t, "delKey") /\ UNCHANGED <<job, reply>>
  BY <1>1, <1>2, <1>4, <1>6, Advances DEF Waits
<1>. QED  BY <1>5, <1>6 DEF SaveRide

LEMMA DelKeyCall ==
    ASSUME CallInv, NEW t \in Requests, DelKey(t)
    PROVE  CallInv'
<1>1. pc[t] = "delKey" /\ UNCHANGED rides /\ Answer(t, "error")
  BY DEF DelKey, rows
<1>2. locked' \subseteq Intents /\ setter' \in [Intents -> Requests \cup {None}]
  BY DEF DelKey, CallInv, Fits
<1>. QED  BY <1>1, <1>2, Kept, Answered DEF Replies

\* Time and the operators touch no request.
LEMMA WorldCall ==
    ASSUME CallInv, UNCHANGED <<rides, pc, job, reply>>,
           locked' \subseteq Intents, setter' \in [Intents -> Requests \cup {None}]
    PROVE  CallInv'
BY DEF CallInv, Fits, Asked, InCreateRide

LEMMA CallNext == CallInv /\ [Next]_vars => CallInv'
<1>. SUFFICES ASSUME CallInv, [Next]_vars PROVE CallInv'
  OBVIOUS
<1>1. ASSUME NEW t \in Requests, Step(t) PROVE CallInv'
  BY <1>1, CreateRideCall, ParseAndBookCall, FindRiderCall, InsertRiderCall,
     SetKeyCall, CheckUserCall, SaveRideCall, DelKeyCall DEF Step
<1>2. ASSUME NEW i \in Intents, Expire(i) PROVE CallInv'
  <2>1. locked' \subseteq Intents /\ setter' \in [Intents -> Requests \cup {None}]
    BY <1>2 DEF Expire, CallInv, Fits
  <2>. QED  BY <1>2, <2>1, WorldCall DEF Expire, rows
<1>3. ASSUME NEW u \in Users, Block(u) PROVE CallInv'
  BY <1>3, Kept, WorldCall DEF Block
<1>4. CASE UNCHANGED vars
  BY <1>4, Kept, WorldCall DEF vars, keys, past
<1>. QED  BY <1>1, <1>2, <1>3, <1>4 DEF Next

LEMMA CallInit == Init => CallInv
<1>. SUFFICES ASSUME Init PROVE CallInv
  OBVIOUS
<1>1. NoJob \in Jobs
  BY DEF NoJob, Jobs
<1>2. Fits
  BY <1>1 DEF Init, Fits, Waits, Replies
<1>. QED  BY <1>2 DEF Init, CallInv, Asked, InCreateRide

LEMMA CallInvHolds == Spec => []CallInv
<1>. QED  BY CallInit, CallNext, PTL DEF Spec

\* Of every ride that is booked, whatever its category and distance, the three
\* shares are the fare: no kobo is made or lost, nobody pays in, and the
\* platform has its 4% and less than two kobo of remainder.
THEOREM SharesAlwaysAddUp == Spec => []SharesAddUp
<1>1. CallInv => SharesAddUp
  BY SplitAdds DEF CallInv, SharesAddUp
<1>. QED  BY <1>1, CallInvHolds, PTL

-----------------------------------------------------------------------------
(* The idempotency key.  SET stands outside the try, so that a request that  *)
(* deletes a key has set it; and a key that is still there is its setter's   *)
(* until a handler outlasts the key of that intent.                          *)

\* A request that is not in createRide yet, and is not after the step.
LEMMA QuietKey ==
    ASSUME CallInv, KeyInv, NEW t \in Requests, Others(t),
           pc[t] \in {"idle", "findRider", "insertRider", "setKey"},
           ~InCreateRide(t)', UNCHANGED <<rides, keys>>
    PROVE  KeyInv'
<1>1. ASSUME NEW u \in Requests PROVE KeyHeld(u)'
  <2>1. CASE u = t
    BY <2>1 DEF KeyHeld
  <2>2. CASE u # t
    BY <2>2 DEF KeyInv, KeyHeld, Others, InCreateRide, Intent, keys, past
  <2>. QED  BY <2>1, <2>2
<1>2. ASSUME NEW x \in rides' PROVE RideServed(x)' /\ KeyKept(x)'
  <2>1. x \in rides /\ RideServed(x) /\ KeyKept(x)
    BY DEF KeyInv
  <2>2. x.request \in Requests \ {t}
    BY <2>1 DEF RideServed
  <2>. QED  BY <2>1, <2>2 DEF RideServed, KeyKept, Others, Of, keys, past
<1>9. \A i \in locked' : setter'[i] \in Requests
  BY DEF KeyInv, keys
<1>. QED  BY <1>1, <1>2, <1>9 DEF KeyInv

LEMMA BeforeKey ==
    ASSUME CallInv, KeyInv, NEW t \in Requests,
           CreateRide(t) \/ ParseAndBook(t) \/ FindRider(t) \/ InsertRider(t)
    PROVE  KeyInv'
<1>1. Fits
  BY DEF CallInv
<1>2. UNCHANGED <<rides, keys>> /\ pc[t] \in {"idle", "findRider", "insertRider", "setKey"}
  BY DEF CreateRide, ParseAndBook, FindRider, InsertRider, rows
<1>3. \/ \E what \in Replies : Answer(t, what)
      \/ \E label \in {"findRider", "insertRider", "setKey"} :
            /\ Goto(t, label) /\ UNCHANGED reply
            /\ \A u \in Requests \ {t} : job'[u] = job[u]
  BY <1>1 DEF CreateRide, ParseAndBook, FindRider, InsertRider, Replies, Fits
<1>4. ~InCreateRide(t)' /\ Others(t)
  <2>1. ASSUME NEW what \in Replies, Answer(t, what) PROVE ~InCreateRide(t)' /\ Others(t)
    BY <1>1, <2>1, AnswerEffect DEF InCreateRide
  <2>2. ASSUME NEW label \in {"findRider", "insertRider", "setKey"}, Goto(t, label),
               UNCHANGED reply, \A u \in Requests \ {t} : job'[u] = job[u]
        PROVE  ~InCreateRide(t)' /\ Others(t)
    BY <1>1, <2>2 DEF Goto, Fits, InCreateRide, Others
  <2>. QED  BY <1>3, <2>1, <2>2
<1>. QED  BY <1>2, <1>4, QuietKey

LEMMA SetKeyKey ==
    ASSUME CallInv, KeyInv, NEW t \in Requests, SetKey(t)
    PROVE  KeyInv'
<1>1. Fits /\ pc[t] = "setKey" /\ UNCHANGED rides
  BY DEF CallInv, SetKey, rows
<1>2. ASSUME NEW what \in {"duplicate", "error"}, Answer(t, what), UNCHANGED keys
      PROVE  KeyInv'
  <2>1. ~InCreateRide(t)' /\ Others(t)
    BY <1>1, <1>2, AnswerEffect DEF InCreateRide, Replies
  <2>. QED  BY <1>1, <1>2, <2>1, QuietKey
<1>3. CASE /\ Intent(t) \notin locked
           /\ locked' = locked \cup {Intent(t)}
           /\ setter' = [setter EXCEPT ![Intent(t)] = t]
           /\ Goto(t, "checkUser")
           /\ UNCHANGED <<past, job, reply>>
  <2>1. PICK i \in Intents : i = Intent(t)
    BY <1>1, IntentIs
  <2>2. pc'[t] = "checkUser" /\ Others(t) /\ UNCHANGED job
    BY <1>1, <1>3, GotoEffect DEF Waits
  <2>3. /\ i \in locked' /\ setter'[i] = t
        /\ \A l \in locked : l \in Intents /\ l \in locked' /\ setter'[l] = setter[l]
    BY <1>1, <1>3, <2>1 DEF Fits
  <2>4. ASSUME NEW u \in Requests PROVE KeyHeld(u)'
    <3>1. CASE u = t
      BY <2>1, <2>2, <2>3, <3>1 DEF KeyHeld, Intent
    <3>2. CASE u # t
      BY <1>3, <2>2, <2>3, <3>2 DEF KeyInv, KeyHeld, Others, InCreateRide, Intent, past
    <3>. QED  BY <3>1, <3>2
  <2>5. ASSUME NEW x \in rides' PROVE RideServed(x)' /\ KeyKept(x)'
    <3>1. x \in rides /\ RideServed(x) /\ KeyKept(x)
      BY <1>1 DEF KeyInv
    <3>2. x.request \in Requests \ {t}
      BY <1>1, <3>1 DEF RideServed
    <3>. QED  BY <1>1, <1>3, <2>2, <2>3, <3>1, <3>2 DEF RideServed, KeyKept, Others, Of, past
  <2>6. \A l \in locked' : setter'[l] \in Requests
    BY <1>3, <2>1, <2>3 DEF KeyInv
  <2>. QED  BY <2>4, <2>5, <2>6 DEF KeyInv
<1>. QED  BY <1>2, <1>3 DEF SetKey

LEMMA CheckUserKey ==
    ASSUME CallInv, KeyInv, NEW t \in Requests, CheckUser(t)
    PROVE  KeyInv'
<1>1. Fits /\ pc[t] = "checkUser" /\ UNCHANGED <<rides, keys, job, reply>>
  BY DEF CallInv, CheckUser, rows
<1>2. PICK label \in {"saveRide", "delKey"} : Goto(t, label)
  BY DEF CheckUser
<1>3. Others(t) /\ pc'[t] = label
  BY <1>1, <1>2, GotoEffect DEF Waits
<1>4. ASSUME NEW u \in Requests PROVE KeyHeld(u)'
  <2>1. InCreateRide(u)' => InCreateRide(u)
    BY <1>1, <1>3 DEF Others, InCreateRide
  <2>. QED  BY <1>1, <2>1 DEF KeyInv, KeyHeld, Intent, keys, past
<1>5. ASSUME NEW x \in rides' PROVE RideServed(x)' /\ KeyKept(x)'
  <2>1. x \in rides /\ RideServed(x) /\ KeyKept(x)
    BY <1>1 DEF KeyInv
  <2>2. x.request \in Requests \ {t}
    BY <1>1, <2>1 DEF RideServed
  <2>. QED  BY <1>1, <1>3, <2>1, <2>2 DEF RideServed, KeyKept, Others, Of, keys, past
<1>9. \A i \in locked' : setter'[i] \in Requests
  BY <1>1 DEF KeyInv, keys
<1>. QED  BY <1>4, <1>5, <1>9 DEF KeyInv

LEMMA SaveRideKey ==
    ASSUME CallInv, KeyInv, NEW t \in Requests, SaveRide(t)
    PROVE  KeyInv'
<1>1. /\ Fits /\ pc[t] = "saveRide" /\ UNCHANGED keys
      /\ rides' \in {rides, rides \cup {Ride(t)}}
  BY DEF CallInv, SaveRide
<1>2. /\ Others(t) /\ pc'[t] \in {"delKey", "done"}
      /\ pc'[t] = "delKey" => UNCHANGED job
  <2>1. CASE Answer(t, "booked")
    BY <1>1, <2>1, AnswerEffect DEF Replies
  <2>2. CASE Goto(t, "delKey") /\ UNCHANGED <<job, reply>>
    BY <1>1, <2>2, GotoEffect DEF Waits
  <2>. QED  BY <2>1, <2>2 DEF SaveRide
<1>3. /\ Intent(t) \in Intents
      /\ \/ Intent(t) \in outlasted
         \/ Intent(t) \in locked /\ setter[Intent(t)] = t
  BY <1>1, IntentIs DEF KeyInv, KeyHeld, InCreateRide
<1>4. ASSUME NEW u \in Requests PROVE KeyHeld(u)'
  <2>1. CASE u = t
    <3>1. CASE pc'[t] = "delKey"
      BY <1>1, <1>2, <1>3, <2>1, <3>1 DEF KeyHeld, Intent, keys, past
    <3>2. CASE pc'[t] = "done"
      BY <2>1, <3>2 DEF KeyHeld, InCreateRide
    <3>. QED  BY <1>2, <3>1, <3>2
  <2>2. CASE u # t
    BY <1>1, <1>2, <2>2 DEF KeyInv, KeyHeld, Others, InCreateRide, Intent, keys, past
  <2>. QED  BY <2>1, <2>2
<1>5. ASSUME NEW x \in rides
      PROVE  /\ x.request \in Requests \ {t} /\ Of(x) \in Intents
             /\ pc'[x.request] \in {"delKey", "done"}
             /\ KeyKept(x)'
             /\ \A y \in rides : x.request = y.request => x = y
  <2>1. RideServed(x) /\ KeyKept(x)
    BY DEF KeyInv
  <2>2. x.request \in Requests \ {t}
    BY <1>1, <2>1 DEF RideServed
  <2>. QED  BY <1>1, <1>2, <2>1, <2>2 DEF RideServed, KeyKept, Others, Of, keys, past
<1>6. Ride(t).request = t /\ Of(Ride(t)) = Intent(t)
  BY DEF Ride, Of, Intent
<1>7. ASSUME NEW x \in rides' PROVE RideServed(x)' /\ KeyKept(x)'
  <2>1. CASE x \in rides
    <3>1. \A y \in rides' : x.request = y.request => x = y
      BY <1>1, <1>5, <1>6, <2>1
    <3>. QED  BY <1>5, <2>1, <3>1 DEF RideServed, Of
  <2>2. CASE x = Ride(t)
    <3>1. \A y \in rides' : x.request = y.request => x = y
      BY <1>1, <1>5, <1>6, <2>2
    <3>2. RideServed(x)'
      BY <1>2, <1>3, <1>6, <2>2, <3>1 DEF RideServed, Of
    <3>3. Of(x) \in outlasted' \/ (Of(x) \in locked' /\ setter'[Of(x)] = x.request)
      BY <1>1, <1>3, <1>6, <2>2 DEF keys, past
    <3>. QED  BY <3>2, <3>3 DEF KeyKept, Of
  <2>. QED  BY <1>1, <2>1, <2>2
<1>9. \A i \in locked' : setter'[i] \in Requests
  BY <1>1 DEF KeyInv, keys
<1>. QED  BY <1>4, <1>7, <1>9 DEF KeyInv

LEMMA DelKeyKey ==
    ASSUME CallInv, KeyInv, NEW t \in Requests, DelKey(t)
    PROVE  KeyInv'
<1>1. Fits /\ pc[t] = "delKey" /\ Answer(t, "error") /\ UNCHANGED <<rides, expired, outlasted>>
  BY DEF CallInv, DelKey, rows, past
<1>2. Others(t) /\ pc'[t] = "done" /\ reply'[t] = "error"
  BY <1>1, AnswerEffect DEF Replies
<1>3. PICK i \in Intents :
         i = Intent(t) /\ (i \in outlasted \/ (i \in locked /\ setter[i] = t))
  BY <1>1, IntentIs DEF KeyInv, KeyHeld, InCreateRide
<1>4. ASSUME NEW l \in locked, l \notin outlasted, setter[l] # t
      PROVE  l \in locked' /\ setter'[l] = setter[l]
  <2>1. l # i /\ l \in Intents
    BY <1>1, <1>3, <1>4 DEF Fits
  <2>. QED  BY <1>1, <1>3, <2>1 DEF DelKey, Fits
<1>5. ASSUME NEW u \in Requests PROVE KeyHeld(u)'
  <2>1. CASE u = t
    BY <1>2, <2>1 DEF KeyHeld, InCreateRide
  <2>2. CASE u # t
    BY <1>1, <1>2, <1>4, <2>2 DEF KeyInv, KeyHeld, Others, InCreateRide, Intent
  <2>. QED  BY <2>1, <2>2
<1>6. ASSUME NEW x \in rides' PROVE RideServed(x)' /\ KeyKept(x)'
  <2>1. x \in rides /\ RideServed(x) /\ KeyKept(x)
    BY <1>1 DEF KeyInv
  <2>2. CASE x.request = t
    BY <1>1, <1>2, <2>1, <2>2 DEF RideServed, KeyKept, Of
  <2>3. CASE x.request # t
    BY <1>1, <1>2, <1>4, <2>1, <2>3 DEF RideServed, KeyKept, Others, Of
  <2>. QED  BY <2>2, <2>3
<1>9. \A l \in locked' : setter'[l] \in Requests
  BY <1>1 DEF KeyInv, DelKey, Fits
<1>. QED  BY <1>5, <1>6, <1>9 DEF KeyInv

LEMMA ExpireKey ==
    ASSUME CallInv, KeyInv, NEW i \in Intents, Expire(i)
    PROVE  KeyInv'
<1>1. /\ Fits /\ i \in locked /\ locked' = locked \ {i}
      /\ expired' = expired \cup {setter[i]}
      /\ setter' = [setter EXCEPT ![i] = None]
      /\ UNCHANGED <<rides, pc, job, reply>>
      /\ outlasted \subseteq outlasted'
      /\ \A u \in Requests : InCreateRide(u) /\ Intent(u) = i => i \in outlasted'
  BY DEF CallInv, Expire, rows
<1>2. \A l \in Intents \ {i} : setter'[l] = setter[l]
  BY <1>1 DEF Fits
<1>3. ASSUME NEW u \in Requests PROVE KeyHeld(u)'
  <2>1. InCreateRide(u) => Intent(u) \in Intents
    BY IntentIs
  <2>. QED  BY <1>1, <1>2, <2>1 DEF KeyInv, KeyHeld, InCreateRide, Intent
<1>4. ASSUME NEW x \in rides' PROVE RideServed(x)' /\ KeyKept(x)'
  <2>1. x \in rides /\ RideServed(x) /\ KeyKept(x)
    BY <1>1 DEF KeyInv
  <2>. QED  BY <1>1, <1>2, <2>1 DEF RideServed, KeyKept, Of
<1>9. \A l \in locked' : setter'[l] \in Requests
  BY <1>1, <1>2 DEF KeyInv, Fits
<1>. QED  BY <1>3, <1>4, <1>9 DEF KeyInv

LEMMA WorldKey ==
    ASSUME KeyInv, UNCHANGED <<rides, keys, pc, job, reply>>
    PROVE  KeyInv'
BY DEF KeyInv, KeyHeld, InCreateRide, Intent, RideServed, KeyKept, Of, keys, past

LEMMA KeyNext == CallInv /\ KeyInv /\ [Next]_vars => KeyInv'
<1>. SUFFICES ASSUME CallInv, KeyInv, [Next]_vars PROVE KeyInv'
  OBVIOUS
<1>1. ASSUME NEW t \in Requests, Step(t) PROVE KeyInv'
  BY <1>1, BeforeKey, SetKeyKey, CheckUserKey, SaveRideKey, DelKeyKey DEF Step
<1>2. ASSUME NEW i \in Intents, Expire(i) PROVE KeyInv'
  BY <1>2, ExpireKey
<1>3. ASSUME NEW u \in Users, Block(u) PROVE KeyInv'
  BY <1>3, WorldKey DEF Block
<1>4. CASE UNCHANGED vars
  BY <1>4, WorldKey DEF vars, keys, past
<1>. QED  BY <1>1, <1>2, <1>3, <1>4 DEF Next

LEMMA KeyInvHolds == Spec => []KeyInv
<1>1. Init => KeyInv
  BY DEF Init, KeyInv, KeyHeld, InCreateRide
<1>. QED  BY <1>1, KeyNext, CallInvHolds, PTL DEF Spec

\* A double tap books once: two rides of one rider at one pickup are 30 s apart,
\* or an error lies between, or a handler for that pickup has been at work for
\* longer than its key.
THEOREM DoubleTapSafe == Spec => []DoubleTapBooksOnce
<1>1. KeyInv => DoubleTapBooksOnce
  <2>. SUFFICES ASSUME KeyInv, NEW x \in rides, NEW y \in rides,
                       x # y, x.user = y.user, x.place = y.place
                PROVE  \/ {x.request, y.request} \cap expired # {}
                       \/ "error" \in {reply[x.request], reply[y.request]}
                       \/ "delKey" \in {pc[x.request], pc[y.request]}
                       \/ <<x.user, x.place>> \in outlasted
    BY DEF DoubleTapBooksOnce
  <2>1. KeyKept(x) /\ KeyKept(y) /\ x.request # y.request /\ Of(x) = Of(y)
    BY DEF KeyInv, RideServed, Of
  <2>. QED  BY <2>1 DEF KeyKept, Of
<1>. QED  BY <1>1, KeyInvHolds, PTL

-----------------------------------------------------------------------------
(* Who takes a key away, and what that makes of Booking as a whole.        *)

LEMMA UnlockStep ==
    ASSUME CallInv, KeyInv, [Next]_vars, NEW i \in locked, i \notin locked'
    PROVE  \/ setter[i] \in expired'
           \/ pc[setter[i]] = "delKey" /\ pc'[setter[i]] = "done"
           \/ i \in outlasted
<1>1. ASSUME NEW t \in Requests, DelKey(t), i \notin outlasted
      PROVE  pc[setter[i]] = "delKey" /\ pc'[setter[i]] = "done"
  <2>1. pc[t] = "delKey" /\ Answer(t, "error") /\ Fits
    BY <1>1 DEF DelKey, CallInv
  <2>2. i = Intent(t)
    BY <1>1 DEF DelKey
  <2>3. setter[i] = t
    BY <1>1, <2>1, <2>2 DEF KeyInv, KeyHeld, InCreateRide
  <2>. QED  BY <2>1, <2>3, AnswerEffect DEF Replies
<1>2. ASSUME NEW l \in Intents, Expire(l) PROVE setter[i] \in expired'
  BY <1>2 DEF Expire
<1>3. ASSUME NEW t \in Requests, Step(t), ~DelKey(t) PROVE locked \subseteq locked'
  BY <1>3 DEF Step, CreateRide, ParseAndBook, FindRider, InsertRider, SetKey,
              CheckUser, SaveRide, keys
<1>4. ASSUME NEW u \in Users, Block(u) PROVE locked' = locked
  BY <1>4 DEF Block, keys
<1>5. CASE UNCHANGED vars
  BY <1>5 DEF vars
<1>. QED  BY <1>1, <1>2, <1>3, <1>4, <1>5 DEF Next

\* A key that is there is taken away by its time or by the failure of the
\* request that set it; another request, which is never a refused duplicate, takes
\* it only after a handler outlasted a key of that intent: the DEL of createRide.
THEOREM KeysAreTheSetters == Spec => OnlyItsSetterUnlocks
<1>1. CallInv /\ KeyInv /\ [Next]_vars =>
         [\A i \in locked : i \notin locked' =>
             \/ setter[i] \in expired'
             \/ pc[setter[i]] = "delKey" /\ pc'[setter[i]] = "done"
             \/ i \in outlasted]_vars
  BY UnlockStep
<1>. QED  BY <1>1, CallInvHolds, KeyInvHolds, PTL DEF Spec, OnlyItsSetterUnlocks

-----------------------------------------------------------------------------
(* Booking implements BookingContract.                                     *)

Holders == [i \in Intents |-> Holder(i)]
Booked == {r.request : r \in rides}

\* A step on the key of one intent is a step on its holder.
LEMMA HolderChanges ==
    ASSUME NEW i \in Intents, NEW h,
           \A l \in Intents \ {i} : (l \in locked' <=> l \in locked) /\ setter'[l] = setter[l],
           Holder(i)' = h
    PROVE  Holders' = [Holders EXCEPT ![i] = h]
<1>1. ASSUME NEW l \in Intents \ {i} PROVE Holder(l)' = Holder(l)
  BY <1>1 DEF Holder
<1>. QED  BY <1>1 DEF Holders

LEMMA ContractSame ==
    ASSUME UNCHANGED <<rides, keys>>
    PROVE  UNCHANGED Contract!vars
BY DEF keys, past, Contract!vars, Holder

LEMMA SetKeyReserves ==
    ASSUME CallInv, KeyInv, NEW t \in Requests, SetKey(t)
    PROVE  [Contract!Next]_(Contract!vars)
<1>1. UNCHANGED rides /\ pc[t] = "setKey"
  BY DEF SetKey, rows
<1>2. CASE UNCHANGED keys
  BY <1>1, <1>2, ContractSame
<1>3. CASE /\ Intent(t) \notin locked
           /\ locked' = locked \cup {Intent(t)}
           /\ setter' = [setter EXCEPT ![Intent(t)] = t]
           /\ UNCHANGED past
  <2>1. PICK i \in Intents : i = Intent(t)
    BY <1>1, IntentIs
  <2>2. Holder(i)' = t /\ Holder(i) = None
    BY <1>3, <2>1 DEF Holder, CallInv, Fits
  <2>3. Holders' = [Holders EXCEPT ![i] = t]
    BY <1>3, <2>1, <2>2, HolderChanges DEF CallInv, Fits
  <2>4. t \notin Booked /\ UNCHANGED Booked
    BY <1>1 DEF Booked, KeyInv, RideServed
  <2>5. Contract!Reserve(i, t)
    BY <1>3, <2>2, <2>3, <2>4 DEF Contract!Reserve, Holders, Booked, past
  <2>. QED  BY <2>5 DEF Contract!Next
<1>. QED  BY <1>2, <1>3 DEF SetKey

LEMMA SaveRideBooks ==
    ASSUME CallInv, KeyInv, NEW t \in Requests, SaveRide(t)
    PROVE  [Contract!Next]_(Contract!vars)
<1>1. pc[t] = "saveRide" /\ UNCHANGED keys /\ rides' \in {rides, rides \cup {Ride(t)}}
  BY DEF SaveRide
<1>2. CASE UNCHANGED rides
  BY <1>1, <1>2, ContractSame
<1>3. CASE rides' = rides \cup {Ride(t)}
  <2>1. PICK i \in Intents :
           i = Intent(t) /\ (i \in outlasted \/ (i \in locked /\ setter[i] = t))
    BY <1>1, IntentIs DEF KeyInv, KeyHeld, InCreateRide
  <2>2. Holder(i) = t \/ i \in outlasted
    BY <2>1 DEF Holder
  <2>3. UNCHANGED <<Holders, outlasted>>
    BY <1>1 DEF Holder, Holders, keys, past
  <2>4. t \notin Booked
    BY <1>1 DEF Booked, KeyInv, RideServed
  <2>5. Booked' = Booked \cup {t}
    <3>1. Ride(t).request = t
      BY DEF Ride
    <3>. QED  BY <1>3, <3>1 DEF Booked
  <2>6. Contract!Book(i, t)
    BY <2>2, <2>3, <2>4, <2>5 DEF Contract!Book, Holders, Booked
  <2>. QED  BY <2>6 DEF Contract!Next
<1>. QED  BY <1>1, <1>2, <1>3

\* The key is gone: whoever held the intent, it is free.
LEMMA KeyGone ==
    ASSUME CallInv, NEW i \in Intents, locked' = locked \ {i},
           setter' = [setter EXCEPT ![i] = None]
    PROVE  Holders' = [Holders EXCEPT ![i] = None]
<1>1. Holder(i)' = None
  BY DEF Holder
<1>. QED  BY <1>1, HolderChanges DEF CallInv, Fits

LEMMA DelKeyFrees ==
    ASSUME CallInv, NEW t \in Requests, DelKey(t)
    PROVE  [Contract!Next]_(Contract!vars)
<1>1. pc[t] = "delKey" /\ UNCHANGED <<rides, past, outlasted>>
  BY DEF DelKey, rows, past
<1>2. Intent(t) \in Intents
  BY <1>1, IntentIs DEF InCreateRide
<1>3. CASE UNCHANGED <<locked, setter>>
  BY <1>1, <1>3, ContractSame DEF keys
<1>4. CASE /\ locked' = locked \ {Intent(t)}
           /\ setter' = [setter EXCEPT ![Intent(t)] = None]
  <2>1. Contract!Free(Intent(t))
    BY <1>1, <1>2, <1>4, KeyGone DEF Contract!Free, Holders
  <2>. QED  BY <1>2, <2>1 DEF Contract!Next
<1>. QED  BY <1>3, <1>4 DEF DelKey

LEMMA ExpireFrees ==
    ASSUME CallInv, KeyInv, NEW i \in Intents, Expire(i)
    PROVE  [Contract!Next]_(Contract!vars)
<1>1. /\ UNCHANGED rides /\ i \in locked
      /\ Holders' = [Holders EXCEPT ![i] = None]
  BY KeyGone DEF Expire, rows
<1>2. CASE UNCHANGED outlasted
  <2>1. Contract!Free(i)
    BY <1>1, <1>2 DEF Contract!Free, Holders
  <2>. QED  BY <2>1 DEF Contract!Next
<1>3. CASE outlasted' = outlasted \cup {i}
  <2>1. Holder(i) # None
    BY <1>1, BookingNames DEF Holder, KeyInv
  <2>2. Contract!Outlast(i)
    BY <1>1, <1>3, <2>1 DEF Contract!Outlast, Holders
  <2>. QED  BY <2>2 DEF Contract!Next
<1>4. outlasted' \in {outlasted, outlasted \cup {i}}
  BY DEF Expire
<1>. QED  BY <1>2, <1>3, <1>4

LEMMA ContractStep ==
    ASSUME CallInv, KeyInv, [Next]_vars
    PROVE  [Contract!Next]_(Contract!vars)
<1>1. ASSUME NEW t \in Requests, Step(t) PROVE [Contract!Next]_(Contract!vars)
  <2>1. CASE CreateRide(t) \/ ParseAndBook(t) \/ FindRider(t)
             \/ InsertRider(t) \/ CheckUser(t)
    <3>1. UNCHANGED <<rides, keys>>
      BY <2>1 DEF CreateRide, ParseAndBook, FindRider, InsertRider, CheckUser, rows
    <3>. QED  BY <3>1, ContractSame
  <2>. QED  BY <1>1, <2>1, SetKeyReserves, SaveRideBooks, DelKeyFrees DEF Step
<1>2. ASSUME NEW i \in Intents, Expire(i) PROVE [Contract!Next]_(Contract!vars)
  BY <1>2, ExpireFrees
<1>3. ASSUME NEW u \in Users, Block(u) PROVE UNCHANGED Contract!vars
  BY <1>3, ContractSame DEF Block
<1>4. CASE UNCHANGED vars
  BY <1>4, ContractSame DEF vars, keys, past
<1>. QED  BY <1>1, <1>2, <1>3, <1>4 DEF Next

\* Booking does what BookingContract says and nothing else: until a handler
\* outlasts its key, an intent is served for one request at a time, and only the
\* request that holds it books; and each request books at most once, always.
THEOREM ContractKept == Spec => KeepsTheContract
<1>1. Init => Contract!Init
  BY DEF Init, Contract!Init, Holder
<1>2. CallInv /\ KeyInv /\ [Next]_vars => [Contract!Next]_(Contract!vars)
  BY ContractStep
<1>. QED
  BY <1>1, <1>2, CallInvHolds, KeyInvHolds, PTL DEF Spec, KeepsTheContract, Contract!Spec

-----------------------------------------------------------------------------
(* What calls leave behind.  A request puts at most one guest into the table, *)
(* and a rider with a phone keeps it, so that what a handler learned of its  *)
(* caller before an await still holds after it.                              *)

PastFits == expired \subseteq Requests \cup {None} /\ outlasted \subseteq Intents

\* The table is left alone, or gets the guest the request is for.
PutsGuest(t, u) ==
    /\ ~Known(u) /\ job[t].phone \in Phones /\ GuestFits(job[t].phone)
    /\ user' = [user EXCEPT ![u] = Guest(job[t].phone)]
UserStep(t) == UNCHANGED user \/ \E u \in Users : PutsGuest(t, u)

UserTable == [Users -> [phone: Phones \cup {None},
                        mail: {Digits[p] : p \in Phones} \cup {None}, blocked: BOOLEAN]]
LastingPhones ==
    \A u \in Users : Known(u) => Known(u)' /\ user'[u].phone = user[u].phone

LEMMA GuestFields ==
    ASSUME NEW phone
    PROVE  Guest(phone).phone = phone /\ Guest(phone).mail = Digits[phone]
BY DEF Guest

LEMMA UsersMove ==
    ASSUME TypeOK, OneGuestPerNumber, NEW t \in Requests, UserStep(t)
    PROVE  user' \in UserTable /\ OneGuestPerNumber' /\ LastingPhones
<1>1. CASE UNCHANGED user
  BY <1>1 DEF TypeOK, PastFits, UserTable, OneGuestPerNumber, LastingPhones, Known
<1>2. ASSUME NEW u \in Users, PutsGuest(t, u)
      PROVE  user' \in UserTable /\ OneGuestPerNumber' /\ LastingPhones
  <2>. DEFINE p == job[t].phone
  <2>1. /\ user' = [user EXCEPT ![u] = Guest(p)] /\ p \in Phones /\ p # None
        /\ user[u].phone = None
        /\ \A v \in Users : user[v].phone # p /\ user[v].mail # Digits[p]
        /\ user \in UserTable
    BY <1>2, BookingNames DEF PutsGuest, GuestFits, Known, TypeOK, PastFits, UserTable
  <2>. HIDE DEF p
  <2>2. user' \in UserTable
    <3>1. Guest(p) \in [phone: Phones \cup {None},
                        mail: {Digits[q] : q \in Phones} \cup {None}, blocked: BOOLEAN]
      BY <2>1 DEF Guest
    <3>. QED  BY <2>1, <3>1 DEF UserTable
  <2>3. /\ user'[u].phone = p /\ user'[u].mail = Digits[p]
        /\ \A v \in Users \ {u} : user'[v] = user[v]
    BY <2>1, GuestFields DEF UserTable
  <2>4. LastingPhones
    BY <2>1, <2>3 DEF LastingPhones, Known
  <2>5. ASSUME NEW v \in Users, NEW w \in Users, Known(v)',
               \/ user'[v].phone = user'[w].phone
               \/ user'[v].mail = user'[w].mail /\ user'[v].mail # None
        PROVE  v = w
    <3>1. CASE v = u
      BY <2>1, <2>3, <2>5, <3>1
    <3>2. CASE v # u /\ w = u
      BY <2>1, <2>3, <2>5, <3>2
    <3>3. CASE v # u /\ w # u
      BY <2>3, <2>5, <3>3 DEF OneGuestPerNumber, Known
    <3>. QED  BY <3>1, <3>2, <3>3
  <2>. QED  BY <2>2, <2>4, <2>5 DEF OneGuestPerNumber
<1>. QED  BY <1>1, <1>2 DEF UserStep

LEMMA CountMoves ==
    ASSUME GuestsCounted, NEW t \in Requests, Others(t), pc'[t] # "idle",
           t \in Understood => t \in Understood',
           \/ UNCHANGED user
           \/ \E u \in Users : PutsGuest(t, u) /\ t \notin Understood /\ t \in Understood',
           DOMAIN user = Users
    PROVE  GuestsCounted'
<1>1. Begun' \subseteq Begun \cup {t} /\ IsFiniteSet(Begun')
  <2>1. Begun' \subseteq Begun \cup {t}
    BY DEF Begun, Others
  <2>. QED  BY <2>1, FS_AddElement, FS_Subset DEF GuestsCounted
<1>2. Understood \subseteq Understood' /\ Understood' \subseteq Begun'
      /\ Understood \subseteq Begun
  BY DEF Understood, Begun, Others
<1>3. /\ IsFiniteSet(Understood) /\ IsFiniteSet(Understood')
      /\ Cardinality(Understood) <= Cardinality(Understood')
      /\ Cardinality(Understood) \in Nat /\ Cardinality(Understood') \in Nat
      /\ Cardinality(Guests) \in Nat
  BY <1>1, <1>2, FS_Subset, FS_CardinalityType DEF GuestsCounted
<1>4. CASE UNCHANGED user
  <2>1. Guests' = Guests
    BY <1>4 DEF Guests, Known
  <2>. QED  BY <1>1, <1>3, <2>1 DEF GuestsCounted
<1>5. ASSUME NEW u \in Users, PutsGuest(t, u), t \notin Understood, t \in Understood'
      PROVE  GuestsCounted'
  <2>1. Guests' \subseteq Guests \cup {u}
    BY <1>5 DEF Guests, Known, PutsGuest
  <2>2. IsFiniteSet(Guests') /\ Cardinality(Guests') <= Cardinality(Guests) + 1
    <3>1. /\ IsFiniteSet(Guests \cup {u})
          /\ Cardinality(Guests \cup {u}) <= Cardinality(Guests) + 1
          /\ Cardinality(Guests \cup {u}) \in Nat
      <4>1. IsFiniteSet(Guests)
        BY DEF GuestsCounted
      <4>2. IsFiniteSet(Guests \cup {u})
        BY <4>1, FS_AddElement
      <4>3. Cardinality(Guests \cup {u}) \in {Cardinality(Guests), Cardinality(Guests) + 1}
        BY <4>1, FS_AddElement
      <4>. QED  BY <1>3, <4>2, <4>3
    <3>2. IsFiniteSet(Guests') /\ Cardinality(Guests') <= Cardinality(Guests \cup {u})
      BY <2>1, <3>1, FS_Subset
    <3>. QED  BY <1>3, <3>1, <3>2, FS_CardinalityType
  <2>3. Cardinality(Understood \cup {t}) = Cardinality(Understood) + 1
    BY <1>3, <1>5, FS_AddElement
  <2>4. Cardinality(Understood \cup {t}) <= Cardinality(Understood')
    BY <1>2, <1>3, <1>5, FS_Subset
  <2>. QED  BY <1>1, <1>3, <2>2, <2>3, <2>4, FS_CardinalityType DEF GuestsCounted
<1>. QED  BY <1>4, <1>5

\* The ride a request may save is its caller's.
LEMMA RideIsTheCallers ==
    ASSUME CallInv, DeskInv, NEW t \in Requests, pc[t] = "saveRide"
    PROVE  /\ Ride(t) \in RideRow /\ Known(Ride(t).user) /\ Ride(t).request = t
           /\ Ride(t).channel = "agent" =>
                 Ride(t).caller # None /\ user[Ride(t).user].phone = Ride(t).caller
<1>1. /\ job[t].user \in Users /\ job[t].place \in Places /\ job[t].trip \in Trips
      /\ InCreateRide(t)
  BY IntentIs DEF InCreateRide
<1>2. calculateFare(job[t].trip.distance, job[t].trip.category) \in Nat
  BY <1>1, FareIsNat
<1>3. job[t].channel \in {"app", "agent"} /\ job[t].phone \in Phones \cup {None}
  BY DEF CallInv, Fits, Jobs
<1>4. CallerKnown(t)
  BY DEF DeskInv
<1>5. Ride(t) \in RideRow
  BY <1>1, <1>2, <1>3 DEF Ride, RideRow
<1>. QED  BY <1>1, <1>4, <1>5 DEF CallerKnown, Ride

LEMMA DeskMoves ==
    ASSUME CallInv, CallInv', DeskInv, NEW t \in Requests, Others(t), pc'[t] # "idle",
           t \in Understood => t \in Understood',
           \/ UNCHANGED user
           \/ \E u \in Users : PutsGuest(t, u) /\ t \notin Understood /\ t \in Understood',
           \/ UNCHANGED rides
           \/ rides' = rides \cup {Ride(t)} /\ pc[t] = "saveRide",
           \/ UNCHANGED offered
           \/ offered' = offered \cup {t} /\ rides' = rides \cup {Ride(t)},
           CallerKnown(t)', PastFits'
    PROVE  DeskInv'
<1>1. /\ TypeOK /\ OneGuestPerNumber /\ GuestsCounted /\ RidesAreTheCallers
      /\ OffersAreBookings /\ Fits /\ Fits' /\ \A u \in Requests : CallerKnown(u)
  BY DEF DeskInv, CallInv
<1>2. user' \in UserTable /\ OneGuestPerNumber' /\ LastingPhones
  <2>1. UserStep(t)
    BY DEF UserStep
  <2>. QED  BY <1>1, <2>1, UsersMove
<1>3. GuestsCounted'
  <2>1. DOMAIN user = Users
    BY <1>1 DEF TypeOK, PastFits
  <2>. QED  BY <1>1, <2>1, CountMoves
<1>4. ASSUME NEW r \in rides'
      PROVE  /\ r \in RideRow /\ Known(r.user)
             /\ r.channel = "agent" => r.caller # None /\ user[r.user].phone = r.caller
  BY <1>1, RideIsTheCallers DEF TypeOK, PastFits, RidesAreTheCallers, OffersAreBookings
<1>5. ASSUME NEW r \in rides'
      PROVE  /\ Known(r.user)'
             /\ r.channel = "agent" => r.caller # None /\ user'[r.user].phone = r.caller
  <2>1. r.user \in Users
    BY <1>4 DEF RideRow
  <2>. QED  BY <1>2, <1>4, <2>1 DEF LastingPhones
<1>6. ASSUME NEW u \in Requests PROVE CallerKnown(u)'
  <2>1. CASE u # t
    <3>1. /\ pc'[u] = pc[u] /\ job'[u] = job[u] /\ reply'[u] = reply[u]
          /\ u \in offered' <=> u \in offered
      BY <2>1 DEF Others
    <3>2. InCreateRide(u) \/ pc[u] = "setKey" => job[u].user \in Users
      BY DEF CallInv, Asked
    <3>. QED  BY <1>1, <1>2, <3>1, <3>2 DEF CallerKnown, LastingPhones, InCreateRide
  <2>. QED  BY <2>1
<1>7. \A u \in offered' : \E r \in rides' : r.request = u
  <2>1. Ride(t).request = t
    BY DEF Ride
  <2>. QED  BY <1>1, <2>1 DEF OffersAreBookings
<1>8. OffersAreBookings'
  BY <1>5, <1>6, <1>7 DEF OffersAreBookings, CallerKnown
<1>9. RidesAreTheCallers'
  BY <1>5 DEF RidesAreTheCallers
<1>10. TypeOK'
  <2>1. offered' \subseteq Requests
    BY <1>1 DEF TypeOK, PastFits
  <2>. QED  BY <1>1, <1>2, <1>4, <2>1 DEF TypeOK, PastFits, Fits, UserTable
<1>. QED  BY <1>2, <1>3, <1>6, <1>8, <1>9, <1>10 DEF DeskInv

\* Time and the operators leave calls and phones alone.
LEMMA WorldDesk ==
    ASSUME CallInv, CallInv', DeskInv, UNCHANGED <<rides, offered, pc, job, reply>>,
           user' \in UserTable,
           \A u \in Users : user'[u].phone = user[u].phone /\ user'[u].mail = user[u].mail,
           PastFits'
    PROVE  DeskInv'
<1>1. /\ TypeOK /\ Fits'
      /\ \A u \in Users : Known(u)' <=> Known(u)
  BY DEF DeskInv, CallInv, Known
<1>2. TypeOK'
  BY <1>1 DEF TypeOK, PastFits, UserTable, Fits
<1>3. OneGuestPerNumber'
  BY <1>1 DEF DeskInv, OneGuestPerNumber
<1>4. ASSUME NEW t \in Requests PROVE CallerKnown(t)'
  <2>1. InCreateRide(t) \/ pc[t] = "setKey" => job[t].user \in Users
    BY DEF CallInv, Asked
  <2>. QED  BY <1>1, <2>1 DEF DeskInv, CallerKnown, InCreateRide
<1>5. GuestsCounted'
  <2>1. Begun' = Begun /\ Understood' = Understood /\ Guests' = Guests
    BY <1>1 DEF Begun, Understood, Guests
  <2>. QED  BY <2>1 DEF DeskInv, GuestsCounted
<1>6. RidesAreTheCallers' /\ OffersAreBookings'
  <2>1. \A r \in rides : r.user \in Users
    BY <1>1 DEF TypeOK, PastFits, RideRow
  <2>. QED  BY <1>1, <2>1 DEF DeskInv, RidesAreTheCallers, OffersAreBookings
<1>. QED  BY <1>2, <1>3, <1>4, <1>5, <1>6 DEF DeskInv

\* A request that is turned away, or asked back.
LEMMA DeskAnswers ==
    ASSUME CallInv, CallInv', DeskInv, NEW t \in Requests, NEW what \in Replies,
           Answer(t, what), pc[t] # "done", what \notin {"none", "booked"},
           what = "clarification" => pc[t] = "idle",
           UNCHANGED rows, expired' = expired, outlasted' = outlasted
    PROVE  DeskInv'
<1>1. /\ pc'[t] = "done" /\ reply'[t] = what /\ Others(t) /\ UNCHANGED <<user, rides, offered>>
      /\ CallerKnown(t) /\ PastFits
  BY AnswerEffect DEF CallInv, DeskInv, rows, TypeOK, PastFits
<1>2. CallerKnown(t)'
  BY <1>1 DEF CallerKnown, InCreateRide
<1>3. t \in Understood => t \in Understood'
  BY <1>1 DEF Understood
<1>. QED  BY <1>1, <1>2, <1>3, DeskMoves DEF PastFits

\* A request that goes on with the caller it knows.
LEMMA DeskAdvances ==
    ASSUME CallInv, CallInv', DeskInv, NEW t \in Requests, NEW label \in Waits,
           Goto(t, label), UNCHANGED <<job, reply, rows>>, expired' = expired, outlasted' = outlasted,
           label \notin {"idle", "done"}, pc[t] # "done",
           label = "insertRider" => pc[t] = "findRider" /\ job[t].phone # None,
           label # "insertRider" => InCreateRide(t) \/ pc[t] = "setKey",
           label # "findRider"
    PROVE  DeskInv'
<1>1. /\ pc'[t] = label /\ job'[t] = job[t] /\ reply'[t] = reply[t] /\ Others(t)
      /\ UNCHANGED <<user, rides, offered>>
      /\ CallerKnown(t) /\ PastFits
  BY GotoEffect DEF CallInv, DeskInv, rows, TypeOK, PastFits
<1>2. CallerKnown(t)'
  BY <1>1 DEF CallerKnown, InCreateRide, Known
<1>3. t \in Understood => t \in Understood'
  BY <1>1 DEF Understood, InCreateRide
<1>. QED  BY <1>1, <1>2, <1>3, DeskMoves DEF PastFits

\* A request that has learned who its caller is.
LEMMA DeskTakes ==
    ASSUME CallInv, CallInv', DeskInv, NEW t \in Requests, NEW label \in {"findRider", "setKey"},
           Goto(t, label), NEW j \in Jobs, job' = [job EXCEPT ![t] = j], UNCHANGED reply,
           pc[t] \in {"idle", "findRider", "insertRider"},
           UserStep(t), \A u \in Users : PutsGuest(t, u) => label = "setKey",
           label = "setKey" =>
               /\ Known(j.user)'
               /\ j.channel = "agent" => j.phone # None /\ user'[j.user].phone = j.phone,
           UNCHANGED <<rides, offered, expired, outlasted>>
    PROVE  DeskInv'
<1>0. Fits /\ label \in Waits
  BY DEF CallInv, Waits
<1>1. /\ pc'[t] = label /\ job'[t] = j /\ reply'[t] = reply[t] /\ Others(t)
      /\ CallerKnown(t) /\ PastFits
  <2>1. pc'[t] = label /\ job'[t] = j /\ reply'[t] = reply[t] /\ Others(t)
    BY <1>0, TakeEffect
  <2>. QED  BY <2>1 DEF DeskInv, TypeOK, PastFits
<1>2. CallerKnown(t)'
  BY <1>1 DEF CallerKnown, InCreateRide
<1>3. t \notin Understood
  BY DEF Understood
<1>4. reply[t] = "none"
  BY <1>1 DEF CallerKnown
<1>5. label = "setKey" => t \in Understood'
  BY <1>1, <1>4 DEF Understood
<1>6. \/ UNCHANGED user
      \/ \E u \in Users : PutsGuest(t, u) /\ t \notin Understood /\ t \in Understood'
  BY <1>3, <1>5 DEF UserStep
<1>. QED  BY <1>1, <1>2, <1>3, <1>6, DeskMoves DEF PastFits

LEMMA BeforeDesk ==
    ASSUME CallInv, CallInv', DeskInv, NEW t \in Requests, CreateRide(t) \/ ParseAndBook(t)
    PROVE  DeskInv'
<1>1. pc[t] = "idle" /\ UNCHANGED <<rows, user, rides, offered, expired, outlasted>>
  BY DEF CreateRide, ParseAndBook, rows, keys, past
<1>2. CASE CreateRide(t)
  <2>1. PICK u \in Users, p \in Places, trip \in Trips :
           /\ Known(u)
           /\ \/ /\ job' = [job EXCEPT ![t] =
                               [NoJob EXCEPT !.user = u, !.place = p, !.trip = trip]]
                 /\ Goto(t, "setKey")
                 /\ UNCHANGED reply
              \/ Answer(t, "refused")
    BY <1>2 DEF CreateRide
  <2>2. CASE Answer(t, "refused")
    BY <1>1, <2>2, DeskAnswers DEF Replies
  <2>3. CASE /\ job' = [job EXCEPT ![t] =
                           [NoJob EXCEPT !.user = u, !.place = p, !.trip = trip]]
             /\ Goto(t, "setKey")
             /\ UNCHANGED reply
    <3>. DEFINE j == [NoJob EXCEPT !.user = u, !.place = p, !.trip = trip]
    <3>1. j \in Jobs /\ j.user = u /\ j.channel = "app"
      BY DEF NoJob, Jobs
    <3>2. UserStep(t) /\ Known(u)'
      BY <1>1, <2>1 DEF UserStep, Known
    <3>3. job' = [job EXCEPT ![t] = j]
      BY <2>3
    <3>. HIDE DEF j
    <3>. QED  BY <1>1, <2>3, <3>1, <3>2, <3>3, DeskTakes
  <2>. QED  BY <2>1, <2>2, <2>3
<1>3. CASE ParseAndBook(t)
  <2>1. ASSUME NEW phone \in Phones \cup {None}, NEW p \in Places, NEW trip \in Trips,
               job' = [job EXCEPT ![t] = Said(phone, p, trip)],
               Goto(t, "findRider"), UNCHANGED reply
        PROVE  DeskInv'
    <3>1. Said(phone, p, trip) \in Jobs
      BY DEF Said, Jobs
    <3>2. UserStep(t) /\ \A u \in Users : ~PutsGuest(t, u)
      <4>1. ASSUME NEW u \in Users, PutsGuest(t, u) PROVE FALSE
        <5>1. user'[u] = Guest(job[t].phone) /\ user[u].phone = None
              /\ job[t].phone \in Phones
          BY <4>1 DEF PutsGuest, Known, DeskInv, TypeOK, PastFits
        <5>. QED  BY <1>1, <5>1, GuestFields, BookingNames
      <4>. QED  BY <1>1, <4>1 DEF UserStep
    <3>. QED  BY <1>1, <2>1, <3>1, <3>2, DeskTakes
  <2>2. CASE Answer(t, "clarification")
    BY <1>1, <2>2, DeskAnswers DEF Replies
  <2>. QED  BY <1>3, <2>1, <2>2 DEF ParseAndBook
<1>. QED  BY <1>2, <1>3

LEMMA FindRiderDesk ==
    ASSUME CallInv, CallInv', DeskInv, NEW t \in Requests, FindRider(t)
    PROVE  DeskInv'
<1>1. pc[t] = "findRider" /\ UNCHANGED <<rows, user, rides, offered, expired, outlasted>>
  BY DEF FindRider, rows, keys, past
<1>2. CASE Answer(t, "refused")
  BY <1>1, <1>2, DeskAnswers DEF Replies
<1>3. ASSUME NEW u \in Users, job[t].phone # None, user[u].phone = job[t].phone,
             job' = [job EXCEPT ![t].user = u], Goto(t, "setKey"), UNCHANGED reply
      PROVE  DeskInv'
  <2>0. PICK j : j = [job[t] EXCEPT !.user = u]
    OBVIOUS
  <2>1. job[t] \in Jobs
    BY DEF CallInv, Fits
  <2>2. /\ j \in Jobs /\ j.user = u /\ j.phone = job[t].phone /\ j.channel = job[t].channel
        /\ job' = [job EXCEPT ![t] = j]
    BY <1>3, <2>0, <2>1 DEF Jobs
  <2>3. UserStep(t) /\ Known(j.user)' /\ user'[j.user].phone = j.phone /\ j.phone # None
    BY <1>1, <1>3, <2>2 DEF UserStep, Known
  <2>. QED  BY <1>1, <1>3, <2>2, <2>3, DeskTakes
<1>4. CASE job[t].phone # None /\ Goto(t, "insertRider") /\ UNCHANGED <<job, reply>>
  BY <1>1, <1>4, DeskAdvances DEF Waits
<1>. QED  BY <1>2, <1>3, <1>4 DEF FindRider

LEMMA InsertRiderDesk ==
    ASSUME CallInv, CallInv', DeskInv, NEW t \in Requests, InsertRider(t)
    PROVE  DeskInv'
<1>1. pc[t] = "insertRider" /\ UNCHANGED <<rides, offered, expired, outlasted>>
      /\ job[t].phone # None /\ job[t] \in Jobs
  BY DEF InsertRider, keys, past, DeskInv, CallerKnown, CallInv, Fits
<1>2. CASE Answer(t, "error") /\ UNCHANGED user
  BY <1>1, <1>2, DeskAnswers DEF Replies, rows
<1>3. ASSUME NEW u \in Users, GuestFits(job[t].phone), ~Known(u),
             user' = [user EXCEPT ![u] = Guest(job[t].phone)],
             job' = [job EXCEPT ![t].user = u], Goto(t, "setKey"), UNCHANGED reply
      PROVE  DeskInv'
  <2>0. PICK j : j = [job[t] EXCEPT !.user = u]
    OBVIOUS
  <2>1. PutsGuest(t, u) /\ UserStep(t)
    BY <1>1, <1>3 DEF PutsGuest, UserStep, Jobs
  <2>2. /\ j \in Jobs /\ j.user = u /\ j.phone = job[t].phone /\ j.channel = job[t].channel
        /\ job' = [job EXCEPT ![t] = j]
    BY <1>1, <1>3, <2>0 DEF Jobs, CallInv, Fits
  <2>3. Known(j.user)' /\ user'[j.user].phone = j.phone /\ j.phone # None
    <3>1. user'[u].phone = job[t].phone
      BY <1>3, GuestFields DEF DeskInv, TypeOK, PastFits
    <3>. QED  BY <1>1, <2>2, <3>1 DEF Known
  <2>. QED  BY <1>1, <1>3, <2>1, <2>2, <2>3, DeskTakes
<1>. QED  BY <1>2, <1>3 DEF InsertRider

LEMMA SetKeyDesk ==
    ASSUME CallInv, CallInv', DeskInv, NEW t \in Requests, SetKey(t)
    PROVE  DeskInv'
<1>1. pc[t] = "setKey" /\ UNCHANGED <<rows, expired, outlasted>>
  BY DEF SetKey, keys, past
<1>2. CASE Answer(t, "duplicate") \/ Answer(t, "error")
  BY <1>1, <1>2, DeskAnswers DEF Replies
<1>3. CASE Goto(t, "checkUser") /\ UNCHANGED <<job, reply>>
  BY <1>1, <1>3, DeskAdvances DEF Waits
<1>. QED  BY <1>2, <1>3 DEF SetKey

LEMMA CheckUserDesk ==
    ASSUME CallInv, CallInv', DeskInv, NEW t \in Requests, CheckUser(t)
    PROVE  DeskInv'
<1>1. /\ pc[t] = "checkUser" /\ UNCHANGED <<rows, expired, outlasted, job, reply>>
      /\ InCreateRide(t)
  BY DEF CheckUser, keys, past, InCreateRide
<1>2. PICK label \in {"saveRide", "delKey"} : Goto(t, label)
  BY DEF CheckUser
<1>. QED  BY <1>1, <1>2, DeskAdvances DEF Waits

LEMMA SaveRideDesk ==
    ASSUME CallInv, CallInv', DeskInv, NEW t \in Requests, SaveRide(t)
    PROVE  DeskInv'
<1>1. /\ pc[t] = "saveRide" /\ UNCHANGED <<user, expired, outlasted>> /\ InCreateRide(t)
      /\ rides' \in {rides, rides \cup {Ride(t)}}
      /\ CallerKnown(t) /\ reply[t] = "none" /\ PastFits
  BY DEF SaveRide, keys, past, InCreateRide, DeskInv, CallerKnown, TypeOK, PastFits
<1>2. CASE Answer(t, "booked") /\ rides' = rides \cup {Ride(t)} /\ offered' = offered \cup {t}
  <2>1. pc'[t] = "done" /\ reply'[t] = "booked" /\ Others(t)
    BY <1>2, AnswerEffect DEF CallInv, Replies
  <2>2. CallerKnown(t)' /\ t \in Understood'
    BY <1>2, <2>1 DEF CallerKnown, InCreateRide, Understood
  <2>. QED  BY <1>1, <1>2, <2>1, <2>2, DeskMoves DEF PastFits
<1>3. CASE Goto(t, "delKey") /\ UNCHANGED <<offered, job, reply>>
  <2>1. pc'[t] = "delKey" /\ job'[t] = job[t] /\ reply'[t] = reply[t] /\ Others(t)
    BY <1>3, GotoEffect DEF CallInv, Waits
  <2>2. CallerKnown(t)' /\ t \in Understood'
    BY <1>1, <1>3, <2>1 DEF CallerKnown, InCreateRide, Understood, Known
  <2>. QED  BY <1>1, <1>3, <2>1, <2>2, DeskMoves DEF PastFits
<1>. QED  BY <1>2, <1>3 DEF SaveRide

LEMMA DelKeyDesk ==
    ASSUME CallInv, CallInv', DeskInv, NEW t \in Requests, DelKey(t)
    PROVE  DeskInv'
BY DeskAnswers DEF DelKey, Replies, past

LEMMA DeskNext == CallInv /\ CallInv' /\ DeskInv /\ [Next]_vars => DeskInv'
<1>. SUFFICES ASSUME CallInv, CallInv', DeskInv, [Next]_vars PROVE DeskInv'
  OBVIOUS
<1>0. TypeOK /\ PastFits /\ user \in UserTable
  BY DEF DeskInv, TypeOK, PastFits, UserTable
<1>1. ASSUME NEW t \in Requests, Step(t) PROVE DeskInv'
  BY <1>1, BeforeDesk, FindRiderDesk, InsertRiderDesk, SetKeyDesk, CheckUserDesk,
     SaveRideDesk, DelKeyDesk DEF Step
<1>2. ASSUME NEW i \in Intents, Expire(i) PROVE DeskInv'
  <2>1. PastFits' /\ UNCHANGED <<user, rides, offered, pc, job, reply>>
    BY <1>0, <1>2 DEF Expire, TypeOK, PastFits, rows
  <2>. QED  BY <1>0, <2>1, WorldDesk DEF PastFits
<1>3. ASSUME NEW u \in Users, Block(u) PROVE DeskInv'
  <2>1. /\ user' = [user EXCEPT ![u].blocked = TRUE]
        /\ UNCHANGED <<rides, offered, expired, outlasted, pc, job, reply>>
    BY <1>3 DEF Block, keys, past
  <2>2. user' \in UserTable
    BY <1>0, <2>1 DEF UserTable
  <2>3. \A v \in Users : user'[v].phone = user[v].phone /\ user'[v].mail = user[v].mail
    BY <1>0, <2>1 DEF UserTable
  <2>. QED  BY <1>0, <2>1, <2>2, <2>3, WorldDesk DEF PastFits
<1>4. CASE UNCHANGED vars
  BY <1>0, <1>4, WorldDesk DEF vars, PastFits
<1>. QED  BY <1>1, <1>2, <1>3, <1>4 DEF Next

LEMMA DeskInit == Init => DeskInv
<1>. SUFFICES ASSUME Init PROVE DeskInv
  OBVIOUS
<1>1. Fits
  BY CallInit DEF CallInv
<1>2. user \in UserTable /\ \A u \in Users :
         /\ user[u].mail = None
         /\ user[u].phone = (IF u \in Registered THEN PhoneOf[u] ELSE None)
  <2>1. NoUser \in [phone: Phones \cup {None},
                    mail: {Digits[p] : p \in Phones} \cup {None}, blocked: BOOLEAN]
    BY DEF NoUser
  <2>2. ASSUME NEW u \in Registered
        PROVE  /\ [NoUser EXCEPT !.phone = PhoneOf[u]] \in
                    [phone: Phones \cup {None},
                     mail: {Digits[p] : p \in Phones} \cup {None}, blocked: BOOLEAN]
               /\ [NoUser EXCEPT !.phone = PhoneOf[u]].mail = None
               /\ [NoUser EXCEPT !.phone = PhoneOf[u]].phone = PhoneOf[u]
    BY BookingNames DEF NoUser
  <2>. QED  BY <2>1, <2>2 DEF Init, UserTable, NoUser
<1>3. TypeOK
  BY <1>1, <1>2 DEF Init, TypeOK, PastFits, Fits, UserTable
<1>4. OneGuestPerNumber
  BY <1>2, BookingNames DEF OneGuestPerNumber, Known
<1>5. ASSUME NEW t \in Requests PROVE CallerKnown(t)
  BY DEF Init, CallerKnown, InCreateRide
<1>6. GuestsCounted
  <2>1. Begun = {} /\ Understood = {} /\ Guests = {}
    BY <1>2 DEF Init, Begun, Understood, Guests, Known
  <2>. QED  BY <2>1, FS_EmptySet DEF GuestsCounted
<1>7. RidesAreTheCallers /\ OffersAreBookings
  BY DEF Init, RidesAreTheCallers, OffersAreBookings
<1>. QED  BY <1>3, <1>4, <1>5, <1>6, <1>7 DEF DeskInv

\* What is known of callers and guests at any moment, however slow handlers are.
THEOREM DeskInvHolds == Spec => []DeskInv
<1>. QED  BY DeskInit, DeskNext, CallInvHolds, PTL DEF Spec

\* A phone number has one rider, whichever of two first messages is stored
\* first; no text that was answered with a question makes a guest; an agent
\* books for the caller's phone alone; and what was announced to the drivers is
\* exactly what was answered as booked.
THEOREM CallersServed == Spec => []CallsAreServed
<1>1. DeskInv => CallsAreServed
  <2>. SUFFICES ASSUME DeskInv PROVE GuestsAreCallers
    BY DEF DeskInv, CallsAreServed
  <2>. DEFINE Callers == {t \in Requests : pc[t] # "idle" /\ reply[t] # "clarification"}
  <2>1. Understood \subseteq Callers /\ Callers \subseteq Begun
    BY DEF Understood, Begun
  <2>2. IsFiniteSet(Callers) /\ Cardinality(Callers) \in Nat
    BY <2>1, FS_Subset, FS_CardinalityType DEF DeskInv, GuestsCounted
  <2>3. IsFiniteSet(Understood) /\ Cardinality(Understood) \in Nat
        /\ Cardinality(Understood) <= Cardinality(Callers)
    BY <2>1, <2>2, FS_Subset, FS_CardinalityType
  <2>4. Cardinality(Guests) \in Nat
    BY FS_CardinalityType DEF DeskInv, GuestsCounted
  <2>5. Cardinality(Guests) <= Cardinality(Callers)
    BY <2>2, <2>3, <2>4 DEF DeskInv, GuestsCounted
  <2>. QED  BY <2>5 DEF GuestsAreCallers, Guests
<1>. QED  BY <1>1, DeskInvHolds, PTL
=============================================================================

------------------------------ MODULE RideRaces ------------------------------
(***************************************************************************)
(* RideLifecycle with one history variable, which says of every request    *)
(* what was saved or settled under it.  Overlapping requests do undo the   *)
(* end of a ride and do overbook a driver; the properties here say that    *)
(* nothing else does: a ride leaves its diagram, and a driver exceeds the  *)
(* limits, only by the save of a request during which somebody else        *)
(* changed the very ride in question.                                      *)
(***************************************************************************)
EXTENDS RideLifecycle

VARIABLE overtaken  \* overtaken[t]: rides changed since t loaded its entity

raceVars == <<vars, overtaken>>

Loaded(label) == label \in {"limits", "save", "write"}
Changed == {r \in Rides : row'[r] # row[r]}

Overtaking ==
    overtaken' = [t \in Requests |-> IF Loaded(pc[t]) /\ Loaded(pc'[t])
                                     THEN overtaken[t] \cup Changed ELSE {}]

RaceInit == Init /\ overtaken = [t \in Requests |-> {}]
RaceNext == Next /\ Overtaking
RaceSpec == RaceInit /\ [][RaceNext]_raceVars

-----------------------------------------------------------------------------
(* Properties                                                              *)

\* t's UPDATE is the step taken.
Saves(t) == pc[t] = "write" /\ UNCHANGED rowLock /\ pc'[t] # "write"

\* A ride's status moves along the edges of the diagram, even where handlers
\* outlive their locks: it is taken out of an end, or put back, or started
\* after the rider called it off, only by a save that another save or the
\* settlement of the same ride overtook.
OnlyRacesReorder ==
    [][\A r \in Rides :
          \/ row'[r].status = row[r].status
          \/ <<row[r].status, row'[r].status>> \in LifecycleEdges
          \/ \E t \in Requests :
                Saves(t) /\ job[t].ride = r /\ r \in overtaken[t]]_raceVars

\* acceptRide's limits hold a driver to one exclusive ride or to so many pooled
\* ones, but for a save that was overtaken by a change of one of the rides the
\* driver now holds beside it.
OnlyRacesOverbook ==
    [][\A d \in Drivers :
          \/ ~WithinLimits(d)
          \/ WithinLimits(d)'
          \/ \E t \in Requests :
                Saves(t) /\ overtaken[t] \cap ActiveRides(d)' # {}]_raceVars

-----------------------------------------------------------------------------
(* The inductive invariant behind the theorems of RideLifecycleProofs      *)

\* What a request is about to make of the row its handler loaded.
Edit(op, by, old, new) ==
    /\ op = "accept" => /\ old.status = "requested" /\ new.status = "accepted"
                        /\ new.driver = by
    /\ op # "accept" => new.driver = old.driver
    /\ op = "arrive" => old.status = "accepted" /\ new.status = "arrived"
    /\ op = "start" => old.status = "arrived" /\ new.status = "in_progress"
    /\ op \in Cancels => old.status # "completed" /\ new.status = "cancelled"

\* A request that nobody overtook still knows the row.
FreshCopy(t) ==
    LET r == job[t].ride IN r \notin overtaken[t] =>
        /\ pc[t] = "limits" => row[r].status = "requested"
        /\ pc[t] \in {"save", "write"} =>
              Edit(job[t].op, job[t].by, row[r], entity[t])
        /\ pc[t] = "write" => reloaded[t] = row[r]

\* An accept past its check still has room beside the rides that have not
\* changed since.
RoomFor(t) ==
    LET Held == ActiveRides(job[t].by) \ overtaken[t] IN
    pc[t] \in {"save", "write"} /\ job[t].op = "accept" =>
        /\ \A s \in Held : ~isExclusiveCategory(Category[s])
        /\ isExclusiveCategory(Category[job[t].ride]) => Held = {}
        /\ Category[job[t].ride] = "shared" =>
              Cardinality(Held) < MaxActiveSharedRides

RaceInv ==
    /\ SettlementInv
    /\ overtaken \in [Requests -> SUBSET Rides]
    /\ \A d \in Drivers : IsFiniteSet(ActiveRides(d))
    /\ \A t \in Requests : FreshCopy(t) /\ RoomFor(t)
=============================================================================

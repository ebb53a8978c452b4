------------------------------- MODULE Reports -------------------------------
(***************************************************************************)
(* What the back office reads while the platform works: StatsService's     *)
(* answers, each put together from queries that run side by side, and      *)
(* LedgerService's statements, read page by page.  Neither takes a lock or *)
(* a snapshot: every query sees what is committed when it runs.            *)
(*                                                                         *)
(* Underneath, rides advance and settle and withdrawals and advances are   *)
(* booked, as RideLifecycle and Wallet have it in detail: a settlement's   *)
(* three entries commit together, dated by the BEGIN of their transaction. *)
(* Time is counted in hours of the server's clock (UTC), one per dated     *)
(* event; the reporting time zone is East hours ahead of it.               *)
(*                                                                         *)
(* A figure is kept as the set of rows it counts or sums up.  The counts   *)
(* of the last 7 and 30 days are the same queries with another since, and  *)
(* left out; the breakdown by day is here with its window.  An amount is   *)
(* one naira.                                                              *)
(*                                                                         *)
(* Init, Next, Spec and TypeOK carry the module's name: BackOfficeProofs    *)
(* extends Reports beside Alerts.                                          *)
(***************************************************************************)
EXTENDS Integers, FiniteSets

CONSTANTS
    Rides,                \* the rides there are, one driver's
    Moves,                \* withdrawals and advances that may be booked
    East,                 \* offset of REPORTING_TIMEZONE, 1 in Lagos
    Days,                 \* the days before today in the breakdown, 30
    FirstHour, LastHour,  \* bound: the hours that pass
    Page,                 \* the limit of a statement's page
    None                  \* not asked, not begun

ASSUME ReportSizes ==
    /\ East \in Nat /\ Days \in Nat /\ FirstHour \in Nat /\ LastHour \in Nat
    /\ FirstHour <= LastHour
    /\ Page \in Nat \ {0}
    /\ Rides \cap Moves = {}
    /\ None \notin Int

RideStatus == {"requested", "accepted", "arrived", "in_progress",
               "completed", "cancelled"}
IN_FLIGHT == {"accepted", "arrived", "in_progress"}
Fares == {"ride_fare_driver", "ride_fare_platform", "ride_fare_rider_cashback"}
Kinds == {"driver_fuel_support_mfb", "driver_payout_linkpay"}
OfPlatform == {"ride_fare_platform"}
OfDriver == {"ride_fare_driver"} \cup Kinds
Hours == FirstHour..LastHour
EntryStatus == {"pending", "completed", "failed"}
Entry == [of: Rides \cup Moves, type: Fares \cup Kinds, status: EntryStatus,
          at: Hours]

VARIABLES
    clock,
    status,   \* status[r]: the ride's status
    opened,   \* opened[r]: when its settlement began, its completedAt
    ledger,   \* ledger_entries
    asked,    \* when the report was asked for, or None
    follow,   \* the figures of the answer that are followed
    got,      \* got[f]: the rows figure f was made of
    offset,   \* where the next page of the statement begins
    base      \* history: the rows there were when the report was asked for

world == <<clock, status, opened, ledger>>
reader == <<asked, follow, got, offset, base>>
reportVars == <<world, reader>>

-----------------------------------------------------------------------------
(* The time of the day                                                     *)

\* A zone whose clocks change once, at the instant zone.at.
offsetAt(instant, zone) ==
    IF instant < zone.at THEN zone.before ELSE zone.after

DateIn(instant, zone) == (instant + offsetAt(instant, zone)) \div 24

\* The calendar date in that zone, then the instant of its midnight in two passes.
startOfDayIn(now, zone) ==
    LET localMidnightAsUtc == 24 * DateIn(now, zone)
        firstGuess == localMidnightAsUtc - offsetAt(localMidnightAsUtc, zone)
    IN  localMidnightAsUtc - offsetAt(firstGuess, zone)

REPORTING_TIMEZONE == [before |-> East, after |-> East, at |-> 0]

\* Fault: the server's midnight.
startOfTodayHere(now) == 24 * (now \div 24)

\* windows(), computed by every call.
startOfToday(now) == startOfDayIn(now, REPORTING_TIMEZONE)

-----------------------------------------------------------------------------
(* The platform at work                                                    *)

ReportInit ==
    /\ clock = FirstHour
    /\ status = [r \in Rides |-> "requested"]
    /\ opened = [r \in Rides |-> None]
    /\ ledger = {}
    /\ asked = None
    /\ follow = {}
    /\ got = <<>>
    /\ offset = 0
    /\ base = {}

Pass == clock < LastHour /\ clock' = clock + 1

Tick == Pass /\ UNCHANGED <<status, opened, ledger, reader>>

Edges == {<<"requested", "accepted">>, <<"accepted", "arrived">>,
          <<"arrived", "in_progress">>, <<"requested", "cancelled">>,
          <<"accepted", "cancelled">>, <<"arrived", "cancelled">>}

Advance(r) ==
    /\ \E s \in RideStatus : /\ <<status[r], s>> \in Edges
                             /\ status' = [status EXCEPT ![r] = s]
    /\ UNCHANGED <<clock, opened, ledger, reader>>

Begin(r) ==
    /\ status[r] = "in_progress" /\ opened[r] = None
    /\ opened' = [opened EXCEPT ![r] = clock]
    /\ Pass
    /\ UNCHANGED <<status, ledger, reader>>

Settle(r) ==
    /\ status[r] = "in_progress" /\ opened[r] # None
    /\ status' = [status EXCEPT ![r] = "completed"]
    /\ ledger' = ledger \cup [of: {r}, type: Fares, status: {"completed"},
                              at: {opened[r]}]
    /\ UNCHANGED <<clock, opened, reader>>

\* The driver's walletBalance: credits that stand, less payouts that stand.
balance ==
    LET stands == {e \in ledger : e.type \in OfDriver /\ e.status # "failed"}
        paid == {e \in stands : e.type = "driver_payout_linkpay"}
    IN  Cardinality(stands \ paid) - Cardinality(paid)

\* An advance is credited at once; a payout must be covered.
Book(m, kind) ==
    /\ \A e \in ledger : e.of # m
    /\ kind = "driver_payout_linkpay" => balance >= 1
    /\ ledger' = ledger \cup {[of |-> m, type |-> kind, status |-> "pending",
                               at |-> clock]}
    /\ Pass
    /\ UNCHANGED <<status, opened, reader>>

settleEntry(e) ==
    /\ e.status = "pending"
    /\ \E s \in {"completed", "failed"} :
          ledger' = (ledger \ {e}) \cup {[e EXCEPT !.status = s]}
    /\ UNCHANGED <<clock, status, opened, reader>>

-----------------------------------------------------------------------------
(* StatsService                                                            *)

Dashboard == {"activeRides", "unassignedRides", "completedRidesToday",
              "platformRevenue", "pendingPayouts"}
Revenue == {"platformRevenue", "platformRevenueToday", "driverEarnings",
            "riderCashback", "fuelSupportDisbursed", "driverPayouts",
            "pendingFareValue", "cancelledFareValue", "platformRevenueByDay"}
Earners == {"topEarningDrivers"}
Figures == Dashboard \cup Revenue \cup Earners \cup {"statement"}

\* Settled money by default, unconfirmed money where a caller asks for it.
Settled(f, e) ==
    e.status = IF f = "pendingPayouts" THEN "pending" ELSE "completed"

\* Fault: a driver's earnings are whatever is booked to a driver.
TypesByStakeholder(f) ==
    CASE f = "driverEarnings" -> OfDriver
      [] f = "riderCashback" -> {"ride_fare_rider_cashback"}
      [] f = "fuelSupportDisbursed" -> {"driver_fuel_support_mfb"}
      [] f \in {"driverPayouts", "pendingPayouts"} -> {"driver_payout_linkpay"}
      [] OTHER -> OfPlatform

\* What each figure asks of sumLedger.
Types(f) ==
    CASE f = "driverEarnings" -> {"ride_fare_driver"}
      [] f = "riderCashback" -> {"ride_fare_rider_cashback"}
      [] f = "fuelSupportDisbursed" -> {"driver_fuel_support_mfb"}
      [] f \in {"driverPayouts", "pendingPayouts"} -> {"driver_payout_linkpay"}
      [] OTHER -> OfPlatform

sumLedger(f) ==
    {e \in ledger : /\ e.type \in Types(f)
                    /\ Settled(f, e)
                    /\ f = "platformRevenueToday" => e.at >= startOfToday(asked)}

With(statuses) == {r \in Rides : status[r] \in statuses}

CompletedSince(hour) == {r \in With({"completed"}) : opened[r] >= hour}

inFlightFareValue == With(IN_FLIGHT)
cancelledFareValue == With({"cancelled"})

\* Every settled fare there is of a driver; the names are looked up afterwards.
topEarningDrivers ==
    {e \in ledger : e.type = "ride_fare_driver" /\ e.status = "completed"}

\* Midnight on the server, Days days ago.
startOfWindow(now) == 24 * ((now \div 24) - Days)

\* The commission of the last days, here before it is grouped by date.
platformRevenueByDay ==
    {e \in ledger : /\ e.type \in OfPlatform /\ e.status = "completed"
                    /\ e.at >= startOfWindow(asked)}

Rows(f) ==
    CASE f = "activeRides" -> With(IN_FLIGHT)
      [] f = "unassignedRides" -> With({"requested"})
      [] f = "completedRidesToday" -> CompletedSince(startOfToday(asked))
      [] f = "pendingFareValue" -> inFlightFareValue
      [] f = "cancelledFareValue" -> cancelledFareValue
      [] f = "topEarningDrivers" -> topEarningDrivers
      [] f = "platformRevenueByDay" -> platformRevenueByDay
      [] OTHER -> sumLedger(f)

\* A report is asked for once.  Bound: two figures of its answer are followed.
AskFigures(figures) ==
    /\ asked = None
    /\ \E S \in SUBSET figures :
          /\ S # {} /\ Cardinality(S) <= 2
          /\ follow' = S
    /\ asked' = clock
    /\ base' = ledger
    /\ UNCHANGED <<world, got, offset>>

Read(f) == f \in DOMAIN got

\* The queries run side by side, but for the dashboard's last.
Due(f) ==
    /\ f \in follow /\ ~Read(f)
    /\ f = "unassignedRides" => \A g \in follow \ {f} : Read(g)

Got(f, rows) == got' = [g \in DOMAIN got \cup {f} |-> IF g = f THEN rows ELSE got[g]]

Query(f) ==
    /\ Due(f)
    /\ Got(f, Rows(f))
    /\ UNCHANGED <<world, asked, follow, offset, base>>

-----------------------------------------------------------------------------
(* LedgerService.findByStakeholder and LedgerController                    *)

DriverEntries == {e \in ledger : e.type \in OfDriver}

\* Fault: what is pending goes first.
PlaceByStatus(e) ==
    Cardinality({x \in DriverEntries :
                    \/ x.status = "pending" /\ e.status # "pending"
                    \/ (x.status = "pending" <=> e.status = "pending") /\ x.at > e.at})

\* Newest first, by createdAt.
Place(e) == Cardinality({x \in DriverEntries : x.at > e.at})

OnPage == {e \in DriverEntries : Place(e) \in offset..(offset + Page - 1)}

AskStatement ==
    /\ asked = None
    /\ asked' = clock
    /\ follow' = {"statement"}
    /\ got' = [statement |-> {}]
    /\ base' = ledger
    /\ UNCHANGED <<world, offset>>

\* The next page, until one comes that is not full.
NextPage ==
    /\ follow = {"statement"} /\ offset # None
    /\ got' = [statement |-> got["statement"] \cup {e.of : e \in OnPage}]
    /\ offset' = IF Cardinality(OnPage) < Page THEN None ELSE offset + Page
    /\ UNCHANGED <<world, asked, follow, base>>

\* findAndCount's second result, which the controller hands on as the balance.
total == Cardinality(DriverEntries)

-----------------------------------------------------------------------------

Bookkeeping ==
    \/ Tick
    \/ \E r \in Rides : Advance(r) \/ Begin(r) \/ Settle(r)
    \/ \E m \in Moves, kind \in Kinds : Book(m, kind)
    \/ \E e \in ledger : settleEntry(e)

ReportNext ==
    \/ Bookkeeping
    \/ AskFigures(Dashboard) \/ AskFigures(Revenue) \/ AskFigures(Earners) \/ AskStatement
    \/ \E f \in Figures \ {"statement"} : Query(f)
    \/ NextPage

ReportSpec == ReportInit /\ [][ReportNext]_reportVars

-----------------------------------------------------------------------------
(* Properties                                                              *)

ReportTypeOK ==
    /\ clock \in Hours
    /\ status \in [Rides -> RideStatus]
    /\ opened \in [Rides -> Hours \cup {None}]
    /\ ledger \subseteq Entry
    /\ asked \in Hours \cup {None}
    /\ follow \subseteq Figures
    /\ DOMAIN got \subseteq follow
    /\ base \subseteq Entry

\* The dashboard never shows one ride both as waiting for a driver and as under
\* way, whatever is accepted while its queries run.
NeverCountedTwice ==
    Read("activeRides") /\ Read("unassignedRides") =>
        got["activeRides"] \cap got["unassignedRides"] = {}

FareFigures == {"platformRevenue", "driverEarnings", "riderCashback",
                "platformRevenueByDay"}
RidesIn(f) == {e.of : e \in got[f]}

InWindow(f, e) == f = "platformRevenueByDay" => e.at >= startOfWindow(asked)

\* What was booked before the answer was asked for, on days figure f is about.
BookedFor(f) == {e.of : e \in {x \in base : InWindow(f, x)}}

\* The fare figures of one answer are of the same rides: what separates them
\* are settlements that committed between two of its queries and, from the
\* breakdown by day, rides settled before its window; nothing else ever does.
OnlyOverlapsMisreport ==
    \A f, g \in FareFigures :
        Read(f) /\ Read(g) =>
            /\ RidesIn(f) \ RidesIn(g) \subseteq Rides \ BookedFor(g)
            /\ \A e \in got[f] : InWindow(f, e)

\* A withdrawal that was reported as paid out never bounces afterwards.
PaidStaysPaid ==
    Read("driverPayouts") =>
        \A e \in got["driverPayouts"] : e \in ledger /\ e.status = "completed"

\* The figures of one answer agree with each other and with what comes later.
FiguresAgree ==
    ReportTypeOK /\ NeverCountedTwice /\ OnlyOverlapsMisreport /\ PaidStaysPaid

\* "Today" in a report is the reporting zone's day on which the answer was asked for: the
\* figures of today have all that was settled by then on that day, and nothing
\* of the day before, though the server's date changes East hours later.
FiguresAreOfToday ==
    LET today == DateIn(asked, REPORTING_TIMEZONE)
        IsToday(hour) == DateIn(hour, REPORTING_TIMEZONE) >= today
    IN  /\ Read("completedRidesToday") =>
              /\ \A r \in got["completedRidesToday"] : IsToday(opened[r])
              /\ {e.of : e \in {x \in base : x.type \in Fares /\ IsToday(x.at)}}
                    \subseteq got["completedRidesToday"]
        /\ Read("platformRevenueToday") =>
              /\ \A e \in got["platformRevenueToday"] : IsToday(e.at)
              /\ {e \in base : e.type \in OfPlatform /\ IsToday(e.at)}
                    \subseteq got["platformRevenueToday"]

\* A zone of any offset whose clocks go one hour forward or back, any time but
\* across its midnight.
Zones ==
    {z \in [before: -11..13, after: -12..14, at: 37..83] :
        /\ z.after - z.before \in {-1, 0, 1}
        /\ (z.at + z.before) % 24 # 0
        /\ z.after < z.before => (z.at + z.before) % 24 # 1}

IsMidnight(i, now, zone) ==
    /\ i <= now /\ DateIn(i, zone) = DateIn(now, zone)
    /\ DateIn(i - 1, zone) # DateIn(i, zone)

\* The start of the day is the first instant of the local date, also on a day
\* of 23 or 25 hours and on its neighbours.
MidnightIsFound ==
    \A zone \in Zones : \A now \in 30..90 :
        IsMidnight(startOfDayIn(now, zone), now, zone)

\* A report's day begins at the first instant of the local date, and its figures
\* are of that day.
TodayIsToday == MidnightIsFound /\ FiguresAreOfToday

\* A driver who reads a statement to its last page has seen every entry there
\* was at the beginning, whatever is booked or settled between two pages.
PagesMissNothingOld ==
    offset = None => {e.of : e \in {x \in base : x.type \in OfDriver}}
                        \subseteq got["statement"]

\* The balance shown with a statement is the sum of the driver's signed amounts
\* that still stand, even where every amount is one naira.
StatementShowsTheBalance == total = balance

-----------------------------------------------------------------------------
(* The inductive invariant behind the theorems about reports               *)

Fare(r, type) == [of |-> r, type |-> type, status |-> "completed", at |-> opened[r]]

\* The three entries of a ride are there when it is completed, and not before;
\* a withdrawal or an advance has one.
SettledTogether ==
    /\ \A r \in Rides : status[r] = "completed" =>
          opened[r] # None /\ \A type \in Fares : Fare(r, type) \in ledger
    /\ \A e \in ledger :
          \/ e.of \in Rides /\ e.type \in Fares /\ e = Fare(e.of, e.type)
                /\ status[e.of] = "completed"
          \/ e.of \in Moves /\ e.type \in Kinds
    /\ \A d, e \in ledger : d.of = e.of /\ d.of \in Moves => d = e

\* No two things were booked in one moment, and none in the future.
OwnMoments ==
    /\ \A r \in Rides : opened[r] # None =>
          /\ opened[r] < clock
          /\ \A q \in Rides : opened[q] = opened[r] => q = r
    /\ \A e \in ledger :
          /\ e.at < clock
          /\ \A d \in ledger : d.at = e.at => d.of = e.of
          /\ \A r \in Rides : opened[r] = e.at => e.of = r

\* One answer is under way at most; the dashboard's last query comes last.
AskedOnce ==
    /\ asked = None => follow = {} /\ DOMAIN got = {} /\ base = {}
    /\ "statement" \in follow => follow = {"statement"} /\ Read("statement")
    /\ follow # {"statement"} => offset = 0
    /\ offset \in Nat \cup {None}
    /\ Read("unassignedRides") => follow \subseteq DOMAIN got

\* What there was when the answer was asked for is there still, and what was
\* settled is unchanged.
NothingLost ==
    \A e \in base :
        /\ e.status = "completed" \/ e.type \in Fares => e \in ledger
        /\ \E x \in ledger : x.of = e.of /\ x.type = e.type /\ x.at = e.at

\* A ride that was seen under way does not wait for a driver again, a figure of
\* fares has the rides there were, and rides of today began their settlement.
FiguresLast ==
    /\ Read("activeRides") =>
          \A r \in got["activeRides"] : r \in Rides /\ status[r] # "requested"
    /\ \A f \in FareFigures : Read(f) =>
          /\ RidesIn(f) \subseteq Rides /\ BookedFor(f) \cap Rides \subseteq RidesIn(f)
          /\ \A e \in got[f] : InWindow(f, e)
    /\ Read("completedRidesToday") =>
          \A r \in got["completedRidesToday"] : r \in Rides /\ opened[r] # None

\* An entry there was has been read, or its place is on a page to come.
StillToCome ==
    "statement" \in follow =>
        \A e \in base : e.type \in OfDriver =>
            \/ e.of \in got["statement"]
            \/ /\ offset # None
               /\ \E x \in DriverEntries : x.of = e.of /\ Place(x) >= offset

ReportInv ==
    /\ ReportTypeOK /\ SettledTogether /\ OwnMoments /\ AskedOnce /\ NothingLost
    /\ FiguresLast /\ NeverCountedTwice /\ PaidStaysPaid /\ FiguresAreOfToday /\ StillToCome
=============================================================================

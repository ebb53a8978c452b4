# Ark Rides backend: a TLA+ verification project

This directory models the Ark Rides backend where requests, databases, queues,
sockets and outside services interleave. TLC checks the models on small
instances; TLAPS proves, for every instance, each safety property that a
passing run checks. Liveness stays with TLC.

Paths below are relative to the application source (`rides/...` is
`src/rides/...` of the repository). Every definition that models code is tied
to its lines in the `map` of `PROJECT.json`, which also lists the hazards the
properties are for, and the seeded fault that shows of each property that it
can fail.

## 1. The system

One NestJS process (or several, behind a balancer) serves HTTP and websocket
requests. All state that matters is shared and outside the process:

| store | state | who changes it |
|---|---|---|
| Postgres | `rides`, `drivers`, `users`, `vehicles`, `ledger_entries`, `refresh_tokens`, `ratings`, `emergency_incidents` | services, through TypeORM `save`, `update` and a few explicit transactions |
| Redis | `lock:ride:<id>`, `lock:wallet:*`, the booking idempotency key, `driver:active-ride:<id>`, the geo set, BullMQ's queues | services, directly; expiry |
| sockets | rooms of the connected apps | the gateway, event listeners |
| outside | advances (MFB bank), payouts (LinkPay), Privy, SendGrid, emergency webhooks | called from handlers and workers |

Handlers are `async` functions; between two `await`s anything may happen in
another request. Three mechanisms guard against that, and they differ in
strength: a Redis `SET NX EX` key (advisory, expires under a live owner,
deleted by whoever reaches its `finally`), a Postgres row lock
(`pessimistic_write` in a transaction), and unique indexes or conditional
updates. Much code has none of the three: it reads an entity, edits it, and
calls `save`, which re-reads the row and updates the columns that differ. That
`save` is modelled alike everywhere, as two steps.

### Inventory

| component | state | operations | what is hard | what makes it correct | modelled in |
|---|---|---|---|---|---|
| ride lifecycle (`rides/rides.service.ts`) | ride row, ride lock, active-ride pointer | create, accept, arrived, start, complete, cancel | stale saves, lock expiry, crash in a handler | one driver per ride; a driver's capacity; ends that stay ends but for a named race | `RideLifecycle`, `RideRaces`, `Booking` (create) |
| settlement (`completeRide`) | balances, ledger, row locks | one transaction over three rows and three entries | double completion, deadlock | money follows the ledger; only the assigned driver is paid, once; every request ends | `RideLifecycle`, `RideContract` |
| category matching | constant tables | match, exclusive, pool limit | the check and the save are far apart | capacity | `RideLifecycle` |
| wallet (`wallet/`) | `walletBalance`, driver's entries, locks | fuel advance, payout, reversal | gateway answer lost or late, crash between transactions, midnight | balance is the ledger's; daily cap; nothing refunded that was paid | `Wallet`, `WalletContract` |
| ledger (`ledger/`) | `ledger_entries` | write, settle, sum, statement | unique index under races; paging under writes | one entry of each type per ride; no old entry missed | `RideLifecycle`, `Wallet`, `Reports` |
| token sessions (`auth/services/token.service.ts`) | `refresh_tokens` | issue, rotate, logout, revoke all, prune | concurrent refreshes, revocation against rotation | a session never forks; a token is valid once; a dead session stays dead | `TokenSessions` (one family) |
| driver accounts, vehicles | rows of both | register, update, online, verify, suspend, remove, add, edit | check-then-act, whole-row saves, cascades | identities are unique, vehicles have owners; a suspended driver or an old balance comes back only by a named race | `DriverAccounts` |
| ratings | votes, averages | rate | average in two statements | one vote per rater and ride; an average was true once | `Ratings` |
| booking channels, `createRide`, fares | idempotency key, guest riders | parse and book, create | duplicates, a key deleted on error, rounding | a double tap books once; one guest per number; shares add up | `Booking`, `BookingContract`, `Fares` |
| emergency, webhooks, e-mail | incidents, queues | trigger, resolve, deliver, retry | partial failure, redelivery, dying workers | a raised alert reaches everybody; every job is settled | `Alerts`, `AlertContract` |
| websocket gateway, driver locations | rooms, pointer | connect, join, announce, ping | rooms outlive rides, reconnects, a stale save between another's save and its event | only parties hear; parties hear; events follow commits but for a named race | `LiveRide` |
| sign-in, users, admin bootstrap | accounts, codes, Privy links | register, verify, reset, sign in by DID, promote | check-then-act, whole-row saves, codes in two hands | links are proven; a used code is dead; undoing only by a named race | `SignIn` |
| statistics | none of its own | dashboard, revenue, top earners | queries without a snapshot, time zones | figures differ by overlapping settlements or their windows only; "today" is today | `Reports` |
| configuration, migrations, filters, DTOs | | start-up, schema, wording | nothing that interleaves | | not modelled; see 6 |

## 2. Modules

Every component module has an `MC` module with its constants and, where it has a
promise that can be stated without its mechanism, an abstract specification
(`RideContract`, `WalletContract`, `BookingContract`, `AlertContract`) that it is
proved to implement, the first three also checked by a run. `RideRaces` and
`Ratings` extend their components: `RideRaces` puts a history beside
`RideLifecycle`, `Ratings` puts the votes beside `DriverAccounts`, so that an
average meets the whole-row saves of the same driver. `Booking` extends `Fares`.
The eight `*Proofs` modules hold the theorems; `RideLifecycleProofs` is about
`RideLifecycle` and `RideRaces`, `DriverProofs` about `DriverAccounts` and
`Ratings`, `BackOfficeProofs` about `Alerts` and `Reports`. A component's
inductive invariant stands at the end of its own module, where TLC can be given it
too.

Operators whose comment starts with `Fault:` are seeded bugs. They stand before
the definition they would replace and are part of no specification. Histories,
which no guard reads, are called so at their `VARIABLE`.

**`RideLifecycle`.** A process `t` is a slot for one HTTP request: `pc[t]` is
the await it stands at, `job[t]` what it was asked, `entity[t]` the row object
it loaded and edits, `reloaded[t]` what `save` read back. A handler is a
sequence of actions (`AcceptLock, AcceptRead, AcceptLimits, Reload, Write,
AcceptPointer, Unlock`, and so on). Inside `completeRide`'s transaction nothing
is visible before `Commit`, which also meets the unique index `(rideId, type)`.
`Unlock` deletes the lock whoever owns it, as the code does. `RequestFails` is
any rejected call, `Crash` the death of the process, after which the Redis lock
is an `Orphan`'s. Ride money is counted in payouts per ride and driver, not
naira: what could go wrong is a payout too many, too few, or to the wrong
driver. `SlowHandlers` says whether a handler may outlive the 10 s of its lock.
Bound: a driver has at most one accept of the same ride in flight.

**`Wallet`.** One driver. `entry[e]` is a ledger row, `applied[e]` what
`walletBalance` holds on its account, so the balance is the sum of `applied`
and a lost or repeated movement has a name. `Ask` is the Redis lock and
`BEGIN` (which fixes the entry's `createdAt`), `Reserve` the first transaction,
`GatewayAnswers` the gateway, `Settle` or `Reverse` the second transaction,
`Release` the `finally`. A transaction that starts by locking the driver's row
is one step. The wallet locks may expire at any time. The day is taken twice,
at `BEGIN` and when the row lock was obtained; `Midnight` may come between.
`bank` is what the gateway did, which no guard reads except through the answer.
Bound: `Entries`. The saves of `DriversService`, which do not lock the row,
meet the balance in `DriverAccounts` (`paid`, `Book`).

**`TokenSessions`.** One family. `Claim` is the conditional `UPDATE`; `Mint` is
`BEGIN`, `INSERT` and the search for a breach; `Commit` makes the row visible;
`Breach` and `Stamp` are the two `UPDATE`s of `revokeFamily('reuse-detected')`.

**`DriverAccounts`, `Ratings`.** `Admit` is the guards of a route: a driver acts
on what is theirs while the account is active, an admin on anything. Then the
handlers, one await per step. `Delete` has the cascade of the foreign keys.
`rated` and `paid` are the average and the balance as the sets of what they
average and sum. Bound: money is booked (`Book`) while somebody saves the row;
at other times no request could tell.

**`Booking`, `Fares`.** `createRide` behind the rider's app (`CreateRide`) and
behind an agent (`ParseAndBook`, `FindRider`, `InsertRider`): `SetKey` is `SET NX
EX 30` outside the `try`, `DelKey` the `catch`. A text is the set of things the
parser makes out in it. A key may run out at any moment, under its handler too:
`Expire` then puts the intent among the `outlasted`, a history. `DelKey` deletes
the key whoever set it since, as the code does.

**`Alerts`.** `Trigger` to `Dispatch` raise an incident, `Resolve` to
`UpdateIncident` close one, `Take`, `Process`, `Ready`, `Die` and `Recover` are
BullMQ and its workers: retries after a backoff, a job of a dead worker handed on
once. A webhook's call ends, as it is timed; an e-mail's may hang for good.
Bounds: `MaxOutages`, `MaxDeaths`.

**`LiveRide`.** `work[t]` is the handler in slot `t`: `at` is its next await,
`wants` the row object it will save, `read` what `save` read back. Accept, arrive,
start and cancel load and check in one step, `Reload` and `Write` in the next two,
as in `RideLifecycle`; then `MovePointer` and `Announce`. Handlers overtake each
other at every step and may die (`Abandon`). `completeRide`, which holds the row
from its read to its commit, is one step up to the commit. A socket enters its
account's room as it connects, a driver's further rooms later, drops with all of
them and comes back as anybody; `JoinRideRoom` looks the ride up first and joins
later. `sent` is the event of the last step and its audience. Two histories:
`served[r]`, the drivers a ride has had, and `raced`, the rides a save was made of
although the row had been written since it was loaded. Bound: `Requests` slots.

**`SignIn`.** Password, one-time code, Privy identity, and the promotion at
start-up, over the tables of riders and drivers. An address is a mailbox and
whether it is spelt in lower case. A code is random: a new one is one never
issued.

**`Reports`.** Rides settle and withdrawals are booked while a report is put
together, figure by figure, and a statement read, page by page. A figure is the
set of rows it sums. The breakdown by day goes back `Days` days (30 in the code)
from the server's midnight; a payout needs a `balance` that covers it. The clock
counts hours of the server; the reporting zone is `East` of it, by a fixed offset.
`startOfDayIn` is the code's two-pass computation.

## 3. Runs

All but the last pass; the last checks one property that a comment states and
the code does not keep.

| run | instance | what it shows |
|---|---|---|
| `RideCrowd` | 1 ride, 2 drivers, 3 requests, failures, crashes | one winner (`OneWinner`), only the assigned driver is paid, `RideContract` is implemented |
| `RideFair` | 2 rides, 1 driver, 1 rider, 2 requests, fairness | no deadlock and no starvation on row locks (`EveryRequestEnds`) |
| `RideRaces` | 1 exclusive and 1 pooled ride, 1 driver, 2 requests, expiring locks | the money stays right without the Redis lock; a ride leaves its diagram, or a driver is overbooked, only by a save that was overtaken |
| `WalletBusy` | 2 requests, 3 entries, 2 days, a fare, lost answers, crashes | balance and ledger agree, overdraft is refused fuel only, cap on the running day's advances, the gateway is not contradicted, `WalletContract` is implemented |
| `SessionRaces` | 3 requests, 3 tokens, failures | no fork, no token with two successors, a breach is not outlived by renewal, death is final |
| `DriverDesk` | 3 requests, a driver and one who registers, 2 vehicles, 2 phones, 2 plates, 2 rated rides, a wallet movement, failures | `RowsAgree`, `AverageWasOnceTrue`, and only overtaken saves reinstate a driver or lose money |
| `Booking` | 3 calls, a rider with an account, a number in two spellings, failures, keys that expire at any time | guests, offers and rides are the callers' own, shares add up; a double tap books once, nobody's key is deleted by another, and `BookingContract` is implemented, unless a handler outlasted its key |
| `Alerts` | an SOS and a verdict or mail, 2 targets, 3 outages, 1 dying worker, fairness | `QueueIsHonest`; a raised alert reaches all; every webhook job is settled, beside a mail that may hang |
| `LiveRide` | 1 ride, 2 drivers who both may have it, 2 requests, locks that expire, the app of any account | who hears positions and events, and that only an overtaken save makes an event untrue |
| `SignIn` | a rider who may come to drive, 2 DIDs, 3 requests, 2 spellings, 2 codes, failures | links are proven; only an overtaken sign-in re-points a link, undoes a reset, or revives a used code |
| `Reports` | 2 rides, 1 movement of money, 4 hours with both midnights, a breakdown of today only | what an answer's figures may disagree about; the day they are of; paging |
| `StatementBalance` | 1 ride, 1 movement of money | **violation**: the balance of a statement is the number of its entries |

Several properties come as "only a race does this" (`OnlyRacesReorder`,
`OnlyRacesOverbook`, `OnlyRacesReinstate`, `OnlyStaleSavesLoseMoney`,
`OnlyRacesRepoint`, `OnlyRacesUndo`, `SpentCodesAreDead`, and parts of
`OnlyPartiesHear` and `EventsFollowCommits`). The code does lose
those races, as section 5 says; the property pins the damage to one cause, a
save whose row was written since it was loaded, and excludes every other. That
damage is reached in these runs: with the exception removed, each fails.

**Why the bounds are enough.** A bad interleaving of these handlers needs a victim
and an intruder whose work falls between two of the victim's steps; a third
request comes in after both (the replay after a breach, the accept after an
unlock, the vote after two averages). Two of a kind are enough to be the wrong
one: two drivers, two rides, two phones, two spellings, two DIDs, two targets. The
wallet needs a credit, a debit that spends it and a later refusal (3 entries).
Three tokens give a session a token before, at and after a breach. `Alerts` has
more outages than an e-mail's attempts and fewer than a webhook's: what is given
up and what lands are both reached. The runs show that the interesting cases occur
and that a seeded fault is caught; the theorems carry the safety properties to any
number of requests, rows and days. `Reports` checks `startOfDayIn` for the zones
of `Zones` at every hour of two and a half days, and `Days = 0` puts the rides
that settle in the first two hours before the window of a breakdown asked for
after midnight. `LiveRide` has one ride: two of a driver with two requests are
beyond TLC here, so that a pointer which names the other pooled ride is covered by
the theorems alone, as the module's limits on a driver's rides are by `RideRaces`
and not by this run. Requests are interchangeable and symmetric, and so are
drivers (`LiveRide`), guests and the spellings of one number (`Booking`), rides
and movements (`Reports`); the runs with a liveness property use no symmetry.

`CHECK_DEADLOCK FALSE` is said where the instance comes to an end: slots that
serve one request each (`DriverDesk`, `Booking`, `Alerts`, `SignIn`), a ledger
that is full (`WalletBusy`), a day that is over (`Reports`). The ride, session
and socket runs check for deadlock.

**Fairness.** `RideLifecycle!FairSpec`: strong fairness of each request's next
step (Node resumes a handler whose call has returned, and Postgres queues the
waiters of a row lock), weak fairness of the expiry of Redis keys.
`Alerts!FairSpec`: weak fairness of every handler's next step and of the queue's
work on every webhook job (BullMQ hands out waiting jobs, and a timed HTTP call
ends, `emergency-webhook.processor.ts:63`). Mail jobs have no fairness: the calls
of `email.processor.ts:113`, `:151` and `:197` are not timed.
Nothing makes users arrive, outages end, or workers die: these are bounded, not
fair.

## 4. Theorems

All proofs are checked by TLAPS. None uses an assumption but the named `ASSUME`s
on constants, which TLC evaluates in the runs, and what a theorem's own `ASSUME`
says. These `ASSUME`s say that sets of names are disjoint and
tables have their types, and besides:

| assumption | why the code justifies it |
|---|---|
| `LedgerIsFinite` (`Wallet`) | a table has finitely many rows; `SUM` needs it |
| `DeskIndexes`, `SignInIndexes` | the rows there are at first obey the unique indexes of the migrations |
| `AbsentIsNoRow`, `NoneIsNoRow` | "no row" is not a row |
| `ReportSizes` (`Reports`) | pages are not empty, the hours are some, `None` is not a number |

`~SlowHandlers` is the only hypothesis about behaviour: two theorems of
`RideLifecycleProofs`, `AwardSafe` and `ContractKept`, need Redis locks that
outlive their handlers, and say so.

**Rides** (`RideLifecycleProofs`). `RideInvHolds` is the inductive invariant.
Its first half, `SettlementInv`, needs no Redis lock: inside the transaction the
row is locked, in progress and assigned to the caller (`RowHeld`), and no copy
of a row carries a final fare that was not paid (`FareMeansPaid`), which is what
a stale save could otherwise write back. From it `MoneySafe`, `CompletionSafe`
and `PaymentSafe`, for slow handlers and crashes too. The second half,
`AwardInv`, holds when locks outlive their handlers: the owner of the lock is
the handler inside (`LockOwned`), before its save an accept is alone
(`AcceptIsFirst`), and no save brings `requested` back (`NeverRequestedAgain`).
From both `AwardSafe` and `ContractKept`, the refinement of `RideContract`.

**Ride races** (same module). `RaceInv` relies on no Redis lock at all. Unless
the ride was written behind a request's back, what it is about to save is the
row as it stands, edited as its operation does (`FreshCopy`); and an accept past
its check still has room beside those of the driver's rides that nobody changed
since (`RoomFor`). A request's load, check, re-read and write are four steps, so
neither property is inductive without saying what the request holds at each.
From it `OrderSafe` and `RoomSafe`: the damage of an expired lock has exactly
one cause.

**Wallet** (`WalletProofs`). `WalletInvHolds`: between its transactions a
request holds a pending entry of its own (`HoldsEntry`, `HoldsItAlone`) and
knows what the gateway did. From it `GatewayTrusted`, `BalanceSafe` and
`WalletContractKept`, with crashes, lost answers and expired locks.

**Wallet limits** (same module). `DailyCapKept` and `OverdraftBounded` are about
sums over any finite ledger. What `SumFunctionOnSet` computes is unfolded once
(`SumUnfolded`), that it is a sum is shown by going down to a least
counterexample, with the well-foundedness of `<` and of strict inclusion in place
of an induction rule (`SumsExist`, `SumsAgree`), and from the recurrence (`SumIs`)
come the lemmas the actions need: a sum is unchanged with its rows, one row
changes it by the difference, a larger set of advances has a larger sum.
`DailyCap` is a bound on the running day: it does not exclude that a day that is
over exceeds it, by an advance whose transaction began before midnight and was
checked after it. `LimitsInv` adds to the two properties that nothing is dated
after today, not even what a request that began yesterday is about to reserve
(`Dated`): without it, midnight could turn tomorrow's entries into today's.

**Sessions** (`TokenSessionsProofs`). `SessionInvHolds`: a token in hand is
consumed and childless (`InHand`), live tokens are childless (`Lineage`), and
the evidence of a breach is on a consumed row, where no later `UPDATE`
overwrites it (`EvidenceStays`). From it `NeverForks`, `ValidOnce`,
`CompromiseEnds`, and `DeathEndsIt`: only a commit brings a row to life, and
only a claim of a live token leads to one.

**Drivers and ratings** (`DriverProofs`). `AccountInv` says of each request what
its handler has checked so far: an edit holds a row object that was read from
the table, of an account in order then, or the request is one that outlived a
suspension (`Held`); a registration's ids are nobody's (`OwnIds`); an average in
hand is one the votes had (`Averaged`). The unique indexes and the cascades do
the rest. From it `RowsSound`, `AveragesSound`, `NobodyReinstated` and
`MoneySafe`.

**Bookings** (`BookingProofs`). `CallInv`: a call under way knows its trip and,
in `createRide`, its rider; with the lemma `SplitAdds` about the split of any
amount it gives `SharesAlwaysAddUp`. `KeyInv`: whoever is inside `createRide`
holds the key of the intent (`KeyHeld`), and the key of a ride that was saved is
still its request's, unless its time is over or its request failed (`KeyKept`);
both are said of intents that no handler outlasted. From it, for keys of any life,
`DoubleTapSafe`, `KeysAreTheSetters` and `ContractKept`, the refinement of
`BookingContract`, which closes an intent to others and opens it for good once its
time passed under a request. `DeskInv` gives `CallersServed`: at each stage a call
has the phone and the rider it needs (`CallerKnown`), and guests are counted
against the calls that were understood (`GuestsCounted`).

**Alerts** (`BackOfficeProofs`). `QueueInv`: requests change no job but the ones
they add, whose incident is on record (`InPlace`); a job that has not failed has
an attempt and a death to spare (`HasHope`), without which "given up only after
the last attempt" is not inductive. From it `HonestQueue`, for any number of
targets, outages and dying workers. `WordKept` is the refinement of
`AlertContract`: a worker's step is a telling, of nobody perhaps; that adding a
job owes it for the first time needs `UntilAnswered`, a request has no job
before it is over. No run has it as a property; TLC agrees on two SOS with a
failed attempt and two dying workers.

**Reports** (same module). `FiguresSound`: the three entries of a ride are there
when it is completed and not before (`SettledTogether`), and what a report's
first query saw is still there for its last (`NothingLost`), so two figures
differ by settlements in between and, the breakdown by day, by rides settled
before its window. `TodaySound` is arithmetic: two passes find midnight in the
zones of `Zones`, of whole hours and with one change of an hour, not across
midnight; the figures of today are of a zone of fixed offset. `PagingSound`: no two
entries have one moment (`OwnMoments`), so an entry's place is the number of
later moments, and a booking can move old entries to later pages only; at any
page, what has not been read is at or after the next offset (`StillToCome`). A
page that is not full is the last, by counting (`NoGap`, `LastPage`).

**Websocket gateway** (`LiveRideProofs`). `LiveInv` needs no Redis lock. Unless the
ride was written behind its back, what a handler is about to save is the row as it
stands, edited (`IsFresh`); what it is about to announce was saved, and unless a
save of the ride was overtaken, still stands (`Stands`). A pointer names a ride its
driver has had, ended or lost again or not (`PointersAreOwn`); a ride nobody
overtook has had one driver (`RowsAreServed`); a socket is in its own account's
room and in no other's (`OwnRooms`); who passed the check of `handleJoinRide` keeps
the right to the room (`AskersAreParties`), although it is entered a step later.
From it `Discreet` (rooms and positions), `NobodyLeftOut`, `NothingPremature`.

**Sign-in** (`SignInProofs`). `SignInInv`: the row a sign-in holds is an
account's, with the identity's DID in it, and was linked or has the address the
identity proves (`HoldsARow`); unless overtaken it differs from the table by the
DID alone (`UpToDate`); a code, wherever it appears, in a row, in a copy, or in a
request about to use it, is one account's (`CodesAreApart`), or a spent code
could come back through a row nobody connects with it. From it `AccountsSound`,
`LinksProven`, and that re-pointed links, undone resets and revived codes are
races: `RepointsAreRaces`, `UndoesAreRaces`, `CodesStayDead`.

TLC agrees with the inductive invariants on the runs' instances.

**Model-checked only.** Liveness: `EveryRequestEnds`, `AlertsLand` and
`JobsAreSettled` rest on fairness and ENABLED, which TLAPS does not support.
`StatementBalance` is a disagreement: there is nothing to prove.

## 5. Disagreements met while modelling

One has a run of its own, `StatementBalance`: `ledger.service.ts:113` returns the
number of rows, `ledger.controller.ts:61-62` calls it a running balance.

The others are what the "only a race" properties leave room for, or lie beside
what they say:

* Rides. A cancellation is written over by an accept that had read the ride before
  (`rides.service.ts:265`, unconditional save), and two overlapping accepts give a
  driver two exclusive rides (`:230`, a lock per ride, not per driver). Completing
  one pooled ride deletes the pointer of a driver who still serves another
  (`:492`): positions stop for that rider. A cancellation that loaded the ride
  before an accept writes the driver out and leaves the driver's pointer
  (`:516-519`): a driver's positions go to a ride that is theirs no longer. A
  stale save between another handler's save and its event makes the event untrue:
  `ride:cancelled` of a ride that was accepted and goes on, or the reverse.
* Wallet. An advance whose transaction began before midnight and got the driver's
  row after it is checked against the new day and dated on the old one
  (`wallet.service.ts:153`): the day that is over may exceed its cap.
* Bookings. `createRide` deletes its key on any error whoever set it since
  (`:175`): a request that fails after its 30 s deletes the key of another, whose
  double tap is then booked.
* Sessions. "A compromised family means NOBODY keeps the session"
  (`token.service.ts:156-162`): the model, as the code, has a token that was
  minted while the breach was not yet stamped survive it; what holds is weaker,
  that the survivor cannot be renewed (`CompromisedNotRenewed`).
* Drivers. A driver's toggle that was loaded before a suspension puts the
  suspended driver back (`drivers.service.ts:399-400`, against the comment at
  `:447`). A profile save that loaded the row before money moved, and re-read it
  after, writes the old balance back. A login that read the row before a
  suspension issues its session after (`:256`); so does a token rotation whose
  subject was read before. Registration saves the driver before the vehicle
  outside a transaction (`:103`): a refused plate leaves an account without one.
* Emergencies. When queueing a webhook job is rejected, the caller of an SOS that
  is on record and broadcast is answered with an error
  (`emergency.service.ts:120`). No code joins the ops emergency room that the
  gateway sends to. The mails are sent without a time limit
  (`email.processor.ts:113`, `:151`, `:197`), unlike the webhooks: one that is
  never answered holds the worker. `ResolveEmergencyDto` accepts `active`, with
  which resolving re-opens.
* Sign-in. Two DIDs that have proven one mailbox may both find the account
  unlinked, and the second link replaces the first
  (`privy-auth.service.ts:160-172`, "Refuse rather than re-point"). Addresses are
  compared as typed, so one mailbox may have two accounts by its spelling, and
  `admin-bootstrap.service.ts:55` looks for lower case only. `register` mails a
  code that it does not store (`auth.service.ts:84-107`).
* Reports. "Every figure is a SUM [...] so the four numbers reconcile"
  (`stats.service.ts:237`): not while a settlement commits between two queries.
  `platformRevenueByDay` (`:474`) leaves out what was settled before its window,
  which the total beside it has, and uses the server's midnight, against the
  remark at `:605-616`. `startOfDayIn` is an hour off where a zone changes its
  clocks across its midnight, which `Zones` excludes.
* Sockets. A driver's rooms are those of the vehicles at the moment of the
  connection (`rides.gateway.ts:149`); the geo set has no expiry, against
  `driver-locations.service.ts:31`.

## 6. Not modelled

* `pruneExpired` (a week after expiry) and several families of one account;
  access tokens, stateless and valid for their hour by design.
* The geo set and its searches: read by queries that change nothing. The public
  milestones, ride mix, histogram and funnel of the statistics: single queries.
* Passwords, hashes, Privy's token verification, mail wording, maps: external,
  and no property is about them.
* Configuration, migrations, exception filters, DTO validation, Swagger: start-up
  and wording. The indexes, cascades and defaults the migrations create are
  modelled where a handler meets them.
* Several drivers' wallets at once: they share no row.
* In `LiveRide`: the account checks of `acceptRide`, whose refusal is an abandoned
  handler.
* A deadlock of a driver's removal, whose cascade locks the driver before the rides,
  with a settlement: the removal is one step of `DriverAccounts`, and Postgres would
  fail one of the two.

## 7. Plan

1. Several families of one account in `TokenSessions`, with `pruneExpired`, and
   the proofs of its theorems for them.
2. An abstract specification of a session, and `TokenSessions` shown to
   implement it.

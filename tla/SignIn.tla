------------------------------- MODULE SignIn -------------------------------
(***************************************************************************)
(* How people get into their accounts: AuthService (password and one-time  *)
(* code), PrivyAuthService (a Privy identity, a "DID"), the password reset *)
(* of DriversService, and AdminBootstrapService.  Riders and drivers are   *)
(* two tables and one person may be in both.                               *)
(*                                                                         *)
(* A request t is one HTTP call whose handler runs one awaited call per    *)
(* step; it takes no lock.  repository.save of a loaded entity re-reads    *)
(* the row and updates the columns in which the entity differs from it     *)
(* (Reload, Save); repository.update sets the columns it is given.         *)
(*                                                                         *)
(* Abstractions.  An e-mail address is a mailbox and whether it is spelt   *)
(* in lower case, and stands for the unique columns of an account other    *)
(* than the DID.  A code is random, so a new one is one never issued.      *)
(* bcrypt and the mails take their time and nothing else; sessions are     *)
(* left to TokenSessions, vehicles to DriverAccounts; the wallet address   *)
(* is saved like the columns here.  A request slot serves one request.     *)
(***************************************************************************)
EXTENDS Naturals, FiniteSets

CONSTANTS
    Requests,        \* slots, one request each
    RiderIds, DriverIds,
    Registered,      \* the accounts there are at first
    BoxOf,           \* BoxOf[a]: the mailbox of such an account
    Boxes, Dids,
    AdminBoxes,      \* ADMIN_EMAILS
    Spellings,       \* are addresses typed in lower case?
    Passwords, Codes,
    Failures,        \* may calls be rejected and processes die?
    None

Accounts == RiderIds \cup DriverIds

ASSUME SignInNames ==
    /\ RiderIds \cap DriverIds = {}
    /\ Registered \subseteq Accounts
    /\ BoxOf \in [Registered -> Boxes]
    /\ Boxes \cap Dids = {} /\ AdminBoxes \subseteq Boxes
    /\ None \notin Accounts \cup Boxes \cup Dids \cup Passwords \cup Codes \cup Requests
    /\ Spellings \subseteq BOOLEAN /\ Failures \in BOOLEAN

Address == [box: Boxes \cup Dids, lower: BOOLEAN]
Row == [email: Address, did: Dids \cup {None}, password: Passwords \cup {None},
        code: Codes \cup {None}, fresh: BOOLEAN, verified: BOOLEAN,
        open: BOOLEAN, admin: BOOLEAN]

ASSUME NoneIsNoRow == None \notin Row

\* The table an account is in.
Side(a) == IF a \in RiderIds THEN "rider" ELSE "driver"

\* The unique indexes hold of the accounts there are at first.
ASSUME SignInIndexes ==
    \A a, b \in Registered : Side(a) = Side(b) /\ BoxOf[a] = BoxOf[b] => a = b

VARIABLES
    acct,      \* acct[a]: the row of users or drivers
    issued,    \* the codes generated so far
    pc, job,   \* pc[t], job[t]: the await a request stands at, what it asks
    entity,    \* entity[t]: the row object it loaded, and edits
    reloaded,  \* reloaded[t]: what its save read back
    spent,     \* history: the codes that a reset or a verification has used
    overtaken  \* history: the requests whose entity's row was written since
               \* they loaded it; no guard reads spent or overtaken

vars == <<acct, issued, pc, job, entity, reloaded, spent, overtaken>>

NoJob == [op |-> "none", side |-> "rider", a |-> None, box |-> None, lower |-> TRUE,
          did |-> None, password |-> None, code |-> None]

\* An account of the past: by password or by DID, perhaps not yet verified.
FirstRow(b, spelt, d, p, v) ==
    [email |-> [box |-> b, lower |-> spelt], did |-> d, password |-> p,
     code |-> None, fresh |-> FALSE, verified |-> v, open |-> TRUE, admin |-> FALSE]

Init ==
    /\ \E spelt \in Spellings, v \in BOOLEAN, p \in Passwords :
          acct = [a \in Accounts |->
                     IF a \in Registered THEN FirstRow(BoxOf[a], spelt, None, p, v)
                     ELSE None]
    /\ issued = {}
    /\ pc = [t \in Requests |-> "idle"]
    /\ job = [t \in Requests |-> NoJob]
    /\ entity = [t \in Requests |-> None]
    /\ reloaded = [t \in Requests |-> None]
    /\ spent = {} /\ overtaken = {}

Table(side) == {a \in Accounts : acct[a] # None /\ Side(a) = side}
ByEmail(side, e) == {a \in Table(side) : acct[a].email = e}
ByDid(side, d) == {a \in Table(side) : acct[a].did = d}

\* The address that a body gives, and the one that a row gets without one.
Given(j) == [box |-> j.box, lower |-> j.lower]
Placeholder(d) == [box |-> d, lower |-> TRUE]

Goto(t, where) == pc' = [pc EXCEPT ![t] = where]
Leave(t) ==
    /\ Goto(t, "done")
    /\ job' = [job EXCEPT ![t] = NoJob]
    /\ entity' = [entity EXCEPT ![t] = None]
    /\ reloaded' = [reloaded EXCEPT ![t] = None]
Refuse(t) ==
    /\ Leave(t)
    /\ overtaken' = overtaken \ {t}
    /\ UNCHANGED <<acct, issued, spent>>
\* The request goes on with j, what it asks and the account it found.
Proceed(t, j, where) ==
    /\ Goto(t, where)
    /\ job' = [job EXCEPT ![t] = j]
    /\ UNCHANGED <<acct, issued, entity, reloaded, spent, overtaken>>

\* A row is written: those that hold it are overtaken.
Put(t, a, row) ==
    /\ acct' = [acct EXCEPT ![a] = row]
    /\ overtaken' = (overtaken \ {t}) \cup
          {u \in Requests \ {t} : row # acct[a] /\ job[u].a = a /\ entity[u] # None}

-----------------------------------------------------------------------------
(* What a request may ask                                                  *)

Sides == {"rider", "driver"}

Registrations ==
    {[NoJob EXCEPT !.op = "register", !.box = b, !.lower = spelt, !.password = p] :
        b \in Boxes, spelt \in Spellings, p \in Passwords}

\* A code in a body was issued some time, or is wrong.
Credentials ==
    LET by(op, side, b, spelt, p, c) ==
            [NoJob EXCEPT !.op = op, !.side = side, !.box = b, !.lower = spelt,
                          !.password = p, !.code = c]
        Bodies == Boxes \X Spellings
        Known == issued \cup {None}
    IN  {by("login", side, b[1], b[2], p, None) :
            side \in Sides, b \in Bodies, p \in Passwords}
        \cup {by("reset", side, b[1], b[2], p, c) :
            side \in Sides, b \in Bodies, p \in Passwords, c \in Known}
        \cup {by("verify", "rider", b[1], b[2], None, c) : b \in Bodies, c \in Known}
        \cup {by("forgot", side, b[1], b[2], None, None) : side \in Sides, b \in Bodies}
        \cup {by("resend", "rider", b[1], b[2], None, None) : b \in Bodies}

\* A good access token names the DID; a good identity token may name a
\* mailbox, which comes in lower case.
PrivyCalls ==
    {[NoJob EXCEPT !.op = k[1], !.side = k[2], !.did = d, !.box = b] :
        k \in {<<"privy", "rider">>, <<"privy", "driver">>, <<"enroll", "driver">>},
        d \in Dids, b \in Boxes \cup {None}}

-----------------------------------------------------------------------------
(* Passwords and codes                                                     *)

\* register and createFromPrivy look for the address first.
AddressOf(j) ==
    IF j.box # None THEN Given(j) ELSE Placeholder(j.did)
Check(t) ==
    \E j \in IF pc[t] = "idle" THEN Registrations ELSE {job[t]} :
        /\ pc[t] \in {"idle", "check"}
        /\ IF ByEmail(j.side, AddressOf(j)) = {} THEN Proceed(t, j, "insert") ELSE Refuse(t)

\* OtpUtil.matches and isExpired.
CodeIsGood(row, c) == row.code # None /\ row.code = c /\ row.fresh

\* May the handler go on with the row it found?
Passes(j, row) ==
    CASE j.op = "login" ->
            /\ row.password # None /\ row.password = j.password
            /\ IF j.side = "rider" THEN row.verified ELSE row.open
      [] j.op = "verify" -> ~row.verified /\ CodeIsGood(row, j.code)
      [] j.op = "resend" -> ~row.verified
      [] j.op = "forgot" -> TRUE
      [] j.op = "reset" -> CodeIsGood(row, j.code)

\* findByEmail, and the checks of what it returns.  A login then only issues
\* its session.
Read(t) ==
    \E j \in Credentials :
        LET found == ByEmail(j.side, Given(j)) IN
        /\ pc[t] = "idle"
        /\ \/ found = {} /\ Refuse(t)
           \/ \E a \in found :
                 IF Passes(j, acct[a]) /\ j.op # "login"
                 THEN Proceed(t, [j EXCEPT !.a = a], "update") ELSE Refuse(t)

\* Fault: the code outlives the reset.
UpdatePasswordKeeping(t) ==
    LET a == job[t].a IN
    /\ Put(t, a, [acct[a] EXCEPT !.password = job[t].password])
    /\ spent' = spent \cup {job[t].code}

\* The new password, and the code is cleared.
UpdatePassword(t) ==
    LET a == job[t].a IN
    /\ Put(t, a, [acct[a] EXCEPT !.password = job[t].password,
                                 !.code = None, !.fresh = FALSE])
    /\ spent' = spent \cup {job[t].code}

VerifyUser(t) ==
    LET a == job[t].a IN
    /\ Put(t, a, [acct[a] EXCEPT !.verified = TRUE, !.code = None, !.fresh = FALSE])
    /\ spent' = spent \cup {job[t].code}

\* The one update of a reset or a verification.  What follows, a mail or a
\* session, changes nothing here.
UseCode(t) ==
    /\ pc[t] = "update"
    /\ \/ job[t].op = "reset" /\ UpdatePassword(t)
       \/ job[t].op = "verify" /\ VerifyUser(t)
    /\ Leave(t)
    /\ UNCHANGED issued

\* updateOtp; whether the mail is then queued or not, the code is stored.
UpdateOtp(t) ==
    LET a == job[t].a IN
    /\ pc[t] = "update" /\ job[t].op \in {"resend", "forgot"}
    /\ \E c \in Codes \ issued :
          /\ issued' = issued \cup {c}
          /\ Put(t, a, [acct[a] EXCEPT !.code = c, !.fresh = TRUE])
    /\ Leave(t)
    /\ UNCHANGED spent

-----------------------------------------------------------------------------
(* Privy                                                                   *)

\* The entity a sign-in goes on with: the row it found, linked to the DID.
Hold(t, j, a) ==
    /\ job' = [job EXCEPT ![t] = [j EXCEPT !.a = a]]
    /\ entity' = [entity EXCEPT ![t] = [acct[a] EXCEPT !.did = j.did]]
    /\ Goto(t, "save")
    /\ UNCHANGED <<acct, issued, reloaded, spent, overtaken>>

\* Nobody was found: a rider is made, a driver has to register.
NotFound(t, j) ==
    CASE j.side = "rider" -> Proceed(t, j, "insert")
      [] j.op = "enroll" -> Proceed(t, j, "check")
      [] OTHER -> Refuse(t)

\* Fault: an identity without an e-mail is looked up too, and a condition
\* without a value is no condition.
FindByDidUnguarded(t) ==
    \E j \in PrivyCalls :
        LET found == ByDid(j.side, j.did)  any == Table(j.side) IN
        /\ pc[t] = "idle"
        /\ IF found # {}
           THEN \E a \in found : IF acct[a].open THEN Hold(t, j, a) ELSE Refuse(t)
           ELSE IF j.box # None THEN Proceed(t, j, "byEmail")
           ELSE IF any = {} THEN NotFound(t, j)
           ELSE \E a \in any : acct[a].did = None /\ Hold(t, j, a)

FindByDid(t) ==
    \E j \in PrivyCalls :
        LET found == ByDid(j.side, j.did) IN
        /\ pc[t] = "idle"
        /\ IF found # {}
           THEN \E a \in found : IF acct[a].open THEN Hold(t, j, a) ELSE Refuse(t)
           ELSE IF j.box # None THEN Proceed(t, j, "byEmail") ELSE NotFound(t, j)

\* Fault: whoever proves the address takes the account over.
MayLinkAnyone(row, d) == row.open

\* An account linked to another DID is not re-pointed.
MayLink(row, d) == row.open /\ row.did \in {None, d}

FindByEmail(t) ==
    LET j == job[t]  found == ByEmail(j.side, Given(j)) IN
    /\ pc[t] = "byEmail"
    /\ IF found = {} THEN NotFound(t, j)
       ELSE \E a \in found : IF MayLink(acct[a], j.did) THEN Hold(t, j, a) ELSE Refuse(t)

Reload(t) ==
    /\ pc[t] = "save"
    /\ reloaded' = [reloaded EXCEPT ![t] = acct[job[t].a]]
    /\ Goto(t, "write")
    /\ UNCHANGED <<acct, issued, job, entity, spent, overtaken>>

\* Fault: the first sign-in by DID does away with the password.
SavedAfresh(mine, read, now) ==
    [[c \in DOMAIN mine |-> IF mine[c] # read[c] THEN mine[c] ELSE now[c]]
        EXCEPT !.password = IF read.did = None THEN None ELSE @]

\* The row after an UPDATE of the columns that differ from the re-read row.
Saved(mine, read, now) ==
    [c \in DOMAIN mine |-> IF mine[c] # read[c] THEN mine[c] ELSE now[c]]

Save(t) ==
    LET a == job[t].a  new == Saved(entity[t], reloaded[t], acct[a]) IN
    /\ pc[t] = "write"
    /\ IF ByDid(job[t].side, new.did) \subseteq {a}
       THEN Put(t, a, new) /\ Leave(t) /\ UNCHANGED <<issued, spent>>
       ELSE Refuse(t)

\* The row a registration or a first sign-in inserts.
NewRow(j) ==
    [email |-> AddressOf(j),
     did |-> j.did, password |-> j.password, code |-> None, fresh |-> FALSE,
     verified |-> TRUE, open |-> TRUE, admin |-> FALSE]

\* Fault: there is no unique index, the look-ups have to do.
UniqueByLookup(side, row) == TRUE

\* The unique columns.
IsUnique(side, row) ==
    /\ ByEmail(side, row.email) = {}
    /\ row.did # None => ByDid(side, row.did) = {}

\* A driver's vehicle is then inserted, and the driver saved once more.
Insert(t) ==
    LET j == job[t] IN
    /\ pc[t] = "insert"
    /\ IF IsUnique(j.side, NewRow(j))
       THEN \E a \in Accounts :
               /\ Side(a) = j.side /\ acct[a] = None
               /\ Put(t, a, NewRow(j))
               /\ \/ j.op # "enroll" /\ Leave(t)
                  \/ /\ j.op = "enroll"
                     /\ job' = [job EXCEPT ![t].a = a]
                     /\ entity' = [entity EXCEPT ![t] = NewRow(j)]
                     /\ Goto(t, "vehicle")
                     /\ UNCHANGED reloaded
               /\ UNCHANGED <<issued, spent>>
       ELSE Refuse(t)

InsertVehicle(t) == pc[t] = "vehicle" /\ Proceed(t, job[t], "save")

-----------------------------------------------------------------------------
(* What goes on beside the requests                                        *)

\* A rejected call, the end of the process: a rejected vehicle leaves the
\* driver without one.
RequestFails(t) == Failures /\ pc[t] \notin {"idle", "done"} /\ Refuse(t)

\* Nobody's request: outside the handlers above.
Beside(a, row) ==
    /\ acct[a] # None /\ row # acct[a]
    /\ Put(None, a, row)
    /\ UNCHANGED <<issued, pc, job, entity, reloaded, spent>>

\* Ten minutes pass.
ExpireCode(a) == acct[a] # None /\ acct[a].code # None /\ Beside(a, [acct[a] EXCEPT !.fresh = FALSE])

\* An admin suspends a driver (DriverAccounts); a rider is blocked by hand.
Close(a) == acct[a] # None /\ Beside(a, [acct[a] EXCEPT !.open = FALSE])

\* promote, when an instance starts: of the riders whose address is listed.
Promote(a) ==
    /\ acct[a] # None /\ a \in RiderIds
    /\ acct[a].email.lower /\ acct[a].email.box \in AdminBoxes
    /\ Beside(a, [acct[a] EXCEPT !.admin = TRUE])

Handler(t) ==
    \/ Check(t) \/ Read(t) \/ UseCode(t) \/ UpdateOtp(t) \/ FindByDid(t) \/ FindByEmail(t)
    \/ Reload(t) \/ Save(t) \/ Insert(t) \/ InsertVehicle(t) \/ RequestFails(t)

Next ==
    \/ \E t \in Requests : Handler(t)
    \/ \E a \in Accounts : ExpireCode(a) \/ Close(a) \/ Promote(a)

Spec == Init /\ [][Next]_vars

-----------------------------------------------------------------------------
(* Properties                                                              *)

Waits == {"idle", "done", "check", "update", "byEmail", "save", "write", "insert", "vehicle"}

\* Rows and requests keep their types: a row always has an address, and what
\* a save holds is the row of an account that exists.
TypeOK ==
    /\ acct \in [Accounts -> Row \cup {None}]
    /\ issued \subseteq Codes /\ spent \subseteq Codes
    /\ pc \in [Requests -> Waits]
    /\ \A t \in Requests :
          /\ pc[t] \in {"save", "write", "vehicle"} => entity[t] \in Row /\ acct[job[t].a] # None
          /\ pc[t] = "write" => reloaded[t] \in Row
    /\ overtaken \subseteq Requests

\* Neither table has two accounts of one address or of one DID, although
\* registrations, first sign-ins and links all look first and write later.
IdentitiesAreUnique ==
    \A a, b \in Accounts :
        a # b /\ acct[a] # None /\ acct[b] # None /\ Side(a) = Side(b) =>
            /\ acct[a].email # acct[b].email
            /\ acct[a].did # None => acct[a].did # acct[b].did

\* The accounts are sound: rows keep their types and share no identity.
AccountsAreSound == TypeOK /\ IdentitiesAreUnique

\* An account there was is linked to a DID only by a sign-in whose identity
\* token named the account's address (PrivyAuthService, "ACCOUNT LINKING").
LinksAreProven ==
    [][\A a \in Accounts :
          acct[a] # None /\ acct[a].did = None /\ acct[a]'.did # None =>
              \E t \in Requests :
                  /\ pc[t] = "write" /\ job[t].did = acct[a]'.did
                  /\ acct[a].email = Given(job[t])]_vars

\* A link is moved to another DID only by a sign-in that loaded the row before
\* it was written last.  (Such a sign-in does move it.)
OnlyRacesRepoint ==
    [][\A a \in Accounts :
          acct[a] # None /\ acct[a].did # None /\ acct[a]'.did # acct[a].did =>
              \E t \in overtaken : pc[t] = "write" /\ job[t].a = a]_vars

\* Signing in by DID leaves a row's password, code and standing alone, unless
\* they were written while it held the row.  (Then it brings the old ones
\* back: a reset, a suspension or a promotion is undone.)
OnlyRacesUndo ==
    [][\A a \in Accounts, t \in Requests \ overtaken :
          pc[t] = "write" /\ job[t].a = a /\ pc[t]' = "done" /\ acct[a]' # acct[a] =>
              acct[a]' = [acct[a] EXCEPT !.did = job[t].did]]_vars

Live(c) == \E a \in Accounts : acct[a] # None /\ acct[a].code = c

\* A code that has been used is dead, and comes back to life only through a
\* sign-in that had loaded the row before.
SpentCodesAreDead ==
    [][\A c \in spent' : Live(c)' =>
          \/ c \in spent /\ Live(c)
          \/ \E t \in overtaken : pc[t] = "write"]_vars

-----------------------------------------------------------------------------
(* The inductive invariant behind the theorems of SignInProofs             *)

Ops == {"none", "register", "login", "reset", "verify", "forgot", "resend", "privy", "enroll"}
Job == [op: Ops, side: Sides, a: Accounts \cup {None}, box: Boxes \cup {None},
        lower: BOOLEAN, did: Dids \cup {None}, password: Passwords \cup {None},
        code: Codes \cup {None}]

\* The awaits at which a handler has a row object.
Holding(t) == pc[t] \in {"vehicle", "save", "write"}

\* A handler knows what it is about to write, and about whom.
Informed(t) ==
    /\ job[t] \in Job /\ pc[t] \in Waits
    /\ pc[t] \in {"check", "insert"} => job[t].box # None \/ job[t].did # None
    /\ pc[t] = "insert" /\ job[t].op = "enroll" => job[t].did # None
    /\ pc[t] = "check" => job[t].op = "enroll" /\ job[t].did # None
    /\ pc[t] = "byEmail" => job[t].op \in {"privy", "enroll"} /\ job[t].did # None
                                                           /\ job[t].box # None
    /\ pc[t] = "update" =>
          /\ job[t].a \in Accounts /\ acct[job[t].a] # None
          /\ job[t].op \in {"reset", "verify", "forgot", "resend"}
          /\ job[t].op \in {"reset", "verify"} => job[t].code \in Codes

\* What a sign-in holds is an account's row with the identity's DID, and the
\* account was linked, or has the address that the identity proves.
HoldsARow(t) ==
    Holding(t) =>
        /\ job[t].a \in Accounts /\ acct[job[t].a] # None /\ Side(job[t].a) = job[t].side
        /\ entity[t] \in Row /\ job[t].did \in Dids /\ entity[t].did = job[t].did
        /\ entity[t].email = acct[job[t].a].email
        /\ acct[job[t].a].did # None \/ acct[job[t].a].email = Given(job[t])
        /\ pc[t] = "write" => reloaded[t] \in Row /\ reloaded[t].email = entity[t].email

\* Unless it is overtaken, it differs from the row by the DID at most, and
\* the row is not linked to another.
UpToDate(t) ==
    Holding(t) /\ t \notin overtaken =>
        /\ entity[t] = [acct[job[t].a] EXCEPT !.did = job[t].did]
        /\ acct[job[t].a].did \in {None, job[t].did}
        /\ pc[t] = "write" => reloaded[t] = acct[job[t].a]

\* A code is in an account's row, in a copy of it, or being used for it.
Appears(c, a) ==
    \/ acct[a] # None /\ acct[a].code = c
    \/ \E t \in Requests :
          /\ job[t].a = a
          /\ \/ Holding(t) /\ entity[t].code = c
             \/ pc[t] = "update" /\ job[t].op \in {"reset", "verify"} /\ job[t].code = c

\* A code is one account's.
CodesAreApart ==
    \A c \in Codes, a \in Accounts : Appears(c, a) =>
        c \in issued /\ \A b \in Accounts \ {a} : ~Appears(c, b)

SlotTables ==
    /\ pc = [t \in Requests |-> pc[t]] /\ DOMAIN job = Requests
    /\ DOMAIN entity = Requests /\ DOMAIN reloaded = Requests

SignInInv ==
    /\ acct \in [Accounts -> Row \cup {None}]
    /\ issued \subseteq Codes /\ spent \subseteq issued /\ overtaken \subseteq Requests
    /\ SlotTables /\ IdentitiesAreUnique /\ CodesAreApart
    /\ \A t \in Requests : Informed(t) /\ HoldsARow(t) /\ UpToDate(t)
=============================================================================

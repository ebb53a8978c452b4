----------------------------- MODULE SignInProofs -----------------------------
(***************************************************************************)
(* Proofs about the ways into an account, for any number of requests,      *)
(* accounts, addresses, identities, passwords and codes.                   *)
(*                                                                         *)
(* SignInInv is the invariant of SignIn that carries all the others: a     *)
(* sign-in holds a row of an account whose address never changes and which *)
(* it may link (HoldsARow), that row is the present one but for the DID    *)
(* unless somebody wrote it meanwhile (UpToDate), and a code never gets    *)
(* from one account to another, stale copies included (CodesAreApart).     *)
(***************************************************************************)
EXTENDS SignIn, TLAPS

\* A step of request t leaves the other requests alone.
Others(t) ==
    \A u \in Requests \ {t} :
        /\ pc'[u] = pc[u] /\ job'[u] = job[u]
        /\ entity'[u] = entity[u] /\ reloaded'[u] = reloaded[u]

\* An account stays, with its address, and linked if it was.
RowsGrow ==
    \A a \in Accounts : acct[a] # None =>
        /\ acct'[a] # None /\ acct'[a].email = acct[a].email
        /\ acct[a].did # None => acct'[a].did # None

\* Whoever's row is written is overtaken.
Overtakes(t) ==
    \A u \in Requests \ {t} :
        /\ u \in overtaken => u \in overtaken'
        /\ Holding(u) /\ acct'[job[u].a] # acct[job[u].a] => u \in overtaken'

\* What the invariant says of one request.
RequestOK(t) == Informed(t) /\ HoldsARow(t) /\ UpToDate(t)

-----------------------------------------------------------------------------
(* Steps and the parts they keep                                           *)

LEMMA NoJobIsJob == NoJob \in Job /\ NoJob.op = "none"
  BY DEF NoJob, Job, Ops, Sides

LEMMA RequestKept ==
  ASSUME SignInInv, NEW u \in Requests, RowsGrow,
         pc'[u] = pc[u], job'[u] = job[u], entity'[u] = entity[u], reloaded'[u] = reloaded[u],
         u \in overtaken => u \in overtaken',
         Holding(u) /\ acct'[job[u].a] # acct[job[u].a] => u \in overtaken'
  PROVE  RequestOK(u)'
<1>1. Informed(u) /\ HoldsARow(u) /\ UpToDate(u)
  BY DEF SignInInv
<1>2. Informed(u)'
  BY <1>1 DEF Informed, RowsGrow
<1>3. HoldsARow(u)'
  <2> SUFFICES ASSUME Holding(u)
               PROVE  HoldsARow(u)'
    BY DEF HoldsARow, Holding
  <2>1. /\ job[u].a \in Accounts /\ acct[job[u].a] # None /\ Side(job[u].a) = job[u].side
        /\ entity[u] \in Row /\ job[u].did \in Dids /\ entity[u].did = job[u].did
        /\ entity[u].email = acct[job[u].a].email
        /\ acct[job[u].a].did # None \/ acct[job[u].a].email = Given(job[u])
        /\ pc[u] = "write" => reloaded[u] \in Row /\ reloaded[u].email = entity[u].email
    BY <1>1 DEF HoldsARow
  <2>2. /\ acct'[job[u].a] # None /\ acct'[job[u].a].email = acct[job[u].a].email
        /\ acct[job[u].a].did # None => acct'[job[u].a].did # None
    BY <2>1 DEF RowsGrow
  <2>3. Given(job[u])' = Given(job[u])
    BY DEF Given
  <2> QED  BY <2>1, <2>2, <2>3 DEF HoldsARow, Side
<1>4. UpToDate(u)'
  BY <1>1 DEF UpToDate, Holding
<1> QED  BY <1>2, <1>3, <1>4 DEF RequestOK

\* What a step of request t, or of nobody's, has to show.
LEMMA Carried ==
  ASSUME SignInInv, NEW t, Others(t), RowsGrow, Overtakes(t),
         acct' \in [Accounts -> Row \cup {None}], issued' \subseteq Codes,
         spent' \subseteq issued', overtaken' \subseteq Requests,
         SlotTables', IdentitiesAreUnique', CodesAreApart',
         t \in Requests => RequestOK(t)'
  PROVE  SignInInv'
<1>1. ASSUME NEW u \in Requests
      PROVE  RequestOK(u)'
  <2>1. CASE u = t
    BY <2>1
  <2>2. CASE u # t
    <3>1. /\ pc'[u] = pc[u] /\ job'[u] = job[u] /\ entity'[u] = entity[u]
          /\ reloaded'[u] = reloaded[u]
      BY <2>2 DEF Others
    <3>2. /\ u \in overtaken => u \in overtaken'
          /\ Holding(u) /\ acct'[job[u].a] # acct[job[u].a] => u \in overtaken'
      BY <2>2 DEF Overtakes
    <3> QED  BY <3>1, <3>2, RequestKept
  <2> QED  BY <2>1, <2>2
<1> QED  BY <1>1 DEF SignInInv, RequestOK

\* A code that request t holds, or uses.
InUse(c, a, t) ==
    /\ job[t].a = a
    /\ \/ Holding(t) /\ entity[t].code = c
       \/ pc[t] = "update" /\ job[t].op \in {"reset", "verify"} /\ job[t].code = c

\* Where a code may appear after a step of request t.
LEMMA AppearsLater ==
  ASSUME NEW t, Others(t), NEW c, NEW a, Appears(c, a)'
  PROVE  \/ Appears(c, a)
         \/ acct'[a] # None /\ acct'[a].code = c
         \/ t \in Requests /\ InUse(c, a, t)'
<1>1. CASE acct'[a] # None /\ acct'[a].code = c
  BY <1>1
<1>2. ASSUME NEW u \in Requests, InUse(c, a, u)'
      PROVE  \/ Appears(c, a)
             \/ t \in Requests /\ InUse(c, a, t)'
  <2>1. CASE u = t
    BY <1>2, <2>1
  <2>2. CASE u # t
    BY <1>2, <2>2 DEF Others, InUse, Appears, Holding
  <2> QED  BY <2>1, <2>2
<1> QED  BY <1>1, <1>2 DEF Appears, InUse

\* Codes stay apart if a step makes appear no code but one never issued.
LEMMA CodesKept ==
  ASSUME SignInInv, NEW t, Others(t), issued \subseteq issued', NEW new, NEW home \in Accounts,
         \A c \in Codes, a \in Accounts :
            acct'[a] # None /\ acct'[a].code = c =>
                Appears(c, a) \/ (c = new /\ a = home /\ c \in issued' \ issued),
         t \in Requests => \A c \in Codes, a \in Accounts : InUse(c, a, t)' => Appears(c, a)
  PROVE  CodesAreApart'
<1>1. \A c \in Codes, a \in Accounts : Appears(c, a)' =>
         Appears(c, a) \/ (c = new /\ a = home /\ c \in issued' \ issued)
  BY AppearsLater
<1>2. CodesAreApart
  BY DEF SignInInv
<1> QED  BY <1>1, <1>2 DEF CodesAreApart

\* A step of request t that writes no row.
LEMMA Stays ==
  ASSUME SignInInv, NEW t \in Requests, Others(t), UNCHANGED <<acct, issued, spent>>, SlotTables',
         overtaken \ {t} \subseteq overtaken', overtaken' \subseteq Requests, RequestOK(t)',
         \A c \in Codes, a \in Accounts : InUse(c, a, t)' => Appears(c, a)
  PROVE  SignInInv'
<1>1. RowsGrow /\ Overtakes(t)
  BY DEF RowsGrow, Overtakes
<1>2. /\ acct' \in [Accounts -> Row \cup {None}] /\ issued' \subseteq Codes
      /\ spent' \subseteq issued'
  BY DEF SignInInv
<1>3. IdentitiesAreUnique'
  BY DEF SignInInv, IdentitiesAreUnique
<1>4. CodesAreApart'
  <2>1. ASSUME NEW c \in Codes, NEW a \in Accounts, Appears(c, a)'
        PROVE  Appears(c, a)
    BY <2>1, AppearsLater DEF Appears
  <2> QED  BY <2>1 DEF SignInInv, CodesAreApart
<1> QED  BY <1>1, <1>2, <1>3, <1>4, Carried

\* The last step of a handler.
LEMMA Left ==
  ASSUME SignInInv, NEW t \in Requests, Leave(t)
  PROVE  /\ SlotTables' /\ Others(t) /\ RequestOK(t)'
         /\ \A c, a : ~InUse(c, a, t)'
<1>1. SlotTables
  BY DEF SignInInv
<1>2. SlotTables' /\ Others(t)
  BY <1>1 DEF SlotTables, Others, Leave, Goto
<1>3. pc'[t] = "done" /\ job'[t] = NoJob
  BY <1>1 DEF SlotTables, Leave, Goto
<1>4. RequestOK(t)'
  BY <1>3, NoJobIsJob DEF RequestOK, Informed, HoldsARow, UpToDate, Holding, Waits
<1>5. \A c, a : ~InUse(c, a, t)'
  BY <1>3 DEF InUse, Holding
<1> QED  BY <1>2, <1>4, <1>5

LEMMA Refuses ==
  ASSUME SignInInv, NEW t \in Requests, Refuse(t)
  PROVE  SignInInv'
<1>1. Leave(t) /\ overtaken' = overtaken \ {t} /\ UNCHANGED <<acct, issued, spent>>
  BY DEF Refuse
<1>2. overtaken' \subseteq Requests
  BY <1>1 DEF SignInInv
<1> QED  BY <1>1, <1>2, Left, Stays

-----------------------------------------------------------------------------
(* Writing a row                                                           *)

\* A row may take the place of a's: it keeps the address, and meets the unique
\* index of the DID; or the account is new and meets them all.
FitsIn(row, a) ==
    \/ /\ acct[a] # None /\ row.email = acct[a].email
       /\ acct[a].did # None => row.did # None
       /\ row.did = acct[a].did \/ ByDid(Side(a), row.did) \subseteq {a}
    \/ acct[a] = None /\ IsUnique(Side(a), row)

LEMMA UniqueKept ==
  ASSUME SignInInv, NEW a \in Accounts, NEW row \in Row,
         acct' = [acct EXCEPT ![a] = row], FitsIn(row, a)
  PROVE  IdentitiesAreUnique'
<1>1. IdentitiesAreUnique /\ acct = [b \in Accounts |-> acct[b]]
  BY DEF SignInInv
<1>2. acct'[a] = row /\ \A b \in Accounts \ {a} : acct'[b] = acct[b]
  BY <1>1
<1>3. ASSUME NEW b \in Accounts \ {a}, acct[b] # None, Side(b) = Side(a)
      PROVE  row.email # acct[b].email /\ (row.did # None => row.did # acct[b].did)
  <2>1. CASE acct[a] # None /\ row.email = acct[a].email
    <3>1. acct[a].email # acct[b].email /\ (acct[a].did # None => acct[a].did # acct[b].did)
      BY <1>1, <1>3, <2>1 DEF IdentitiesAreUnique
    <3>2. ByDid(Side(a), row.did) \subseteq {a} => row.did # acct[b].did
      BY <1>3 DEF ByDid, Table
    <3> QED  BY <2>1, <3>1, <3>2 DEF FitsIn
  <2>2. CASE acct[a] = None /\ IsUnique(Side(a), row)
    BY <1>3, <2>2 DEF IsUnique, ByEmail, ByDid, Table
  <2> QED  BY <2>1, <2>2 DEF FitsIn
<1>4. ASSUME NEW b \in Accounts, NEW c \in Accounts, b # c, acct'[b] # None, acct'[c] # None,
             Side(b) = Side(c)
      PROVE  /\ acct'[b].email # acct'[c].email
             /\ acct'[b].did # None => acct'[b].did # acct'[c].did
  <2>1. CASE b = a
    BY <1>2, <1>3, <1>4, <2>1
  <2>2. CASE c = a
    BY <1>2, <1>3, <1>4, <2>2
  <2>3. CASE b # a /\ c # a
    BY <1>1, <1>2, <1>4, <2>3 DEF IdentitiesAreUnique
  <2> QED  BY <2>1, <2>2, <2>3
<1>5. \A b \in Accounts : Side(b)' = Side(b)
  BY DEF Side
<1> QED  BY <1>4, <1>5 DEF IdentitiesAreUnique

\* What Put does, by request t or by nobody.
LEMMA PutDoes ==
  ASSUME SignInInv, NEW t, NEW a \in Accounts, NEW row \in Row, Put(t, a, row), FitsIn(row, a)
  PROVE  /\ acct'[a] = row /\ \A b \in Accounts \ {a} : acct'[b] = acct[b]
         /\ acct' \in [Accounts -> Row \cup {None}] /\ overtaken' \subseteq Requests
         /\ IdentitiesAreUnique' /\ RowsGrow /\ Overtakes(t)
         /\ t \in Requests => t \notin overtaken'
<1>1. acct \in [Accounts -> Row \cup {None}] /\ overtaken \subseteq Requests
  BY DEF SignInInv
<1>2. /\ acct' = [acct EXCEPT ![a] = row]
      /\ overtaken' = (overtaken \ {t}) \cup
            {u \in Requests \ {t} : row # acct[a] /\ job[u].a = a /\ entity[u] # None}
  BY DEF Put
<1>3. /\ acct'[a] = row /\ (\A b \in Accounts \ {a} : acct'[b] = acct[b])
      /\ acct' \in [Accounts -> Row \cup {None}] /\ overtaken' \subseteq Requests
      /\ t \in Requests => t \notin overtaken'
  BY <1>1, <1>2
<1>4. IdentitiesAreUnique'
  BY <1>2, UniqueKept
<1>5. RowsGrow
  BY <1>3, NoneIsNoRow DEF RowsGrow, FitsIn
<1>6. Overtakes(t)
  <2>1. ASSUME NEW u \in Requests \ {t}, Holding(u), acct'[job[u].a] # acct[job[u].a]
        PROVE  u \in overtaken'
    <3>1. job[u].a \in Accounts /\ entity[u] \in Row
      BY <2>1 DEF SignInInv, HoldsARow
    <3>2. job[u].a = a /\ row # acct[a] /\ entity[u] # None
      BY <1>3, <2>1, <3>1, NoneIsNoRow
    <3> QED  BY <1>2, <3>2
  <2> QED  BY <1>2, <2>1 DEF Overtakes
<1> QED  BY <1>3, <1>4, <1>5, <1>6

\* A row is written by the last step of a handler.
LEMMA PutAndLeft ==
  ASSUME SignInInv, NEW t \in Requests, NEW a \in Accounts, NEW row \in Row,
         Put(t, a, row), FitsIn(row, a), Leave(t),
         issued \subseteq issued', issued' \subseteq Codes, spent' \subseteq issued',
         row.code \in Codes => Appears(row.code, a) \/ row.code \in issued' \ issued
  PROVE  SignInInv'
<1>1. /\ acct'[a] = row /\ \A b \in Accounts \ {a} : acct'[b] = acct[b]
      /\ acct' \in [Accounts -> Row \cup {None}] /\ overtaken' \subseteq Requests
      /\ IdentitiesAreUnique' /\ RowsGrow /\ Overtakes(t)
  BY PutDoes
<1>2. SlotTables' /\ Others(t) /\ RequestOK(t)' /\ \A c, b : ~InUse(c, b, t)'
  BY Left
<1>3. ASSUME NEW c \in Codes, NEW b \in Accounts, acct'[b] # None, acct'[b].code = c
      PROVE  Appears(c, b) \/ (c = row.code /\ b = a /\ c \in issued' \ issued)
  <2>1. CASE b = a
    BY <1>1, <1>3, <2>1
  <2>2. CASE b # a
    BY <1>1, <1>3, <2>2 DEF Appears
  <2> QED  BY <2>1, <2>2
<1>4. CodesAreApart'
  <2>1. PICK new : new = row.code
    OBVIOUS
  <2>2. \A c \in Codes, b \in Accounts : acct'[b] # None /\ acct'[b].code = c =>
           Appears(c, b) \/ (c = new /\ b = a /\ c \in issued' \ issued)
    BY <1>3, <2>1
  <2>3. \A c \in Codes, b \in Accounts : InUse(c, b, t)' => Appears(c, b)
    BY <1>2
  <2> QED  BY <1>2, <2>2, <2>3, CodesKept
<1> QED  BY <1>1, <1>2, <1>4, Carried

\* An account that is there is rewritten in columns other than the identity's.
LEMMA RowRewritten ==
  ASSUME SignInInv, NEW a \in Accounts, acct[a] # None, NEW row \in Row,
         row.email = acct[a].email, row.did = acct[a].did
  PROVE  FitsIn(row, a)
  BY DEF FitsIn

\* Time and the admins write rows beside the requests.
LEMMA PutBeside ==
  ASSUME SignInInv, NEW a \in Accounts, NEW row \in Row, Beside(a, row),
         row.email = acct[a].email, row.did = acct[a].did, row.code = acct[a].code
  PROVE  SignInInv'
<1>1. /\ acct[a] # None /\ Put(None, a, row)
      /\ UNCHANGED <<issued, pc, job, entity, reloaded, spent>>
  BY DEF Beside
<1>2. FitsIn(row, a)
  BY <1>1, RowRewritten
<1>3. /\ acct'[a] = row /\ \A b \in Accounts \ {a} : acct'[b] = acct[b]
      /\ acct' \in [Accounts -> Row \cup {None}] /\ overtaken' \subseteq Requests
      /\ IdentitiesAreUnique' /\ RowsGrow /\ Overtakes(None)
  BY <1>1, <1>2, PutDoes
<1>4. Others(None) /\ SlotTables' /\ None \notin Requests
  BY <1>1, SignInNames DEF Others, SlotTables, SignInInv
<1>5. ASSUME NEW c \in Codes, NEW b \in Accounts, acct'[b] # None, acct'[b].code = c
      PROVE  Appears(c, b)
  <2>1. CASE b = a
    BY <1>1, <1>3, <1>5, <2>1 DEF Appears
  <2>2. CASE b # a
    BY <1>3, <1>5, <2>2 DEF Appears
  <2> QED  BY <2>1, <2>2
<1>6. CodesAreApart'
  <2>1. ASSUME NEW c \in Codes, NEW b \in Accounts, Appears(c, b)'
        PROVE  Appears(c, b)
    BY <1>4, <1>5, <2>1, AppearsLater
  <2> QED  BY <1>1, <2>1 DEF SignInInv, CodesAreApart
<1>7. issued' \subseteq Codes /\ spent' \subseteq issued'
  BY <1>1 DEF SignInInv
<1> QED  BY <1>3, <1>4, <1>6, <1>7, Carried

-----------------------------------------------------------------------------
(* What requests ask                                                       *)

\* A registration's job, and a Privy sign-in's.
Registration(b, spelt, p) ==
    [NoJob EXCEPT !.op = "register", !.box = b, !.lower = spelt, !.password = p]
PrivyCall(k, d, b) == [NoJob EXCEPT !.op = k[1], !.side = k[2], !.did = d, !.box = b]

LEMMA RegistrationIsJob ==
  \A j \in Registrations : j \in Job /\ j.op = "register" /\ j.box # None
<1>1. Registrations =
        {Registration(b, spelt, p) : b \in Boxes, spelt \in Spellings, p \in Passwords}
  BY DEF Registrations, Registration
<1>2. ASSUME NEW b \in Boxes, NEW spelt \in Spellings, NEW p \in Passwords
      PROVE  /\ Registration(b, spelt, p) \in Job /\ Registration(b, spelt, p).op = "register"
             /\ Registration(b, spelt, p).box # None
  <2>1. b # None /\ spelt \in BOOLEAN
    BY SignInNames
  <2> QED  BY <2>1 DEF Registration, NoJob, Job, Ops, Sides
<1> QED  BY <1>1, <1>2

LEMMA PrivyCallIsJob ==
  \A j \in PrivyCalls : j \in Job /\ j.op \in {"privy", "enroll"} /\ j.did \in Dids
<1> DEFINE calls == {<<"privy", "rider">>, <<"privy", "driver">>, <<"enroll", "driver">>}
<1>1. PrivyCalls = {PrivyCall(k, d, b) : k \in calls, d \in Dids, b \in Boxes \cup {None}}
  BY DEF PrivyCalls, PrivyCall
<1>2. ASSUME NEW k \in calls, NEW d \in Dids, NEW b \in Boxes \cup {None}
      PROVE  /\ PrivyCall(k, d, b) \in Job /\ PrivyCall(k, d, b).op \in {"privy", "enroll"}
             /\ PrivyCall(k, d, b).did \in Dids
  <2>1. PICK op \in {"privy", "enroll"}, side \in Sides : op = k[1] /\ side = k[2]
    BY DEF Sides
  <2>2. PrivyCall(k, d, b) = [NoJob EXCEPT !.op = op, !.side = side, !.did = d, !.box = b]
    BY <2>1 DEF PrivyCall
  <2> QED  BY <2>2 DEF NoJob, Job, Ops
<1> HIDE DEF calls
<1> QED  BY <1>1, <1>2

\* A request by address: its job, from the parts of its body.
Body(op, side, b, spelt, p, c) ==
    [NoJob EXCEPT !.op = op, !.side = side, !.box = b, !.lower = spelt,
                  !.password = p, !.code = c]

LEMMA CredentialIsJob ==
  ASSUME issued \subseteq Codes
  PROVE  \A j \in Credentials :
            j \in Job /\ j.op \in {"login", "reset", "verify", "forgot", "resend"}
<1> DEFINE Bodies == Boxes \X Spellings
<1> DEFINE Known == issued \cup {None}
<1>1. Credentials =
        {Body("login", side, b[1], b[2], p, None) :
            side \in Sides, b \in Bodies, p \in Passwords}
        \cup {Body("reset", side, b[1], b[2], p, c) :
            side \in Sides, b \in Bodies, p \in Passwords, c \in Known}
        \cup {Body("verify", "rider", b[1], b[2], None, c) : b \in Bodies, c \in Known}
        \cup {Body("forgot", side, b[1], b[2], None, None) : side \in Sides, b \in Bodies}
        \cup {Body("resend", "rider", b[1], b[2], None, None) : b \in Bodies}
  BY DEF Credentials, Body
<1>2. ASSUME NEW op \in {"login", "reset", "verify", "forgot", "resend"}, NEW side \in Sides,
             NEW b \in Bodies, NEW p \in Passwords \cup {None}, NEW c \in Known
      PROVE  /\ Body(op, side, b[1], b[2], p, c) \in Job
             /\ Body(op, side, b[1], b[2], p, c).op
                   \in {"login", "reset", "verify", "forgot", "resend"}
  <2>1. PICK box \in Boxes, spelt \in Spellings : box = b[1] /\ spelt = b[2]
    OBVIOUS
  <2>2. spelt \in BOOLEAN /\ c \in Codes \cup {None}
    BY SignInNames
  <2>3. Body(op, side, b[1], b[2], p, c) = Body(op, side, box, spelt, p, c)
    BY <2>1
  <2>4. /\ Body(op, side, box, spelt, p, c) \in Job
        /\ Body(op, side, box, spelt, p, c).op
              \in {"login", "reset", "verify", "forgot", "resend"}
    BY <2>2 DEF NoJob, Body, Job, Ops
  <2> QED  BY <2>3, <2>4
<1>3. "rider" \in Sides /\ None \in Known
  BY DEF Sides
<1> HIDE DEF Bodies, Known
<1> SUFFICES ASSUME NEW j \in Credentials
             PROVE  j \in Job /\ j.op \in {"login", "reset", "verify", "forgot", "resend"}
  OBVIOUS
<1>4. CASE j \in {Body("login", side, b[1], b[2], p, None) :
                     side \in Sides, b \in Bodies, p \in Passwords}
  <2>1. PICK side \in Sides, b \in Bodies, p \in Passwords :
          j = Body("login", side, b[1], b[2], p, None)
    BY <1>4
  <2> QED  BY <1>2, <1>3, <2>1
<1>5. CASE j \in {Body("reset", side, b[1], b[2], p, c) :
                     side \in Sides, b \in Bodies, p \in Passwords, c \in Known}
  <2>1. PICK side \in Sides, b \in Bodies, p \in Passwords, c \in Known :
          j = Body("reset", side, b[1], b[2], p, c)
    BY <1>5
  <2> QED  BY <1>2, <2>1
<1>6. CASE j \in {Body("verify", "rider", b[1], b[2], None, c) : b \in Bodies, c \in Known}
  <2>1. PICK b \in Bodies, c \in Known : j = Body("verify", "rider", b[1], b[2], None, c)
    BY <1>6
  <2> QED  BY <1>2, <1>3, <2>1
<1>7. CASE j \in {Body("forgot", side, b[1], b[2], None, None) : side \in Sides, b \in Bodies}
  <2>1. PICK side \in Sides, b \in Bodies : j = Body("forgot", side, b[1], b[2], None, None)
    BY <1>7
  <2> QED  BY <1>2, <1>3, <2>1
<1>8. CASE j \in {Body("resend", "rider", b[1], b[2], None, None) : b \in Bodies}
  <2>1. PICK b \in Bodies : j = Body("resend", "rider", b[1], b[2], None, None)
    BY <1>8
  <2> QED  BY <1>2, <1>3, <2>1
<1> QED  BY <1>1, <1>4, <1>5, <1>6, <1>7, <1>8

-----------------------------------------------------------------------------
(* The handlers' steps                                                     *)

\* A step to the next await without a row object.
LEMMA Proceeds ==
  ASSUME SignInInv, NEW t \in Requests, NEW j \in Job,
         NEW w \in {"check", "update", "byEmail", "insert"}, Proceed(t, j, w),
         w \in {"check", "insert"} => j.box # None \/ j.did # None,
         w = "insert" /\ j.op = "enroll" => j.did # None,
         w = "check" => j.op = "enroll" /\ j.did # None,
         w = "byEmail" => j.op \in {"privy", "enroll"} /\ j.did # None /\ j.box # None,
         w = "update" => /\ j.a \in Accounts /\ acct[j.a] # None
                         /\ j.op \in {"reset", "verify", "forgot", "resend"}
                         /\ j.op \in {"reset", "verify"} => /\ j.code \in Codes
                                                            /\ acct[j.a].code = j.code
  PROVE  SignInInv'
<1>1. SlotTables /\ overtaken \subseteq Requests
  BY DEF SignInInv
<1>2. /\ SlotTables' /\ Others(t) /\ pc'[t] = w /\ job'[t] = j
      /\ UNCHANGED <<acct, issued, spent, overtaken>>
  BY <1>1 DEF Proceed, Goto, SlotTables, Others
<1>3. RequestOK(t)'
  BY <1>2 DEF RequestOK, Informed, HoldsARow, UpToDate, Holding, Waits
<1>4. ASSUME NEW c \in Codes, NEW a \in Accounts, InUse(c, a, t)'
      PROVE  Appears(c, a)
  <2>1. w = "update" /\ j.op \in {"reset", "verify"} /\ j.code = c /\ j.a = a
    BY <1>2, <1>4 DEF InUse, Holding
  <2> QED  BY <2>1 DEF Appears
<1>5. overtaken \ {t} \subseteq overtaken' /\ overtaken' \subseteq Requests
  BY <1>1, <1>2
<1> QED  BY <1>2, <1>3, <1>4, <1>5, Stays

LEMMA Checked ==
  ASSUME SignInInv, NEW t \in Requests, Check(t)
  PROVE  SignInInv'
<1>1. PICK j \in IF pc[t] = "idle" THEN Registrations ELSE {job[t]} :
        /\ pc[t] \in {"idle", "check"}
        /\ Proceed(t, j, "insert") \/ Refuse(t)
  BY DEF Check
<1>2. CASE Refuse(t)
  BY <1>2, Refuses
<1>3. CASE Proceed(t, j, "insert")
  <2>1. /\ j \in Job /\ (j.box # None \/ j.did # None)
        /\ j.op = "enroll" => j.did # None
    <3>1. CASE pc[t] = "idle"
      BY <1>1, <3>1, RegistrationIsJob
    <3>2. CASE pc[t] # "idle"
      BY <1>1, <3>2 DEF SignInInv, Informed
    <3> QED  BY <3>1, <3>2
  <2> QED  BY <1>3, <2>1, Proceeds
<1> QED  BY <1>1, <1>2, <1>3

LEMMA ReadOn ==
  ASSUME SignInInv, NEW t \in Requests, Read(t)
  PROVE  SignInInv'
<1>1. CASE Refuse(t)
  BY <1>1, Refuses
<1>2. CASE ~Refuse(t)
  <2>1. PICK j0 \in Credentials : \E a \in ByEmail(j0.side, Given(j0)) :
          /\ Passes(j0, acct[a]) /\ j0.op # "login"
          /\ Proceed(t, [j0 EXCEPT !.a = a], "update")
    BY <1>2 DEF Read
  <2>2. PICK a \in ByEmail(j0.side, Given(j0)) :
          /\ Passes(j0, acct[a]) /\ j0.op # "login"
          /\ Proceed(t, [j0 EXCEPT !.a = a], "update")
    BY <2>1
  <2>3. j0 \in Job /\ j0.op \in {"reset", "verify", "forgot", "resend"}
    BY <2>2, CredentialIsJob DEF SignInInv
  <2>4. a \in Accounts /\ acct[a] # None /\ acct[a] \in Row
    BY DEF ByEmail, Table, SignInInv
  <2>5. PICK j : j = [j0 EXCEPT !.a = a]
    OBVIOUS
  <2>6. j \in Job /\ j.op = j0.op /\ j.code = j0.code /\ j.a = a
    BY <2>3, <2>4, <2>5 DEF Job
  <2>7. j.op \in {"reset", "verify"} => acct[a].code = j.code /\ j.code \in Codes
    <3>1. j.op \in {"reset", "verify"} => CodeIsGood(acct[a], j0.code)
      BY <2>2, <2>6 DEF Passes
    <3> QED  BY <2>4, <2>6, <3>1 DEF CodeIsGood, Row
  <2>8. Proceed(t, j, "update")
    BY <2>2, <2>5
  <2> QED  BY <2>3, <2>4, <2>6, <2>7, <2>8, Proceeds
<1> QED  BY <1>1, <1>2

\* Code and password are written by an update of the columns it names.
LEMMA CodeUsed ==
  ASSUME SignInInv, NEW t \in Requests, UseCode(t)
  PROVE  SignInInv'
<1>1. PICK a : a = job[t].a
  OBVIOUS
<1>2. /\ pc[t] = "update" /\ Leave(t) /\ issued' = issued
      /\ \/ job[t].op = "reset" /\ UpdatePassword(t)
         \/ job[t].op = "verify" /\ VerifyUser(t)
  BY DEF UseCode
<1>3. Informed(t) /\ issued \subseteq Codes /\ spent \subseteq issued
  BY DEF SignInInv
<1>4. /\ a \in Accounts /\ acct[a] # None /\ job[t] \in Job
      /\ job[t].code \in Codes
  BY <1>1, <1>2, <1>3 DEF Informed
<1>5. acct[a] \in Row
  BY <1>4 DEF SignInInv
<1>6. spent' \subseteq issued'
  <2>1. spent' = spent \cup {job[t].code}
    BY <1>2 DEF UpdatePassword, VerifyUser
  <2>2. Appears(job[t].code, a)
    BY <1>1, <1>2 DEF Appears
  <2>3. job[t].code \in issued
    BY <1>4, <2>2 DEF SignInInv, CodesAreApart
  <2> QED  BY <1>2, <1>3, <2>1, <2>3
<1>7. ASSUME NEW row, row \in Row, Put(t, a, row), row.email = acct[a].email,
             row.did = acct[a].did, row.code = None
      PROVE  SignInInv'
  <2>1. FitsIn(row, a)
    BY <1>4, <1>7, RowRewritten
  <2>2. row.code \notin Codes
    BY <1>7, SignInNames
  <2> QED  BY <1>2, <1>3, <1>4, <1>6, <1>7, <2>1, <2>2, PutAndLeft
<1>8. CASE UpdatePassword(t)
  <2>1. PICK row : row = [acct[a] EXCEPT !.password = job[t].password,
                                         !.code = None, !.fresh = FALSE]
    OBVIOUS
  <2>2. Put(t, a, row)
    BY <1>1, <1>8, <2>1 DEF UpdatePassword
  <2>3. /\ row \in Row /\ row.email = acct[a].email /\ row.did = acct[a].did
        /\ row.code = None
    BY <1>4, <1>5, <2>1 DEF Row, Job
  <2> QED  BY <1>7, <2>2, <2>3
<1>9. CASE VerifyUser(t)
  <2>1. PICK row : row = [acct[a] EXCEPT !.verified = TRUE, !.code = None, !.fresh = FALSE]
    OBVIOUS
  <2>2. Put(t, a, row)
    BY <1>1, <1>9, <2>1 DEF VerifyUser
  <2>3. /\ row \in Row /\ row.email = acct[a].email /\ row.did = acct[a].did
        /\ row.code = None
    BY <1>5, <2>1 DEF Row
  <2> QED  BY <1>7, <2>2, <2>3
<1> QED  BY <1>2, <1>8, <1>9

LEMMA OtpUpdated ==
  ASSUME SignInInv, NEW t \in Requests, UpdateOtp(t)
  PROVE  SignInInv'
<1>1. PICK a, c : /\ a = job[t].a /\ c \in Codes \ issued /\ issued' = issued \cup {c}
                  /\ Put(t, a, [acct[a] EXCEPT !.code = c, !.fresh = TRUE])
  BY DEF UpdateOtp
<1>2. pc[t] = "update" /\ Leave(t) /\ spent' = spent
  BY DEF UpdateOtp
<1>3. Informed(t) /\ issued \subseteq Codes /\ spent \subseteq issued
  BY DEF SignInInv
<1>4. a \in Accounts /\ acct[a] # None
  BY <1>1, <1>2, <1>3 DEF Informed
<1>5. acct[a] \in Row
  BY <1>4 DEF SignInInv
<1>6. PICK row : row = [acct[a] EXCEPT !.code = c, !.fresh = TRUE]
  OBVIOUS
<1>7. row \in Row /\ row.email = acct[a].email /\ row.did = acct[a].did /\ row.code = c
  BY <1>1, <1>5, <1>6 DEF Row
<1>8. FitsIn(row, a) /\ Put(t, a, row)
  BY <1>1, <1>4, <1>6, <1>7, RowRewritten
<1>9. /\ issued \subseteq issued' /\ issued' \subseteq Codes /\ spent' \subseteq issued'
      /\ row.code \in issued' \ issued
  BY <1>1, <1>2, <1>3, <1>7
<1> QED  BY <1>2, <1>4, <1>7, <1>8, <1>9, PutAndLeft

\* A sign-in by DID takes up the row it found.
LEMMA Held ==
  ASSUME SignInInv, NEW t \in Requests, NEW j \in Job, NEW a \in Table(j.side),
         j.did \in Dids, Hold(t, j, a), acct[a].did \in {None, j.did},
         acct[a].did # None \/ acct[a].email = Given(j)
  PROVE  SignInInv'
<1>1. SlotTables /\ overtaken \subseteq Requests
  BY DEF SignInInv
<1>2. a \in Accounts /\ acct[a] # None /\ acct[a] \in Row /\ Side(a) = j.side
  BY DEF Table, SignInInv
<1>3. PICK job2, row : job2 = [j EXCEPT !.a = a] /\ row = [acct[a] EXCEPT !.did = j.did]
  OBVIOUS
<1>4. /\ job2 \in Job /\ job2.a = a /\ job2.did = j.did /\ job2.side = j.side
      /\ Given(job2) = Given(j)
  BY <1>2, <1>3 DEF Job, Given
<1>5. /\ row \in Row /\ row.did = j.did /\ row.email = acct[a].email
      /\ row.code = acct[a].code
  BY <1>2, <1>3 DEF Row
<1>6. /\ SlotTables' /\ Others(t) /\ pc'[t] = "save" /\ job'[t] = job2 /\ entity'[t] = row
      /\ UNCHANGED <<acct, issued, spent, overtaken>>
  BY <1>1, <1>3 DEF Hold, Goto, SlotTables, Others
<1>7. RequestOK(t)'
  <2>1. Informed(t)'
    BY <1>4, <1>6 DEF Informed, Waits
  <2>2. HoldsARow(t)'
    <3>1. acct'[a] = acct[a] /\ Given(job'[t]) = Given(j)
      BY <1>4, <1>6
    <3> QED  BY <1>2, <1>4, <1>5, <1>6, <3>1 DEF HoldsARow, Side, Given
  <2>3. UpToDate(t)'
    <3>1. acct'[job'[t].a] = acct[a] /\ job'[t].did = j.did
      BY <1>4, <1>6
    <3>2. entity'[t] = [acct'[job'[t].a] EXCEPT !.did = job'[t].did]
      BY <1>3, <1>6, <3>1
    <3> QED  BY <1>6, <3>1, <3>2 DEF UpToDate
  <2> QED  BY <2>1, <2>2, <2>3 DEF RequestOK
<1>8. ASSUME NEW c \in Codes, NEW b \in Accounts, InUse(c, b, t)'
      PROVE  Appears(c, b)
  <2>1. b = a /\ row.code = c
    BY <1>4, <1>6, <1>8 DEF InUse, Holding
  <2> QED  BY <1>2, <1>5, <2>1 DEF Appears
<1> QED  BY <1>1, <1>6, <1>7, <1>8, Stays

LEMMA FoundNone ==
  ASSUME SignInInv, NEW t \in Requests, NEW j \in Job, j.op \in {"privy", "enroll"},
         j.did \in Dids, NotFound(t, j)
  PROVE  SignInInv'
<1>1. j.did # None
  BY SignInNames
<1>2. CASE Refuse(t)
  BY <1>2, Refuses
<1>3. CASE Proceed(t, j, "insert")
  BY <1>1, <1>3, Proceeds
<1>4. CASE j.op = "enroll" /\ Proceed(t, j, "check")
  BY <1>1, <1>4, Proceeds
<1> QED  BY <1>2, <1>3, <1>4 DEF NotFound

LEMMA LookedUpByDid ==
  ASSUME SignInInv, NEW t \in Requests, FindByDid(t)
  PROVE  SignInInv'
<1>1. CASE Refuse(t)
  BY <1>1, Refuses
<1>2. PICK j \in PrivyCalls :
        \/ Refuse(t)
        \/ \E a \in ByDid(j.side, j.did) : Hold(t, j, a)
        \/ j.box # None /\ Proceed(t, j, "byEmail")
        \/ NotFound(t, j)
  BY DEF FindByDid
<1>3. j \in Job /\ j.op \in {"privy", "enroll"} /\ j.did \in Dids /\ j.did # None
  BY PrivyCallIsJob, SignInNames
<1>4. CASE \E a \in ByDid(j.side, j.did) : Hold(t, j, a)
  <2>1. PICK a \in ByDid(j.side, j.did) : Hold(t, j, a)
    BY <1>4
  <2>2. a \in Table(j.side) /\ acct[a].did = j.did
    BY DEF ByDid
  <2> QED  BY <1>3, <2>1, <2>2, Held
<1>5. CASE j.box # None /\ Proceed(t, j, "byEmail")
  BY <1>3, <1>5, Proceeds
<1>6. CASE NotFound(t, j)
  BY <1>3, <1>6, FoundNone
<1> QED  BY <1>1, <1>2, <1>4, <1>5, <1>6

LEMMA LookedUpByEmail ==
  ASSUME SignInInv, NEW t \in Requests, FindByEmail(t)
  PROVE  SignInInv'
<1>1. PICK j : j = job[t]
  OBVIOUS
<1>2. /\ pc[t] = "byEmail"
      /\ \/ Refuse(t)
         \/ \E a \in ByEmail(j.side, Given(j)) : MayLink(acct[a], j.did) /\ Hold(t, j, a)
         \/ NotFound(t, j)
  BY <1>1 DEF FindByEmail
<1>3. j \in Job /\ j.op \in {"privy", "enroll"} /\ j.did \in Dids
  BY <1>1, <1>2 DEF SignInInv, Informed, Job
<1>4. CASE Refuse(t)
  BY <1>4, Refuses
<1>5. CASE \E a \in ByEmail(j.side, Given(j)) : MayLink(acct[a], j.did) /\ Hold(t, j, a)
  <2>1. PICK a \in ByEmail(j.side, Given(j)) : MayLink(acct[a], j.did) /\ Hold(t, j, a)
    BY <1>5
  <2>2. a \in Table(j.side) /\ acct[a].email = Given(j) /\ acct[a].did \in {None, j.did}
    BY <2>1 DEF ByEmail, MayLink
  <2> QED  BY <1>3, <2>1, <2>2, Held
<1>6. CASE NotFound(t, j)
  BY <1>3, <1>6, FoundNone
<1> QED  BY <1>2, <1>4, <1>5, <1>6

\* The second look at the row, and the vehicle of a new driver: the sign-in
\* holds on to its row object.
LEMMA HoldsOn ==
  ASSUME SignInInv, NEW t \in Requests, Holding(t), SlotTables', Others(t),
         pc'[t] \in {"save", "write"}, job'[t] = job[t], entity'[t] = entity[t],
         pc'[t] = "write" => reloaded'[t] = acct[job[t].a],
         UNCHANGED <<acct, issued, spent, overtaken>>
  PROVE  SignInInv'
<1>1. Informed(t) /\ HoldsARow(t) /\ UpToDate(t) /\ overtaken \subseteq Requests
  BY DEF SignInInv
<1>2. Informed(t)'
  BY <1>1 DEF Informed, Waits
<1>3. HoldsARow(t)'
  <2>1. /\ job[t].a \in Accounts /\ acct[job[t].a] # None /\ Side(job[t].a) = job[t].side
        /\ entity[t] \in Row /\ job[t].did \in Dids /\ entity[t].did = job[t].did
        /\ entity[t].email = acct[job[t].a].email
        /\ acct[job[t].a].did # None \/ acct[job[t].a].email = Given(job[t])
    BY <1>1 DEF HoldsARow
  <2>2. acct[job[t].a] \in Row
    BY <2>1 DEF SignInInv
  <2> QED  BY <2>1, <2>2 DEF HoldsARow, Side, Given
<1>4. UpToDate(t)'
  BY <1>1 DEF UpToDate
<1>5. ASSUME NEW c \in Codes, NEW a \in Accounts, InUse(c, a, t)'
      PROVE  Appears(c, a)
  BY <1>5 DEF InUse, Appears, Holding
<1> QED  BY <1>1, <1>2, <1>3, <1>4, <1>5, Stays DEF RequestOK

LEMMA Reloaded ==
  ASSUME SignInInv, NEW t \in Requests, Reload(t)
  PROVE  SignInInv'
<1>1. SlotTables
  BY DEF SignInInv
<1>2. /\ SlotTables' /\ Others(t) /\ pc'[t] = "write" /\ job'[t] = job[t]
      /\ entity'[t] = entity[t] /\ reloaded'[t] = acct[job[t].a]
      /\ UNCHANGED <<acct, issued, spent, overtaken>>
  BY <1>1 DEF Reload, Goto, SlotTables, Others
<1> QED  BY <1>2, HoldsOn DEF Reload, Holding

LEMMA VehicleInserted ==
  ASSUME SignInInv, NEW t \in Requests, InsertVehicle(t)
  PROVE  SignInInv'
<1>1. SlotTables
  BY DEF SignInInv
<1>2. /\ SlotTables' /\ Others(t) /\ pc'[t] = "save" /\ job'[t] = job[t]
      /\ entity'[t] = entity[t]
      /\ UNCHANGED <<acct, issued, spent, overtaken>>
  BY <1>1 DEF InsertVehicle, Proceed, Goto, SlotTables, Others
<1> QED  BY <1>2, HoldsOn DEF InsertVehicle, Holding

\* Columns of mine and of now.
MixedFrom(new, mine, read, now) ==
    /\ new.email \in {mine.email, now.email}
    /\ new.did \in {mine.did, now.did}
    /\ new.code \in {mine.code, now.code}
    /\ read = now => new = mine

\* What a partial UPDATE leaves in a row: every column is the entity's or the
\* row's, and the entity's all over if the row is as it was read back.
LEMMA Merged ==
  ASSUME NEW mine \in Row, NEW now \in Row, NEW read, NEW new, new = Saved(mine, read, now)
  PROVE  new \in Row /\ MixedFrom(new, mine, read, now)
<1>1. DOMAIN mine = {"email", "did", "password", "code", "fresh", "verified", "open", "admin"}
  BY DEF Row
<1>2. new = [c \in {"email", "did", "password", "code", "fresh", "verified", "open", "admin"} |->
                IF mine[c] # read[c] THEN mine[c] ELSE now[c]]
  BY <1>1 DEF Saved
<1>3. /\ new.email \in {mine.email, now.email} /\ new.did \in {mine.did, now.did}
      /\ new.password \in {mine.password, now.password}
      /\ new.code \in {mine.code, now.code} /\ new.fresh \in {mine.fresh, now.fresh}
      /\ new.verified \in {mine.verified, now.verified}
      /\ new.open \in {mine.open, now.open} /\ new.admin \in {mine.admin, now.admin}
  BY <1>2
<1>4. new = [email |-> new.email, did |-> new.did, password |-> new.password,
             code |-> new.code, fresh |-> new.fresh, verified |-> new.verified,
             open |-> new.open, admin |-> new.admin]
  BY <1>2
<1>5. /\ new.email \in Address /\ new.did \in Dids \cup {None}
      /\ new.password \in Passwords \cup {None} /\ new.code \in Codes \cup {None}
      /\ new.fresh \in BOOLEAN /\ new.verified \in BOOLEAN
      /\ new.open \in BOOLEAN /\ new.admin \in BOOLEAN
  BY <1>3 DEF Row
<1>6. new \in Row
  BY <1>4, <1>5 DEF Row
<1>7. ASSUME read = now
      PROVE  new = mine
  <2>1. mine = [c \in {"email", "did", "password", "code", "fresh", "verified", "open",
                       "admin"} |-> mine[c]]
    BY <1>1 DEF Row
  <2> QED  BY <1>2, <1>7, <2>1
<1> QED  BY <1>3, <1>6, <1>7 DEF MixedFrom

\* What a save writes into the row of account a.
SavesRow(t, a, row) ==
    /\ a = job[t].a /\ a \in Accounts /\ acct[a] # None /\ row \in Row
    /\ pc[t] = "write" /\ Put(t, a, row) /\ Leave(t) /\ UNCHANGED <<issued, spent>>
    /\ FitsIn(row, a) /\ row.did \in {job[t].did, acct[a].did}
    /\ row.code \in Codes => Appears(row.code, a)
    /\ t \notin overtaken => row = [acct[a] EXCEPT !.did = job[t].did]

\* A save is refused, or keeps the unique indexes, the address and the code's
\* account; if nobody was at the row meanwhile it sets the DID and no more.
LEMMA SaveWrites ==
  ASSUME SignInInv, NEW t \in Requests, Save(t)
  PROVE  Refuse(t) \/ \E a, row : SavesRow(t, a, row)
<1>1. PICK a, new : a = job[t].a /\ new = Saved(entity[t], reloaded[t], acct[a])
  OBVIOUS
<1>2. /\ pc[t] = "write"
      /\ \/ Refuse(t)
         \/ /\ ByDid(job[t].side, new.did) \subseteq {a}
            /\ Put(t, a, new) /\ Leave(t) /\ UNCHANGED <<issued, spent>>
  BY <1>1 DEF Save
<1>3. HoldsARow(t) /\ UpToDate(t)
  BY DEF SignInInv
<1>4. /\ a \in Accounts /\ acct[a] # None /\ Side(a) = job[t].side
      /\ entity[t] \in Row /\ job[t].did \in Dids /\ entity[t].did = job[t].did
      /\ entity[t].email = acct[a].email
  BY <1>1, <1>2, <1>3 DEF HoldsARow, Holding
<1>5. acct[a] \in Row
  BY <1>4 DEF SignInInv
<1>6. new \in Row /\ MixedFrom(new, entity[t], reloaded[t], acct[a])
  BY <1>1, <1>4, <1>5, Merged
<1>7. new.email = acct[a].email /\ new.did \in {job[t].did, acct[a].did}
  BY <1>4, <1>6 DEF MixedFrom
<1>8. new.code \in Codes => Appears(new.code, a)
  <2>1. CASE new.code = acct[a].code
    BY <1>4, <2>1 DEF Appears
  <2>2. CASE new.code = entity[t].code
    BY <1>1, <1>2, <2>2 DEF Appears, Holding
  <2> QED  BY <1>6, <2>1, <2>2 DEF MixedFrom
<1>9. t \notin overtaken => new = [acct[a] EXCEPT !.did = job[t].did]
  BY <1>1, <1>2, <1>3, <1>6 DEF UpToDate, Holding, MixedFrom
<1>10. ASSUME ~Refuse(t)
       PROVE  FitsIn(new, a)
  BY <1>2, <1>4, <1>7, <1>10, SignInNames DEF FitsIn
<1>11. ASSUME ~Refuse(t)
       PROVE  SavesRow(t, a, new)
  BY <1>1, <1>2, <1>4, <1>6, <1>7, <1>8, <1>9, <1>10, <1>11 DEF SavesRow
<1> QED  BY <1>11

LEMMA SaveKeeps ==
  ASSUME SignInInv, NEW t \in Requests, Save(t)
  PROVE  SignInInv'
<1>1. CASE Refuse(t)
  BY <1>1, Refuses
<1>2. ASSUME NEW a, NEW row, SavesRow(t, a, row)
      PROVE  SignInInv'
  <2>1. issued \subseteq issued' /\ issued' \subseteq Codes /\ spent' \subseteq issued'
    BY <1>2 DEF SavesRow, SignInInv
  <2> QED  BY <1>2, <2>1, PutAndLeft DEF SavesRow
<1> QED  BY <1>1, <1>2, SaveWrites

\* What an insert writes.
InsertsRow(t, a, row) ==
    /\ pc[t] = "insert" /\ a \in Accounts /\ acct[a] = None
    /\ row = NewRow(job[t]) /\ row \in Row /\ row.code = None /\ row.did = job[t].did
    /\ Side(a) = job[t].side
    /\ FitsIn(row, a) /\ Put(t, a, row) /\ UNCHANGED <<issued, spent>>
    /\ \/ Leave(t)
       \/ /\ job[t].op = "enroll"
          /\ job' = [job EXCEPT ![t].a = a]
          /\ entity' = [entity EXCEPT ![t] = row]
          /\ Goto(t, "vehicle")
          /\ UNCHANGED reloaded

LEMMA InsertWrites ==
  ASSUME SignInInv, NEW t \in Requests, Insert(t)
  PROVE  Refuse(t) \/ \E a, row : InsertsRow(t, a, row)
<1>1. PICK j, row : j = job[t] /\ row = NewRow(j)
  OBVIOUS
<1>2. pc[t] = "insert"
  BY DEF Insert
<1>3. j \in Job /\ (j.box # None \/ j.did # None)
  BY <1>1, <1>2 DEF SignInInv, Informed
<1>4. row \in Row /\ row.code = None /\ row.did = j.did
  <2>1. AddressOf(j) \in Address
    BY <1>3 DEF Job, AddressOf, Given, Placeholder, Address
  <2> QED  BY <1>1, <1>3, <2>1 DEF NewRow, Row, Job
<1>5. ASSUME ~Refuse(t)
      PROVE  \E a : InsertsRow(t, a, row)
  <2>1. IsUnique(j.side, row)
    BY <1>1, <1>5 DEF Insert
  <2>2. PICK a \in Accounts :
          /\ Side(a) = j.side /\ acct[a] = None
          /\ Put(t, a, row) /\ UNCHANGED <<issued, spent>>
          /\ \/ Leave(t)
             \/ /\ j.op = "enroll"
                /\ job' = [job EXCEPT ![t].a = a]
                /\ entity' = [entity EXCEPT ![t] = row]
                /\ Goto(t, "vehicle")
                /\ UNCHANGED reloaded
    BY <1>1, <1>5 DEF Insert
  <2>3. FitsIn(row, a)
    BY <2>1, <2>2 DEF FitsIn
  <2> QED  BY <1>1, <1>2, <1>4, <2>2, <2>3 DEF InsertsRow
<1> QED  BY <1>5

LEMMA InsertKeeps ==
  ASSUME SignInInv, NEW t \in Requests, Insert(t)
  PROVE  SignInInv'
<1>1. CASE Refuse(t)
  BY <1>1, Refuses
<1>2. ASSUME NEW a, NEW row, InsertsRow(t, a, row)
      PROVE  SignInInv'
  <2>1. /\ a \in Accounts /\ row \in Row /\ FitsIn(row, a) /\ Put(t, a, row)
        /\ UNCHANGED <<issued, spent>> /\ row.code = None /\ None \notin Codes
    BY <1>2, SignInNames DEF InsertsRow
  <2>2. issued \subseteq issued' /\ issued' \subseteq Codes /\ spent' \subseteq issued'
    BY <2>1 DEF SignInInv
  <2>3. CASE Leave(t)
    BY <2>1, <2>2, <2>3, PutAndLeft
  <2>4. CASE ~Leave(t)
    <3>1. /\ job' = [job EXCEPT ![t].a = a] /\ entity' = [entity EXCEPT ![t] = row]
          /\ Goto(t, "vehicle") /\ UNCHANGED reloaded
      BY <1>2, <2>4 DEF InsertsRow
    <3>2. /\ pc[t] = "insert" /\ job[t].op = "enroll" /\ row.did = job[t].did
          /\ Side(a) = job[t].side
      BY <1>2, <2>4 DEF InsertsRow
    <3>3. SlotTables /\ Informed(t)
      BY DEF SignInInv
    <3>4. PICK j : j = [job[t] EXCEPT !.a = a]
      OBVIOUS
    <3>5. /\ j \in Job /\ j.a = a /\ j.did = job[t].did /\ j.side = job[t].side
          /\ j.did \in Dids
      BY <2>1, <3>2, <3>3, <3>4 DEF Informed, Job
    <3>6. /\ SlotTables' /\ Others(t) /\ pc'[t] = "vehicle" /\ job'[t] = j
          /\ entity'[t] = row
      BY <3>1, <3>3, <3>4 DEF Goto, SlotTables, Others
    <3>7. /\ acct'[a] = row /\ \A b \in Accounts \ {a} : acct'[b] = acct[b]
          /\ acct' \in [Accounts -> Row \cup {None}] /\ overtaken' \subseteq Requests
          /\ IdentitiesAreUnique' /\ RowsGrow /\ Overtakes(t)
      BY <2>1, PutDoes
    <3>8. RequestOK(t)'
      <4>1. Informed(t)'
        BY <3>5, <3>6 DEF Informed, Waits
      <4>2. HoldsARow(t)'
        BY <2>1, <3>2, <3>5, <3>6, <3>7, NoneIsNoRow, SignInNames DEF HoldsARow, Side
      <4>3. UpToDate(t)'
        <5>1. row = [row EXCEPT !.did = j.did]
          BY <2>1, <3>2, <3>5 DEF Row
        <5>2. acct'[job'[t].a] = row /\ job'[t].did = j.did /\ row.did = j.did
          BY <3>2, <3>5, <3>6, <3>7
        <5> QED  BY <3>6, <5>1, <5>2 DEF UpToDate
      <4> QED  BY <4>1, <4>2, <4>3 DEF RequestOK
    <3>9. CodesAreApart'
      <4>1. ASSUME NEW c \in Codes, NEW b \in Accounts, acct'[b] # None, acct'[b].code = c
            PROVE  Appears(c, b)
        BY <2>1, <3>7, <4>1 DEF Appears
      <4>2. \A c \in Codes, b \in Accounts : ~InUse(c, b, t)'
        BY <2>1, <3>6 DEF InUse
      <4>3. ASSUME NEW c \in Codes, NEW b \in Accounts, Appears(c, b)'
            PROVE  Appears(c, b)
        BY <3>6, <4>1, <4>2, <4>3, AppearsLater
      <4> QED  BY <2>1, <4>3 DEF SignInInv, CodesAreApart
    <3> QED  BY <2>2, <3>6, <3>7, <3>8, <3>9, Carried
  <2> QED  BY <2>3, <2>4
<1> QED  BY <1>1, <1>2, InsertWrites

LEMMA Failed ==
  ASSUME SignInInv, NEW t \in Requests, RequestFails(t)
  PROVE  SignInInv'
  BY Refuses DEF RequestFails

LEMMA Expired ==
  ASSUME SignInInv, NEW a \in Accounts, ExpireCode(a)
  PROVE  SignInInv'
<1>1. PICK row : row = [acct[a] EXCEPT !.fresh = FALSE]
  OBVIOUS
<1>2. acct[a] \in Row /\ Beside(a, row)
  BY <1>1 DEF ExpireCode, SignInInv
<1>3. /\ row \in Row /\ row.email = acct[a].email /\ row.did = acct[a].did
      /\ row.code = acct[a].code
  BY <1>1, <1>2 DEF Row
<1> QED  BY <1>2, <1>3, PutBeside

LEMMA Closed ==
  ASSUME SignInInv, NEW a \in Accounts, Close(a)
  PROVE  SignInInv'
<1>1. PICK row : row = [acct[a] EXCEPT !.open = FALSE]
  OBVIOUS
<1>2. acct[a] \in Row /\ Beside(a, row)
  BY <1>1 DEF Close, SignInInv
<1>3. /\ row \in Row /\ row.email = acct[a].email /\ row.did = acct[a].did
      /\ row.code = acct[a].code
  BY <1>1, <1>2 DEF Row
<1> QED  BY <1>2, <1>3, PutBeside

LEMMA Promoted ==
  ASSUME SignInInv, NEW a \in Accounts, Promote(a)
  PROVE  SignInInv'
<1>1. PICK row : row = [acct[a] EXCEPT !.admin = TRUE]
  OBVIOUS
<1>2. acct[a] \in Row /\ Beside(a, row)
  BY <1>1 DEF Promote, SignInInv
<1>3. /\ row \in Row /\ row.email = acct[a].email /\ row.did = acct[a].did
      /\ row.code = acct[a].code
  BY <1>1, <1>2 DEF Row
<1> QED  BY <1>2, <1>3, PutBeside

LEMMA HandlerKeeps ==
  ASSUME SignInInv, NEW t \in Requests, Handler(t)
  PROVE  SignInInv'
  BY Checked, ReadOn, CodeUsed, OtpUpdated, LookedUpByDid, LookedUpByEmail, Reloaded,
     SaveKeeps, InsertKeeps, VehicleInserted, Failed DEF Handler

LEMMA SignInStep == SignInInv /\ [Next]_vars => SignInInv'
<1> SUFFICES ASSUME SignInInv, [Next]_vars
             PROVE  SignInInv'
  OBVIOUS
<1>1. CASE \E t \in Requests : Handler(t)
  BY <1>1, HandlerKeeps
<1>2. CASE \E a \in Accounts : ExpireCode(a) \/ Close(a) \/ Promote(a)
  BY <1>2, Expired, Closed, Promoted
<1>3. CASE UNCHANGED vars
  <2>1. UNCHANGED <<acct, issued, pc, job, entity, reloaded, spent, overtaken>>
    BY <1>3 DEF vars
  <2>2. Others(None) /\ RowsGrow /\ Overtakes(None) /\ None \notin Requests
    BY <2>1, SignInNames DEF Others, RowsGrow, Overtakes
  <2>3. /\ acct' \in [Accounts -> Row \cup {None}] /\ issued' \subseteq Codes
        /\ spent' \subseteq issued' /\ overtaken' \subseteq Requests
    BY <2>1 DEF SignInInv
  <2>4. SlotTables' /\ IdentitiesAreUnique' /\ CodesAreApart'
    BY <2>1 DEF SignInInv, SlotTables, IdentitiesAreUnique, CodesAreApart, Appears, Holding
  <2> QED  BY <2>2, <2>3, <2>4, Carried
<1> QED  BY <1>1, <1>2, <1>3 DEF Next

LEMMA SignInInit == Init => SignInInv
<1> SUFFICES ASSUME Init
             PROVE  SignInInv
  OBVIOUS
<1>1. PICK spelt \in Spellings, v \in BOOLEAN, p \in Passwords :
        acct = [a \in Accounts |-> IF a \in Registered THEN FirstRow(BoxOf[a], spelt, None, p, v)
                                   ELSE None]
  BY DEF Init
<1>2. ASSUME NEW a \in Accounts, acct[a] # None
      PROVE  /\ a \in Registered /\ acct[a] \in Row /\ acct[a].did = None
             /\ acct[a].code = None /\ acct[a].email.box = BoxOf[a]
  <2>1. a \in Registered /\ acct[a] = FirstRow(BoxOf[a], spelt, None, p, v)
    BY <1>1, <1>2
  <2>2. BoxOf[a] \in Boxes /\ spelt \in BOOLEAN
    BY <2>1, SignInNames
  <2> QED  BY <2>1, <2>2 DEF FirstRow, Row, Address
<1>3. acct \in [Accounts -> Row \cup {None}]
  BY <1>1, <1>2
<1>4. /\ issued = {} /\ spent = {} /\ overtaken = {}
      /\ pc = [t \in Requests |-> "idle"] /\ job = [t \in Requests |-> NoJob]
      /\ entity = [t \in Requests |-> None] /\ reloaded = [t \in Requests |-> None]
  BY DEF Init
<1>5. SlotTables
  BY <1>4 DEF SlotTables
<1>6. IdentitiesAreUnique
  BY <1>2, SignInIndexes DEF IdentitiesAreUnique
<1>7. CodesAreApart
  BY <1>2, <1>4, SignInNames DEF CodesAreApart, Appears, Holding
<1>8. ASSUME NEW t \in Requests
      PROVE  Informed(t) /\ HoldsARow(t) /\ UpToDate(t)
  BY <1>4, NoJobIsJob DEF Informed, HoldsARow, UpToDate, Holding, Waits
<1> QED  BY <1>3, <1>4, <1>5, <1>6, <1>7, <1>8 DEF SignInInv

\* The invariant of the sign-ins holds for any number of requests, accounts,
\* identities and codes: AuthService, PrivyAuthService, the drivers' password
\* reset and AdminBootstrapService, at once and in any order.
THEOREM SignInInvHolds == Spec => []SignInInv
<1> QED  BY SignInInit, SignInStep, PTL DEF Spec

\* Rows are whole and neither table ever has two accounts of one address or of
\* one DID, although every handler looks first and writes later.
THEOREM AccountsSound == Spec => []AccountsAreSound
<1>1. SignInInv => AccountsAreSound
  <2> SUFFICES ASSUME SignInInv
               PROVE  TypeOK
    BY DEF AccountsAreSound, SignInInv
  <2>1. pc \in [Requests -> Waits]
    BY DEF SignInInv, SlotTables, Informed
  <2>2. ASSUME NEW t \in Requests
        PROVE  /\ pc[t] \in {"save", "write", "vehicle"} =>
                      entity[t] \in Row /\ acct[job[t].a] # None
               /\ pc[t] = "write" => reloaded[t] \in Row
    BY DEF SignInInv, HoldsARow, Holding
  <2> QED  BY <2>1, <2>2 DEF SignInInv, TypeOK
<1> QED  BY <1>1, SignInInvHolds, PTL

-----------------------------------------------------------------------------
(* What a step may do to a row                                             *)

\* A row that is there is rewritten, in columns other than the identity's: the
\* code stays, or is used up, or is a new one.
PlainWrite(a, row) ==
    /\ a \in Accounts /\ acct[a] # None /\ acct' = [acct EXCEPT ![a] = row]
    /\ row.did = acct[a].did
    /\ \/ row.code = acct[a].code /\ spent' = spent
       \/ row.code = None /\ \E k \in Codes : Appears(k, a) /\ spent' = spent \cup {k}
       \/ row.code \in Codes \ issued /\ spent' = spent

LEMMA CodeUseWrites ==
  ASSUME SignInInv, NEW t \in Requests, UseCode(t)
  PROVE  \E row : PlainWrite(job[t].a, row)
<1>1. PICK a : a = job[t].a
  OBVIOUS
<1>2. /\ pc[t] = "update"
      /\ \/ job[t].op = "reset" /\ UpdatePassword(t)
         \/ job[t].op = "verify" /\ VerifyUser(t)
  BY DEF UseCode
<1>3. a \in Accounts /\ acct[a] # None /\ job[t].code \in Codes
  BY <1>1, <1>2 DEF SignInInv, Informed
<1>4. acct[a] \in Row
  BY <1>3 DEF SignInInv
<1>5. Appears(job[t].code, a)
  BY <1>1, <1>2 DEF Appears
<1>6. ASSUME NEW row, row.did = acct[a].did, row.code = None, Put(t, a, row),
             spent' = spent \cup {job[t].code}
      PROVE  PlainWrite(a, row)
  BY <1>3, <1>5, <1>6 DEF PlainWrite, Put
<1>7. CASE UpdatePassword(t)
  <2>1. PICK row : row = [acct[a] EXCEPT !.password = job[t].password,
                                         !.code = None, !.fresh = FALSE]
    OBVIOUS
  <2>2. row.did = acct[a].did /\ row.code = None
    BY <1>4, <2>1 DEF Row
  <2> QED  BY <1>1, <1>6, <1>7, <2>1, <2>2 DEF UpdatePassword
<1>8. CASE VerifyUser(t)
  <2>1. PICK row : row = [acct[a] EXCEPT !.verified = TRUE, !.code = None, !.fresh = FALSE]
    OBVIOUS
  <2>2. row.did = acct[a].did /\ row.code = None
    BY <1>4, <2>1 DEF Row
  <2> QED  BY <1>1, <1>6, <1>8, <2>1, <2>2 DEF VerifyUser
<1> QED  BY <1>2, <1>7, <1>8

LEMMA OtpWrites ==
  ASSUME SignInInv, NEW t \in Requests, UpdateOtp(t)
  PROVE  \E row : PlainWrite(job[t].a, row)
<1>1. PICK a, c : /\ a = job[t].a /\ c \in Codes \ issued
                  /\ Put(t, a, [acct[a] EXCEPT !.code = c, !.fresh = TRUE])
  BY DEF UpdateOtp
<1>2. pc[t] = "update" /\ spent' = spent
  BY DEF UpdateOtp
<1>3. a \in Accounts /\ acct[a] # None /\ acct[a] \in Row
  BY <1>1, <1>2 DEF SignInInv, Informed
<1>4. PICK row : row = [acct[a] EXCEPT !.code = c, !.fresh = TRUE]
  OBVIOUS
<1>5. row.did = acct[a].did /\ row.code = c
  BY <1>3, <1>4 DEF Row
<1> QED  BY <1>1, <1>2, <1>3, <1>4, <1>5 DEF PlainWrite, Put

LEMMA BesideWrites ==
  ASSUME SignInInv, NEW a \in Accounts, ExpireCode(a) \/ Close(a) \/ Promote(a)
  PROVE  \E row : PlainWrite(a, row)
<1>1. acct[a] # None
  BY DEF ExpireCode, Close, Promote
<1>2. acct[a] \in Row
  BY <1>1 DEF SignInInv
<1>3. PICK row : /\ Beside(a, row)
                 /\ \/ row = [acct[a] EXCEPT !.fresh = FALSE]
                    \/ row = [acct[a] EXCEPT !.open = FALSE]
                    \/ row = [acct[a] EXCEPT !.admin = TRUE]
  BY DEF ExpireCode, Close, Promote
<1>4. row.did = acct[a].did /\ row.code = acct[a].code
  BY <1>2, <1>3 DEF Row
<1> QED  BY <1>1, <1>3, <1>4 DEF PlainWrite, Beside, Put

\* Rows are written by saves, by inserts and in columns that are nobody's
\* identity.
LEMMA Effects ==
  ASSUME SignInInv, [Next]_vars
  PROVE  \/ UNCHANGED <<acct, spent>>
         \/ \E t \in Requests, a \in Accounts, row \in Row :
               SavesRow(t, a, row) \/ InsertsRow(t, a, row)
         \/ \E a, row : PlainWrite(a, row)
<1>1. ASSUME NEW t \in Requests, Refuse(t)
      PROVE  UNCHANGED <<acct, spent>>
  BY <1>1 DEF Refuse
<1>2. ASSUME NEW t, NEW j, NEW w, Proceed(t, j, w)
      PROVE  UNCHANGED <<acct, spent>>
  BY <1>2 DEF Proceed
<1>3. ASSUME NEW t, NEW j, NEW a, Hold(t, j, a)
      PROVE  UNCHANGED <<acct, spent>>
  BY <1>3 DEF Hold
<1>4. ASSUME NEW t \in Requests,
             \/ Check(t) \/ Read(t) \/ FindByDid(t) \/ FindByEmail(t)
             \/ Reload(t) \/ InsertVehicle(t) \/ RequestFails(t)
      PROVE  UNCHANGED <<acct, spent>>
  BY <1>1, <1>2, <1>3, <1>4
     DEF Check, Read, FindByDid, FindByEmail, NotFound, Reload, InsertVehicle, RequestFails
<1>5. ASSUME NEW t \in Requests, Save(t), ~Refuse(t)
      PROVE  \E a \in Accounts, row \in Row : SavesRow(t, a, row)
  BY <1>5, SaveWrites DEF SavesRow
<1>6. ASSUME NEW t \in Requests, Insert(t), ~Refuse(t)
      PROVE  \E a \in Accounts, row \in Row : InsertsRow(t, a, row)
  BY <1>6, InsertWrites DEF InsertsRow
<1>7. ASSUME NEW t \in Requests, UseCode(t) \/ UpdateOtp(t)
      PROVE  \E a, row : PlainWrite(a, row)
  BY <1>7, CodeUseWrites, OtpWrites DEF PlainWrite
<1>8. CASE \E t \in Requests : Handler(t)
  <2>1. PICK t \in Requests : Handler(t)
    BY <1>8
  <2> QED  BY <1>1, <1>4, <1>5, <1>6, <1>7, <2>1 DEF Handler
<1>9. CASE \E a \in Accounts : ExpireCode(a) \/ Close(a) \/ Promote(a)
  BY <1>9, BesideWrites
<1>10. CASE UNCHANGED vars
  BY <1>10 DEF vars
<1> QED  BY <1>8, <1>9, <1>10 DEF Next

\* A request's steps are its own.
LEMMA StepsAreOnesOwn ==
  ASSUME SignInInv, [Next]_vars, NEW t \in Requests, pc'[t] # pc[t]
  PROVE  Handler(t)
<1>1. SlotTables
  BY DEF SignInInv
<1>2. ASSUME NEW u \in Requests, Handler(u), u # t
      PROVE  FALSE
  <2>1. \E w : pc' = [pc EXCEPT ![u] = w]
    BY <1>2 DEF Handler, Check, Read, UseCode, UpdateOtp, FindByDid, FindByEmail, NotFound,
                Reload, Save, Insert, InsertVehicle, RequestFails, Refuse, Leave, Proceed,
                Hold, Goto
  <2> QED  BY <1>1, <1>2, <2>1 DEF SlotTables
<1>3. CASE \E a \in Accounts : ExpireCode(a) \/ Close(a) \/ Promote(a)
  BY <1>3 DEF ExpireCode, Close, Promote, Beside
<1> QED  BY <1>2, <1>3 DEF Next, vars

\* An account is linked by a save, and by that of a sign-in whose identity has
\* the DID.
LEMMA LinksByProof ==
  ASSUME SignInInv, [Next]_vars, NEW a \in Accounts, acct[a] # None,
         acct'[a].did # acct[a].did
  PROVE  \E t \in Requests, row \in Row : SavesRow(t, a, row) /\ acct'[a] = row
<1>1. acct \in [Accounts -> Row \cup {None}]
  BY DEF SignInInv
<1>2. ASSUME NEW b, NEW row, PlainWrite(b, row)
      PROVE  FALSE
  <2>1. acct' = [acct EXCEPT ![b] = row] /\ row.did = acct[b].did
    BY <1>2 DEF PlainWrite
  <2> QED  BY <1>1, <2>1
<1>3. ASSUME NEW t \in Requests, NEW b \in Accounts, NEW row \in Row, InsertsRow(t, b, row)
      PROVE  FALSE
  <2>1. acct' = [acct EXCEPT ![b] = row] /\ acct[b] = None
    BY <1>3 DEF InsertsRow, Put
  <2> QED  BY <1>1, <2>1
<1>4. ASSUME NEW t \in Requests, NEW b \in Accounts, NEW row \in Row, SavesRow(t, b, row)
      PROVE  b = a /\ acct'[a] = row
  <2>1. acct' = [acct EXCEPT ![b] = row]
    BY <1>4 DEF SavesRow, Put
  <2> QED  BY <1>1, <2>1
<1> QED  BY <1>2, <1>3, <1>4, Effects

LEMMA LinkStep ==
  SignInInv /\ [Next]_vars =>
    [\A a \in Accounts :
        acct[a] # None /\ acct[a].did = None /\ acct[a]'.did # None =>
            \E t \in Requests :
                /\ pc[t] = "write" /\ job[t].did = acct[a]'.did
                /\ acct[a].email = Given(job[t])]_vars
<1> SUFFICES ASSUME SignInInv, [Next]_vars, NEW a \in Accounts,
                    acct[a] # None, acct[a].did = None, acct'[a].did # None
             PROVE  \E t \in Requests :
                      /\ pc[t] = "write" /\ job[t].did = acct'[a].did
                      /\ acct[a].email = Given(job[t])
  OBVIOUS
<1>1. PICK t \in Requests, row \in Row : SavesRow(t, a, row) /\ acct'[a] = row
  BY LinksByProof
<1>2. pc[t] = "write" /\ job[t].a = a /\ row.did = job[t].did
  BY <1>1 DEF SavesRow
<1>3. acct[a].email = Given(job[t])
  BY <1>2 DEF SignInInv, HoldsARow, Holding
<1> QED  BY <1>1, <1>2, <1>3

\* An account there was is linked to a DID only by a sign-in whose identity
\* names the account's address (PrivyAuthService, "ACCOUNT LINKING").
THEOREM LinksProven == Spec => LinksAreProven
  BY SignInInvHolds, LinkStep, PTL DEF Spec, LinksAreProven

LEMMA RepointStep ==
  SignInInv /\ [Next]_vars =>
    [\A a \in Accounts :
        acct[a] # None /\ acct[a].did # None /\ acct[a]'.did # acct[a].did =>
            \E t \in overtaken : pc[t] = "write" /\ job[t].a = a]_vars
<1> SUFFICES ASSUME SignInInv, [Next]_vars, NEW a \in Accounts,
                    acct[a] # None, acct[a].did # None, acct'[a].did # acct[a].did
             PROVE  \E t \in overtaken : pc[t] = "write" /\ job[t].a = a
  OBVIOUS
<1>1. PICK t \in Requests, row \in Row : SavesRow(t, a, row) /\ acct'[a] = row
  BY LinksByProof
<1>2. /\ pc[t] = "write" /\ job[t].a = a /\ row.did \in {job[t].did, acct[a].did}
  BY <1>1 DEF SavesRow
<1>3. t \notin overtaken => acct[a].did \in {None, job[t].did}
  BY <1>2 DEF SignInInv, UpToDate, Holding
<1> QED  BY <1>1, <1>2, <1>3

\* A link moves to another DID only when a save lands on a row that was
\* written since it was loaded: MayLink judges the row of the look-up.
THEOREM RepointsAreRaces == Spec => OnlyRacesRepoint
  BY SignInInvHolds, RepointStep, PTL DEF Spec, OnlyRacesRepoint

LEMMA UndoStep ==
  SignInInv /\ [Next]_vars =>
    [\A a \in Accounts, t \in Requests \ overtaken :
        pc[t] = "write" /\ job[t].a = a /\ pc[t]' = "done" /\ acct[a]' # acct[a] =>
            acct[a]' = [acct[a] EXCEPT !.did = job[t].did]]_vars
<1> SUFFICES ASSUME SignInInv, [Next]_vars, NEW a \in Accounts, NEW t \in Requests \ overtaken,
                    pc[t] = "write", job[t].a = a, pc'[t] = "done", acct'[a] # acct[a]
             PROVE  acct'[a] = [acct[a] EXCEPT !.did = job[t].did]
  OBVIOUS
<1>1. Handler(t)
  BY StepsAreOnesOwn
<1>2. ~Refuse(t)
  BY DEF Refuse
<1>3. Save(t)
  BY <1>1, <1>2 DEF Handler, Check, Read, UseCode, UpdateOtp, FindByDid, FindByEmail,
                    Reload, Insert, InsertVehicle, RequestFails
<1>4. PICK b, row : SavesRow(t, b, row)
  BY <1>2, <1>3, SaveWrites
<1>5. b = a /\ acct' = [acct EXCEPT ![a] = row] /\ row = [acct[a] EXCEPT !.did = job[t].did]
  BY <1>4 DEF SavesRow, Put
<1>6. acct \in [Accounts -> Row \cup {None}]
  BY DEF SignInInv
<1> QED  BY <1>5, <1>6

\* A sign-in by DID that nobody overtook writes the DID and nothing else: no
\* reset, suspension or promotion is undone.
THEOREM UndoesAreRaces == Spec => OnlyRacesUndo
  BY SignInInvHolds, UndoStep, PTL DEF Spec, OnlyRacesUndo

LEMMA SpentStep ==
  SignInInv /\ [Next]_vars =>
    [\A c \in spent' : Live(c)' =>
        \/ c \in spent /\ Live(c)
        \/ \E t \in overtaken : pc[t] = "write"]_vars
<1> SUFFICES ASSUME SignInInv, [Next]_vars, NEW c \in spent', Live(c)',
                    \A t \in overtaken : pc[t] # "write"
             PROVE  c \in spent /\ Live(c)
  OBVIOUS
<1>1. PICK b \in Accounts : acct'[b] # None /\ acct'[b].code = c
  BY DEF Live
<1>2. /\ acct \in [Accounts -> Row \cup {None}] /\ spent \subseteq issued
      /\ issued \subseteq Codes /\ None \notin Codes
  BY SignInNames DEF SignInInv
<1>3. CASE UNCHANGED <<acct, spent>>
  BY <1>1, <1>3 DEF Live
<1>4. ASSUME NEW t \in Requests, NEW a \in Accounts, NEW row \in Row,
             SavesRow(t, a, row) \/ InsertsRow(t, a, row)
      PROVE  c \in spent /\ Live(c)
  <2>1. spent' = spent /\ acct' = [acct EXCEPT ![a] = row]
    BY <1>4 DEF SavesRow, InsertsRow, Put
  <2>2. row.code = None \/ (acct[a] # None /\ row.code = acct[a].code)
    <3>1. CASE InsertsRow(t, a, row)
      BY <3>1 DEF InsertsRow
    <3>2. CASE SavesRow(t, a, row)
      <4>1. /\ acct[a] # None /\ t \notin overtaken
            /\ row = [acct[a] EXCEPT !.did = job[t].did]
        BY <3>2 DEF SavesRow
      <4>2. acct[a] \in Row
        BY <1>2, <4>1
      <4> QED  BY <4>1, <4>2 DEF Row
    <3> QED  BY <1>4, <3>1, <3>2
  <2> QED  BY <1>1, <1>2, <2>1, <2>2 DEF Live
<1>5. ASSUME NEW a, NEW row, PlainWrite(a, row)
      PROVE  c \in spent /\ Live(c)
  <2>1. a \in Accounts /\ acct[a] # None /\ acct' = [acct EXCEPT ![a] = row]
    BY <1>5 DEF PlainWrite
  <2>2. CASE row.code = acct[a].code /\ spent' = spent
    BY <1>1, <1>2, <2>1, <2>2 DEF Live
  <2>3. CASE row.code = None /\ \E k \in Codes : Appears(k, a) /\ spent' = spent \cup {k}
    <3>1. PICK k \in Codes : Appears(k, a) /\ spent' = spent \cup {k}
      BY <2>3
    <3>2. c \in Codes /\ b # a /\ acct[b] # None /\ acct[b].code = c
      BY <1>1, <1>2, <2>1, <2>3, <3>1
    <3>3. Appears(c, b)
      BY <3>2 DEF Appears
    <3>4. c # k
      BY <2>1, <3>1, <3>2, <3>3 DEF SignInInv, CodesAreApart
    <3> QED  BY <3>1, <3>2, <3>4 DEF Live
  <2>4. CASE row.code \in Codes \ issued /\ spent' = spent
    BY <1>1, <1>2, <2>1, <2>4 DEF Live
  <2> QED  BY <1>5, <2>2, <2>3, <2>4 DEF PlainWrite
<1> QED  BY <1>3, <1>4, <1>5, Effects

\* A code that a reset or a verification has used never opens anything again,
\* unless the save of a sign-in that had loaded the row before brings it back.
THEOREM CodesStayDead == Spec => SpentCodesAreDead
  BY SignInInvHolds, SpentStep, PTL DEF Spec, SpentCodesAreDead
=============================================================================

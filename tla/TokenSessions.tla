---------------------------- MODULE TokenSessions ----------------------------
(***************************************************************************)
(* One refresh-token family: a driver's session from one sign-in on, as    *)
(* TokenService rotates and revokes it, beside the suspension of the       *)
(* driver's account.  Each HTTP request is a process t of Requests, one    *)
(* awaited statement per step; a single UPDATE of Postgres is atomic.      *)
(*                                                                         *)
(* table[k] is the row of token k in refresh_tokens.  A token minted in an *)
(* open transaction is only in its request's job[t].fresh: nobody else's   *)
(* statement sees it before the commit.                                    *)
(*                                                                         *)
(* A request refused by its first read changes nothing and is not a step.  *)
(* pruneExpired, which deletes rows a week after their expiry, is left     *)
(* out: behaviours here are shorter than that.                             *)
(***************************************************************************)
EXTENDS Naturals, FiniteSets

CONSTANTS
    Requests,   \* slots for requests in flight
    Tokens,     \* bound: the tokens that can ever be minted
    First,      \* the token of the sign-in
    Failures,   \* may calls be rejected and processes die?
    None        \* no token

ASSUME Names ==
    /\ First \in Tokens
    /\ None \notin Tokens
    /\ Failures \in BOOLEAN

Reasons == {"none", "rotated", "logout", "reuse-detected",
            "subject-unavailable", "subject-revoked"}
Row == [revoked: BOOLEAN, reason: Reasons]
NewRow == [revoked |-> FALSE, reason |-> "none"]
NoRow == [revoked |-> FALSE, reason |-> "no row"]
Labels == {"idle", "claim", "subject", "mint", "commit", "kill", "breach",
           "stamp", "logout", "revokeAll"}
Ends == {"breach", "logout", "suspension"}
Jobs == [token: Tokens \cup {None}, fresh: Tokens \cup {None},
         late: SUBSET Ends]
NoJob == [token |-> None, fresh |-> None, late |-> {}]

VARIABLES
    table,    \* refresh_tokens
    expired,  \* the tokens past their expiresAt
    active,   \* drivers.isActive
    pc, job,  \* job[t].late: how the session had ended when t came in
    ended,    \* history: the calls that ended the session and have returned
    parent    \* history: parent[k], the token k was handed out for

vars == <<table, expired, active, pc, job, ended, parent>>

TypeOK ==
    /\ table \in [Tokens -> Row \cup {NoRow}]
    /\ expired \in SUBSET Tokens
    /\ active \in BOOLEAN
    /\ pc \in [Requests -> Labels]
    /\ job \in [Requests -> Jobs]
    /\ ended \in SUBSET Ends
    /\ parent \in [Tokens -> Tokens \cup {None}]

\* issueSession has minted the first token of a new family.
Init ==
    /\ table = [k \in Tokens |-> IF k = First THEN NewRow ELSE NoRow]
    /\ expired = {}
    /\ active = TRUE
    /\ pc = [t \in Requests |-> "idle"]
    /\ job = [t \in Requests |-> NoJob]
    /\ ended = {}
    /\ parent = [k \in Tokens |-> None]

-----------------------------------------------------------------------------
Goto(t, label) == pc' = [pc EXCEPT ![t] = label]

Begin(t, k, label) ==
    /\ pc[t] = "idle"
    /\ Goto(t, label)
    /\ job' = [job EXCEPT ![t] = [token |-> k, fresh |-> None,
                                  late |-> ended]]

Finish(t) ==
    /\ Goto(t, "idle")
    /\ job' = [job EXCEPT ![t] = NoJob]

Issued(k) == table[k] # NoRow
Live(k) == Issued(k) /\ ~table[k].revoked
LiveTokens == {k \in Tokens : Live(k)}

\* UPDATE ... WHERE revokedAt IS NULL, over the family.
Revoked(reason) ==
    [k \in Tokens |-> IF Live(k) THEN [revoked |-> TRUE, reason |-> reason]
                                 ELSE table[k]]

Breached == \E k \in Tokens : table[k].reason = "reuse-detected"

-----------------------------------------------------------------------------
(* rotate                                                                  *)

\* Fault: a token consumed by a refresh that failed may be presented again.
RefreshForgiving(t, k) ==
    /\ \/ /\ Issued(k) /\ table[k].revoked
          /\ table[k].reason = "rotated"
          /\ Begin(t, k, IF \E l \in Tokens : parent[l] = k
                         THEN "breach" ELSE "subject")
       \/ /\ Live(k)
          /\ k \notin expired
          /\ Begin(t, k, "claim")
    /\ UNCHANGED <<table, expired, active, ended, parent>>

\* The read of the presented token: a consumed one is a replay, a live one is
\* to be claimed, any other is refused.
Refresh(t, k) ==
    /\ \/ /\ Issued(k) /\ table[k].revoked
          /\ table[k].reason = "rotated"
          /\ Begin(t, k, "breach")
       \/ /\ Live(k)
          /\ k \notin expired
          /\ Begin(t, k, "claim")
    /\ UNCHANGED <<table, expired, active, ended, parent>>

\* Fault: the claim is a plain update by id.
ClaimBlind(t) ==
    /\ pc[t] = "claim"
    /\ table' = [table EXCEPT ![job[t].token] =
                    [revoked |-> TRUE, reason |-> "rotated"]]
    /\ Goto(t, "subject")
    /\ UNCHANGED <<expired, active, job, ended, parent>>

\* Fault: the token is checked, and consumed only after the mint.
ClaimByReading(t) ==
    /\ pc[t] = "claim"
    /\ Goto(t, IF Live(job[t].token) THEN "subject" ELSE "breach")
    /\ UNCHANGED <<table, expired, active, job, ended, parent>>

\* UPDATE ... WHERE id = ... AND revokedAt IS NULL: the database decides.
Claim(t) ==
    LET k == job[t].token IN
    /\ pc[t] = "claim"
    /\ \/ /\ Live(k)
          /\ table' = [table EXCEPT ![k] =
                          [revoked |-> TRUE, reason |-> "rotated"]]
          /\ Goto(t, "subject")
       \/ /\ ~Live(k)
          /\ Goto(t, "breach")
          /\ UNCHANGED table
    /\ UNCHANGED <<expired, active, job, ended, parent>>

\* resolveSubject, after the claim.
ReadSubject(t) ==
    /\ pc[t] = "subject"
    /\ Goto(t, IF active THEN "mint" ELSE "kill")
    /\ UNCHANGED <<table, expired, active, job, ended, parent>>

Kill(t) ==
    /\ pc[t] = "kill"
    /\ table' = Revoked("subject-unavailable")
    /\ Finish(t)
    /\ UNCHANGED <<expired, active, ended, parent>>

\* BEGIN, INSERT and the search for a breach: found, the insert rolls back.
Mint(t) ==
    /\ pc[t] = "mint"
    /\ \/ /\ ~Breached
          /\ \E k \in Tokens :
                /\ ~Issued(k)
                /\ job' = [job EXCEPT ![t].fresh = k]
          /\ Goto(t, "commit")
       \/ /\ Breached
          /\ Goto(t, "breach")
          /\ UNCHANGED job
    /\ UNCHANGED <<table, expired, active, ended, parent>>

Commit(t) ==
    /\ pc[t] = "commit"
    /\ table' = [table EXCEPT ![job[t].fresh] = NewRow]
    /\ parent' = [parent EXCEPT ![job[t].fresh] = job[t].token]
    /\ Finish(t)
    /\ UNCHANGED <<expired, active, ended>>

\* revokeFamily('reuse-detected'), first UPDATE ...
Breach(t) ==
    /\ pc[t] = "breach"
    /\ table' = Revoked("reuse-detected")
    /\ Goto(t, "stamp")
    /\ UNCHANGED <<expired, active, job, ended, parent>>

\* Fault: the second UPDATE is taken for redundant.
StampNothing(t) ==
    /\ pc[t] = "stamp"
    /\ ended' = ended \cup {"breach"}
    /\ Finish(t)
    /\ UNCHANGED <<table, expired, active, parent>>

\* ... and second: every row of the family gets the reason, and only that.
Stamp(t) ==
    /\ pc[t] = "stamp"
    /\ table' = [k \in Tokens |->
                    IF Issued(k)
                    THEN [table[k] EXCEPT !.reason = "reuse-detected"]
                    ELSE NoRow]
    /\ ended' = ended \cup {"breach"}
    /\ Finish(t)
    /\ UNCHANGED <<expired, active, parent>>

-----------------------------------------------------------------------------
(* revokeByToken; updateActiveStatus with revokeAllForSubject              *)

Logout(t, k) ==
    /\ Live(k)
    /\ Begin(t, k, "logout")
    /\ UNCHANGED <<table, expired, active, ended, parent>>

RevokeFamily(t) ==
    /\ pc[t] = "logout"
    /\ table' = Revoked("logout")
    /\ ended' = ended \cup {"logout"}
    /\ Finish(t)
    /\ UNCHANGED <<expired, active, parent>>

Suspend(t) ==
    /\ Begin(t, None, "revokeAll")
    /\ active' = FALSE
    /\ UNCHANGED <<table, expired, ended, parent>>

RevokeAll(t) ==
    /\ pc[t] = "revokeAll"
    /\ table' = Revoked("subject-revoked")
    /\ ended' = ended \cup {"suspension"}
    /\ Finish(t)
    /\ UNCHANGED <<expired, active, parent>>

Reinstate ==
    /\ ~active
    /\ active' = TRUE
    /\ UNCHANGED <<table, expired, pc, job, ended, parent>>

-----------------------------------------------------------------------------
\* A rejected call or a dead process: an open transaction rolls back, what was
\* committed stays.
RequestFails(t) ==
    /\ Failures
    /\ pc[t] # "idle"
    /\ Finish(t)
    /\ UNCHANGED <<table, expired, active, ended, parent>>

Expire(k) ==
    /\ Issued(k)
    /\ expired' = expired \cup {k}
    /\ UNCHANGED <<table, active, pc, job, ended, parent>>

Step(t) ==
    \/ Claim(t) \/ ReadSubject(t) \/ Kill(t) \/ Mint(t) \/ Commit(t)
    \/ Breach(t) \/ Stamp(t) \/ RevokeFamily(t) \/ RevokeAll(t)

Next ==
    \/ \E t \in Requests :
          \/ \E k \in Tokens : Refresh(t, k) \/ Logout(t, k)
          \/ Suspend(t) \/ Step(t) \/ RequestFails(t)
    \/ \E k \in Tokens : Expire(k)
    \/ Reinstate

Spec == Init /\ [][Next]_vars

-----------------------------------------------------------------------------
(* Properties                                                              *)

\* A request that has consumed its token and may still hand out another.
Carries(t) == pc[t] \in {"subject", "mint", "commit"}

\* The session never forks: over all requests at once there is one live token
\* or one request about to mint it, and never more.
OneLine ==
    /\ \A k, l \in LiveTokens : k = l
    /\ \A t, u \in Requests : Carries(t) /\ Carries(u) => t = u
    /\ \A t \in Requests : Carries(t) => LiveTokens = {}

\* A token is valid exactly once: no two tokens are ever handed out for the
\* same one, however many requests present it.
TokenValidOnce ==
    \A k, l \in Tokens : parent[k] = parent[l] /\ parent[k] # None => k = l

\* A compromised session cannot be renewed: a request that comes in after a
\* reuse was answered hands out nothing, though a token may have survived.
CompromisedNotRenewed ==
    \A t \in Requests : "breach" \in job[t].late => pc[t] # "commit"

\* No token is live, and no request that consumed one is still under way.
Dead == LiveTokens = {} /\ \A t \in Requests : ~Carries(t)

\* Death is final: a logout, a suspension or a detected reuse can be survived by
\* a token whose refresh was past its claim when the family was revoked, and by
\* nothing else.  Once no such refresh is under way, no replay, late answer,
\* reinstatement or retry brings the session back.
DeathIsFinal == [][Dead => Dead']_vars

-----------------------------------------------------------------------------
(* The inductive invariant behind the theorems of TokenSessionsProofs      *)

Childless(k) == \A l \in Tokens : parent[l] # k

\* A token is presented after it was issued, and the one in hand is consumed.
Hand(t) ==
    /\ pc[t] \in {"claim", "breach", "stamp"} \/ Carries(t) =>
          job[t].token \in Tokens /\ Issued(job[t].token)
    /\ pc[t] \in {"breach", "stamp"} \/ Carries(t) =>
          table[job[t].token].revoked
    /\ Carries(t) => Childless(job[t].token)
    /\ pc[t] = "commit" =>
          job[t].fresh \in Tokens /\ ~Issued(job[t].fresh)

InHand == \A t \in Requests : Hand(t)

Lineage ==
    \A k \in Tokens :
        /\ ~Issued(k) => parent[k] = None
        /\ ~Issued(k) \/ Live(k) => Childless(k)

\* The evidence of a breach is on a consumed row, where nothing overwrites it.
Evidence(k) == table[k].revoked /\ table[k].reason = "reuse-detected"

EvidenceStays ==
    /\ "breach" \in ended => \E k \in Tokens : Evidence(k)
    /\ \A t \in Requests : job[t].late \subseteq ended

SessionInv ==
    TypeOK /\ OneLine /\ InHand /\ Lineage /\ TokenValidOnce /\ EvidenceStays
    /\ CompromisedNotRenewed
=============================================================================

------------------------ MODULE TokenSessionsProofs ------------------------
(***************************************************************************)
(* Proofs about TokenSessions, for any number of requests and tokens.      *)
(***************************************************************************)
EXTENDS TokenSessions, TLAPS

LEMMA InvInit == Init => SessionInv
<1>. SUFFICES ASSUME Init PROVE SessionInv
  OBVIOUS
<1>. USE DEF Init
<1>1. NewRow \in Row /\ NewRow # NoRow /\ ~NewRow.revoked
  BY DEF NewRow, NoRow, Row, Reasons
<1>2. TypeOK
  BY <1>1, Names DEF TypeOK, Labels, Jobs, NoJob, Ends
<1>3. \A k \in Tokens : Live(k) => k = First
  BY DEF Live, Issued
<1>4. \A t \in Requests : ~Carries(t) /\ Hand(t)
  BY DEF Carries, Hand
<1>5. \A k \in Tokens : parent[k] = None /\ Childless(k)
  BY Names DEF Childless
<1>6. OneLine
  BY <1>3, <1>4 DEF OneLine, LiveTokens
<1>7. EvidenceStays /\ CompromisedNotRenewed
  BY DEF EvidenceStays, CompromisedNotRenewed, NoJob
<1>. QED
  BY <1>2, <1>4, <1>5, <1>6, <1>7
     DEF SessionInv, InHand, Lineage, TokenValidOnce

-----------------------------------------------------------------------------
(* What a step does to its own request, and that it leaves the others be.  *)

LEMMA GotoEffect ==
    ASSUME TypeOK, NEW t \in Requests, NEW label \in Labels,
           Goto(t, label), UNCHANGED job
    PROVE  /\ pc' \in [Requests -> Labels]
           /\ job' \in [Requests -> Jobs]
           /\ pc'[t] = label
           /\ \A u \in Requests \ {t} : pc'[u] = pc[u]
           /\ \A u \in Requests : job'[u] = job[u]
BY DEF Goto, TypeOK

LEMMA FinishEffect ==
    ASSUME TypeOK, NEW t \in Requests, Finish(t)
    PROVE  /\ pc' \in [Requests -> Labels]
           /\ job' \in [Requests -> Jobs]
           /\ pc'[t] = "idle" /\ job'[t].late = {}
           /\ \A u \in Requests \ {t} : pc'[u] = pc[u] /\ job'[u] = job[u]
<1>1. NoJob \in Jobs /\ NoJob.late = {}
  BY DEF NoJob, Jobs, Ends
<1>. QED  BY <1>1 DEF Finish, Goto, TypeOK, Labels

LEMMA BeginEffect ==
    ASSUME TypeOK, NEW t \in Requests, NEW k \in Tokens \cup {None},
           NEW label \in Labels, Begin(t, k, label)
    PROVE  /\ pc[t] = "idle"
           /\ pc' \in [Requests -> Labels]
           /\ job' \in [Requests -> Jobs]
           /\ pc'[t] = label
           /\ job'[t].token = k /\ job'[t].late = ended
           /\ \A u \in Requests \ {t} : pc'[u] = pc[u] /\ job'[u] = job[u]
<1>. DEFINE j == [token |-> k, fresh |-> None, late |-> ended]
<1>1. j \in Jobs /\ j.token = k /\ j.late = ended
  BY DEF Jobs, TypeOK
<1>2. job' = [job EXCEPT ![t] = j] /\ pc[t] = "idle" /\ Goto(t, label)
  BY DEF Begin
<1>. HIDE DEF j
<1>. QED  BY <1>1, <1>2 DEF Goto, TypeOK

-----------------------------------------------------------------------------
(* What an UPDATE of the table does to a row.                              *)

LEMMA RowKinds ==
    ASSUME TypeOK, NEW k \in Tokens
    PROVE  /\ NoRow \notin Row /\ ~NoRow.revoked
           /\ Issued(k) <=> table[k] \in Row
           /\ Live(k) => Issued(k)
           /\ table[k].revoked => Issued(k)
           /\ Issued(k) => table[k].revoked \in BOOLEAN
           /\ Issued(k) /\ ~Live(k) <=> Issued(k) /\ table[k].revoked
<1>1. NoRow \notin Row /\ ~NoRow.revoked
  BY DEF NoRow, Row, Reasons
<1>2. table[k] \in Row \cup {NoRow}
  BY DEF TypeOK
<1>3. Issued(k) <=> table[k] \in Row
  BY <1>1, <1>2 DEF Issued
<1>. QED  BY <1>1, <1>2, <1>3 DEF Issued, Live, Row

\* Rows come to no harm: none is deleted, none comes to life, evidence stays.
Worn ==
    /\ table' \in [Tokens -> Row \cup {NoRow}]
    /\ \A k \in Tokens : /\ Issued(k)' <=> Issued(k)
                         /\ Live(k)' => Live(k)
                         /\ table[k].revoked => table'[k].revoked
                         /\ Evidence(k) => Evidence(k)'

LEMMA SameIsWorn ==
    ASSUME TypeOK, UNCHANGED table
    PROVE  Worn
BY DEF Worn, Issued, Live, Evidence, TypeOK

LEMMA RevokedIsWorn ==
    ASSUME TypeOK, NEW reason \in Reasons, table' = Revoked(reason)
    PROVE  Worn
<1>. DEFINE row == [revoked |-> TRUE, reason |-> reason]
<1>1. row \in Row /\ row.revoked
  BY DEF Row
<1>. HIDE DEF row
<1>2. \A k \in Tokens : table'[k] = IF Live(k) THEN row ELSE table[k]
  BY DEF Revoked, row
<1>3. table' \in [Tokens -> Row \cup {NoRow}]
  BY <1>1 DEF Revoked, row, TypeOK
<1>4. ASSUME NEW k \in Tokens
      PROVE  /\ Issued(k)' <=> Issued(k)
             /\ Live(k)' => Live(k)
             /\ table[k].revoked => table'[k].revoked
             /\ Evidence(k) => Evidence(k)'
  <2>1. CASE Live(k)
    <3>1. table'[k] = row /\ Issued(k) /\ ~table[k].revoked
      BY <1>2, <2>1 DEF Live
    <3>2. row # NoRow
      BY <1>1, RowKinds
    <3>. QED  BY <1>1, <2>1, <3>1, <3>2 DEF Issued, Evidence
  <2>2. CASE ~Live(k)
    <3>1. table'[k] = table[k]
      BY <1>2, <2>2
    <3>. QED  BY <2>2, <3>1 DEF Issued, Live, Evidence
  <2>. QED  BY <2>1, <2>2
<1>. QED  BY <1>3, <1>4 DEF Worn

-----------------------------------------------------------------------------
(* A step that only wears rows out and starts no new line keeps most of    *)
(* the invariant; the rest is about the request that took it.              *)

LEMMA LineKept ==
    ASSUME SessionInv, Worn, UNCHANGED parent,
           \A u \in Requests : Carries(u)' => Carries(u)
    PROVE  OneLine' /\ Lineage' /\ TokenValidOnce'
<1>1. OneLine'
  BY DEF SessionInv, OneLine, LiveTokens, Worn
<1>2. \A k \in Tokens : Childless(k)' <=> Childless(k)
  BY DEF Childless
<1>3. Lineage'
  BY <1>2 DEF SessionInv, Lineage, Worn
<1>4. TokenValidOnce'
  BY DEF SessionInv, TokenValidOnce
<1>. QED  BY <1>1, <1>3, <1>4

LEMMA OthersKept ==
    ASSUME SessionInv, Worn, UNCHANGED parent, NEW u \in Requests,
           pc'[u] = pc[u], job'[u] = job[u]
    PROVE  Hand(u)' /\ (Carries(u)' <=> Carries(u))
<1>1. Hand(u) /\ TypeOK
  BY DEF SessionInv, InHand
<1>2. Carries(u)' <=> Carries(u)
  BY DEF Carries
<1>3. job[u].token \in Tokens => (Childless(job[u].token)' <=> Childless(job[u].token))
  BY DEF Childless
<1>. QED  BY <1>1, <1>2, <1>3 DEF Hand, Worn

\* A step of request t that only wears rows out.
LEMMA QuietStep ==
    ASSUME SessionInv, Worn, UNCHANGED parent, NEW t \in Requests,
           pc' \in [Requests -> Labels], job' \in [Requests -> Jobs],
           active' \in BOOLEAN, UNCHANGED expired,
           \A u \in Requests \ {t} : pc'[u] = pc[u] /\ job'[u] = job[u],
           Hand(t)', Carries(t)' => Carries(t),
           ended \subseteq ended', ended' \in SUBSET Ends,
           "breach" \in ended' => \E k \in Tokens : Evidence(k)',
           job'[t].late \subseteq ended',
           "breach" \in job'[t].late => pc'[t] # "commit"
    PROVE  SessionInv'
<1>1. TypeOK'
  BY DEF SessionInv, TypeOK, Worn
<1>2. \A u \in Requests : Hand(u)' /\ (Carries(u)' => Carries(u))
  BY OthersKept
<1>3. OneLine' /\ Lineage' /\ TokenValidOnce'
  BY <1>2, LineKept
<1>4. EvidenceStays'
  <2>1. ASSUME NEW u \in Requests PROVE job'[u].late \subseteq ended'
    BY DEF SessionInv, EvidenceStays
  <2>. QED  BY <2>1 DEF EvidenceStays
<1>5. CompromisedNotRenewed'
  BY DEF SessionInv, CompromisedNotRenewed
<1>. QED  BY <1>1, <1>2, <1>3, <1>4, <1>5 DEF SessionInv, InHand

-----------------------------------------------------------------------------
(* One lemma per kind of step.                                             *)

\* Facts of the invariant in the form the steps use.
LEMMA Facts ==
    ASSUME SessionInv
    PROVE  /\ TypeOK
           /\ \A u \in Requests : Hand(u) /\ job[u].late \subseteq ended
           /\ "breach" \in ended => \E k \in Tokens : Evidence(k)
           /\ \A u \in Requests : "breach" \in job[u].late => pc[u] # "commit"
BY DEF SessionInv, InHand, EvidenceStays, CompromisedNotRenewed

\* A request that comes in.
LEMMA BeginStep ==
    ASSUME SessionInv, UNCHANGED <<table, expired, ended, parent>>,
           active' \in BOOLEAN, NEW t \in Requests,
           NEW k \in Tokens \cup {None},
           NEW label \in {"claim", "breach", "logout", "revokeAll"},
           Begin(t, k, label),
           label \in {"claim", "breach"} => k \in Tokens /\ Issued(k),
           label = "breach" => table[k].revoked
    PROVE  SessionInv'
<1>1. TypeOK
  BY Facts
<1>2. label \in Labels
  BY DEF Labels
<1>3. Worn
  BY <1>1, SameIsWorn
<1>4. /\ pc' \in [Requests -> Labels] /\ job' \in [Requests -> Jobs]
      /\ pc'[t] = label /\ job'[t].token = k /\ job'[t].late = ended
      /\ \A u \in Requests \ {t} : pc'[u] = pc[u] /\ job'[u] = job[u]
  BY <1>1, <1>2, BeginEffect
<1>5. ~Carries(t)'
  BY <1>4 DEF Carries
<1>6. Hand(t)'
  BY <1>4, <1>5 DEF Hand, Issued
<1>7. "breach" \in ended' => \E l \in Tokens : Evidence(l)'
  BY <1>3, Facts DEF Worn
<1>8. ended' \in SUBSET Ends
  BY <1>1 DEF TypeOK
<1>. QED  BY <1>3, <1>4, <1>5, <1>6, <1>7, <1>8, QuietStep

\* A request that ends, whatever it did to the table on its last step.
LEMMA FinishStep ==
    ASSUME SessionInv, Worn, UNCHANGED <<expired, active, parent>>,
           NEW t \in Requests, Finish(t),
           ended \subseteq ended', ended' \in SUBSET Ends,
           "breach" \in ended' => \E k \in Tokens : Evidence(k)'
    PROVE  SessionInv'
<1>1. TypeOK
  BY Facts
<1>2. /\ pc' \in [Requests -> Labels] /\ job' \in [Requests -> Jobs]
      /\ pc'[t] = "idle" /\ job'[t].late = {}
      /\ \A u \in Requests \ {t} : pc'[u] = pc[u] /\ job'[u] = job[u]
  BY <1>1, FinishEffect
<1>3. ~Carries(t)'
  BY <1>2 DEF Carries
<1>4. Hand(t)'
  BY <1>2, <1>3 DEF Hand
<1>5. active' \in BOOLEAN
  BY <1>1 DEF TypeOK
<1>. QED  BY <1>2, <1>3, <1>4, <1>5, QuietStep

\* A step within a request that creates no carrier of the session.
LEMMA GotoStep ==
    ASSUME SessionInv, Worn, UNCHANGED <<expired, active, job, ended, parent>>,
           NEW t \in Requests,
           NEW label \in {"subject", "mint", "kill", "breach", "stamp"},
           Goto(t, label),
           Carries(t) \/ pc[t] \in {"claim", "breach"},
           label \in {"subject", "mint"} => Carries(t),
           label \in {"breach", "stamp"} => table'[job[t].token].revoked
    PROVE  SessionInv'
<1>1. TypeOK /\ Hand(t)
  BY Facts
<1>2. label \in Labels
  BY DEF Labels
<1>3. /\ pc' \in [Requests -> Labels] /\ job' \in [Requests -> Jobs]
      /\ pc'[t] = label
      /\ \A u \in Requests \ {t} : pc'[u] = pc[u] /\ job'[u] = job[u]
  BY <1>1, <1>2, GotoEffect
<1>4. job'[t] = job[t]
  OBVIOUS
<1>5. job[t].token \in Tokens /\ Issued(job[t].token)
  BY <1>1 DEF Hand
<1>6. Carries(t)' => Carries(t)
  BY <1>3 DEF Carries
<1>7. Carries(t) => /\ table[job[t].token].revoked
                    /\ Childless(job[t].token)
  BY <1>1 DEF Hand
<1>8. Childless(job[t].token)' <=> Childless(job[t].token)
  BY DEF Childless
<1>9. Hand(t)'
  BY <1>3, <1>4, <1>5, <1>6, <1>7, <1>8 DEF Hand, Worn, Carries
<1>10. "breach" \in ended' => \E l \in Tokens : Evidence(l)'
  BY Facts DEF Worn
<1>11. ended' \in SUBSET Ends /\ active' \in BOOLEAN
  BY <1>1 DEF TypeOK
<1>12. job'[t].late \subseteq ended'
  BY Facts
<1>. QED  BY <1>3, <1>6, <1>9, <1>10, <1>11, <1>12, QuietStep

LEMMA RefreshStep ==
    ASSUME SessionInv, NEW t \in Requests, NEW k \in Tokens, Refresh(t, k)
    PROVE  SessionInv'
<1>1. UNCHANGED <<table, expired, active, ended, parent>>
  BY DEF Refresh
<1>2. active' \in BOOLEAN
  BY <1>1, Facts DEF TypeOK
<1>3. CASE Issued(k) /\ table[k].revoked /\ Begin(t, k, "breach")
  BY <1>1, <1>2, <1>3, BeginStep
<1>4. CASE Live(k) /\ Begin(t, k, "claim")
  BY <1>1, <1>2, <1>4, BeginStep DEF Live
<1>. QED  BY <1>3, <1>4 DEF Refresh

\* The claim that wins takes the one live token, and t alone carries on.
LEMMA ClaimWins ==
    ASSUME SessionInv, NEW t \in Requests, Claim(t), Live(job[t].token)
    PROVE  SessionInv'
<1>. DEFINE row == [revoked |-> TRUE, reason |-> "rotated"]
<1>1. TypeOK /\ Hand(t) /\ pc[t] = "claim"
  BY Facts DEF Claim
<1>2. PICK k \in Tokens : k = job[t].token /\ Issued(k) /\ Live(k)
  BY <1>1 DEF Hand
<1>3. row \in Row /\ row.revoked /\ row # NoRow
  BY DEF Row, Reasons, NoRow
<1>4. /\ table' = [table EXCEPT ![k] = row]
      /\ Goto(t, "subject")
      /\ UNCHANGED <<expired, active, job, ended, parent>>
  BY <1>2 DEF Claim
<1>. HIDE DEF row
<1>5. /\ pc' \in [Requests -> Labels] /\ job' \in [Requests -> Jobs]
      /\ pc'[t] = "subject"
      /\ \A u \in Requests \ {t} : pc'[u] = pc[u]
      /\ \A u \in Requests : job'[u] = job[u]
  <2>1. "subject" \in Labels
    BY DEF Labels
  <2>. QED  BY <1>1, <1>4, <2>1, GotoEffect
<1>6. table'[k] = row /\ \A l \in Tokens \ {k} : table'[l] = table[l]
  BY <1>1, <1>2, <1>4 DEF TypeOK
<1>7. Worn
  <2>1. table' \in [Tokens -> Row \cup {NoRow}]
    BY <1>1, <1>3, <1>4 DEF TypeOK
  <2>2. ~table[k].revoked
    BY <1>2 DEF Live
  <2>3. ASSUME NEW l \in Tokens
        PROVE  /\ Issued(l)' <=> Issued(l)
               /\ Live(l)' => Live(l)
               /\ table[l].revoked => table'[l].revoked
               /\ Evidence(l) => Evidence(l)'
    <3>1. CASE l = k
      BY <1>2, <1>3, <1>6, <2>2, <3>1 DEF Issued, Live, Evidence
    <3>2. CASE l # k
      BY <1>6, <3>2 DEF Issued, Live, Evidence
    <3>. QED  BY <3>1, <3>2
  <2>. QED  BY <2>1, <2>3 DEF Worn
<1>8. LiveTokens' = {}
  <2>1. LiveTokens = {k}
    BY <1>2 DEF SessionInv, OneLine, LiveTokens
  <2>2. ~Live(k)'
    BY <1>3, <1>6 DEF Live
  <2>. QED  BY <1>7, <2>1, <2>2 DEF LiveTokens, Worn
<1>9. \A u \in Requests : ~Carries(u)
  BY <1>2 DEF SessionInv, OneLine, LiveTokens
<1>10. \A u \in Requests \ {t} : Hand(u)' /\ ~Carries(u)'
  BY <1>4, <1>5, <1>7, <1>9, OthersKept
<1>11. OneLine'
  BY <1>8, <1>10 DEF OneLine
<1>12. \A l \in Tokens : Childless(l)' <=> Childless(l)
  BY <1>4 DEF Childless
<1>13. Lineage' /\ TokenValidOnce'
  BY <1>4, <1>7, <1>12 DEF SessionInv, Lineage, TokenValidOnce, Worn
<1>14. Hand(t)'
  <2>1. Childless(k)
    BY <1>2 DEF SessionInv, Lineage
  <2>2. Issued(k)' /\ table'[k].revoked
    BY <1>2, <1>3, <1>6, <1>7 DEF Worn
  <2>3. job'[t].token = k /\ pc'[t] # "commit"
    BY <1>2, <1>5
  <2>. QED  BY <1>2, <1>12, <2>1, <2>2, <2>3 DEF Hand
<1>15. EvidenceStays'
  BY <1>4, <1>5, <1>7, Facts DEF EvidenceStays, Worn
<1>16. CompromisedNotRenewed'
  BY <1>5, Facts DEF CompromisedNotRenewed
<1>17. TypeOK'
  BY <1>1, <1>4, <1>5, <1>7 DEF TypeOK, Worn
<1>. QED
  BY <1>10, <1>11, <1>13, <1>14, <1>15, <1>16, <1>17 DEF SessionInv, InHand

LEMMA ClaimStep ==
    ASSUME SessionInv, NEW t \in Requests, Claim(t)
    PROVE  SessionInv'
<1>1. CASE Live(job[t].token)
  BY <1>1, ClaimWins
<1>2. CASE ~Live(job[t].token)
  <2>1. /\ pc[t] = "claim" /\ Goto(t, "breach")
        /\ UNCHANGED <<table, expired, active, job, ended, parent>>
    BY <1>2 DEF Claim
  <2>2. TypeOK /\ Hand(t)
    BY Facts
  <2>3. job[t].token \in Tokens /\ Issued(job[t].token)
    BY <2>1, <2>2 DEF Hand
  <2>4. table'[job[t].token].revoked
    BY <1>2, <2>1, <2>2, <2>3, RowKinds
  <2>5. Worn
    BY <2>1, <2>2, SameIsWorn
  <2>. QED  BY <2>1, <2>4, <2>5, GotoStep
<1>. QED  BY <1>1, <1>2

LEMMA ReadSubjectStep ==
    ASSUME SessionInv, NEW t \in Requests, ReadSubject(t)
    PROVE  SessionInv'
<1>1. TypeOK
  BY Facts
<1>2. /\ UNCHANGED <<table, expired, active, job, ended, parent>>
      /\ Goto(t, IF active THEN "mint" ELSE "kill")
      /\ Carries(t)
  BY DEF ReadSubject, Carries
<1>3. Worn
  BY <1>1, <1>2, SameIsWorn
<1>4. CASE active
  BY <1>2, <1>3, <1>4, GotoStep
<1>5. CASE ~active
  BY <1>2, <1>3, <1>5, GotoStep
<1>. QED  BY <1>4, <1>5

\* An UPDATE that revokes the family, last step of a request.
LEMMA RevokeStep ==
    ASSUME SessionInv, NEW t \in Requests, Finish(t),
           NEW reason \in Reasons, table' = Revoked(reason),
           UNCHANGED <<expired, active, parent>>,
           ended' \in SUBSET Ends, ended \subseteq ended',
           "breach" \in ended' => "breach" \in ended
    PROVE  SessionInv'
<1>1. Worn
  BY Facts, RevokedIsWorn
<1>2. "breach" \in ended' => \E k \in Tokens : Evidence(k)'
  BY <1>1, Facts DEF Worn
<1>. QED  BY <1>1, <1>2, FinishStep

LEMMA RevokingSteps ==
    ASSUME SessionInv, NEW t \in Requests,
           Kill(t) \/ RevokeFamily(t) \/ RevokeAll(t)
    PROVE  SessionInv'
<1>1. ended \in SUBSET Ends
  BY Facts DEF TypeOK
<1>2. CASE Kill(t)
  BY <1>1, <1>2, RevokeStep DEF Kill, Reasons
<1>3. CASE RevokeFamily(t)
  BY <1>1, <1>3, RevokeStep DEF RevokeFamily, Reasons, Ends
<1>4. CASE RevokeAll(t)
  BY <1>1, <1>4, RevokeStep DEF RevokeAll, Reasons, Ends
<1>. QED  BY <1>2, <1>3, <1>4

LEMMA MintStep ==
    ASSUME SessionInv, NEW t \in Requests, Mint(t)
    PROVE  SessionInv'
<1>1. TypeOK /\ Hand(t) /\ Carries(t)
  BY Facts DEF Mint, Carries
<1>2. UNCHANGED <<table, expired, active, ended, parent>>
  BY DEF Mint
<1>3. Worn
  BY <1>1, <1>2, SameIsWorn
<1>4. job[t].token \in Tokens /\ table[job[t].token].revoked
  BY <1>1 DEF Hand
<1>5. CASE ~Breached /\ Goto(t, "commit")
  <2>1. PICK k \in Tokens : ~Issued(k) /\ job' = [job EXCEPT ![t].fresh = k]
    BY <1>5 DEF Mint, Goto, TypeOK
  <2>. DEFINE j == [job[t] EXCEPT !.fresh = k]
  <2>2. job[t] \in Jobs
    BY <1>1 DEF TypeOK
  <2>3. /\ j \in Jobs /\ j.fresh = k
        /\ j.token = job[t].token /\ j.late = job[t].late
    BY <2>2 DEF Jobs
  <2>4. job' = [job EXCEPT ![t] = j]
    BY <2>1
  <2>. HIDE DEF j
  <2>5. /\ job' \in [Requests -> Jobs] /\ job'[t] = j
        /\ \A u \in Requests \ {t} : job'[u] = job[u]
    BY <1>1, <2>3, <2>4 DEF TypeOK
  <2>6. /\ pc' \in [Requests -> Labels] /\ pc'[t] = "commit"
        /\ \A u \in Requests \ {t} : pc'[u] = pc[u]
    BY <1>1, <1>5 DEF Goto, TypeOK, Labels
  <2>7. Hand(t)'
    <3>1. Childless(job[t].token) /\ Issued(job[t].token)
      BY <1>1 DEF Hand
    <3>2. ~Issued(k)'
      BY <1>2, <2>1 DEF Issued
    <3>3. PICK l \in Tokens : /\ l = job[t].token /\ Issued(l) /\ Childless(l)
                              /\ table[l].revoked
      BY <1>4, <3>1
    <3>4. job'[t].token = l /\ job'[t].fresh = k
      BY <2>3, <2>5, <3>3
    <3>5. Childless(l)' /\ Issued(l)' /\ table'[l].revoked
      BY <1>2, <3>3 DEF Childless, Issued
    <3>. QED  BY <2>6, <3>2, <3>4, <3>5 DEF Hand
  <2>8. "breach" \notin ended
    BY <1>5, Facts DEF Breached, Evidence
  <2>9. job'[t].late \subseteq ended' /\ "breach" \notin job'[t].late
    BY <1>2, <2>3, <2>5, <2>8, Facts
  <2>10. active' \in BOOLEAN /\ ended' \in SUBSET Ends
    BY <1>1, <1>2 DEF TypeOK
  <2>. QED
    BY <1>1, <1>2, <1>3, <2>5, <2>6, <2>7, <2>8, <2>9, <2>10, QuietStep
<1>6. CASE Goto(t, "breach") /\ UNCHANGED job
  BY <1>1, <1>2, <1>3, <1>4, <1>6, GotoStep
<1>. QED  BY <1>5, <1>6 DEF Mint

\* The one carrier becomes the one live token, child of a token without one.
LEMMA CommitStep ==
    ASSUME SessionInv, NEW t \in Requests, Commit(t)
    PROVE  SessionInv'
<1>1. TypeOK /\ Hand(t) /\ Carries(t) /\ pc[t] = "commit"
  BY Facts DEF Commit, Carries
<1>2. PICK k \in Tokens : k = job[t].fresh /\ ~Issued(k)
  BY <1>1 DEF Hand
<1>3. PICK old \in Tokens : /\ old = job[t].token /\ Issued(old)
                            /\ table[old].revoked /\ Childless(old)
  BY <1>1 DEF Hand
<1>4. NewRow \in Row /\ NewRow # NoRow /\ ~NewRow.revoked /\ old # k
  BY <1>2, <1>3 DEF NewRow, NoRow, Row, Reasons
<1>5. /\ table' = [table EXCEPT ![k] = NewRow]
      /\ parent' = [parent EXCEPT ![k] = old]
      /\ Finish(t) /\ UNCHANGED <<expired, active, ended>>
  BY <1>2, <1>3 DEF Commit
<1>6. /\ pc' \in [Requests -> Labels] /\ job' \in [Requests -> Jobs]
      /\ pc'[t] = "idle" /\ job'[t].late = {}
      /\ \A u \in Requests \ {t} : pc'[u] = pc[u] /\ job'[u] = job[u]
  BY <1>1, <1>5, FinishEffect
<1>7. /\ table' \in [Tokens -> Row \cup {NoRow}] /\ table'[k] = NewRow
      /\ \A l \in Tokens \ {k} : table'[l] = table[l]
  BY <1>1, <1>4, <1>5 DEF TypeOK
<1>8. /\ parent' \in [Tokens -> Tokens \cup {None}] /\ parent'[k] = old
      /\ \A l \in Tokens \ {k} : parent'[l] = parent[l]
  BY <1>1, <1>5 DEF TypeOK
<1>9. TypeOK'
  BY <1>1, <1>5, <1>6, <1>7, <1>8 DEF TypeOK
<1>10. LiveTokens = {} /\ \A u \in Requests \ {t} : ~Carries(u)
  BY <1>1 DEF SessionInv, OneLine
<1>11. \A l \in Tokens : ~Live(l)
  BY <1>10 DEF LiveTokens
<1>12. \A u \in Requests : ~Carries(u)'
  BY <1>6, <1>10 DEF Carries
<1>13. \A l \in Tokens : Live(l)' => l = k
  BY <1>7, <1>11 DEF Live, Issued
<1>14. OneLine'
  BY <1>12, <1>13 DEF OneLine, LiveTokens
<1>15. \A l \in Tokens \ {k} : Issued(l)' <=> Issued(l)
  BY <1>7 DEF Issued
<1>16. InHand'
  <2>1. ASSUME NEW u \in Requests PROVE Hand(u)'
    <3>1. CASE u = t
      BY <1>6, <1>12, <3>1 DEF Hand
    <3>2. CASE u # t
      <4>1. pc'[u] = pc[u] /\ job'[u] = job[u] /\ ~Carries(u)' /\ Hand(u)
        BY <1>6, <1>12, <3>2, Facts
      <4>2. CASE pc[u] \in {"claim", "breach", "stamp"}
        <5>1. PICK l \in Tokens : l = job[u].token /\ Issued(l) /\ l # k
          BY <1>2, <4>1, <4>2 DEF Hand
        <5>2. Issued(l)' /\ table'[l] = table[l]
          BY <1>7, <1>15, <5>1
        <5>3. pc[u] \in {"breach", "stamp"} => table[l].revoked
          BY <4>1, <5>1 DEF Hand
        <5>4. l = job'[u].token /\ pc'[u] # "commit"
          BY <4>1, <4>2, <5>1
        <5>. QED  BY <4>1, <5>2, <5>3, <5>4 DEF Hand, Issued
      <4>3. CASE pc[u] \notin {"claim", "breach", "stamp"}
        BY <4>1, <4>3 DEF Hand, Carries
      <4>. QED  BY <4>2, <4>3
    <3>. QED  BY <3>1, <3>2
  <2>. QED  BY <2>1 DEF InHand
<1>17. Childless(k)'
  <2>1. Childless(k)
    BY <1>2 DEF SessionInv, Lineage
  <2>. QED  BY <1>4, <1>8, <2>1 DEF Childless
<1>18. Lineage'
  <2>1. ASSUME NEW l \in Tokens
        PROVE  /\ ~Issued(l)' => parent'[l] = None
               /\ ~Issued(l)' \/ Live(l)' => Childless(l)'
    <3>1. CASE l = k
      BY <1>4, <1>7, <1>17, <3>1 DEF Issued
    <3>2. CASE l # k
      <4>1. ~Live(l)' /\ (Issued(l)' <=> Issued(l)) /\ parent'[l] = parent[l]
        BY <1>8, <1>13, <1>15, <3>2
      <4>2. ~Issued(l) => parent[l] = None /\ Childless(l) /\ l # old
        BY <1>3 DEF SessionInv, Lineage
      <4>3. ~Issued(l) => Childless(l)'
        BY <1>8, <4>2 DEF Childless
      <4>. QED  BY <4>1, <4>2, <4>3
    <3>. QED  BY <3>1, <3>2
  <2>. QED  BY <2>1 DEF Lineage
<1>19. TokenValidOnce'
  BY <1>3, <1>8 DEF SessionInv, TokenValidOnce, Childless
<1>20. EvidenceStays'
  <2>1. \A l \in Tokens : Evidence(l) => Evidence(l)'
    <3>1. ~Evidence(k)
      BY <1>1, <1>2, RowKinds DEF Evidence
    <3>. QED  BY <1>7, <3>1 DEF Evidence
  <2>2. \A u \in Requests : job'[u].late \subseteq ended'
    BY <1>5, <1>6, Facts
  <2>. QED  BY <1>5, <2>1, <2>2, Facts DEF EvidenceStays
<1>21. CompromisedNotRenewed'
  BY <1>12 DEF CompromisedNotRenewed, Carries
<1>. QED
  BY <1>9, <1>14, <1>16, <1>18, <1>19, <1>20, <1>21 DEF SessionInv

LEMMA BreachStep ==
    ASSUME SessionInv, NEW t \in Requests, Breach(t)
    PROVE  SessionInv'
<1>1. TypeOK /\ Hand(t) /\ pc[t] = "breach"
  BY Facts DEF Breach
<1>2. /\ table' = Revoked("reuse-detected") /\ Goto(t, "stamp")
      /\ UNCHANGED <<expired, active, job, ended, parent>>
  BY DEF Breach
<1>3. Worn
  BY <1>1, <1>2, RevokedIsWorn DEF Reasons
<1>4. table'[job[t].token].revoked
  BY <1>1, <1>3 DEF Hand, Worn
<1>. QED  BY <1>1, <1>2, <1>3, <1>4, GotoStep

\* The stamp rewrites the reason of every row of the family, and nothing else.
LEMMA StampIsWorn ==
    ASSUME TypeOK, NEW t \in Requests, Stamp(t)
    PROVE  /\ Worn
           /\ \A k \in Tokens : Issued(k) =>
                 table'[k] = [table[k] EXCEPT !.reason = "reuse-detected"]
<1>1. TypeOK
  OBVIOUS
<1>2. \A k \in Tokens : table'[k] =
         IF Issued(k) THEN [table[k] EXCEPT !.reason = "reuse-detected"]
                      ELSE NoRow
  BY DEF Stamp
<1>3. ASSUME NEW k \in Tokens, Issued(k)
      PROVE  /\ table'[k] \in Row /\ table'[k] # NoRow
             /\ table'[k].revoked = table[k].revoked
             /\ table'[k].reason = "reuse-detected"
  <2>1. table[k] \in Row
    BY <1>1, <1>3, RowKinds
  <2>2. table'[k] = [table[k] EXCEPT !.reason = "reuse-detected"]
    BY <1>2, <1>3
  <2>3. table'[k] \in Row
    BY <2>1, <2>2 DEF Row, Reasons
  <2>. QED  BY <1>1, <2>1, <2>2, <2>3, RowKinds DEF Row
<1>4. ASSUME NEW k \in Tokens, ~Issued(k)
      PROVE  table'[k] = NoRow /\ table[k] = NoRow
  BY <1>2, <1>4 DEF Issued
<1>5. table' \in [Tokens -> Row \cup {NoRow}]
  <2>1. \A k \in Tokens : table'[k] \in Row \cup {NoRow}
    BY <1>3, <1>4
  <2>2. table' = [k \in Tokens |-> table'[k]]
    BY DEF Stamp
  <2>. QED  BY <2>1, <2>2
<1>6. ASSUME NEW k \in Tokens
      PROVE  /\ Issued(k)' <=> Issued(k)
             /\ Live(k)' => Live(k)
             /\ table[k].revoked => table'[k].revoked
             /\ Evidence(k) => Evidence(k)'
  <2>1. CASE Issued(k)
    BY <1>3, <2>1 DEF Issued, Live, Evidence
  <2>2. CASE ~Issued(k)
    BY <1>4, <2>2 DEF Issued, Live, Evidence
  <2>. QED  BY <2>1, <2>2
<1>. QED  BY <1>2, <1>5, <1>6 DEF Worn

\* The token the request presented is consumed: it bears the evidence.
LEMMA StampStep ==
    ASSUME SessionInv, NEW t \in Requests, Stamp(t)
    PROVE  SessionInv'
<1>1. TypeOK /\ Hand(t) /\ pc[t] = "stamp"
  BY Facts DEF Stamp
<1>2. Worn /\ \A k \in Tokens : Issued(k) =>
         table'[k] = [table[k] EXCEPT !.reason = "reuse-detected"]
  BY <1>1, StampIsWorn
<1>3. \E k \in Tokens : Evidence(k)'
  <2>1. PICK k \in Tokens : /\ k = job[t].token /\ Issued(k)
                            /\ table[k].revoked
    BY <1>1 DEF Hand
  <2>2. table[k] \in Row
    BY <1>1, <2>1, RowKinds
  <2>3. table'[k].revoked /\ table'[k].reason = "reuse-detected"
    BY <1>2, <2>1, <2>2 DEF Row
  <2>. QED  BY <2>1, <2>3 DEF Evidence
<1>4. Finish(t) /\ ended' = ended \cup {"breach"}
      /\ UNCHANGED <<expired, active, parent>>
  BY DEF Stamp
<1>5. ended' \in SUBSET Ends
  BY <1>1, <1>4 DEF TypeOK, Ends
<1>. QED  BY <1>1, <1>2, <1>3, <1>4, <1>5, FinishStep

\* The account and the clock touch no row and no request.
LEMMA WorldStep ==
    ASSUME SessionInv, UNCHANGED <<table, pc, job, ended, parent>>,
           expired' \in SUBSET Tokens, active' \in BOOLEAN
    PROVE  SessionInv'
<1>1. TypeOK /\ Worn
  BY Facts, SameIsWorn
<1>2. \A u \in Requests : Hand(u)' /\ (Carries(u)' <=> Carries(u))
  BY <1>1, OthersKept
<1>3. OneLine' /\ Lineage' /\ TokenValidOnce'
  BY <1>1, <1>2, LineKept
<1>4. EvidenceStays' /\ CompromisedNotRenewed'
  BY <1>1, Facts DEF EvidenceStays, CompromisedNotRenewed, Worn
<1>5. TypeOK'
  BY <1>1 DEF TypeOK
<1>. QED  BY <1>2, <1>3, <1>4, <1>5 DEF SessionInv, InHand

-----------------------------------------------------------------------------
(* The invariant is inductive.                                             *)

LEMMA InvNext == SessionInv /\ [Next]_vars => SessionInv'
<1>. SUFFICES ASSUME SessionInv, [Next]_vars PROVE SessionInv'
  OBVIOUS
<1>1. TypeOK
  BY Facts
<1>2. ASSUME NEW t \in Requests, NEW k \in Tokens, Logout(t, k)
      PROVE  SessionInv'
  <2>1. /\ Begin(t, k, "logout") /\ active' \in BOOLEAN
        /\ UNCHANGED <<table, expired, ended, parent>>
    BY <1>1, <1>2 DEF Logout, TypeOK
  <2>. QED  BY <2>1, BeginStep
<1>3. ASSUME NEW t \in Requests, Suspend(t) PROVE SessionInv'
  BY <1>3, BeginStep DEF Suspend
<1>4. ASSUME NEW t \in Requests, Step(t) PROVE SessionInv'
  BY <1>4, ClaimStep, ReadSubjectStep, RevokingSteps, MintStep, CommitStep,
     BreachStep, StampStep DEF Step
<1>5. ASSUME NEW t \in Requests, RequestFails(t) PROVE SessionInv'
  <2>1. /\ Finish(t) /\ UNCHANGED <<table, expired, active, ended, parent>>
    BY <1>5 DEF RequestFails
  <2>2. Worn /\ ended' \in SUBSET Ends
    BY <1>1, <2>1, SameIsWorn DEF TypeOK
  <2>3. "breach" \in ended' => \E k \in Tokens : Evidence(k)'
    BY <2>1, <2>2, Facts DEF Worn
  <2>. QED  BY <2>1, <2>2, <2>3, FinishStep
<1>6. ASSUME NEW k \in Tokens, Expire(k) PROVE SessionInv'
  BY <1>1, <1>6, WorldStep DEF Expire, TypeOK
<1>7. CASE Reinstate
  BY <1>1, <1>7, WorldStep DEF Reinstate, TypeOK
<1>8. CASE UNCHANGED vars
  BY <1>1, <1>8, WorldStep DEF vars, TypeOK
<1>. QED
  BY <1>2, <1>3, <1>4, <1>5, <1>6, <1>7, <1>8, RefreshStep DEF Next

\* The inductive invariant holds of every behaviour: what requests hold in
\* their hands, who was handed out for whom, and the evidence of a breach.
THEOREM SessionInvHolds == Spec => []SessionInv
<1>. QED  BY InvInit, InvNext, PTL DEF Spec

\* rotate never forks a session: of all tokens of a family and all requests
\* that may still mint one, at most one is live or about to be.
THEOREM NeverForks == Spec => []OneLine
<1>1. SessionInv => OneLine
  BY DEF SessionInv
<1>. QED  BY <1>1, SessionInvHolds, PTL

\* A refresh token is valid exactly once: the conditional UPDATE lets no two
\* requests, however interleaved, hand out a successor for the same token.
THEOREM ValidOnce == Spec => []TokenValidOnce
<1>1. SessionInv => TokenValidOnce
  BY DEF SessionInv
<1>. QED  BY <1>1, SessionInvHolds, PTL

\* Once a reuse has been answered, no request that comes in later renews the
\* session: the stamped rows make its mint roll back.
THEOREM CompromiseEnds == Spec => []CompromisedNotRenewed
<1>1. SessionInv => CompromisedNotRenewed
  BY DEF SessionInv
<1>. QED  BY <1>1, SessionInvHolds, PTL

-----------------------------------------------------------------------------
(* The end of a session.                                                   *)

\* Only a commit brings a row to life, and only a claim of a live token lets a
\* request carry the session on: neither is left.
LEMMA DeadKept ==
    ASSUME TypeOK, Dead, Worn, NEW t \in Requests,
           \A u \in Requests \ {t} : pc'[u] = pc[u], ~Carries(t)'
    PROVE  Dead'
<1>1. \A k \in Tokens : ~Live(k)'
  BY DEF Dead, LiveTokens, Worn
<1>2. \A u \in Requests : ~Carries(u)'
  BY DEF Dead, Carries
<1>. QED  BY <1>1, <1>2 DEF Dead, LiveTokens

LEMMA DeadWorld ==
    ASSUME Dead, UNCHANGED <<table, pc>>
    PROVE  Dead'
BY DEF Dead, LiveTokens, Live, Issued, Carries

LEMMA DeadGoes ==
    ASSUME TypeOK, Dead, Worn, NEW t \in Requests, NEW label \in Labels,
           Goto(t, label), label \notin {"subject", "mint", "commit"}
    PROVE  Dead'
<1>1. pc'[t] = label /\ \A u \in Requests \ {t} : pc'[u] = pc[u]
  BY DEF Goto, TypeOK
<1>2. ~Carries(t)'
  BY <1>1 DEF Carries
<1>. QED  BY <1>1, <1>2, DeadKept

LEMMA DeadStep ==
    ASSUME SessionInv, Dead, NEW t \in Requests, Step(t)
    PROVE  Dead'
<1>. DEFINE Away == {"idle", "breach", "stamp"}
<1>1. TypeOK /\ Hand(t) /\ ~Carries(t)
  BY Facts DEF Dead
<1>2. \A label \in Away :
         label \in Labels /\ label \notin {"subject", "mint", "commit"}
  BY DEF Labels
<1>3. SUFFICES Worn /\ \E label \in Away : Goto(t, label)
  BY <1>1, <1>2, DeadGoes
<1>4. CASE Claim(t)
  <2>1. job[t].token \in Tokens
    BY <1>1, <1>4 DEF Claim, Hand
  <2>2. ~Live(job[t].token)
    BY <2>1 DEF Dead, LiveTokens
  <2>. QED  BY <1>1, <1>4, <2>2, SameIsWorn DEF Claim
<1>5. CASE ReadSubject(t) \/ Mint(t) \/ Commit(t)
  BY <1>1, <1>5 DEF ReadSubject, Mint, Commit, Carries
<1>6. CASE Kill(t)
  BY <1>1, <1>6, RevokedIsWorn DEF Kill, Finish, Reasons
<1>7. CASE Breach(t)
  BY <1>1, <1>7, RevokedIsWorn DEF Breach, Reasons
<1>8. CASE Stamp(t)
  BY <1>1, <1>8, StampIsWorn DEF Stamp, Finish
<1>9. CASE RevokeFamily(t)
  BY <1>1, <1>9, RevokedIsWorn DEF RevokeFamily, Finish, Reasons
<1>10. CASE RevokeAll(t)
  BY <1>1, <1>10, RevokedIsWorn DEF RevokeAll, Finish, Reasons
<1>. QED  BY <1>4, <1>5, <1>6, <1>7, <1>8, <1>9, <1>10 DEF Step

LEMMA DeadNext == SessionInv /\ Dead /\ [Next]_vars => Dead'
<1>. SUFFICES ASSUME SessionInv, Dead, [Next]_vars PROVE Dead'
  OBVIOUS
<1>1. TypeOK
  BY Facts
<1>2. ASSUME NEW t \in Requests, NEW k \in Tokens,
             Refresh(t, k) \/ Logout(t, k)
      PROVE  Dead'
  <2>1. PICK label \in {"claim", "breach", "logout"} :
           Goto(t, label) /\ UNCHANGED table
    BY <1>2 DEF Refresh, Logout, Begin
  <2>2. label \in Labels /\ label \notin {"subject", "mint", "commit"}
    BY <2>1 DEF Labels
  <2>. QED  BY <1>1, <2>1, <2>2, SameIsWorn, DeadGoes
<1>3. ASSUME NEW t \in Requests, RequestFails(t) PROVE Dead'
  <2>1. Goto(t, "idle") /\ UNCHANGED table
    BY <1>3 DEF RequestFails, Finish
  <2>2. "idle" \in Labels
    BY DEF Labels
  <2>. QED  BY <1>1, <2>1, <2>2, SameIsWorn, DeadGoes
<1>4. ASSUME NEW t \in Requests, Suspend(t) PROVE Dead'
  <2>1. Goto(t, "revokeAll") /\ UNCHANGED table
    BY <1>4 DEF Suspend, Begin
  <2>2. "revokeAll" \in Labels
    BY DEF Labels
  <2>. QED  BY <1>1, <2>1, <2>2, SameIsWorn, DeadGoes
<1>5. ASSUME NEW k \in Tokens, Expire(k) PROVE Dead'
  BY <1>5, DeadWorld DEF Expire
<1>6. ASSUME NEW t \in Requests, Step(t) PROVE Dead'
  BY <1>6, DeadStep
<1>7. CASE Reinstate
  BY <1>7, DeadWorld DEF Reinstate
<1>8. CASE UNCHANGED vars
  BY <1>8, DeadWorld DEF vars
<1>. QED  BY <1>2, <1>3, <1>4, <1>5, <1>6, <1>7, <1>8 DEF Next

\* A session that has died stays dead: when no token is live and no refresh is
\* past its claim, no replay, late answer, reinstatement or crash of any number
\* of requests brings a token of the family back.
THEOREM DeathEndsIt == Spec => DeathIsFinal
<1>1. SessionInv /\ [Next]_vars => [Dead => Dead']_vars
  BY DeadNext
<1>. QED  BY <1>1, SessionInvHolds, PTL DEF Spec, DeathIsFinal
=============================================================================

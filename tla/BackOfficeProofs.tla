--------------------------- MODULE BackOfficeProofs ---------------------------
(***************************************************************************)
(* What the people behind the app are told: the theorems of Alerts, where  *)
(* the ops room hears of emergencies, and those of Reports, the figures    *)
(* and the statements.  The two specifications share no state.             *)
(*                                                                         *)
(* Alerts: for any number of SOS calls, verdicts, mails, targets, outages  *)
(* and dying workers the queue is honest.  The argument: requests change   *)
(* no job but those they add, which are fresh and whose incident is on     *)
(* record (InPlace); workers change no incident and keep every job's count *)
(* of attempts and deaths below its limits until it has failed (HasHope).  *)
(* And it keeps AlertContract: a worker's step is a telling, and what is   *)
(* added for a request that was not answered is owed for the first time.   *)
(*                                                                         *)
(* Reports: for any rides and movements of money, hours, page and zone.    *)
(* Entries have times of their own, so the place of an entry, counted from *)
(* the newest, is the number of later times, and grows with every booking: *)
(* an entry that was on a later page stays on one.                         *)
(***************************************************************************)
EXTENDS Alerts, Reports, FiniteSetTheorems, TLAPS

LEMMA JobNames ==
    /\ \A t \in Presses, e \in Webhooks : <<t, e>> \in Jobs
    /\ \A t \in Others, e \in Mails : <<t, e>> \in Jobs
    /\ \A j \in Jobs : j[2] \in Webhooks \cup Mails
    /\ Webhooks \cap Mails = {}
BY DEF Jobs, Alarms, Webhooks, Mails

LEMMA AttemptsBounded ==
    \A j \in Jobs : Attempts(j[2]) \in 1..5
BY DEF Attempts

LEMMA ReceiversKnown ==
    ASSUME TypeOK, NEW j \in Jobs
    PROVE  Reaches(j) \subseteq Targets \cup {SendGrid}
BY DEF TypeOK, Reaches

LEMMA WaitingFields ==
    /\ Waiting \in Job /\ Waiting.state = "waiting" /\ Waiting.attempts = 0
    /\ Waiting.stalls = 0 /\ Waiting.reached = {}
BY DEF Waiting, Unqueued, Job, JobState

\* What an invariant says of one job, apart from the record it is about.
JobOK(j) ==
    /\ job[j] \in Job /\ HasHope(j)
    /\ job[j].state = "completed" => job[j].reached = Reaches(j)
    /\ Reaches(j) = {} => job[j].attempts = 0
    /\ job[j].state = "failed" => job[j].attempts = Attempts(j[2]) \/ job[j].stalls = 2

JobTable == job = [j \in Jobs |-> job[j]]

LEMMA JobsOK ==
    ASSUME QueueInv PROVE JobTable /\ \A j \in Jobs : JobOK(j)
BY DEF QueueInv, TypeOK, JobTable, JobOK, DoneMeansAllHeard,
       NothingToTellIsNoFailure, GivenUpLate

-----------------------------------------------------------------------------
(* The workers                                                             *)

\* A worker's step changes one job, which was queued.
Worked(j, new) ==
    /\ job' = [job EXCEPT ![j] = new]
    /\ job[j].state # "none"
    /\ UNCHANGED <<config, incident, broadcast, request>>
    /\ outages' \in 0..MaxOutages /\ deaths' \in 0..MaxDeaths

\* If the new row of the job is in order, everything stays in order.
LEMMA JobMoves ==
    ASSUME QueueInv, NEW j \in Jobs, NEW new, Worked(j, new),
           JobOK(j)'
    PROVE  QueueInv'
<1>1. /\ TypeOK /\ JobTable /\ \A i \in Jobs : JobOK(i)
      /\ job' = [job EXCEPT ![j] = new] /\ job[j].state # "none"
      /\ UNCHANGED <<urls, mailOn, incident, broadcast, pc, call, draft, reread, reply>>
      /\ outages' \in 0..MaxOutages /\ deaths' \in 0..MaxDeaths
  BY JobsOK DEF Worked, config, request, QueueInv
<1>2. ASSUME NEW i \in Jobs PROVE JobOK(i)'
  <2>1. CASE i = j
    BY <2>1
  <2>2. CASE i # j
    BY <1>1, <2>2 DEF JobOK, HasHope, Reaches, JobTable
  <2>. QED  BY <2>1, <2>2
<1>3. job' \in [Jobs -> Job]
  <2>1. job' = [i \in Jobs |-> job'[i]]
    BY <1>1 DEF JobTable
  <2>. QED  BY <1>2, <2>1 DEF JobOK
<1>4. TypeOK'
  BY <1>1, <1>3 DEF TypeOK
<1>5. InPlace'
  BY <1>1 DEF QueueInv, InPlace
<1>6. RecordComesFirst'
  <2>1. \A i \in Jobs : job'[i].state # "none" => job[i].state # "none"
    BY <1>1 DEF JobTable
  <2>. QED  BY <1>1, <2>1 DEF QueueInv, RecordComesFirst, Saved
<1>. QED  BY <1>2, <1>4, <1>5, <1>6
          DEF QueueInv, JobOK, DoneMeansAllHeard, NothingToTellIsNoFailure, GivenUpLate

LEMMA WorkKeeps ==
    ASSUME QueueInv, NEW j \in Jobs, Work(j) \/ Die(j)
    PROVE  QueueInv'
<1>0. /\ TypeOK /\ JobTable /\ JobOK(j) /\ job[j] \in Job
      /\ outages \in 0..MaxOutages /\ deaths \in 0..MaxDeaths
      /\ Attempts(j[2]) \in 1..5
  BY JobsOK, AttemptsBounded DEF QueueInv, JobOK, TypeOK
<1>. DEFINE old == job[j]
<1>1. ASSUME NEW state \in JobState \ {"none", "completed", "failed"},
             old.state \notin {"none", "failed"}, Become(j, state),
             UNCHANGED <<config, incident, broadcast, request>>,
             outages' \in 0..MaxOutages, deaths' \in 0..MaxDeaths
      PROVE  QueueInv'
  <2>. DEFINE new == [old EXCEPT !.state = state]
  <2>1. Worked(j, new)
    BY <1>0, <1>1 DEF Become, Worked, JobTable
  <2>2. job'[j] = new /\ UNCHANGED <<urls, mailOn>>
    BY <1>0, <1>1 DEF Become, JobTable, config
  <2>3. /\ new \in Job /\ new.state = state /\ new.attempts = old.attempts
        /\ new.stalls = old.stalls /\ new.reached = old.reached
    BY <1>0, <1>1 DEF Job
  <2>4. JobOK(j)'
    BY <1>0, <1>1, <2>2, <2>3 DEF JobOK, HasHope, Reaches
  <2>. QED  BY <2>1, <2>4, JobMoves
<1>2. CASE Take(j)
  <2>1. Become(j, "active") /\ old.state = "waiting"
    BY <1>2 DEF Take
  <2>. QED  BY <1>0, <1>1, <1>2, <2>1 DEF Take, JobState
<1>3. CASE Ready(j)
  <2>1. Become(j, "waiting") /\ old.state = "delayed"
    BY <1>3 DEF Ready
  <2>. QED  BY <1>0, <1>1, <1>3, <2>1 DEF Ready, JobState
<1>4. CASE Recover(j)
  <2>. DEFINE state == IF old.stalls = 0 THEN "waiting" ELSE "failed"
              new == [old EXCEPT !.stalls = old.stalls + 1, !.state = state]
  <2>1. Worked(j, new) /\ old.state = "stalled"
    BY <1>0, <1>4 DEF Recover, Worked, JobTable
  <2>2. job'[j] = new /\ UNCHANGED <<urls, mailOn>>
    BY <1>0, <2>1 DEF Worked, JobTable, config
  <2>3. /\ old.stalls \in {0, 1} /\ old.attempts < Attempts(j[2])
        /\ old.stalls + 1 \in 0..2
        /\ state \in JobState
    BY <1>0, <2>1 DEF JobOK, HasHope, Job, JobState
  <2>4. state = "failed" => old.stalls = 1
    BY <2>3
  <2>. HIDE DEF state
  <2>5. /\ new.state = state
        /\ new.stalls = old.stalls + 1 /\ new.attempts = old.attempts
        /\ new.reached = old.reached
    BY <1>0 DEF Job
  <2>6. new \in Job
    BY <1>0, <2>3 DEF Job
  <2>7. JobOK(j)'
    <3>1. state = "failed" => new.stalls = 2
      BY <2>4, <2>5
    <3>2. state # "completed" /\ (state # "failed" => new.stalls < 2)
      BY <2>3, <2>5 DEF state
    <3>. HIDE DEF new
    <3>. QED  BY <1>0, <2>2, <2>3, <2>5, <2>6, <3>1, <3>2 DEF JobOK, HasHope, Reaches
  <2>. QED  BY <2>1, <2>7, JobMoves
<1>5. CASE Die(j)
  <2>1. PICK heard \in SUBSET Reaches(j) :
           /\ deaths < MaxDeaths /\ deaths' = deaths + 1 /\ UNCHANGED outages
           /\ job' = [job EXCEPT ![j].state = "stalled", ![j].reached = @ \cup heard]
           /\ old.state = "active"
           /\ UNCHANGED <<config, incident, broadcast, request>>
    BY <1>5 DEF Die
  <2>. DEFINE new == [old EXCEPT !.state = "stalled", !.reached = old.reached \cup heard]
  <2>2. Worked(j, new)
    <3>1. job' = [job EXCEPT ![j] = new]
      BY <1>0, <2>1 DEF JobTable
    <3>. HIDE DEF new
    <3>2. outages' \in 0..MaxOutages /\ deaths' \in 0..MaxDeaths
      BY <1>0, <2>1, AlertNames
    <3>. QED  BY <2>1, <3>1, <3>2 DEF Worked
  <2>3. job'[j] = new /\ UNCHANGED <<urls, mailOn>>
    BY <1>0, <2>2 DEF Worked, JobTable, config
  <2>4. /\ new.state = "stalled" /\ new.stalls = old.stalls
        /\ new.attempts = old.attempts /\ new.reached = old.reached \cup heard
        /\ new \in Job
    BY <1>0, ReceiversKnown DEF Job, JobState
  <2>5. JobOK(j)'
    <3>. HIDE DEF new
    <3>. QED  BY <1>0, <2>1, <2>3, <2>4 DEF JobOK, HasHope, Reaches
  <2>. QED  BY <2>2, <2>5, JobMoves
<1>6. CASE Process(j)
  <2>1. PICK heard \in SUBSET Reaches(j), ok \in SUBSET Reaches(j) :
           /\ ok \subseteq heard /\ old.state = "active"
           /\ \/ /\ ok = Reaches(j)
                 /\ job' = [job EXCEPT ![j].state = "completed",
                                       ![j].reached = @ \cup heard]
                 /\ UNCHANGED outages
              \/ /\ ok # Reaches(j)
                 /\ outages < MaxOutages
                 /\ outages' = outages + 1
                 /\ job' = [job EXCEPT ![j].reached = @ \cup heard,
                       ![j].attempts = @ + 1,
                       ![j].state = IF job[j].attempts + 1 < Attempts(j[2])
                                    THEN "delayed" ELSE "failed"]
           /\ UNCHANGED <<config, incident, broadcast, request, deaths>>
    BY <1>6 DEF Process
  <2>2. old.reached \subseteq Reaches(j) /\ old.attempts < Attempts(j[2])
        /\ old.stalls < 2
    BY <1>0, <2>1 DEF JobOK, HasHope
  <2>3. CASE ok = Reaches(j)
    <3>. DEFINE new == [old EXCEPT !.state = "completed",
                                   !.reached = old.reached \cup heard]
    <3>1. Worked(j, new)
      BY <1>0, <2>1, <2>3 DEF Worked, JobTable
    <3>2. job'[j] = new /\ UNCHANGED <<urls, mailOn>>
      BY <1>0, <3>1 DEF Worked, JobTable, config
    <3>3. /\ new.state = "completed" /\ new.stalls = old.stalls
          /\ new.attempts = old.attempts /\ new.reached = Reaches(j)
          /\ new \in Job
      <4>1. old.reached \cup heard = Reaches(j)
        BY <2>1, <2>2, <2>3
      <4>2. Reaches(j) \in SUBSET (Targets \cup {SendGrid})
        BY <1>0, ReceiversKnown
      <4>. QED  BY <1>0, <4>1, <4>2 DEF Job, JobState
    <3>4. JobOK(j)'
      <4>. HIDE DEF new
      <4>. QED  BY <1>0, <2>2, <3>2, <3>3 DEF JobOK, HasHope, Reaches
    <3>. QED  BY <3>1, <3>4, JobMoves
  <2>4. CASE ok # Reaches(j)
    <3>. DEFINE state == IF old.attempts + 1 < Attempts(j[2]) THEN "delayed" ELSE "failed"
                new == [old EXCEPT !.reached = old.reached \cup heard,
                                   !.attempts = old.attempts + 1,
                                   !.state = state]
    <3>1. Worked(j, new)
      <4>1. job' = [job EXCEPT ![j] = new]
        BY <1>0, <2>1, <2>4 DEF JobTable
      <4>. HIDE DEF new
      <4>2. outages' \in 0..MaxOutages /\ deaths' \in 0..MaxDeaths
        BY <1>0, <2>1, <2>4, AlertNames
      <4>. QED  BY <2>1, <4>1, <4>2 DEF Worked
    <3>2. job'[j] = new /\ UNCHANGED <<urls, mailOn>>
      BY <1>0, <3>1 DEF Worked, JobTable, config
    <3>3. /\ state \in JobState \ {"completed"}
          /\ old.attempts \in Nat /\ old.attempts + 1 \in 0..5
          /\ old.reached \cup heard \in SUBSET (Targets \cup {SendGrid})
          /\ old.reached \cup heard \subseteq Reaches(j)
      BY <1>0, <2>2, ReceiversKnown DEF JobState, Job
    <3>4. /\ old.attempts + 1 <= Attempts(j[2])
          /\ state = "failed" => old.attempts + 1 = Attempts(j[2])
          /\ state # "failed" => old.attempts + 1 < Attempts(j[2])
      BY <1>0, <2>2, <3>3
    <3>. HIDE DEF state
    <3>5. /\ new.state = state /\ new.stalls = old.stalls
          /\ new.attempts = old.attempts + 1 /\ new.reached = old.reached \cup heard
      BY <1>0 DEF Job
    <3>6. new \in Job
      BY <1>0, <3>3 DEF Job
    <3>7. Reaches(j) # {}
      BY <2>4
    <3>8. JobOK(j)'
      <4>. HIDE DEF new
      <4>. QED  BY <1>0, <2>2, <3>2, <3>3, <3>4, <3>5, <3>6, <3>7 DEF JobOK, HasHope, Reaches
    <3>. QED  BY <3>1, <3>8, JobMoves
  <2>. QED  BY <2>3, <2>4
<1>. QED  BY <1>2, <1>3, <1>4, <1>5, <1>6 DEF Work

-----------------------------------------------------------------------------
(* The requests                                                            *)

\* A request's step adds jobs that may be told, and takes back nothing that
\* is on record.
LEMMA RequestMoves ==
    ASSUME QueueInv, NEW js \in SUBSET Jobs,
           job' = [j \in Jobs |-> IF j \in js THEN Waiting ELSE job[j]],
           \A j \in js : j[2] \in Webhooks => j[1] \in broadcast,
           \A t \in Presses : Saved(t) => Saved(t)',
           broadcast \subseteq broadcast', \A t \in broadcast' : Saved(t)',
           TypeOK', InPlace', UNCHANGED config
    PROVE  QueueInv'
<1>1. JobTable /\ (\A j \in Jobs : JobOK(j)) /\ UNCHANGED <<urls, mailOn>>
      /\ RecordComesFirst /\ broadcast' \subseteq Presses
  BY JobsOK DEF config, QueueInv, TypeOK
<1>2. ASSUME NEW j \in Jobs PROVE JobOK(j)'
  <2>1. CASE j \in js
    <3>1. job'[j] = Waiting
      BY <2>1
    <3>. QED  BY <1>1, <3>1, WaitingFields, AttemptsBounded DEF JobOK, HasHope, Reaches
  <2>2. CASE j \notin js
    <3>1. job'[j] = job[j]
      BY <2>2
    <3>. QED  BY <1>1, <3>1 DEF JobOK, HasHope, Reaches
  <2>. QED  BY <2>1, <2>2
<1>3. RecordComesFirst'
  <2>1. ASSUME NEW j \in Jobs, j[2] \in Webhooks, job'[j].state # "none"
        PROVE  Saved(j[1])' /\ j[1] \in broadcast'
    <3>1. j[1] \in broadcast
      BY <1>1, <2>1 DEF RecordComesFirst
    <3>. QED  BY <3>1
  <2>. QED  BY <2>1 DEF RecordComesFirst
<1>. QED  BY <1>2, <1>3
          DEF QueueInv, JobOK, DoneMeansAllHeard, NothingToTellIsNoFailure, GivenUpLate

\* The same of a step that leaves the queue alone.
LEMMA DeskMoves ==
    ASSUME QueueInv, UNCHANGED <<config, queue>>,
           \A t \in Presses : Saved(t) => Saved(t)',
           broadcast \subseteq broadcast', \A t \in broadcast' : Saved(t)',
           TypeOK', InPlace'
    PROVE  QueueInv'
<1>. DEFINE js == {}
<1>1. job' = [j \in Jobs |-> IF j \in js THEN Waiting ELSE job[j]]
  BY JobsOK DEF queue, JobTable
<1>2. js \in SUBSET Jobs /\ \A j \in js : j[2] \in Webhooks => j[1] \in broadcast
  OBVIOUS
<1>. HIDE DEF js
<1>. QED  BY <1>1, <1>2, RequestMoves

LEMMA AnswerMoves ==
    ASSUME TypeOK, InPlace, NEW t \in Requests, NEW what, Answer(t, what),
           what \in {"none", "raised", "mailed", "closed", "refused", "error"},
           broadcast \subseteq broadcast'
    PROVE  /\ pc' \in [Requests -> {"idle", "locate", "save", "dispatch", "load", "reread",
                                    "update", "done"}]
           /\ call' \in [Requests -> Call]
           /\ draft' \in [Requests -> IncidentRow] /\ reread' \in [Requests -> IncidentRow]
           /\ reply' \in [Requests -> {"none", "raised", "mailed", "closed", "refused", "error"}]
           /\ InPlace'
<1>1. NoCall \in Call /\ NoIncident \in IncidentRow
  BY DEF NoCall, Call, NoIncident, IncidentRow
<1>2. InPlace'
  BY DEF TypeOK, InPlace, Answer, Goto
<1>. QED  BY <1>1, <1>2 DEF TypeOK, Answer, Goto

LEMMA NewIncidentSaves ==
    NewIncident \in IncidentRow /\ NewIncident # NoIncident
BY DEF NewIncident, NoIncident, IncidentRow, EmergencyStatus

\* Jobs are added by a request that has nothing left to do.
LEMMA AddKeeps ==
    ASSUME QueueInv, NEW t \in Requests, NEW js \in SUBSET Jobs,
           \A j \in js : j[2] \in Webhooks => j[1] \in broadcast,
           NEW done \in {"raised", "mailed"}, Add(t, js, done, "error"),
           UNCHANGED <<config, incident, broadcast>>
    PROVE  QueueInv'
<1>1. PICK added \in SUBSET js :
           /\ job' = [j \in Jobs |-> IF j \in added THEN Waiting ELSE job[j]]
           /\ Answer(t, done) \/ Answer(t, "error")
  BY DEF Add
<1>2. TypeOK /\ InPlace /\ RecordComesFirst /\ UNCHANGED <<outages, deaths, urls, mailOn>>
  BY DEF QueueInv, Add, config
<1>3. job' \in [Jobs -> Job]
  BY <1>1, <1>2, WaitingFields DEF TypeOK
<1>4. TypeOK' /\ InPlace'
  <2>1. PICK what \in {done, "error"} : Answer(t, what)
    BY <1>1
  <2>. QED  BY <1>2, <1>3, <2>1, AnswerMoves DEF TypeOK
<1>5. \A p \in broadcast' : Saved(p)'
  BY <1>2 DEF RecordComesFirst, Saved
<1>. QED  BY <1>1, <1>4, <1>5, RequestMoves DEF Saved

LEMMA TriggerKeeps ==
    ASSUME QueueInv, NEW t \in Presses, Trigger(t)
    PROVE  QueueInv'
<1>1. /\ TypeOK /\ InPlace /\ RecordComesFirst
      /\ UNCHANGED <<config, incident, broadcast, queue>>
      /\ t \in Requests
  BY DEF QueueInv, Trigger, Requests
<1>2. CASE Answer(t, "refused")
  <2>1. TypeOK' /\ InPlace'
    BY <1>1, <1>2, AnswerMoves DEF TypeOK, config, queue
  <2>. QED  BY <1>1, <2>1, DeskMoves DEF RecordComesFirst, Saved
<1>3. CASE Goto(t, "locate") /\ UNCHANGED <<call, draft, reread, reply>>
  <2>1. TypeOK' /\ InPlace'
    BY <1>1, <1>3 DEF Goto, TypeOK, InPlace, config, queue
  <2>. QED  BY <1>1, <2>1, DeskMoves DEF RecordComesFirst, Saved
<1>. QED  BY <1>2, <1>3 DEF Trigger

LEMMA ResolveKeeps ==
    ASSUME QueueInv, NEW t \in Others, Resolve(t)
    PROVE  QueueInv'
<1>1. PICK i \in Presses, verdict \in EmergencyStatus :
          /\ Ask(t, [on |-> {i}, status |-> verdict], "load")
          /\ UNCHANGED <<config, incident, broadcast, queue, draft, reread, reply>>
  BY DEF Resolve
<1>2. TypeOK /\ InPlace /\ RecordComesFirst /\ t \in Requests
  BY DEF QueueInv, Requests
<1>3. [on |-> {i}, status |-> verdict] \in Call
  BY DEF Call
<1>4. TypeOK'
  BY <1>1, <1>2, <1>3 DEF Ask, Goto, TypeOK, config, queue
<1>5. InPlace'
  BY <1>1, <1>2, <1>3 DEF Ask, Goto, TypeOK, InPlace
<1>. QED  BY <1>1, <1>2, <1>4, <1>5, DeskMoves DEF RecordComesFirst, Saved

LEMMA HandleKeeps ==
    ASSUME QueueInv, NEW t \in Requests, Handle(t)
    PROVE  QueueInv'
<1>1. TypeOK /\ InPlace /\ RecordComesFirst
  BY DEF QueueInv
<1>2. CASE ResolveLocation(t)
  <2>1. /\ pc[t] = "locate" /\ Goto(t, "save")
        /\ UNCHANGED <<config, incident, broadcast, queue, call, draft, reread, reply>>
    BY <1>2 DEF ResolveLocation
  <2>2. TypeOK' /\ InPlace'
    BY <1>1, <2>1 DEF Goto, TypeOK, InPlace, config, queue
  <2>. QED  BY <1>1, <2>1, <2>2, DeskMoves DEF RecordComesFirst, Saved
<1>3. CASE SaveIncident(t) /\ Goto(t, "dispatch")
  <2>1. /\ incident' = [incident EXCEPT ![t] = NewIncident]
        /\ broadcast' = broadcast \cup {t} /\ Goto(t, "dispatch")
        /\ UNCHANGED <<call, draft, reread, reply, config, queue>>
        /\ t \in Presses
    BY <1>1, <1>3 DEF SaveIncident, InPlace, Answer, Goto, TypeOK
  <2>2. TypeOK'
    BY <1>1, <2>1, NewIncidentSaves DEF Goto, TypeOK, config, queue
  <2>3. InPlace'
    BY <1>1, <2>1 DEF Goto, TypeOK, InPlace
  <2>4. \A p \in Presses : Saved(p) \/ p = t => Saved(p)'
    BY <1>1, <2>1, NewIncidentSaves DEF Saved, TypeOK
  <2>. QED  BY <1>1, <2>1, <2>2, <2>3, <2>4, DeskMoves DEF RecordComesFirst, TypeOK
<1>4. CASE SaveIncident(t) /\ Answer(t, "error")
  <2>1. /\ incident' \in {incident, [incident EXCEPT ![t] = NewIncident]}
        /\ UNCHANGED <<broadcast, config, queue>>
        /\ t \in Presses
    BY <1>1, <1>4 DEF SaveIncident, InPlace, Answer, Goto, TypeOK
  <2>2. TypeOK' /\ InPlace'
    <3>1. incident' \in [Presses -> IncidentRow]
      BY <1>1, <2>1, NewIncidentSaves DEF TypeOK
    <3>. QED  BY <1>1, <1>4, <2>1, <3>1, AnswerMoves DEF TypeOK, config, queue
  <2>3. \A p \in Presses : Saved(p) => Saved(p)'
    BY <1>1, <2>1, NewIncidentSaves DEF Saved, TypeOK
  <2>. QED  BY <1>1, <2>1, <2>2, <2>3, DeskMoves DEF RecordComesFirst, TypeOK
<1>5. CASE Dispatch(t)
  <2>1. pc[t] = "dispatch" /\ Add(t, {t} \X Webhooks, "raised", "error")
        /\ UNCHANGED <<config, incident, broadcast>>
    BY <1>5 DEF Dispatch, dispatchEmergency
  <2>2. t \in Presses /\ t \in broadcast
    BY <1>1, <2>1 DEF InPlace
  <2>3. {t} \X Webhooks \in SUBSET Jobs
    BY <2>2 DEF Jobs, Alarms
  <2>4. \A j \in {t} \X Webhooks : j[2] \in Webhooks => j[1] \in broadcast
    BY <2>2
  <2>. QED  BY <2>1, <2>3, <2>4, AddKeeps
<1>6. CASE LoadIncident(t)
  <2>1. /\ draft' = [draft EXCEPT ![t] = [status |-> call[t].status, closed |-> TRUE]]
        /\ Goto(t, "reread") /\ pc[t] = "load"
        /\ UNCHANGED <<config, incident, broadcast, queue, call, reread, reply>>
    BY <1>6 DEF LoadIncident
  <2>2. [status |-> call[t].status, closed |-> TRUE] \in IncidentRow
    BY <1>1 DEF TypeOK, Call, IncidentRow
  <2>3. TypeOK'
    BY <1>1, <2>1, <2>2 DEF Goto, TypeOK, config, queue
  <2>4. InPlace'
    BY <1>1, <2>1 DEF Goto, TypeOK, InPlace
  <2>. QED  BY <1>1, <2>1, <2>3, <2>4, DeskMoves DEF RecordComesFirst, Saved
<1>7. ASSUME pc[t] \in {"reread", "update"}
      PROVE  Subject(t) \in Presses /\ incident[Subject(t)] \in IncidentRow
  <2>1. call[t].on # {} /\ call[t].on \subseteq Presses
    BY <1>1, <1>7 DEF InPlace, TypeOK, Call
  <2>2. Subject(t) \in call[t].on
    BY <2>1 DEF Subject
  <2>. QED  BY <1>1, <2>1, <2>2 DEF TypeOK
<1>8. CASE RereadIncident(t)
  <2>1. /\ reread' = [reread EXCEPT ![t] = incident[Subject(t)]]
        /\ Goto(t, "update") /\ pc[t] = "reread"
        /\ UNCHANGED <<config, incident, broadcast, queue, call, draft, reply>>
    BY <1>8 DEF RereadIncident
  <2>2. TypeOK'
    BY <1>1, <1>7, <2>1 DEF Goto, TypeOK, config, queue
  <2>3. InPlace'
    BY <1>1, <2>1 DEF Goto, TypeOK, InPlace
  <2>. QED  BY <1>1, <2>1, <2>2, <2>3, DeskMoves DEF RecordComesFirst, Saved
<1>9. CASE UpdateIncident(t)
  <2>. DEFINE i == Subject(t)
              row == [status |-> Column(draft[t].status, reread[t].status,
                                        incident[i].status),
                      closed |-> TRUE]
  <2>1. /\ incident' = [incident EXCEPT ![i] = row]
        /\ Answer(t, "closed") /\ pc[t] = "update"
        /\ UNCHANGED <<config, broadcast, queue>>
    BY <1>9 DEF UpdateIncident
  <2>2. row \in IncidentRow /\ row # NoIncident
    <3>1. incident[i].status \in EmergencyStatus \cup {"none"}
      BY <1>7, <2>1 DEF IncidentRow
    <3>2. draft[t].status \in EmergencyStatus \cup {"none"}
      BY <1>1 DEF TypeOK, IncidentRow
    <3>3. row.closed = TRUE /\ NoIncident.closed = FALSE
      BY DEF NoIncident
    <3>. QED  BY <3>1, <3>2, <3>3 DEF Column, IncidentRow
  <2>3. incident' \in [Presses -> IncidentRow]
    BY <1>1, <2>1, <2>2 DEF TypeOK
  <2>4. \A p \in Presses : Saved(p) => Saved(p)'
    BY <1>1, <2>1, <2>2 DEF Saved, TypeOK
  <2>5. TypeOK' /\ InPlace'
    BY <1>1, <2>1, <2>3, AnswerMoves DEF TypeOK, config, queue
  <2>. QED  BY <1>1, <2>1, <2>4, <2>5, DeskMoves DEF RecordComesFirst, TypeOK
<1>. QED  BY <1>2, <1>3, <1>4, <1>5, <1>6, <1>8, <1>9 DEF Handle, SaveIncident

LEMMA SendEmailKeeps ==
    ASSUME QueueInv, NEW t \in Others, SendEmail(t)
    PROVE  QueueInv'
<1>1. PICK name \in Mails :
          /\ Add(t, {<<t, name>>}, "mailed", "error")
          /\ UNCHANGED <<config, incident, broadcast>>
  BY DEF SendEmail
<1>2. t \in Requests /\ {<<t, name>>} \in SUBSET Jobs
  BY JobNames DEF Requests
<1>3. \A j \in {<<t, name>>} : j[2] \notin Webhooks
  BY JobNames
<1>. QED  BY <1>1, <1>2, <1>3, AddKeeps

-----------------------------------------------------------------------------
(* The theorems                                                            *)

LEMMA QueueInit == Init => QueueInv
<1>. SUFFICES ASSUME Init PROVE QueueInv
  OBVIOUS
<1>1. Unqueued \in Job /\ NoCall \in Call /\ NoIncident \in IncidentRow
      /\ Unqueued.state = "none" /\ Unqueued.attempts = 0 /\ Unqueued.stalls = 0
      /\ Unqueued.reached = {}
  BY DEF Unqueued, Job, JobState, NoCall, Call, NoIncident, IncidentRow
<1>2. TypeOK
  BY <1>1, AlertNames DEF Init, TypeOK
<1>3. InPlace
  BY DEF Init, InPlace
<1>4. \A j \in Jobs : job[j] = Unqueued
  BY DEF Init
<1>5. RecordComesFirst
  BY <1>1, <1>4 DEF Init, RecordComesFirst
<1>. QED  BY <1>1, <1>2, <1>3, <1>4, <1>5, AttemptsBounded
          DEF QueueInv, HasHope, DoneMeansAllHeard, NothingToTellIsNoFailure, GivenUpLate

LEMMA QueueStep == QueueInv /\ [Next]_vars => QueueInv'
<1>. SUFFICES ASSUME QueueInv, [Next]_vars PROVE QueueInv'
  OBVIOUS
<1>1. CASE UNCHANGED vars
  BY <1>1 DEF vars, config, queue, request, QueueInv, TypeOK, InPlace, HasHope, Reaches,
              RecordComesFirst, Saved, DoneMeansAllHeard, NothingToTellIsNoFailure,
              GivenUpLate
<1>2. ASSUME NEW t \in Presses, Trigger(t) PROVE QueueInv'
  BY <1>2, TriggerKeeps
<1>3. ASSUME NEW t \in Others, Resolve(t) \/ SendEmail(t) PROVE QueueInv'
  BY <1>3, ResolveKeeps, SendEmailKeeps
<1>4. ASSUME NEW t \in Requests, Handle(t) PROVE QueueInv'
  BY <1>4, HandleKeeps
<1>5. ASSUME NEW j \in Jobs, Work(j) \/ Die(j) PROVE QueueInv'
  BY <1>5, WorkKeeps
<1>. QED  BY <1>1, <1>2, <1>3, <1>4, <1>5 DEF Next

\* The inductive invariant of the queue and of the requests that fill it.
THEOREM QueueInvHolds == Spec => []QueueInv
BY QueueInit, QueueStep, PTL DEF Spec

\* No partner and no ops room hears of an SOS that is not on record, a job that
\* counts as done was heard by every receiver, and a job is given up only after
\* its last attempt or a second dead worker, whatever fails in between: the
\* order of EmergencyService.trigger and the options of WebhookService's jobs.
THEOREM HonestQueue == Spec => []QueueIsHonest
<1>1. QueueInv => QueueIsHonest
  BY DEF QueueInv, QueueIsHonest
<1>. QED  BY <1>1, QueueInvHolds, PTL

-----------------------------------------------------------------------------
(* Alerts implements AlertContract                                         *)

\* What the contract sees of the queue.
PhaseNow == [j \in Jobs |-> Phase(job[j].state)]
ToldNow == [j \in Jobs |-> job[j].reached]
Recorded == {t \in Presses : Saved(t)}

LEMMA ContractVars ==
    ASSUME UNCHANGED config, PhaseNow' = PhaseNow, ToldNow' = ToldNow,
           Recorded' = Recorded, broadcast' = broadcast
    PROVE  UNCHANGED Contract!vars
<1>1. [j \in Jobs |-> Reaches(j)]' = [j \in Jobs |-> Reaches(j)]
  BY DEF config, Reaches
<1>. QED  BY <1>1 DEF Contract!vars, PhaseNow, ToldNow, Recorded

\* A request that is not over has no job; a step that leaves the queue alone
\* and answers at most keeps this.
LEMMA StillUnanswered ==
    ASSUME UntilAnswered, job' = job,
           \A t \in Requests : pc[t] = "done" => pc'[t] = "done"
    PROVE  UntilAnswered'
BY DEF UntilAnswered

\* A worker's step is a telling, of nobody maybe.
LEMMA WorkTells ==
    ASSUME QueueInv, UntilAnswered, NEW j \in Jobs, NEW new, Worked(j, new),
           Phase(job[j].state) = "owed",
           NEW heard \in SUBSET Reaches(j), new.reached = job[j].reached \cup heard,
           Phase(new.state) \in {"owed", "delivered", "givenUp"},
           Phase(new.state) = "delivered" => new.reached = Reaches(j)
    PROVE  Contract!Next /\ UntilAnswered'
<1>1. /\ JobTable /\ job' = [job EXCEPT ![j] = new] /\ UNCHANGED <<urls, mailOn, incident, broadcast>>
  BY JobsOK DEF Worked, config
<1>2. /\ PhaseNow' = [PhaseNow EXCEPT ![j] = Phase(new.state)]
      /\ ToldNow' = [ToldNow EXCEPT ![j] = ToldNow[j] \cup heard]
      /\ ToldNow'[j] = new.reached
  BY <1>1 DEF PhaseNow, ToldNow, JobTable
<1>3. /\ [i \in Jobs |-> Reaches(i)]' = [i \in Jobs |-> Reaches(i)]
      /\ [i \in Jobs |-> Reaches(i)][j] = Reaches(j)
  BY <1>1 DEF Reaches
<1>4. Recorded' = Recorded
  BY <1>1 DEF Recorded, Saved
<1>5. PhaseNow[j] = "owed"
  BY DEF PhaseNow
<1>6. Contract!Tell(j, heard, Phase(new.state))
  BY <1>1, <1>2, <1>3, <1>4, <1>5 DEF Contract!Tell, PhaseNow, ToldNow, Recorded
<1>7. UntilAnswered'
  <2>1. job[j] # Unqueued /\ pc' = pc
    BY DEF Worked, Unqueued, request
  <2>. QED  BY <1>1, <2>1 DEF UntilAnswered, JobTable
<1>. QED  BY <1>3, <1>6, <1>7 DEF Contract!Next

LEMMA Phases ==
    /\ \A s \in {"waiting", "active", "delayed", "stalled"} : Phase(s) = "owed"
    /\ Phase("none") = "none" /\ Phase("completed") = "delivered" /\ Phase("failed") = "givenUp"
BY DEF Phase

LEMMA WorkIsTelling ==
    ASSUME QueueInv, UntilAnswered, NEW j \in Jobs, Work(j) \/ Die(j)
    PROVE  Contract!Next /\ UntilAnswered'
<1>0. /\ JobTable /\ job[j] \in Job /\ job[j].reached \subseteq Reaches(j)
      /\ outages \in 0..MaxOutages /\ deaths \in 0..MaxDeaths
  BY JobsOK DEF QueueInv, TypeOK, JobOK, HasHope
<1>. DEFINE old == job[j]
\* A step from one queued state to another, in which nobody hears.
<1>1. ASSUME NEW state \in {"waiting", "active"}, Become(j, state),
             old.state \in {"waiting", "delayed"},
             UNCHANGED <<config, incident, broadcast, request, outages, deaths>>
      PROVE  Contract!Next /\ UntilAnswered'
  <2>. DEFINE new == [old EXCEPT !.state = state]
  <2>1. Worked(j, new)
    BY <1>0, <1>1 DEF Become, Worked, JobTable
  <2>2. new.state = state /\ new.reached = old.reached \cup {} /\ {} \in SUBSET Reaches(j)
    BY <1>0 DEF Job
  <2>3. Phase(old.state) = "owed" /\ Phase(new.state) = "owed"
    BY <1>1, <2>2, Phases
  <2>. HIDE DEF new, old
  <2>. QED  BY <2>1, <2>2, <2>3, WorkTells DEF old
<1>2. CASE Take(j)
  BY <1>1, <1>2 DEF Take
<1>3. CASE Ready(j)
  BY <1>1, <1>3 DEF Ready
<1>4. CASE Recover(j)
  <2>. DEFINE state == IF old.stalls = 0 THEN "waiting" ELSE "failed"
              new == [old EXCEPT !.stalls = old.stalls + 1, !.state = state]
  <2>1. Worked(j, new) /\ old.state = "stalled"
    BY <1>0, <1>4 DEF Recover, Worked, JobTable
  <2>2. new.state \in {"waiting", "failed"} /\ new.reached = old.reached \cup {}
    BY <1>0 DEF Job
  <2>3. /\ Phase(old.state) = "owed" /\ Phase(new.state) \in {"owed", "givenUp"}
        /\ {} \in SUBSET Reaches(j)
    BY <2>1, <2>2, Phases
  <2>. HIDE DEF new, old
  <2>. QED  BY <2>1, <2>2, <2>3, WorkTells DEF old
<1>5. CASE Die(j)
  <2>1. PICK heard \in SUBSET Reaches(j) :
           /\ old.state = "active" /\ deaths < MaxDeaths /\ deaths' = deaths + 1
           /\ job' = [job EXCEPT ![j].state = "stalled", ![j].reached = @ \cup heard]
           /\ UNCHANGED <<config, incident, broadcast, request, outages>>
    BY <1>5 DEF Die
  <2>. DEFINE new == [old EXCEPT !.state = "stalled", !.reached = old.reached \cup heard]
  <2>2. job' = [job EXCEPT ![j] = new]
    BY <1>0, <2>1 DEF JobTable
  <2>3. deaths' \in 0..MaxDeaths
    BY <1>0, <2>1, AlertNames DEF AlertNames
  <2>4. Worked(j, new)
    BY <1>0, <2>1, <2>2, <2>3 DEF Worked
  <2>5. new.state = "stalled" /\ new.reached = old.reached \cup heard
    BY <1>0 DEF Job
  <2>. HIDE DEF new
  <2>. QED  BY <2>1, <2>4, <2>5, WorkTells, Phases
<1>6. CASE Process(j)
  <2>1. PICK heard \in SUBSET Reaches(j) : \E ok \in SUBSET heard :
           /\ old.state = "active"
           /\ \/ /\ ok = Reaches(j)
                 /\ job' = [job EXCEPT ![j].state = "completed", ![j].reached = @ \cup heard]
                 /\ UNCHANGED outages
              \/ /\ ok # Reaches(j)
                 /\ outages < MaxOutages
                 /\ outages' = outages + 1
                 /\ job' = [job EXCEPT ![j].reached = @ \cup heard,
                       ![j].attempts = @ + 1,
                       ![j].state = IF old.attempts + 1 < Attempts(j[2])
                                    THEN "delayed" ELSE "failed"]
           /\ UNCHANGED <<config, incident, broadcast, request, deaths>>
    BY <1>6 DEF Process
  <2>2. PICK ok \in SUBSET heard :
           /\ old.state = "active"
           /\ \/ /\ ok = Reaches(j)
                 /\ job' = [job EXCEPT ![j].state = "completed", ![j].reached = @ \cup heard]
                 /\ UNCHANGED outages
              \/ /\ ok # Reaches(j)
                 /\ outages < MaxOutages
                 /\ outages' = outages + 1
                 /\ job' = [job EXCEPT ![j].reached = @ \cup heard,
                       ![j].attempts = @ + 1,
                       ![j].state = IF old.attempts + 1 < Attempts(j[2])
                                    THEN "delayed" ELSE "failed"]
           /\ UNCHANGED <<config, incident, broadcast, request, deaths>>
    BY <2>1
  <2>3. CASE ok = Reaches(j)
    <3>. DEFINE new == [old EXCEPT !.state = "completed", !.reached = old.reached \cup heard]
    <3>1. job' = [job EXCEPT ![j] = new] /\ UNCHANGED outages
      BY <1>0, <2>2, <2>3 DEF JobTable
    <3>2. Worked(j, new)
      BY <1>0, <2>2, <3>1 DEF Worked
    <3>3. new.state = "completed" /\ new.reached = old.reached \cup heard
      BY <1>0 DEF Job
    <3>4. new.reached = Reaches(j)
      BY <1>0, <2>2, <2>3, <3>3
    <3>. HIDE DEF new
    <3>. QED  BY <2>2, <3>2, <3>3, <3>4, WorkTells, Phases
  <2>4. CASE ok # Reaches(j)
    <3>. DEFINE state == IF old.attempts + 1 < Attempts(j[2]) THEN "delayed" ELSE "failed"
                new == [old EXCEPT !.reached = old.reached \cup heard,
                                   !.attempts = old.attempts + 1, !.state = state]
    <3>1. job' = [job EXCEPT ![j] = new] /\ outages' = outages + 1 /\ outages < MaxOutages
      BY <1>0, <2>2, <2>4 DEF JobTable
    <3>2. outages' \in 0..MaxOutages
      BY <1>0, <3>1, AlertNames DEF AlertNames
    <3>3. Worked(j, new)
      BY <1>0, <2>2, <3>1, <3>2 DEF Worked
    <3>4. new.state \in {"delayed", "failed"} /\ new.reached = old.reached \cup heard
      BY <1>0 DEF Job
    <3>. HIDE DEF new
    <3>. QED  BY <2>2, <3>3, <3>4, WorkTells, Phases
  <2>. QED  BY <2>3, <2>4
<1>. QED  BY <1>2, <1>3, <1>4, <1>5, <1>6 DEF Work

\* Jobs are added for a request that had none: what they promise is new.
LEMMA AddPromises ==
    ASSUME QueueInv, UntilAnswered, NEW t \in Requests, pc[t] # "done",
           NEW js \in SUBSET {j \in Jobs : j[1] = t}, NEW done, Add(t, js, done, "error"),
           \A j \in js \cap Alarms : t \in broadcast,
           UNCHANGED <<config, incident, broadcast>>
    PROVE  Contract!Next /\ UntilAnswered'
<1>1. PICK added \in SUBSET js :
           /\ job' = [j \in Jobs |-> IF j \in added THEN Waiting ELSE job[j]]
           /\ pc' = [pc EXCEPT ![t] = "done"]
  BY DEF Add, Answer, Goto
<1>2. /\ JobTable /\ pc \in [Requests -> {"idle", "locate", "save", "dispatch", "load",
                                          "reread", "update", "done"}]
      /\ added \in SUBSET Jobs /\ (\A j \in added : j[1] = t)
      /\ UNCHANGED <<urls, mailOn, incident, broadcast>>
  BY JobsOK DEF QueueInv, TypeOK, config
<1>3. \A j \in added : job[j] = Unqueued /\ Unqueued.state = "none" /\ Unqueued.reached = {}
  BY <1>2 DEF UntilAnswered, Unqueued
<1>4. /\ PhaseNow' = [j \in Jobs |-> IF j \in added THEN "owed" ELSE PhaseNow[j]]
      /\ \A j \in added : PhaseNow[j] = "none"
  BY <1>1, <1>2, <1>3, WaitingFields, Phases DEF PhaseNow
<1>5. ToldNow' = ToldNow
  BY <1>1, <1>2, <1>3, WaitingFields DEF ToldNow
<1>6. Recorded' = Recorded
  BY <1>2 DEF Recorded, Saved
<1>7. [i \in Jobs |-> Reaches(i)]' = [i \in Jobs |-> Reaches(i)]
  BY <1>2 DEF Reaches
<1>8. \A j \in added \cap Alarms : [m \in Alarms |-> m[1]][j] \in broadcast
  BY <1>2
<1>9. Contract!Promise(added)
  BY <1>2, <1>4, <1>5, <1>6, <1>7, <1>8 DEF Contract!Promise, PhaseNow, ToldNow, Recorded
<1>10. UntilAnswered'
  <2>1. SUFFICES ASSUME NEW u \in Requests, pc'[u] # "done", NEW j \in Jobs, j[1] = u
                 PROVE  job'[j] = Unqueued
    BY DEF UntilAnswered
  <2>2. u # t /\ pc[u] # "done"
    BY <1>1, <1>2, <2>1
  <2>. QED  BY <1>1, <1>2, <2>1, <2>2 DEF UntilAnswered
<1>. QED  BY <1>2, <1>9, <1>10 DEF Contract!Next

\* The other steps of a request change no job, and put an incident on record
\* or nothing.
LEMMA DeskRecords ==
    ASSUME TypeOK, NEW i \in Presses, UNCHANGED <<config, job>>,
           Recorded' \in {Recorded, Recorded \cup {i}},
           broadcast' \in {broadcast, broadcast \cup {i}},
           broadcast' # broadcast => Recorded' = Recorded \cup {i}
    PROVE  [Contract!Next]_(Contract!vars)
<1>1. UNCHANGED <<PhaseNow, ToldNow>>
  BY DEF PhaseNow, ToldNow
<1>2. CASE Recorded' = Recorded /\ broadcast' = broadcast
  BY <1>1, <1>2, ContractVars
<1>3. CASE Recorded' = Recorded \cup {i}
  <2>1. [j \in Jobs |-> Reaches(j)]' = [j \in Jobs |-> Reaches(j)]
    BY DEF config, Reaches
  <2>2. Contract!Record(i)
    BY <1>1, <1>3, <2>1 DEF Contract!Record, PhaseNow, ToldNow, Recorded
  <2>. QED  BY <2>2 DEF Contract!Next
<1>. QED  BY <1>2, <1>3

\* A request that is over does not move.
LEMMA NotOver ==
    ASSUME QueueInv, NEW t \in Requests, pc[t] # "done", NEW w, pc' = [pc EXCEPT ![t] = w],
           UntilAnswered, job' = job
    PROVE  UntilAnswered'
<1>1. \A u \in Requests : pc[u] = "done" => pc'[u] = "done"
  BY DEF QueueInv, TypeOK
<1>. QED  BY <1>1, StillUnanswered

\* Asking, looking up and reading tell nobody anything.
LEMMA DeskStutters ==
    ASSUME UNCHANGED <<config, incident, broadcast, job>>
    PROVE  UNCHANGED Contract!vars
BY ContractVars DEF PhaseNow, ToldNow, Recorded, Saved

LEMMA HandleRefines ==
    ASSUME QueueInv, UntilAnswered, NEW t \in Requests, Handle(t)
    PROVE  [Contract!Next]_(Contract!vars) /\ UntilAnswered'
<1>0. TypeOK /\ InPlace /\ JobTable
  BY JobsOK DEF QueueInv
<1>1. CASE ResolveLocation(t) \/ LoadIncident(t) \/ RereadIncident(t)
  <2>1. /\ UNCHANGED <<config, incident, broadcast, job>> /\ pc[t] # "done"
        /\ \E w : pc' = [pc EXCEPT ![t] = w]
    BY <1>1 DEF ResolveLocation, LoadIncident, RereadIncident, Goto, queue
  <2>. QED  BY <2>1, DeskStutters, NotOver
<1>2. CASE SaveIncident(t)
  <2>1. /\ t \in Presses /\ pc[t] # "done" /\ UNCHANGED <<config, job>>
        /\ \E w : pc' = [pc EXCEPT ![t] = w]
        /\ incident' \in {incident, [incident EXCEPT ![t] = NewIncident]}
        /\ broadcast' \in {broadcast, broadcast \cup {t}}
        /\ broadcast' # broadcast => incident' = [incident EXCEPT ![t] = NewIncident]
    BY <1>0, <1>2 DEF SaveIncident, InPlace, Answer, Goto, queue
  <2>2. incident' = [incident EXCEPT ![t] = NewIncident] => Recorded' = Recorded \cup {t}
    BY <1>0, <2>1, NewIncidentSaves DEF Recorded, Saved, TypeOK
  <2>3. incident' = incident => Recorded' = Recorded
    BY DEF Recorded, Saved
  <2>. QED  BY <1>0, <2>1, <2>2, <2>3, DeskRecords, NotOver
<1>3. CASE Dispatch(t)
  <2>. DEFINE js == {t} \X Webhooks
  <2>1. /\ t \in Presses /\ t \in broadcast /\ pc[t] # "done"
        /\ Add(t, js, "raised", "error") /\ UNCHANGED <<config, incident, broadcast>>
    BY <1>0, <1>3 DEF Dispatch, dispatchEmergency, InPlace
  <2>2. js \in SUBSET {j \in Jobs : j[1] = t}
    BY <2>1 DEF Jobs, Alarms
  <2>. HIDE DEF js
  <2>. QED  BY <2>1, <2>2, AddPromises
<1>4. CASE UpdateIncident(t)
  <2>. DEFINE i == Subject(t)
              closed == [status |-> Column(draft[t].status, reread[t].status,
                                           incident[i].status), closed |-> TRUE]
  <2>1. i \in Presses /\ pc[t] # "done"
    BY <1>0, <1>4 DEF UpdateIncident, InPlace, Subject, TypeOK, Call
  <2>2. /\ incident' = [incident EXCEPT ![i] = closed] /\ UNCHANGED <<config, job, broadcast>>
        /\ \E w : pc' = [pc EXCEPT ![t] = w]
    BY <1>0, <1>4, <2>1 DEF UpdateIncident, Answer, Goto, queue, TypeOK
  <2>3. closed # NoIncident
    BY DEF NoIncident
  <2>. HIDE DEF i, closed
  <2>4. Recorded' = Recorded \cup {i}
    BY <1>0, <2>1, <2>2, <2>3 DEF Recorded, Saved, TypeOK
  <2>. QED  BY <1>0, <2>1, <2>2, <2>4, DeskRecords, NotOver
<1>. QED  BY <1>1, <1>2, <1>3, <1>4 DEF Handle

LEMMA StartRefines ==
    ASSUME QueueInv, UntilAnswered,
           \/ \E t \in Presses : Trigger(t)
           \/ \E t \in Others : Resolve(t) \/ SendEmail(t)
    PROVE  [Contract!Next]_(Contract!vars) /\ UntilAnswered'
<1>1. ASSUME NEW t \in Presses, Trigger(t) PROVE UNCHANGED Contract!vars /\ UntilAnswered'
  <2>1. /\ UNCHANGED <<config, incident, broadcast, job>> /\ pc[t] # "done" /\ t \in Requests
        /\ \E w : pc' = [pc EXCEPT ![t] = w]
    BY <1>1 DEF Trigger, Answer, Goto, queue, Requests
  <2>. QED  BY <2>1, DeskStutters, NotOver
<1>2. ASSUME NEW t \in Others, Resolve(t) PROVE UNCHANGED Contract!vars /\ UntilAnswered'
  <2>1. /\ UNCHANGED <<config, incident, broadcast, job>> /\ pc[t] # "done" /\ t \in Requests
        /\ \E w : pc' = [pc EXCEPT ![t] = w]
    BY <1>2 DEF Resolve, Ask, Goto, queue, Requests
  <2>. QED  BY <2>1, DeskStutters, NotOver
<1>3. ASSUME NEW t \in Others, SendEmail(t) PROVE Contract!Next /\ UntilAnswered'
  <2>1. PICK name \in Mails : /\ pc[t] = "idle" /\ Add(t, {<<t, name>>}, "mailed", "error")
                               /\ UNCHANGED <<config, incident, broadcast>>
    BY <1>3 DEF SendEmail
  <2>. DEFINE js == {<<t, name>>}
  <2>2. /\ t \in Requests /\ js \in SUBSET {j \in Jobs : j[1] = t}
        /\ js \cap Alarms = {}
    BY AlertNames DEF Jobs, Requests, Alarms
  <2>3. pc[t] # "done" /\ Add(t, js, "mailed", "error")
    BY <2>1
  <2>. HIDE DEF js
  <2>. QED  BY <2>1, <2>2, <2>3, AddPromises
<1>. QED  BY <1>1, <1>2, <1>3

LEMMA ContractInit == Init => Contract!Init /\ UntilAnswered
<1>. SUFFICES ASSUME Init PROVE Contract!Init /\ UntilAnswered
  OBVIOUS
<1>1. \A j \in Jobs : job[j].state = "none" /\ job[j].reached = {}
  BY DEF Init, Unqueued
<1>2. PhaseNow = [j \in Jobs |-> "none"] /\ ToldNow = [j \in Jobs |-> {}]
  BY <1>1, Phases DEF PhaseNow, ToldNow
<1>3. Recorded = {} /\ broadcast = {}
  BY DEF Init, Recorded, Saved
<1>4. Contract!Init
  BY <1>2, <1>3 DEF Contract!Init, PhaseNow, ToldNow, Recorded
<1>. QED  BY <1>4 DEF Init, UntilAnswered

LEMMA ContractStep ==
    QueueInv /\ UntilAnswered /\ [Next]_vars => [Contract!Next]_(Contract!vars) /\ UntilAnswered'
<1>. SUFFICES ASSUME QueueInv, UntilAnswered, [Next]_vars
              PROVE  [Contract!Next]_(Contract!vars) /\ UntilAnswered'
  OBVIOUS
<1>1. CASE UNCHANGED vars
  <2>1. UNCHANGED <<config, incident, broadcast, job, pc>>
    BY <1>1 DEF vars, queue, request
  <2>. QED  BY <2>1, DeskStutters, StillUnanswered
<1>2. CASE \E j \in Jobs : Work(j) \/ Die(j)
  BY <1>2, WorkIsTelling
<1>3. CASE \E t \in Requests : Handle(t)
  BY <1>3, HandleRefines
<1>4. CASE \/ \E t \in Presses : Trigger(t)
           \/ \E t \in Others : Resolve(t) \/ SendEmail(t)
  BY <1>4, StartRefines
<1>. QED  BY <1>1, <1>2, <1>3, <1>4 DEF Next

\* Alerts does what AlertContract says and nothing else, for any number of
\* calls, targets, outages and dying workers: an alarm is owed once, after its
\* incident was shown; what was delivered was heard by all; delivered or given
\* up, it is over.
THEOREM WordKept == Spec => KeepsItsWord
BY ContractInit, ContractStep, QueueInit, QueueStep, PTL DEF Spec, KeepsItsWord, Contract!Spec

-----------------------------------------------------------------------------
(* Counting by time                                                        *)

\* The times of some entries, those after h, and how many these are.
Times(S) == {e.at : e \in S}
Later(A, h) == {k \in A : k > h}
Rank(A, h) == Cardinality(Later(A, h))

\* Entries of different times are as many as these.
LEMMA CountedByTime ==
  ASSUME NEW S, \A d, e \in S : d.at = e.at => d = e, IsFiniteSet(Times(S))
  PROVE  IsFiniteSet(S) /\ Cardinality(S) = Cardinality(Times(S))
<1>1. PICK f : f = [e \in S |-> e.at]
  OBVIOUS
<1>2. f \in Injection(S, Times(S)) /\ f \in Surjection(S, Times(S))
  BY <1>1 DEF Injection, IsInjective, Surjection, Times
<1> QED  BY <1>2, FS_Injection

LEMMA RankGrows ==
  ASSUME NEW A, NEW B, A \subseteq B, IsFiniteSet(B), NEW h
  PROVE  Rank(A, h) \in Nat /\ Rank(B, h) \in Nat /\ Rank(A, h) <= Rank(B, h)
<1>1. Later(B, h) \subseteq B /\ Later(A, h) \subseteq Later(B, h)
  BY DEF Later
<1>2. IsFiniteSet(Later(B, h))
  BY <1>1, FS_Subset
<1>3. IsFiniteSet(Later(A, h)) /\ Cardinality(Later(A, h)) <= Cardinality(Later(B, h))
  BY <1>1, <1>2, FS_Subset
<1>4. Cardinality(Later(A, h)) \in Nat /\ Cardinality(Later(B, h)) \in Nat
  BY <1>2, <1>3, FS_CardinalityType
<1> QED  BY <1>3, <1>4 DEF Rank

\* Later times have smaller ranks.
LEMMA RanksDiffer ==
  ASSUME NEW A \in SUBSET Int, IsFiniteSet(A), NEW j \in A, NEW k \in A, j < k
  PROVE  Rank(A, k) < Rank(A, j)
<1>1. Later(A, k) \subseteq Later(A, j) \ {k} /\ k \in Later(A, j) /\ Later(A, j) \subseteq A
  <2>1. j \in Int /\ k \in Int /\ \A x \in A : x \in Int
    OBVIOUS
  <2>2. \A x \in A : x > k => x > j /\ x # k
    BY <2>1
  <2> QED  BY <2>2 DEF Later
<1>2. IsFiniteSet(Later(A, j))
  BY <1>1, FS_Subset
<1>3. /\ IsFiniteSet(Later(A, j) \ {k})
      /\ Cardinality(Later(A, j) \ {k}) = Cardinality(Later(A, j)) - 1
  BY <1>1, <1>2, FS_RemoveElement
<1>4. Cardinality(Later(A, k)) <= Cardinality(Later(A, j) \ {k})
  BY <1>1, <1>3, FS_Subset
<1>5. Rank(A, j) \in Nat /\ Rank(A, k) \in Nat
  BY RankGrows
<1> QED  BY <1>3, <1>4, <1>5 DEF Rank

\* A page that is followed by something is full.
LEMMA NoGap ==
  ASSUME NEW A \in SUBSET Int, IsFiniteSet(A), NEW from \in Nat, NEW size \in Nat,
         NEW h \in A, Rank(A, h) >= from + size
  PROVE  Cardinality({k \in A : Rank(A, k) \in from..(from + size - 1)}) >= size
<1>1. PICK n \in Nat : n = Cardinality(A)
  BY FS_CardinalityType
<1>2. ASSUME NEW k \in A
      PROVE  Rank(A, k) \in 0..(n - 1)
  <2>1. Later(A, k) \subseteq A \ {k}
    BY DEF Later
  <2>2. IsFiniteSet(A \ {k}) /\ Cardinality(A \ {k}) = n - 1
    BY <1>1, FS_RemoveElement
  <2>3. Cardinality(Later(A, k)) <= n - 1
    BY <2>1, <2>2, FS_Subset
  <2>4. Rank(A, k) \in Nat
    BY RankGrows
  <2> QED  BY <2>3, <2>4 DEF Rank
<1>3. PICK f : f = [k \in A |-> Rank(A, k)]
  OBVIOUS
<1>4. f \in Injection(A, 0..(n - 1))
  <2>1. ASSUME NEW j \in A, NEW k \in A, f[j] = f[k]
        PROVE  j = k
    <3>1. Rank(A, j) = Rank(A, k) /\ Rank(A, j) \in Int /\ j \in Int /\ k \in Int
      BY <1>2, <1>3, <2>1
    <3>2. ~(j < k) /\ ~(k < j)
      BY <3>1, RanksDiffer
    <3> QED  BY <3>1, <3>2
  <2>2. f \in [A -> 0..(n - 1)]
    BY <1>2, <1>3
  <2> QED  BY <2>1, <2>2 DEF Injection, IsInjective
<1>5. f \in Surjection(A, 0..(n - 1))
  <2>1. IsFiniteSet(0..(n - 1)) /\ Cardinality(0..(n - 1)) = n
    BY FS_Interval
  <2> QED  BY <1>1, <1>4, <2>1, FS_Injection
<1>6. PICK page : page = {k \in A : Rank(A, k) \in from..(from + size - 1)}
  OBVIOUS
<1>7. PICK g : g = [k \in page |-> Rank(A, k)]
  OBVIOUS
<1>8. g \in Surjection(page, from..(from + size - 1))
  <2>1. g \in [page -> from..(from + size - 1)]
    BY <1>6, <1>7
  <2>2. ASSUME NEW i \in from..(from + size - 1)
        PROVE  \E k \in page : g[k] = i
    <3>1. Rank(A, h) \in 0..(n - 1)
      BY <1>2
    <3>2. i \in 0..(n - 1)
      BY <3>1
    <3>3. PICK k \in A : f[k] = i
      BY <1>5, <3>2 DEF Surjection
    <3>4. k \in page /\ g[k] = i
      BY <1>3, <1>6, <1>7, <3>3
    <3> QED  BY <3>4
  <2> QED  BY <2>1, <2>2 DEF Surjection
<1>9. page \subseteq A /\ IsFiniteSet(page)
  BY <1>6, FS_Subset
<1>10. /\ Cardinality(from..(from + size - 1)) <= Cardinality(page)
       /\ Cardinality(from..(from + size - 1)) = size /\ Cardinality(page) \in Nat
  <2>1. Cardinality(from..(from + size - 1)) <= Cardinality(page)
    BY <1>8, <1>9, FS_Surjection
  <2>2. Cardinality(from..(from + size - 1)) = size
    BY FS_Interval
  <2> QED  BY <1>9, <2>1, <2>2, FS_CardinalityType
<1> QED  BY <1>6, <1>10

-----------------------------------------------------------------------------
(* The day                                                                 *)

\* The local midnight is found in every zone, on the long and the short days.
LEMMA MidnightFound == MidnightIsFound
<1> SUFFICES ASSUME NEW zone \in Zones, NEW now \in 30..90
             PROVE  IsMidnight(startOfDayIn(now, zone), now, zone)
  BY DEF MidnightIsFound
<1>1. PICK b \in -11..13, a \in -12..14, s \in 37..83 :
        zone = [before |-> b, after |-> a, at |-> s]
  BY DEF Zones
<1>2. /\ b \in Int /\ a \in Int /\ s \in Int /\ now \in Int
      /\ zone.before = b /\ zone.after = a /\ zone.at = s
      /\ a - b \in {-1, 0, 1} /\ (s + b) % 24 # 0 /\ (a < b => (s + b) % 24 # 1)
  BY <1>1 DEF Zones
<1> QED  BY <1>1, <1>2, SMTT(60)
         DEF IsMidnight, startOfDayIn, DateIn, offsetAt

Date(hour) == DateIn(hour, REPORTING_TIMEZONE)

\* An hour is since the start of the day iff its date is that day's or later.
LEMMA SinceMidnight ==
  ASSUME NEW h \in Int, NEW now \in Int, East \in Int
  PROVE  (h >= startOfToday(now)) <=> (Date(h) >= Date(now))
  BY DEF Date, startOfToday, startOfDayIn, DateIn, offsetAt,
         REPORTING_TIMEZONE

-----------------------------------------------------------------------------
(* Entries and their places                                                *)

\* The state a ledger is in: its part of the invariant.
Books ==
    ReportTypeOK /\ SettledTogether /\ OwnMoments

LEMMA FieldsOfEntries ==
  ASSUME Books, NEW e \in ledger
  PROVE  /\ e.at \in Int /\ e.at \in FirstHour..LastHour
         /\ e.status \in {"pending", "completed", "failed"}
         /\ e = [of |-> e.of, type |-> e.type, status |-> e.status, at |-> e.at]
  BY ReportSizes DEF Books, ReportSizes, ReportTypeOK, Entry, Hours, EntryStatus

\* A driver's entries are of different times.
LEMMA DriversMoments ==
  ASSUME Books, NEW d \in DriverEntries, NEW e \in DriverEntries, d.at = e.at
  PROVE  d = e
<1>1. d \in ledger /\ e \in ledger /\ d.of = e.of
  BY DEF Books, OwnMoments, DriverEntries
<1>2. CASE d.of \in Moves
  BY <1>1, <1>2 DEF Books, SettledTogether
<1>3. CASE d.of \notin Moves
  <2>1. /\ d.type \in Fares /\ d = Fare(d.of, d.type)
        /\ e.type \in Fares /\ e = Fare(e.of, e.type)
    BY <1>1, <1>3 DEF Books, SettledTogether
  <2>2. d.type = "ride_fare_driver" /\ e.type = "ride_fare_driver"
    BY <2>1 DEF DriverEntries, OfDriver, Fares, Kinds
  <2> QED  BY <1>1, <2>1, <2>2
<1> QED  BY <1>2, <1>3

\* An entry's place is the rank of its time.
Ranked ==
    /\ Times(DriverEntries) \in SUBSET Int
    /\ IsFiniteSet(Times(DriverEntries)) /\ IsFiniteSet(DriverEntries)
    /\ \A e \in DriverEntries :
          Place(e) = Rank(Times(DriverEntries), e.at)

LEMMA PlacesAreRanks == Books => Ranked
<1> SUFFICES ASSUME Books
             PROVE  Ranked
  OBVIOUS
<1>1. PICK D : D = DriverEntries
  OBVIOUS
<1>2. Times(D) \subseteq FirstHour..LastHour /\ IsFiniteSet(FirstHour..LastHour)
  <2>1. FirstHour \in Int /\ LastHour \in Int
    BY ReportSizes DEF Books, ReportSizes
  <2>2. D \subseteq ledger
    BY <1>1 DEF DriverEntries
  <2>3. \A e \in D : e.at \in FirstHour..LastHour
    BY <2>2, FieldsOfEntries
  <2>4. IsFiniteSet(FirstHour..LastHour)
    BY <2>1, FS_Interval
  <2> QED  BY <2>3, <2>4 DEF Times
<1>3. IsFiniteSet(Times(D)) /\ Times(D) \in SUBSET Int
  <2>1. IsFiniteSet(Times(D))
    BY <1>2, FS_Subset
  <2> QED  BY <1>2, <2>1
<1>4. \A d, e \in D : d.at = e.at => d = e
  BY <1>1, DriversMoments
<1>5. IsFiniteSet(D)
  BY <1>3, <1>4, CountedByTime
<1>6. ASSUME NEW e \in D
      PROVE  Place(e) = Rank(Times(D), e.at)
  <2>1. PICK S : S = {x \in D : x.at > e.at}
    OBVIOUS
  <2>2. Times(S) = Later(Times(D), e.at)
    BY <2>1 DEF Times, Later
  <2>3. IsFiniteSet(Times(S))
    <3>1. Later(Times(D), e.at) \subseteq Times(D)
      BY DEF Later
    <3> QED  BY <1>3, <2>2, <3>1, FS_Subset
  <2>4. Cardinality(S) = Cardinality(Times(S))
    <3>1. \A d, x \in S : d.at = x.at => d = x
      BY <1>4, <2>1
    <3> QED  BY <2>3, <3>1, CountedByTime
  <2>5. Place(e) = Cardinality(S)
    BY <1>1, <2>1 DEF Place
  <2> QED  BY <2>2, <2>4, <2>5 DEF Rank
<1> QED  BY <1>1, <1>3, <1>5, <1>6 DEF Ranked

LEMMA PlacesStayRanks == Books' => Ranked'
  BY PlacesAreRanks, PTL

-----------------------------------------------------------------------------
(* The platform at work                                                    *)

\* Settled entries are never touched, others keep what they are of and when.
EntriesStay ==
    \A e \in ledger :
        /\ e.status = "completed" => e \in ledger'
        /\ \E x \in ledger' : x.of = e.of /\ x.type = e.type /\ x.at = e.at

\* A ride never waits for a driver again, and its settlement begins once.
RidesMoveOn ==
    \A r \in Rides :
        /\ status[r] # "requested" => status'[r] # "requested"
        /\ opened[r] # None => opened'[r] = opened[r]

\* No entry moves to an earlier place.
LEMMA PlacesGrow ==
  ASSUME Books, Books', EntriesStay, NEW e \in DriverEntries
  PROVE  \E x \in DriverEntries' :
            /\ x.of = e.of /\ Place(e) \in Nat /\ Place(x)' \in Nat
            /\ Place(x)' >= Place(e)
<1>1. PICK A, B : A = Times(DriverEntries) /\ B = Times(DriverEntries')
  OBVIOUS
<1>2. \A d \in DriverEntries : Place(d) = Rank(A, d.at)
  BY <1>1, PlacesAreRanks DEF Ranked
<1>3. /\ IsFiniteSet(B) /\ \A d \in DriverEntries' : Place(d)' = Rank(B, d.at)
  BY <1>1, PlacesStayRanks DEF Ranked
<1>4. Place(e) = Rank(A, e.at)
  BY <1>2, <1>3
<1>5. PICK x \in ledger' : x.of = e.of /\ x.type = e.type /\ x.at = e.at
  BY DEF EntriesStay, DriverEntries
<1>6. x \in DriverEntries'
  BY <1>5 DEF DriverEntries
<1>7. A \subseteq B
  <2>1. ASSUME NEW d \in DriverEntries
        PROVE  \E y \in DriverEntries' : y.at = d.at
    BY DEF EntriesStay, DriverEntries
  <2> QED  BY <1>1, <2>1 DEF Times
<1>8. Place(e) = Rank(A, e.at) /\ Place(x)' = Rank(B, e.at)
  BY <1>3, <1>4, <1>5, <1>6
<1> QED  BY <1>3, <1>5, <1>6, <1>7, <1>8, RankGrows

\* What a step of the platform has to show.
LEMMA WorldKeeps ==
  ASSUME ReportInv, Books', EntriesStay, RidesMoveOn, UNCHANGED <<asked, follow, got, offset, base>>
  PROVE  ReportInv'
<1>1. /\ Books /\ AskedOnce /\ NothingLost /\ FiguresLast
      /\ NeverCountedTwice /\ PaidStaysPaid /\ FiguresAreOfToday
      /\ StillToCome
  BY DEF Books, ReportInv
<1>2. AskedOnce'
  BY <1>1 DEF AskedOnce, Read
<1>3. NothingLost'
  <2>1. ASSUME NEW e \in base
        PROVE  /\ e.status = "completed" \/ e.type \in Fares => e \in ledger'
               /\ \E x \in ledger' : x.of = e.of /\ x.type = e.type /\ x.at = e.at
    <3>1. /\ e.status = "completed" \/ e.type \in Fares => e \in ledger
          /\ \E x \in ledger : x.of = e.of /\ x.type = e.type /\ x.at = e.at
      BY <1>1 DEF NothingLost
    <3>2. e \in ledger /\ e.type \in Fares => e.status = "completed"
      <4>1. e.type \in Fares => e.type \notin Kinds
        BY DEF Fares, Kinds
      <4> QED  BY <1>1, <4>1 DEF Books, SettledTogether, Fare
    <3> QED  BY <3>1, <3>2 DEF EntriesStay
  <2> QED  BY <2>1 DEF NothingLost
<1>4. FiguresLast'
  BY <1>1 DEF FiguresLast, Read, RidesIn, RidesMoveOn, BookedFor, InWindow, startOfWindow
<1>5. NeverCountedTwice'
  BY <1>1 DEF NeverCountedTwice, Read
<1>6. PaidStaysPaid'
  BY <1>1 DEF PaidStaysPaid, Read, EntriesStay
<1>7. FiguresAreOfToday'
  <2>1. Read("completedRidesToday") => \A r \in got["completedRidesToday"] :
           opened'[r] = opened[r]
    BY <1>1 DEF FiguresLast, RidesMoveOn
  <2> QED  BY <1>1, <2>1 DEF FiguresAreOfToday, Read, DateIn,
                             offsetAt
<1>8. StillToCome'
  <2> SUFFICES ASSUME "statement" \in follow, NEW e \in base, e.type \in OfDriver,
                      e.of \notin got["statement"]
               PROVE  offset # None /\ \E x \in DriverEntries' :
                         x.of = e.of /\ Place(x)' >= offset
    BY DEF StillToCome
  <2>1. PICK x \in DriverEntries : x.of = e.of /\ Place(x) >= offset
    BY <1>1 DEF StillToCome
  <2>2. offset # None /\ offset \in Nat
    BY <1>1 DEF StillToCome, AskedOnce
  <2>3. PICK y \in DriverEntries' :
           /\ y.of = x.of /\ Place(x) \in Nat /\ Place(y)' \in Nat
           /\ Place(y)' >= Place(x)
    BY <1>1, PlacesGrow
  <2> QED  BY <2>1, <2>2, <2>3
<1> QED  BY <1>2, <1>3, <1>4, <1>5, <1>6, <1>7, <1>8 DEF Books, ReportInv

\* An hour passes.
LEMMA HourPasses ==
  ASSUME Books, Pass
  PROVE  /\ clock \in Int /\ clock' = clock + 1 /\ clock \in Hours
         /\ clock' \in Hours
         /\ \A h \in Hours : h < clock => h < clock'
  BY ReportSizes DEF Books, ReportSizes, ReportTypeOK, Hours, Pass

LEMMA TickKeeps ==
  ASSUME ReportInv, Tick
  PROVE  ReportInv'
<1>1. Books
  BY DEF Books, ReportInv
<1>2. Pass /\ UNCHANGED <<status, opened, ledger, asked, follow, got, offset, base>>
  BY DEF Tick, reader
<1>3. /\ clock \in Int /\ clock' = clock + 1 /\ clock \in Hours /\ clock' \in Hours
      /\ \A h \in Hours : h < clock => h < clock'
  BY <1>1, <1>2, HourPasses
<1>4. ReportTypeOK'
  BY <1>1, <1>2, <1>3 DEF Books, ReportTypeOK
<1>5. SettledTogether'
  BY <1>1, <1>2 DEF Books, SettledTogether, Fare
<1>6. OwnMoments'
  <2>1. \A r \in Rides : opened[r] # None => opened[r] \in Hours
    BY <1>1 DEF Books, ReportTypeOK
  <2>2. \A e \in ledger : e.at \in Hours
    BY <1>1, FieldsOfEntries DEF Hours
  <2> QED  BY <1>1, <1>2, <1>3, <2>1, <2>2 DEF Books, OwnMoments
<1>7. Books' /\ EntriesStay /\ RidesMoveOn
  BY <1>1, <1>2, <1>4, <1>5, <1>6 DEF Books, EntriesStay, RidesMoveOn
<1> QED  BY <1>2, <1>7, WorldKeeps

LEMMA AdvanceKeeps ==
  ASSUME ReportInv, NEW r \in Rides, Advance(r)
  PROVE  ReportInv'
<1>1. Books
  BY DEF Books, ReportInv
<1>2. UNCHANGED <<clock, opened, ledger, asked, follow, got, offset, base>>
  BY DEF Advance, reader
<1>3. PICK s \in RideStatus : /\ <<status[r], s>> \in Edges
                                    /\ status' = [status EXCEPT ![r] = s]
  BY DEF Advance
<1>4. status \in [Rides -> RideStatus]
  BY <1>1 DEF Books, ReportTypeOK
<1>5. status[r] # "completed" /\ s # "completed" /\ s # "requested"
  BY <1>3 DEF Edges
<1>6. /\ status'[r] = s /\ \A q \in Rides \ {r} : status'[q] = status[q]
      /\ status' \in [Rides -> RideStatus]
  BY <1>3, <1>4
<1>7. ReportTypeOK'
  BY <1>1, <1>2, <1>6 DEF Books, ReportTypeOK
<1>8. SettledTogether'
  <2>1. \A q \in Rides : status'[q] = "completed" <=> status[q] = "completed"
    BY <1>5, <1>6
  <2> QED  BY <1>1, <1>2, <2>1 DEF Books, SettledTogether, Fare
<1>9. OwnMoments'
  BY <1>1, <1>2 DEF Books, OwnMoments
<1>10. Books' /\ EntriesStay /\ RidesMoveOn
  BY <1>1, <1>2, <1>5, <1>6, <1>7, <1>8, <1>9 DEF Books, EntriesStay, RidesMoveOn
<1> QED  BY <1>2, <1>10, WorldKeeps

LEMMA BeginKeeps ==
  ASSUME ReportInv, NEW r \in Rides, Begin(r)
  PROVE  ReportInv'
<1>1. Books
  BY DEF Books, ReportInv
<1>2. /\ UNCHANGED <<status, ledger, asked, follow, got, offset, base>>
      /\ status[r] = "in_progress" /\ opened[r] = None
      /\ opened' = [opened EXCEPT ![r] = clock] /\ Pass
  BY DEF Begin, reader
<1>3. /\ clock \in Int /\ clock' = clock + 1 /\ clock \in Hours /\ clock' \in Hours
      /\ \A h \in Hours : h < clock => h < clock'
  BY <1>1, <1>2, HourPasses
<1>4. opened \in [Rides -> Hours \cup {None}] /\ None \notin Hours
  <2>1. \A h \in Hours : h \in Int
    BY ReportSizes DEF ReportSizes, Hours
  <2>2. None \notin Hours
    BY <2>1, ReportSizes DEF ReportSizes
  <2> QED  BY <1>1, <2>2 DEF Books, ReportTypeOK
<1>5. /\ opened'[r] = clock /\ \A q \in Rides \ {r} : opened'[q] = opened[q]
      /\ opened' \in [Rides -> Hours \cup {None}] /\ clock # None
  BY <1>2, <1>3, <1>4
<1>6. ReportTypeOK'
  BY <1>1, <1>2, <1>3, <1>5 DEF Books, ReportTypeOK
<1>7. \A e \in ledger : e.of # r \/ e.of \notin Rides
  BY <1>1, <1>2, ReportSizes DEF Books, SettledTogether, ReportSizes
<1>8. SettledTogether'
  <2>1. ASSUME NEW q \in Rides, status'[q] = "completed"
        PROVE  opened'[q] # None /\ \A type \in Fares : Fare(q, type)' \in ledger'
    BY <1>1, <1>2, <1>5, <2>1 DEF Books, SettledTogether, Fare
  <2>2. ASSUME NEW e \in ledger'
        PROVE  \/ /\ e.of \in Rides /\ e.type \in Fares /\ e = Fare(e.of, e.type)'
                  /\ status'[e.of] = "completed"
               \/ e.of \in Moves /\ e.type \in Kinds
    <3>1. e \in ledger /\ (e.of \in Rides => opened'[e.of] = opened[e.of])
      BY <1>2, <1>5, <1>7
    <3> QED  BY <1>1, <1>2, <3>1 DEF Books, SettledTogether, Fare
  <2> QED  BY <1>1, <1>2, <2>1, <2>2 DEF Books, SettledTogether
<1>9. OwnMoments'
  <2>1. ASSUME NEW q \in Rides, opened'[q] # None
        PROVE  /\ opened'[q] < clock'
               /\ \A p \in Rides : opened'[p] = opened'[q] => p = q
    <3>1. \A p \in Rides : opened[p] # None => opened[p] < clock /\ opened[p] \in Int
      BY <1>1, <1>4 DEF Books, OwnMoments, Hours
    <3>2. CASE q = r
      <4>1. \A p \in Rides \ {r} : opened'[p] # clock
        BY <1>3, <1>5, <3>1
      <4> QED  BY <1>3, <1>5, <3>2, <4>1
    <3>3. CASE q # r
      <4>1. opened[q] # None /\ opened[q] < clock /\ opened[q] \in Int /\ opened'[q] = opened[q]
        BY <1>5, <2>1, <3>1, <3>3
      <4>2. \A p \in Rides : opened[p] = opened[q] => p = q
        BY <1>1, <4>1 DEF Books, OwnMoments
      <4> QED  BY <1>3, <1>5, <4>1, <4>2
    <3> QED  BY <3>2, <3>3
  <2>2. ASSUME NEW e \in ledger'
        PROVE  /\ e.at < clock'
               /\ \A d \in ledger' : d.at = e.at => d.of = e.of
               /\ \A q \in Rides : opened'[q] = e.at => e.of = q
    <3>1. e \in ledger /\ e.at \in Int
      BY <1>1, <1>2, FieldsOfEntries
    <3>2. /\ e.at < clock /\ \A d \in ledger : d.at = e.at => d.of = e.of
          /\ \A q \in Rides : opened[q] = e.at => e.of = q
      BY <1>1, <3>1 DEF Books, OwnMoments
    <3> QED  BY <1>2, <1>3, <1>5, <3>1, <3>2
  <2> QED  BY <2>1, <2>2 DEF OwnMoments
<1>10. Books' /\ EntriesStay /\ RidesMoveOn
  BY <1>1, <1>2, <1>5, <1>6, <1>8, <1>9 DEF Books, EntriesStay, RidesMoveOn
<1> QED  BY <1>2, <1>10, WorldKeeps

LEMMA SettleKeeps ==
  ASSUME ReportInv, NEW r \in Rides, Settle(r)
  PROVE  ReportInv'
<1>1. Books
  BY DEF Books, ReportInv
<1>2. /\ UNCHANGED <<clock, opened, asked, follow, got, offset, base>>
      /\ status[r] = "in_progress" /\ opened[r] # None
      /\ status' = [status EXCEPT ![r] = "completed"]
  BY DEF Settle, reader
<1>3. PICK N : /\ N = [of: {r}, type: Fares, status: {"completed"}, at: {opened[r]}]
               /\ ledger' = ledger \cup N
  BY DEF Settle
<1>4. /\ \A e \in N : e.of = r /\ e.type \in Fares /\ e = Fare(r, e.type)
                     /\ e.at = opened[r]
      /\ \A type \in Fares : Fare(r, type) \in N
  BY <1>3 DEF Fare
<1>5. /\ status \in [Rides -> RideStatus] /\ opened[r] \in Hours
      /\ ledger \subseteq Entry
  BY <1>1, <1>2 DEF Books, ReportTypeOK
<1>6. /\ status'[r] = "completed" /\ \A q \in Rides \ {r} : status'[q] = status[q]
      /\ status' \in [Rides -> RideStatus]
  BY <1>2, <1>5 DEF RideStatus
<1>7. ReportTypeOK'
  <2>1. N \subseteq Entry
    BY <1>3, <1>5 DEF Entry, EntryStatus
  <2> QED  BY <1>1, <1>2, <1>3, <1>5, <1>6, <2>1 DEF Books, ReportTypeOK
<1>8. r \notin Moves
  BY <1>1, ReportSizes DEF Books, ReportSizes
<1>9. \A e \in ledger : e.of # r
  BY <1>1, <1>2, <1>8 DEF Books, SettledTogether
<1>10. SettledTogether'
  <2>1. ASSUME NEW q \in Rides, status'[q] = "completed"
        PROVE  opened'[q] # None /\ \A type \in Fares : Fare(q, type)' \in ledger'
    <3>1. CASE q = r
      BY <1>2, <1>3, <1>4, <3>1 DEF Fare
    <3>2. CASE q # r
      BY <1>1, <1>2, <1>3, <1>6, <2>1, <3>2 DEF Books, SettledTogether, Fare
    <3> QED  BY <3>1, <3>2
  <2>2. ASSUME NEW e \in ledger'
        PROVE  \/ /\ e.of \in Rides /\ e.type \in Fares /\ e = Fare(e.of, e.type)'
                  /\ status'[e.of] = "completed"
               \/ e.of \in Moves /\ e.type \in Kinds
    <3>1. CASE e \in N
      BY <1>2, <1>4, <1>6, <3>1 DEF Fare
    <3>2. CASE e \in ledger
      BY <1>1, <1>2, <1>6, <1>9, <3>2 DEF Books, SettledTogether, Fare
    <3> QED  BY <1>3, <3>1, <3>2
  <2>3. ASSUME NEW d \in ledger', NEW e \in ledger', d.of = e.of, d.of \in Moves
        PROVE  d = e
    <3>1. d \in ledger /\ e \in ledger
      BY <1>3, <1>4, <1>8, <2>3
    <3> QED  BY <1>1, <2>3, <3>1 DEF Books, SettledTogether
  <2> QED  BY <2>1, <2>2, <2>3 DEF SettledTogether
<1>11. OwnMoments'
  <2>1. /\ opened[r] < clock /\ \A q \in Rides : opened[q] = opened[r] => q = r
        /\ \A e \in ledger : e.at # opened[r]
    BY <1>1, <1>2, <1>9 DEF Books, OwnMoments
  <2>2. ASSUME NEW e \in ledger'
        PROVE  /\ e.at < clock
               /\ \A d \in ledger' : d.at = e.at => d.of = e.of
               /\ \A q \in Rides : opened[q] = e.at => e.of = q
    BY <1>1, <1>3, <1>4, <2>1 DEF Books, OwnMoments
  <2> QED  BY <1>1, <1>2, <2>2 DEF Books, OwnMoments
<1>12. Books' /\ EntriesStay /\ RidesMoveOn
  BY <1>1, <1>2, <1>3, <1>6, <1>7, <1>10, <1>11 DEF Books, EntriesStay, RidesMoveOn
<1> QED  BY <1>2, <1>12, WorldKeeps

LEMMA BookKeeps ==
  ASSUME ReportInv, NEW m \in Moves, NEW kind \in Kinds, Book(m, kind)
  PROVE  ReportInv'
<1>1. Books
  BY DEF Books, ReportInv
<1>2. /\ UNCHANGED <<status, opened, asked, follow, got, offset, base>> /\ Pass
      /\ \A e \in ledger : e.of # m
  BY DEF Book, reader
<1>3. PICK new : /\ new = [of |-> m, type |-> kind, status |-> "pending", at |-> clock]
                 /\ ledger' = ledger \cup {new}
  BY DEF Book
<1>4. /\ clock \in Int /\ clock' = clock + 1 /\ clock \in Hours /\ clock' \in Hours
      /\ \A h \in Hours : h < clock => h < clock'
  BY <1>1, <1>2, HourPasses
<1>5. new.of = m /\ new.type = kind /\ new.at = clock /\ new \in Entry
  BY <1>3, <1>4 DEF Entry, EntryStatus
<1>6. ReportTypeOK'
  BY <1>1, <1>2, <1>3, <1>4, <1>5 DEF Books, ReportTypeOK
<1>7. SettledTogether'
  <2>1. ASSUME NEW e \in ledger'
        PROVE  \/ /\ e.of \in Rides /\ e.type \in Fares /\ e = Fare(e.of, e.type)'
                  /\ status'[e.of] = "completed"
               \/ e.of \in Moves /\ e.type \in Kinds
    BY <1>1, <1>2, <1>3, <1>5 DEF Books, SettledTogether, Fare
  <2>2. ASSUME NEW d \in ledger', NEW e \in ledger', d.of = e.of, d.of \in Moves
        PROVE  d = e
    BY <1>1, <1>2, <1>3, <1>5, <2>2 DEF Books, SettledTogether
  <2> QED  BY <1>1, <1>2, <1>3, <2>1, <2>2 DEF Books, SettledTogether, Fare
<1>8. OwnMoments'
  <2>1. \A q \in Rides : opened[q] # None => opened[q] < clock /\ opened[q] \in Hours
    BY <1>1 DEF Books, OwnMoments, ReportTypeOK
  <2>2. \A e \in ledger : e.at < clock /\ e.at \in Hours
    BY <1>1, FieldsOfEntries DEF Books, OwnMoments, Hours
  <2>3. clock # None /\ \A h \in Hours : h < clock => h # clock
    BY <1>1, <1>4, ReportSizes DEF Books, ReportSizes, Hours
  <2>4. ASSUME NEW e \in ledger'
        PROVE  /\ e.at < clock'
               /\ \A d \in ledger' : d.at = e.at => d.of = e.of
               /\ \A q \in Rides : opened[q] = e.at => e.of = q
    <3>1. CASE e = new
      <4>1. \A d \in ledger : d.at # clock
        BY <2>2, <2>3
      <4>2. \A q \in Rides : opened[q] # clock
        BY <2>1, <2>3
      <4> QED  BY <1>3, <1>4, <1>5, <3>1, <4>1, <4>2
    <3>2. CASE e \in ledger
      <4>1. e.at # clock /\ e.at < clock'
        BY <1>4, <2>2, <2>3, <3>2
      <4> QED  BY <1>1, <1>3, <1>5, <3>2, <4>1 DEF Books, OwnMoments
    <3> QED  BY <1>3, <3>1, <3>2
  <2>5. ASSUME NEW q \in Rides, opened[q] # None
        PROVE  opened[q] < clock' /\ \A p \in Rides : opened[p] = opened[q] => p = q
    BY <1>1, <1>4, <2>1, <2>5 DEF Books, OwnMoments
  <2> QED  BY <1>2, <2>4, <2>5 DEF OwnMoments
<1>9. Books' /\ EntriesStay /\ RidesMoveOn
  BY <1>1, <1>2, <1>3, <1>6, <1>7, <1>8 DEF Books, EntriesStay, RidesMoveOn
<1> QED  BY <1>2, <1>9, WorldKeeps

LEMMA EntrySettleKeeps ==
  ASSUME ReportInv, NEW e \in ledger, settleEntry(e)
  PROVE  ReportInv'
<1>1. Books
  BY DEF Books, ReportInv
<1>2. UNCHANGED <<clock, status, opened, asked, follow, got, offset, base>> /\ e.status = "pending"
  BY DEF settleEntry, reader
<1>3. PICK s \in {"completed", "failed"} : ledger' = (ledger \ {e}) \cup {[e EXCEPT !.status = s]}
  BY DEF settleEntry
<1>4. PICK new : new = [e EXCEPT !.status = s]
  OBVIOUS
<1>5. e \in Entry
  BY <1>1 DEF Books, ReportTypeOK
<1>6. new \in Entry /\ new.of = e.of /\ new.type = e.type /\ new.at = e.at
  BY <1>4, <1>5 DEF Entry, EntryStatus
<1>7. e.of \in Moves /\ e.type \in Kinds /\ e.of \notin Rides
  BY <1>1, <1>2, ReportSizes DEF Books, SettledTogether, Fare, ReportSizes
<1>8. ledger' = (ledger \ {e}) \cup {new}
  BY <1>3, <1>4
<1>9. ReportTypeOK'
  BY <1>1, <1>2, <1>6, <1>8 DEF Books, ReportTypeOK
<1>10. SettledTogether'
  <2>1. ASSUME NEW q \in Rides, status'[q] = "completed"
        PROVE  opened'[q] # None /\ \A type \in Fares : Fare(q, type)' \in ledger'
    <3>1. \A type \in Fares : Fare(q, type) # e
      BY <1>2 DEF Fare
    <3> QED  BY <1>1, <1>2, <1>8, <2>1, <3>1 DEF Books, SettledTogether, Fare
  <2>2. ASSUME NEW d \in ledger'
        PROVE  \/ /\ d.of \in Rides /\ d.type \in Fares /\ d = Fare(d.of, d.type)'
                  /\ status'[d.of] = "completed"
               \/ d.of \in Moves /\ d.type \in Kinds
    BY <1>1, <1>2, <1>6, <1>7, <1>8 DEF Books, SettledTogether, Fare
  <2>3. ASSUME NEW d \in ledger', NEW x \in ledger', d.of = x.of, d.of \in Moves
        PROVE  d = x
    BY <1>1, <1>6, <1>8, <2>3 DEF Books, SettledTogether
  <2> QED  BY <2>1, <2>2, <2>3 DEF SettledTogether
<1>11. OwnMoments'
  <2>1. ASSUME NEW d \in ledger'
        PROVE  \E x \in ledger : x.at = d.at /\ x.of = d.of
    BY <1>6, <1>8
  <2>2. ASSUME NEW d \in ledger'
        PROVE  /\ d.at < clock
               /\ \A x \in ledger' : x.at = d.at => x.of = d.of
               /\ \A q \in Rides : opened[q] = d.at => d.of = q
    BY <1>1, <2>1 DEF Books, OwnMoments
  <2> QED  BY <1>1, <1>2, <2>2 DEF Books, OwnMoments
<1>12. EntriesStay
  BY <1>2, <1>6, <1>8 DEF EntriesStay
<1>13. Books' /\ RidesMoveOn
  BY <1>1, <1>2, <1>9, <1>10, <1>11 DEF Books, RidesMoveOn
<1> QED  BY <1>2, <1>12, <1>13, WorldKeeps

-----------------------------------------------------------------------------
(* The answers                                                             *)

LEMMA BooksKept ==
  ASSUME Books, UNCHANGED <<clock, status, opened, ledger>>,
         asked' \in Hours \cup {None}, follow' \subseteq Figures,
         DOMAIN got' \subseteq follow', base' \subseteq ledger \/ base' = base
  PROVE  Books'
<1>1. ReportTypeOK'
  BY DEF Books, ReportTypeOK
<1>2. SettledTogether' /\ OwnMoments'
  BY DEF Books, SettledTogether, Fare, OwnMoments
<1> QED  BY <1>1, <1>2 DEF Books

LEMMA AskKeeps ==
  ASSUME ReportInv, NEW figures \in SUBSET (Figures \ {"statement"}), AskFigures(figures)
  PROVE  ReportInv'
<1>1. Books /\ AskedOnce /\ None \notin Hours /\ clock \in Hours
  BY ReportSizes DEF Books, ReportInv, ReportSizes, Hours, ReportTypeOK
<1>2. /\ asked = None /\ asked' = clock /\ base' = ledger /\ follow' \subseteq figures
      /\ UNCHANGED <<clock, status, opened, ledger, got, offset>>
  BY DEF AskFigures, world
<1>3. DOMAIN got = {} /\ follow = {} /\ "statement" \notin follow'
  BY <1>1, <1>2 DEF AskedOnce
<1>4. Books'
  BY <1>1, <1>2, <1>3, BooksKept
<1>5. AskedOnce'
  BY <1>1, <1>2, <1>3 DEF AskedOnce, Read
<1>6. NothingLost'
  BY <1>2 DEF NothingLost
<1>7. \A f : ~Read(f)'
  BY <1>2, <1>3 DEF Read
<1>8. /\ FiguresLast' /\ NeverCountedTwice' /\ PaidStaysPaid'
      /\ FiguresAreOfToday'
  BY <1>7 DEF FiguresLast, NeverCountedTwice, PaidStaysPaid,
              FiguresAreOfToday
<1>9. StillToCome'
  BY <1>3 DEF StillToCome
<1> QED  BY <1>4, <1>5, <1>6, <1>8, <1>9 DEF Books, ReportInv

\* What each figure's query returns.
LEMMA RidesUnderWay ==
  ASSUME Books
  PROVE  /\ \A r \in Rows("activeRides") : r \in Rides /\ status[r] # "requested"
         /\ \A r \in Rows("unassignedRides") : status[r] = "requested"
  BY DEF Rows, With, IN_FLIGHT

LEMMA FaresOfRides ==
  ASSUME Books, NothingLost, NEW f \in FareFigures
  PROVE  /\ {e.of : e \in Rows(f)} \subseteq Rides
         /\ BookedFor(f) \cap Rides \subseteq {e.of : e \in Rows(f)}
         /\ \A e \in Rows(f) : InWindow(f, e)
<1>1. PICK type \in Fares :
         Rows(f) = {e \in ledger : /\ e.type = type /\ e.status = "completed"
                                   /\ InWindow(f, e)}
  <2>1. CASE f = "platformRevenueByDay"
    <3>1. Rows(f) = {e \in ledger : /\ e.type = "ride_fare_platform"
                                    /\ e.status = "completed" /\ InWindow(f, e)}
      BY <2>1 DEF Rows, platformRevenueByDay, OfPlatform, InWindow
    <3> QED  BY <3>1 DEF Fares
  <2>2. CASE f = "platformRevenue"
    <3>1. Rows(f) = {e \in ledger : /\ e.type = "ride_fare_platform"
                                    /\ e.status = "completed" /\ InWindow(f, e)}
      BY <2>2 DEF Rows, sumLedger, Types, Settled, OfPlatform, InWindow
    <3> QED  BY <3>1 DEF Fares
  <2>3. CASE f = "driverEarnings"
    <3>1. Rows(f) = {e \in ledger : /\ e.type = "ride_fare_driver"
                                    /\ e.status = "completed" /\ InWindow(f, e)}
      BY <2>3 DEF Rows, sumLedger, Types, Settled, InWindow
    <3> QED  BY <3>1 DEF Fares
  <2>4. CASE f = "riderCashback"
    <3>1. Rows(f) = {e \in ledger : /\ e.type = "ride_fare_rider_cashback"
                                    /\ e.status = "completed" /\ InWindow(f, e)}
      BY <2>4 DEF Rows, sumLedger, Types, Settled, InWindow
    <3> QED  BY <3>1 DEF Fares
  <2> QED  BY <2>1, <2>2, <2>3, <2>4 DEF FareFigures
<1>2. ASSUME NEW e \in ledger, e.type = type
      PROVE  e.of \in Rides
  <2>1. e.type \notin Kinds
    BY <1>2 DEF Fares, Kinds
  <2> QED  BY <2>1 DEF Books, SettledTogether
<1>3. ASSUME NEW e \in base, e.of \in Rides, InWindow(f, e)
      PROVE  \E x \in Rows(f) : x.of = e.of
  <2>1. PICK y \in ledger : y.of = e.of /\ y.at = e.at
    BY <1>3 DEF NothingLost
  <2>2. /\ status[y.of] = "completed" /\ y.of \in Rides
        /\ y = Fare(y.of, y.type)
    BY <1>3, <2>1, ReportSizes DEF Books, SettledTogether, ReportSizes
  <2>3. Fare(y.of, type) \in ledger
    BY <2>2 DEF Books, SettledTogether
  <2>4. /\ Fare(y.of, type).type = type /\ Fare(y.of, type).of = e.of
        /\ Fare(y.of, type).status = "completed" /\ Fare(y.of, type).at = e.at
    BY <2>1, <2>2 DEF Fare
  <2>5. InWindow(f, Fare(y.of, type))
    BY <1>3, <2>4 DEF InWindow
  <2> QED  BY <1>1, <2>3, <2>4, <2>5
<1> QED  BY <1>1, <1>2, <1>3 DEF BookedFor

LEMMA PayoutsPaid ==
  \A e \in Rows("driverPayouts") : e \in ledger /\ e.status = "completed"
  BY DEF Rows, sumLedger, Types, Settled

LEMMA RidesOfToday ==
  ASSUME Books, NothingLost, asked \in Hours
  PROVE  /\ \A r \in Rows("completedRidesToday") :
               r \in Rides /\ opened[r] # None /\ Date(opened[r]) >= Date(asked)
         /\ \A e \in base : e.type \in Fares /\ Date(e.at) >= Date(asked) =>
               e.of \in Rows("completedRidesToday")
<1>1. Rows("completedRidesToday") =
        {r \in Rides : status[r] = "completed" /\ opened[r] >= startOfToday(asked)}
  BY DEF Rows, CompletedSince, With
<1>2. \A h \in Hours : (h >= startOfToday(asked)) <=> (Date(h) >= Date(asked))
  <2>1. asked \in Int /\ East \in Int /\ \A h \in Hours : h \in Int
    BY ReportSizes DEF Books, ReportSizes, Hours
  <2> QED  BY <2>1, SinceMidnight
<1>3. \A r \in Rides : status[r] = "completed" => opened[r] # None /\ opened[r] \in Hours
  BY DEF Books, SettledTogether, ReportTypeOK
<1>4. ASSUME NEW e \in base, e.type \in Fares, Date(e.at) >= Date(asked)
      PROVE  e.of \in Rows("completedRidesToday")
  <2>1. PICK x \in ledger : x.of = e.of /\ x.type = e.type /\ x.at = e.at
    BY <1>4 DEF NothingLost
  <2>2. x.type \notin Kinds
    BY <1>4, <2>1 DEF Fares, Kinds
  <2>3. x.of \in Rides /\ x = Fare(x.of, x.type) /\ status[x.of] = "completed"
    BY <2>2 DEF Books, SettledTogether
  <2>4. x.at = opened[x.of]
    BY <2>3 DEF Fare
  <2> QED  BY <1>1, <1>2, <1>3, <1>4, <2>1, <2>3, <2>4
<1> QED  BY <1>1, <1>2, <1>3, <1>4

LEMMA RevenueOfToday ==
  ASSUME Books, NothingLost, asked \in Hours
  PROVE  /\ \A e \in Rows("platformRevenueToday") : Date(e.at) >= Date(asked)
         /\ \A e \in base : e.type \in OfPlatform /\ Date(e.at) >= Date(asked) =>
               e \in Rows("platformRevenueToday")
<1>1. Rows("platformRevenueToday") =
        {e \in ledger : /\ e.type = "ride_fare_platform" /\ e.status = "completed"
                        /\ e.at >= startOfToday(asked)}
  BY DEF Rows, sumLedger, Types, Settled, OfPlatform
<1>2. \A e \in ledger : (e.at >= startOfToday(asked)) <=> (Date(e.at) >= Date(asked))
  <2>1. asked \in Int /\ East \in Int /\ \A e \in ledger : e.at \in Int
    BY FieldsOfEntries, ReportSizes DEF Books, ReportSizes, Hours
  <2> QED  BY <2>1, SinceMidnight
<1>3. ASSUME NEW e \in base, e.type \in OfPlatform, Date(e.at) >= Date(asked)
      PROVE  e \in Rows("platformRevenueToday")
  <2>1. e.type = "ride_fare_platform" /\ e.type \in Fares /\ e.type \notin Kinds
    BY <1>3 DEF OfPlatform, Fares, Kinds
  <2>2. e \in ledger
    BY <2>1 DEF NothingLost
  <2>3. e.status = "completed"
    BY <2>1, <2>2 DEF Books, SettledTogether, Fare
  <2> QED  BY <1>1, <1>2, <1>3, <2>1, <2>2, <2>3
<1> QED  BY <1>1, <1>2, <1>3

LEMMA QueryKeeps ==
  ASSUME ReportInv, NEW f \in Figures \ {"statement"}, Query(f)
  PROVE  ReportInv'
<1>1. /\ Books /\ AskedOnce /\ NothingLost /\ FiguresLast
      /\ NeverCountedTwice /\ PaidStaysPaid /\ FiguresAreOfToday
  BY DEF Books, ReportInv
<1>2. /\ f \in follow /\ f \notin DOMAIN got
      /\ f = "unassignedRides" => follow \ {f} \subseteq DOMAIN got
      /\ UNCHANGED <<clock, status, opened, ledger, asked, follow, offset, base>>
  BY DEF Query, Due, Read, world
<1>3. PICK rows : /\ rows = Rows(f)
                  /\ got' = [g \in DOMAIN got \cup {f} |-> IF g = f THEN rows ELSE got[g]]
  BY DEF Query, Got
<1>4. /\ DOMAIN got' = DOMAIN got \cup {f} /\ got'[f] = rows
      /\ \A g \in DOMAIN got : g # f /\ got'[g] = got[g]
  BY <1>2, <1>3
<1>5. /\ asked # None /\ asked \in Hours /\ "statement" \notin follow
      /\ DOMAIN got \subseteq follow
  BY <1>1, <1>2 DEF AskedOnce, Books, ReportTypeOK
<1>6. Books'
  BY <1>1, <1>2, <1>4, <1>5, BooksKept DEF Books, ReportTypeOK
<1>7. AskedOnce'
  BY <1>1, <1>2, <1>4, <1>5 DEF AskedOnce, Read
<1>8. NothingLost'
  BY <1>1, <1>2 DEF NothingLost
<1>9. \A g : Read(g)' <=> g = f \/ Read(g)
  BY <1>4 DEF Read
<1>10. FiguresLast'
  <2>1. ASSUME Read("activeRides")', NEW r \in got'["activeRides"]
        PROVE  r \in Rides /\ status'[r] # "requested"
    <3>1. CASE f = "activeRides"
      BY <1>1, <1>2, <1>3, <1>4, <2>1, <3>1, RidesUnderWay
    <3>2. CASE f # "activeRides"
      BY <1>1, <1>2, <1>4, <1>9, <2>1, <3>2 DEF FiguresLast, Read
    <3> QED  BY <3>1, <3>2
  <2>2. ASSUME NEW g \in FareFigures, Read(g)'
        PROVE  /\ {e.of : e \in got'[g]} \subseteq Rides
               /\ BookedFor(g) \cap Rides \subseteq {e.of : e \in got'[g]}
               /\ \A e \in got'[g] : InWindow(g, e)
    <3>1. CASE f = g
      BY <1>1, <1>3, <1>4, <2>2, <3>1, FaresOfRides
    <3>2. CASE f # g
      BY <1>1, <1>4, <1>9, <2>2, <3>2 DEF FiguresLast, Read, RidesIn
    <3> QED  BY <3>1, <3>2
  <2>3. ASSUME Read("completedRidesToday")', NEW r \in got'["completedRidesToday"]
        PROVE  r \in Rides /\ opened'[r] # None
    <3>1. CASE f = "completedRidesToday"
      BY <1>1, <1>2, <1>3, <1>4, <1>5, <2>3, <3>1, RidesOfToday
    <3>2. CASE f # "completedRidesToday"
      BY <1>1, <1>2, <1>4, <1>9, <2>3, <3>2 DEF FiguresLast, Read
    <3> QED  BY <3>1, <3>2
  <2> QED  BY <1>2, <2>1, <2>2, <2>3 DEF FiguresLast, RidesIn, BookedFor, InWindow, startOfWindow
<1>11. NeverCountedTwice'
  <2> SUFFICES ASSUME Read("activeRides")', Read("unassignedRides")'
               PROVE  got'["activeRides"] \cap got'["unassignedRides"] = {}
    BY DEF NeverCountedTwice
  <2>1. CASE f = "unassignedRides"
    <3>1. Read("activeRides") /\ got'["activeRides"] = got["activeRides"]
      BY <1>4, <1>9, <2>1 DEF Read
    <3>2. \A r \in got["activeRides"] : status[r] # "requested"
      BY <1>1, <3>1 DEF FiguresLast
    <3>3. \A r \in got'["unassignedRides"] : status[r] = "requested"
      BY <1>1, <1>3, <1>4, <2>1, RidesUnderWay
    <3> QED  BY <3>1, <3>2, <3>3
  <2>2. CASE f = "activeRides"
    <3>1. Read("unassignedRides")
      BY <1>9, <2>2
    <3> QED  BY <1>1, <1>2, <3>1 DEF AskedOnce
  <2>3. CASE f # "activeRides" /\ f # "unassignedRides"
    BY <1>1, <1>4, <1>9, <2>3 DEF NeverCountedTwice, Read
  <2> QED  BY <2>1, <2>2, <2>3
<1>12. PaidStaysPaid'
  <2> SUFFICES ASSUME Read("driverPayouts")', NEW e \in got'["driverPayouts"]
               PROVE  e \in ledger /\ e.status = "completed"
    BY <1>2 DEF PaidStaysPaid
  <2>1. CASE f = "driverPayouts"
    BY <1>3, <1>4, <2>1, PayoutsPaid
  <2>2. CASE f # "driverPayouts"
    BY <1>1, <1>4, <1>9, <2>2 DEF PaidStaysPaid, Read
  <2> QED  BY <2>1, <2>2
<1>13. FiguresAreOfToday'
  <2>1. ASSUME Read("completedRidesToday")'
        PROVE  /\ \A r \in got'["completedRidesToday"] : Date(opened[r]) >= Date(asked)
               /\ \A e \in base : e.type \in Fares /\ Date(e.at) >= Date(asked) =>
                     e.of \in got'["completedRidesToday"]
    <3>1. CASE f = "completedRidesToday"
      BY <1>1, <1>3, <1>4, <1>5, <3>1, RidesOfToday
    <3>2. CASE f # "completedRidesToday"
      BY <1>1, <1>4, <1>9, <2>1, <3>2 DEF FiguresAreOfToday, Read, Date
    <3> QED  BY <3>1, <3>2
  <2>2. ASSUME Read("platformRevenueToday")'
        PROVE  /\ \A e \in got'["platformRevenueToday"] : Date(e.at) >= Date(asked)
               /\ \A e \in base : e.type \in OfPlatform /\ Date(e.at) >= Date(asked) =>
                     e \in got'["platformRevenueToday"]
    <3>1. CASE f = "platformRevenueToday"
      BY <1>1, <1>3, <1>4, <1>5, <3>1, RevenueOfToday
    <3>2. CASE f # "platformRevenueToday"
      BY <1>1, <1>4, <1>9, <2>2, <3>2 DEF FiguresAreOfToday, Read, Date
    <3> QED  BY <3>1, <3>2
  <2> QED  BY <1>2, <2>1, <2>2 DEF FiguresAreOfToday, Date, DateIn, offsetAt
<1>14. StillToCome'
  BY <1>2, <1>5 DEF StillToCome
<1> QED  BY <1>6, <1>7, <1>8, <1>10, <1>11, <1>12, <1>13, <1>14 DEF Books, ReportInv

\* A reader who has asked for the statement follows no figure.
LEMMA OnlyTheStatement ==
  ASSUME ReportTypeOK, AskedOnce, "statement" \in follow
  PROVE  /\ follow = {"statement"} /\ DOMAIN got = {"statement"}
         /\ FiguresLast /\ NeverCountedTwice /\ PaidStaysPaid
         /\ FiguresAreOfToday
<1>1. follow = {"statement"} /\ DOMAIN got = {"statement"}
  BY DEF ReportTypeOK, AskedOnce, Read
<1>2. \A f : Read(f) => f = "statement"
  BY <1>1 DEF Read
<1>3. "statement" \notin FareFigures
  BY DEF FareFigures
<1> QED  BY <1>1, <1>2, <1>3 DEF FiguresLast, NeverCountedTwice,
            PaidStaysPaid, FiguresAreOfToday

LEMMA OnlyTheStatementNext ==
  ReportTypeOK' /\ AskedOnce' /\ "statement" \in follow' =>
     FiguresLast' /\ NeverCountedTwice' /\ PaidStaysPaid'
     /\ FiguresAreOfToday'
<1>1. ReportTypeOK /\ AskedOnce /\ "statement" \in follow =>
        FiguresLast /\ NeverCountedTwice /\ PaidStaysPaid
        /\ FiguresAreOfToday
  BY OnlyTheStatement
<1>2. (ReportTypeOK /\ AskedOnce /\ "statement" \in follow =>
        FiguresLast /\ NeverCountedTwice /\ PaidStaysPaid
        /\ FiguresAreOfToday)'
  BY <1>1, PTL
<1> QED  BY <1>2

LEMMA AskStatementKeeps ==
  ASSUME ReportInv, AskStatement
  PROVE  ReportInv'
<1>1. /\ Books /\ AskedOnce /\ None \notin Hours /\ clock \in Hours
      /\ None \notin Nat
  BY ReportSizes DEF Books, ReportInv, ReportSizes, Hours, ReportTypeOK
<1>2. /\ asked = None /\ asked' = clock /\ follow' = {"statement"} /\ base' = ledger
      /\ got' = [statement |-> {}] /\ UNCHANGED <<clock, status, opened, ledger, offset>>
  BY DEF AskStatement, world
<1>3. offset = 0 /\ DOMAIN got' = {"statement"}
  BY <1>1, <1>2 DEF AskedOnce
<1>4. Books'
  BY <1>1, <1>2, <1>3, BooksKept DEF Figures
<1>5. AskedOnce'
  BY <1>1, <1>2, <1>3 DEF AskedOnce, Read
<1>6. NothingLost'
  BY <1>2 DEF NothingLost
<1>7. StillToCome'
  <2>1. ASSUME NEW e \in ledger, e.type \in OfDriver
        PROVE  \E x \in DriverEntries' : x.of = e.of /\ Place(x)' >= offset
    <3>1. e \in DriverEntries'
      BY <1>2, <2>1 DEF DriverEntries
    <3>2. Place(e)' = Rank(Times(DriverEntries'), e.at)
      BY <1>4, <3>1, PlacesStayRanks DEF Ranked
    <3>3. IsFiniteSet(Times(DriverEntries'))
      BY <1>4, PlacesStayRanks DEF Ranked
    <3>4. Place(e)' \in Nat
      BY <3>2, <3>3, RankGrows
    <3> QED  BY <1>3, <3>1, <3>4
  <2> QED  BY <1>1, <1>2, <1>3, <2>1 DEF StillToCome
<1>8. ReportTypeOK'
  BY <1>4 DEF Books
<1> QED  BY <1>2, <1>4, <1>5, <1>6, <1>7, <1>8, OnlyTheStatementNext
         DEF Books, ReportInv

\* A page that is not full is the last: nothing has a place behind it.
LEMMA LastPage ==
  ASSUME Books, offset \in Nat, Cardinality(OnPage) < Page,
         NEW x \in DriverEntries, Place(x) >= offset
  PROVE  x \in OnPage
<1>1. PICK D, A : D = DriverEntries /\ A = Times(D)
  OBVIOUS
<1>2. /\ A \in SUBSET Int /\ IsFiniteSet(A) /\ IsFiniteSet(D)
      /\ \A e \in D : Place(e) = Rank(A, e.at)
  BY <1>1, PlacesAreRanks DEF Ranked
<1>3. PICK page : page = {k \in A : Rank(A, k) \in offset..(offset + Page - 1)}
  OBVIOUS
<1>4. PICK P : P = OnPage
  OBVIOUS
<1>5. P = {e \in D : Rank(A, e.at) \in offset..(offset + Page - 1)}
  BY <1>1, <1>2, <1>4 DEF OnPage
<1>6. Times(P) = page
  BY <1>1, <1>3, <1>5 DEF Times
<1>7. Cardinality(page) = Cardinality(P)
  <2>1. page \subseteq A
    BY <1>3
  <2>2. IsFiniteSet(page)
    BY <1>2, <2>1, FS_Subset
  <2>3. \A d, e \in P : d.at = e.at => d = e
    BY <1>1, <1>5, DriversMoments
  <2> QED  BY <1>6, <2>2, <2>3, CountedByTime
<1>8. Cardinality(P) < Page /\ Page \in Nat
  BY <1>4, ReportSizes DEF Books, ReportSizes
<1>9. x.at \in A /\ Rank(A, x.at) >= offset /\ Rank(A, x.at) \in Nat
  <2>1. x.at \in A
    BY <1>1 DEF Times
  <2>2. Rank(A, x.at) \in Nat
    BY <1>2, RankGrows
  <2> QED  BY <1>1, <1>2, <2>1, <2>2
<1>10. ~(Rank(A, x.at) >= offset + Page)
  <2> SUFFICES ASSUME Rank(A, x.at) >= offset + Page
               PROVE  FALSE
    OBVIOUS
  <2>1. Cardinality(page) >= Page
    BY <1>2, <1>3, <1>8, <1>9, NoGap
  <2>2. IsFiniteSet(P)
    <3>1. P \subseteq D
      BY <1>5
    <3> QED  BY <1>2, <3>1, FS_Subset
  <2>3. Cardinality(P) \in Nat
    BY <2>2, FS_CardinalityType
  <2> QED  BY <1>7, <1>8, <2>1, <2>3
<1>11. Rank(A, x.at) \in offset..(offset + Page - 1)
  BY <1>8, <1>9, <1>10
<1> QED  BY <1>1, <1>4, <1>5, <1>11

LEMMA NextPageKeeps ==
  ASSUME ReportInv, NextPage
  PROVE  ReportInv'
<1>1. /\ Books /\ AskedOnce /\ NothingLost /\ StillToCome
      /\ None \notin Nat /\ Page \in Nat \ {0}
  BY ReportSizes DEF Books, ReportInv, ReportSizes
<1>2. /\ follow = {"statement"} /\ offset # None
      /\ got' = [statement |-> got["statement"] \cup {e.of : e \in OnPage}]
      /\ offset' = IF Cardinality(OnPage) < Page THEN None ELSE offset + Page
      /\ UNCHANGED <<clock, status, opened, ledger, asked, follow, base>>
  BY DEF NextPage, world
<1>3. offset \in Nat /\ offset' \in Nat \cup {None} /\ DOMAIN got' = {"statement"}
  BY <1>1, <1>2 DEF AskedOnce
<1>4. Books'
  BY <1>1, <1>2, <1>3, BooksKept DEF Books, ReportTypeOK
<1>5. AskedOnce'
  BY <1>1, <1>2, <1>3 DEF AskedOnce, Read
<1>6. NothingLost'
  BY <1>1, <1>2 DEF NothingLost
<1>7. StillToCome'
  <2> SUFFICES ASSUME NEW e \in base, e.type \in OfDriver, e.of \notin got'["statement"]
               PROVE  /\ offset' # None
                      /\ \E x \in DriverEntries' :
                            x.of = e.of /\ Place(x)' >= offset'
    BY <1>2 DEF StillToCome
  <2>1. e.of \notin got["statement"] /\ \A x \in OnPage : x.of # e.of
    BY <1>2
  <2>2. PICK x \in DriverEntries : x.of = e.of /\ Place(x) >= offset
    BY <1>1, <1>2, <2>1 DEF StillToCome
  <2>3. x \notin OnPage
    BY <2>1, <2>2
  <2>4. ~(Cardinality(OnPage) < Page)
    BY <1>1, <1>3, <2>2, <2>3, LastPage
  <2>5. offset' = offset + Page /\ offset' # None
    BY <1>1, <1>2, <1>3, <2>4
  <2>6. Place(x) \in Nat
    <3>1. /\ Place(x) = Rank(Times(DriverEntries), x.at)
          /\ IsFiniteSet(Times(DriverEntries))
      BY <1>1, PlacesAreRanks DEF Ranked
    <3> QED  BY <3>1, RankGrows
  <2>7. Place(x) >= offset + Page
    BY <1>1, <1>3, <2>2, <2>3, <2>6 DEF OnPage
  <2>8. DriverEntries' = DriverEntries /\ Place(x)' = Place(x)
    BY <1>2 DEF DriverEntries, Place
  <2> QED  BY <2>2, <2>5, <2>7, <2>8
<1>8. ReportTypeOK' /\ "statement" \in follow'
  BY <1>2, <1>4 DEF Books
<1> QED  BY <1>4, <1>5, <1>6, <1>7, <1>8, OnlyTheStatementNext DEF Books, ReportInv

-----------------------------------------------------------------------------
(* The theorems about reports                                              *)

LEMMA ReportStarts == ReportInit => ReportInv
<1> SUFFICES ASSUME ReportInit
             PROVE  ReportInv
  OBVIOUS
<1>1. /\ clock = FirstHour /\ status = [r \in Rides |-> "requested"]
      /\ opened = [r \in Rides |-> None] /\ ledger = {} /\ asked = None /\ follow = {}
      /\ got = <<>> /\ offset = 0 /\ base = {}
  BY DEF ReportInit
<1>2. DOMAIN got = {}
  BY <1>1
<1>3. ReportTypeOK
  BY <1>1, <1>2, ReportSizes DEF ReportTypeOK, ReportSizes, Hours, RideStatus
<1>4. SettledTogether /\ OwnMoments /\ NothingLost
  BY <1>1 DEF SettledTogether, OwnMoments, NothingLost
<1>5. AskedOnce /\ StillToCome
  BY <1>1, <1>2 DEF AskedOnce, Read, StillToCome
<1>6. /\ FiguresLast /\ NeverCountedTwice /\ PaidStaysPaid
      /\ FiguresAreOfToday
  BY <1>2 DEF FiguresLast, NeverCountedTwice, PaidStaysPaid,
              FiguresAreOfToday, Read
<1> QED  BY <1>3, <1>4, <1>5, <1>6 DEF ReportInv

LEMMA ReportStep == ReportInv /\ [ReportNext]_reportVars => ReportInv'
<1> SUFFICES ASSUME ReportInv, [ReportNext]_reportVars
             PROVE  ReportInv'
  OBVIOUS
<1>1. CASE Bookkeeping
  BY <1>1, TickKeeps, AdvanceKeeps, BeginKeeps, SettleKeeps, BookKeeps, EntrySettleKeeps
     DEF Bookkeeping
<1>2. CASE AskFigures(Dashboard) \/ AskFigures(Revenue) \/ AskFigures(Earners)
  <2>1. /\ Dashboard \in SUBSET (Figures \ {"statement"})
        /\ Revenue \in SUBSET (Figures \ {"statement"})
        /\ Earners \in SUBSET (Figures \ {"statement"})
    BY DEF Figures, Dashboard, Revenue, Earners
  <2> QED  BY <1>2, <2>1, AskKeeps
<1>3. CASE AskStatement
  BY <1>3, AskStatementKeeps
<1>4. CASE \E f \in Figures \ {"statement"} : Query(f)
  BY <1>4, QueryKeeps
<1>5. CASE NextPage
  BY <1>5, NextPageKeeps
<1>6. CASE UNCHANGED reportVars
  <2>1. UNCHANGED <<clock, status, opened, ledger, asked, follow, got, offset, base>>
    BY <1>6 DEF reportVars, world, reader
  <2>2. Books'
    BY <2>1, BooksKept DEF Books, ReportInv, ReportTypeOK
  <2>3. EntriesStay /\ RidesMoveOn
    BY <2>1 DEF EntriesStay, RidesMoveOn
  <2> QED  BY <2>1, <2>2, <2>3, WorldKeeps
<1> QED  BY <1>1, <1>2, <1>3, <1>4, <1>5, <1>6 DEF ReportNext

\* The inductive invariant of reports and statements, for any rides and
\* movements of money, any hours, page and window of days, and any zone of a
\* fixed offset east of the server's.
THEOREM ReportInvHolds == ReportSpec => []ReportInv
BY ReportStarts, ReportStep, PTL DEF ReportSpec

\* The fare figures of one answer disagree only about rides whose settlement
\* committed between two of its queries and, where the breakdown by day is one
\* of the two, about rides settled before its window; no ride is counted both
\* as waiting and as under way, and no payout reported as paid bounces:
\* StatsService's queries, which run side by side without a snapshot.
THEOREM FiguresSound == ReportSpec => []FiguresAgree
<1>1. ASSUME ReportInv
      PROVE  FiguresAgree
  <2>1. /\ ReportTypeOK /\ NeverCountedTwice /\ PaidStaysPaid
        /\ FiguresLast
    BY <1>1 DEF ReportInv
  <2>2. OnlyOverlapsMisreport
    BY <2>1 DEF FiguresLast, OnlyOverlapsMisreport
  <2> QED  BY <2>1, <2>2 DEF FiguresAgree
<1>2. ReportInv => FiguresAgree
  BY <1>1
<1> QED  BY <1>2, ReportStarts, ReportStep, PTL DEF ReportSpec

\* startOfDayIn finds the first instant of the local date, on days of 23 and 25
\* hours too, for the zones of Zones: whole hours, clocks that change by one and
\* never across midnight.  windows() uses it with a zone of a fixed offset, and
\* the figures of today are of that zone's day.
THEOREM TodaySound == ReportSpec => []TodayIsToday
<1>1. ReportInv => TodayIsToday
  BY MidnightFound DEF ReportInv, TodayIsToday
<1> QED  BY <1>1, ReportStarts, ReportStep, PTL DEF ReportSpec

\* Who reads a statement to its end misses no entry there was when it was
\* asked for, whatever is booked or settled between two pages, for pages of any
\* size: LedgerService.findByStakeholder, newest first.
THEOREM PagingSound == ReportSpec => []PagesMissNothingOld
<1>1. ASSUME ReportInv
      PROVE  PagesMissNothingOld
  <2> SUFFICES ASSUME offset = None, NEW e \in base, e.type \in OfDriver
               PROVE  e.of \in got["statement"]
    BY DEF PagesMissNothingOld
  <2>1. "statement" \in follow
    BY <1>1, ReportSizes DEF ReportInv, ReportSizes, AskedOnce
  <2> QED  BY <1>1, <2>1 DEF ReportInv, StillToCome
<1>2. ReportInv => PagesMissNothingOld
  BY <1>1
<1> QED  BY <1>2, ReportStarts, ReportStep, PTL DEF ReportSpec
=============================================================================

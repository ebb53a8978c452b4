------------------------------- MODULE Alerts -------------------------------
(***************************************************************************)
(* The in-ride SOS and the queues it shares with the e-mails:              *)
(* EmergencyService (trigger, resolve), WebhookService and EmailService    *)
(* that add jobs to BullMQ, EmergencyWebhookProcessor and EmailProcessor   *)
(* that work them off.  An incident goes by the request that raised it, a  *)
(* job by that request and the job's name.                                 *)
(*                                                                         *)
(* BullMQ and the outside are modelled from how the code uses them: a job  *)
(* that throws is retried after a backoff up to its attempts, a job whose  *)
(* worker died is given to another worker once.  A target may have heard   *)
(* an alert although its answer did not come back.                         *)
(*                                                                         *)
(* Abstractions.  The position and the notes of an incident and who raised *)
(* it are left out: no later step looks at them.  "mail" stands for the    *)
(* three e-mails, which are queued, sent and retried alike.                *)
(***************************************************************************)
EXTENDS Naturals, FiniteSets

CONSTANTS
    Presses,      \* calls of POST /emergency/trigger
    Others,       \* calls that close an incident or send an e-mail
    Targets,      \* the URLs of EMERGENCY_WEBHOOK_URLS, if it is set
    SendGrid,
    Failures,     \* may the database or Redis reject a call?
    MaxOutages,   \* bound: attempts at which some target does not answer well
    MaxDeaths     \* bound: workers that die over a job

ASSUME AlertNames ==
    /\ SendGrid \notin Targets
    /\ Presses \cap Others = {}
    /\ Failures \in BOOLEAN
    /\ MaxOutages \in Nat /\ MaxDeaths \in Nat

Webhooks == {"triggerEmergencyProtocol", "broadcastLocation"}
Mails == {"mail"}
Alarms == Presses \X Webhooks
Jobs == Alarms \cup (Others \X Mails)
Requests == Presses \cup Others

EmergencyStatus == {"active", "resolved", "false_alarm"}

VARIABLES
    urls, mailOn,  \* the configuration: webhook targets, is SendGrid set up?
    incident,      \* incident[t]: row of emergency_incidents
    broadcast,     \* the incidents shown to the parties and the ops room
    job,           \* job[j]: the job in Redis
    pc, call,
    draft,         \* draft[t]: the row object of a verdict
    reread,        \* reread[t]: what save read back
    reply,         \* reply[t]
    outages, deaths

config == <<urls, mailOn>>
queue == <<job, outages, deaths>>
request == <<pc, call, draft, reread, reply>>
vars == <<config, incident, broadcast, queue, request>>

NoIncident == [status |-> "none", closed |-> FALSE]
NewIncident == [status |-> "active", closed |-> FALSE]

\* A verdict names an incident and a status.
NoCall == [on |-> {}, status |-> "none"]
Unqueued == [state |-> "none", attempts |-> 0, stalls |-> 0, reached |-> {}]

Init ==
    /\ urls \in {{}, Targets}
    /\ mailOn \in BOOLEAN
    /\ incident = [t \in Presses |-> NoIncident]
    /\ broadcast = {}
    /\ job = [j \in Jobs |-> Unqueued]
    /\ pc = [t \in Requests |-> "idle"]
    /\ call = [t \in Requests |-> NoCall]
    /\ draft = [t \in Requests |-> NoIncident]
    /\ reread = [t \in Requests |-> NoIncident]
    /\ reply = [t \in Requests |-> "none"]
    /\ outages = 0
    /\ deaths = 0

Saved(t) == incident[t] # NoIncident

Goto(t, where) == pc' = [pc EXCEPT ![t] = where]
Answer(t, what) ==
    /\ Goto(t, "done")
    /\ reply' = [reply EXCEPT ![t] = what]
    /\ call' = [call EXCEPT ![t] = NoCall]
    /\ draft' = [draft EXCEPT ![t] = NoIncident]
    /\ reread' = [reread EXCEPT ![t] = NoIncident]
Ask(t, c, first) ==
    /\ pc[t] = "idle"
    /\ call' = [call EXCEPT ![t] = c]
    /\ Goto(t, first)

-----------------------------------------------------------------------------
(* Adding jobs                                                             *)

Waiting == [Unqueued EXCEPT !.state = "waiting"]

\* The jobs of js are added; or some of them, and the call is rejected.
Add(t, js, done, failed) ==
    /\ \/ /\ job' = [j \in Jobs |-> IF j \in js THEN Waiting ELSE job[j]]
          /\ Answer(t, done)
       \/ /\ Failures
          /\ \E added \in SUBSET js :
                job' = [j \in Jobs |-> IF j \in added THEN Waiting ELSE job[j]]
          /\ Answer(t, failed)
    /\ UNCHANGED <<outages, deaths>>

\* dispatchEmergency: Promise.all of two adds.
dispatchEmergency(t) == Add(t, {t} \X Webhooks, "raised", "error")

\* EmailService: sendOtpEmail, sendWelcomeEmail, sendForgotPasswordEmail, as
\* the last thing the sign-in handlers do.
SendEmail(t) ==
    \E name \in Mails :
        /\ pc[t] = "idle"
        /\ Add(t, {<<t, name>>}, "mailed", "error")
        /\ UNCHANGED <<config, incident, broadcast>>

-----------------------------------------------------------------------------
(* POST /emergency/trigger                                                 *)

\* The ride must be in progress (RideLifecycle) and the caller a party to it.
Trigger(t) ==
    \E inProgress, isParty \in BOOLEAN :
        /\ pc[t] = "idle"
        /\ IF inProgress /\ isParty
           THEN Goto(t, "locate") /\ UNCHANGED <<call, draft, reread, reply>>
           ELSE Answer(t, "refused")
        /\ UNCHANGED <<config, incident, broadcast, queue>>

\* resolveLocation: the caller's coordinates, the driver's last position or
\* else the pickup; a failing lookup is caught.
ResolveLocation(t) ==
    /\ pc[t] = "locate"
    /\ Goto(t, "save")
    /\ UNCHANGED <<config, incident, broadcast, queue, call, draft, reread, reply>>

\* Steps 1 and 2 of trigger: the record, and the broadcast in the same tick.
SaveIncident(t) ==
    /\ pc[t] = "save"
    /\ \/ /\ incident' = [incident EXCEPT ![t] = NewIncident]
          /\ broadcast' = broadcast \cup {t}
          /\ Goto(t, "dispatch")
          /\ UNCHANGED <<call, draft, reread, reply>>
       \/ /\ Failures
          /\ incident' \in {incident, [incident EXCEPT ![t] = NewIncident]}
          /\ Answer(t, "error")
          /\ UNCHANGED broadcast
    /\ UNCHANGED <<config, queue>>

\* Step 3; nothing catches a rejected add.
Dispatch(t) ==
    /\ pc[t] = "dispatch"
    /\ dispatchEmergency(t)
    /\ UNCHANGED <<config, incident, broadcast>>

-----------------------------------------------------------------------------
(* PATCH /emergency/incidents/:id/resolve                                  *)

\* An admin names a verdict, resolved if none; the enum of the body has all three.
Resolve(t) ==
    \E i \in Presses, status \in EmergencyStatus :
        /\ Saved(i)
        /\ Ask(t, [on |-> {i}, status |-> status], "load")
        /\ UNCHANGED <<config, incident, broadcast, queue,
                       draft, reread, reply>>

Subject(t) == CHOOSE i \in call[t].on : TRUE

LoadIncident(t) ==
    /\ pc[t] = "load"
    /\ draft' = [draft EXCEPT ![t] = [status |-> call[t].status, closed |-> TRUE]]
    /\ Goto(t, "reread")
    /\ UNCHANGED <<config, incident, broadcast, queue, call, reread, reply>>

\* save reads the row again and then updates the columns that differ from it;
\* resolvedAt always does.
RereadIncident(t) ==
    /\ pc[t] = "reread"
    /\ reread' = [reread EXCEPT ![t] = incident[Subject(t)]]
    /\ Goto(t, "update")
    /\ UNCHANGED <<config, incident, broadcast, queue, call, draft, reply>>

Column(mine, read, now) == IF mine = read THEN now ELSE mine

UpdateIncident(t) ==
    /\ pc[t] = "update"
    /\ incident' = [incident EXCEPT ![Subject(t)] =
          [status |-> Column(draft[t].status, reread[t].status, @.status),
           closed |-> TRUE]]
    /\ Answer(t, "closed")
    /\ UNCHANGED <<config, broadcast, queue>>

-----------------------------------------------------------------------------
(* The workers                                                             *)

\* Fault: the jobs are added without options.
AttemptsDefault(name) == 1

\* attempts of the job's options.
Attempts(name) == IF name \in Webhooks THEN 5 ELSE 3

\* Whom a job has to reach: the targets that are configured, or SendGrid.
Reaches(j) ==
    IF j[2] \in Webhooks THEN urls ELSE IF mailOn THEN {SendGrid} ELSE {}

Become(j, state) == job' = [job EXCEPT ![j].state = state]

Take(j) ==
    /\ job[j].state = "waiting"
    /\ Become(j, "active")
    /\ UNCHANGED <<config, incident, broadcast, request, outages, deaths>>

\* Fault: the job fails only when no target answered.
ProcessAny(j) ==
    \E heard \in SUBSET Reaches(j) : \E ok \in SUBSET heard :
        /\ job[j].state = "active"
        /\ job' = [job EXCEPT ![j].reached = @ \cup heard,
                              ![j].state = IF ok # {} \/ Reaches(j) = {}
                                           THEN "completed" ELSE "delayed"]
        /\ outages < MaxOutages
        /\ outages' = outages + 1
        /\ UNCHANGED <<config, incident, broadcast, request, deaths>>

\* Fault: the calls have no timeout, a target that is silent holds the job.
ProcessUntimed(j) ==
    /\ job[j].state = "active"
    /\ \/ /\ job' = [job EXCEPT ![j].state = "completed", ![j].reached = Reaches(j)]
          /\ UNCHANGED outages
       \/ /\ Reaches(j) # {}
          /\ outages < MaxOutages
          /\ outages' = outages + 1
          /\ Become(j, "hanging")
    /\ UNCHANGED <<config, incident, broadcast, request, deaths>>

\* Every target is posted to and has to answer well, or the job throws; with
\* nobody to tell it does nothing.  After its last attempt it has failed.  The
\* posts of an alarm are timed; SendGrid's send is not, and a mail whose send is
\* never answered stays active: FairSpec does not promise that it ends.
Process(j) ==
    \E heard \in SUBSET Reaches(j) : \E ok \in SUBSET heard :
        /\ job[j].state = "active"
        /\ \/ /\ ok = Reaches(j)
              /\ job' = [job EXCEPT ![j].state = "completed", ![j].reached = @ \cup heard]
              /\ UNCHANGED outages
           \/ /\ ok # Reaches(j)
              /\ outages < MaxOutages
              /\ outages' = outages + 1
              /\ job' = [job EXCEPT ![j].reached = @ \cup heard,
                    ![j].attempts = @ + 1,
                    ![j].state = IF job[j].attempts + 1 < Attempts(j[2])
                                 THEN "delayed" ELSE "failed"]
        /\ UNCHANGED <<config, incident, broadcast, request, deaths>>

\* The backoff is over.
Ready(j) ==
    /\ job[j].state = "delayed"
    /\ Become(j, "waiting")
    /\ UNCHANGED <<config, incident, broadcast, request, outages, deaths>>

\* The process dies over the job, which some targets may have heard of.
Die(j) ==
    \E heard \in SUBSET Reaches(j) :
        /\ job[j].state = "active"
        /\ deaths < MaxDeaths
        /\ deaths' = deaths + 1
        /\ job' = [job EXCEPT ![j].state = "stalled", ![j].reached = @ \cup heard]
        /\ UNCHANGED <<config, incident, broadcast, request, outages>>

\* Its lock runs out: back to the queue the first time, given up the second.
Recover(j) ==
    /\ job[j].state = "stalled"
    /\ job' = [job EXCEPT ![j].stalls = @ + 1,
                          ![j].state = IF job[j].stalls = 0 THEN "waiting" ELSE "failed"]
    /\ UNCHANGED <<config, incident, broadcast, request, outages, deaths>>

-----------------------------------------------------------------------------
Handle(t) ==
    \/ ResolveLocation(t) \/ SaveIncident(t) \/ Dispatch(t)
    \/ LoadIncident(t) \/ RereadIncident(t) \/ UpdateIncident(t)
Work(j) == Take(j) \/ Process(j) \/ Ready(j) \/ Recover(j)

Next ==
    \/ \E t \in Presses : Trigger(t)
    \/ \E t \in Others : Resolve(t) \/ SendEmail(t)
    \/ \E t \in Requests : Handle(t)
    \/ \E j \in Jobs : Work(j) \/ Die(j)

Spec == Init /\ [][Next]_vars

\* A handler that runs goes on.  An alarm is taken, its posts time out, every
\* backoff ends and a dead worker's lock runs out; of a mail nothing is promised.
FairSpec ==
    /\ Spec
    /\ \A t \in Requests : WF_vars(Handle(t))
    /\ \A j \in Alarms : WF_vars(Work(j))

-----------------------------------------------------------------------------
(* Properties                                                              *)

JobState == {"none", "waiting", "active", "delayed", "stalled", "completed", "failed"}
IncidentRow == [status: EmergencyStatus \cup {"none"}, closed: BOOLEAN]
Job == [state: JobState, attempts: 0..5, stalls: 0..2,
        reached: SUBSET (Targets \cup {SendGrid})]
Call == [on: SUBSET Presses, status: EmergencyStatus \cup {"none"}]

TypeOK ==
    /\ urls \subseteq Targets /\ mailOn \in BOOLEAN
    /\ incident \in [Presses -> IncidentRow]
    /\ broadcast \subseteq Presses
    /\ job \in [Jobs -> Job]
    /\ call \in [Requests -> Call]
    /\ pc \in [Requests -> {"idle", "locate", "save", "dispatch", "load", "reread",
                            "update", "done"}]
    /\ draft \in [Requests -> IncidentRow] /\ reread \in [Requests -> IncidentRow]
    /\ reply \in [Requests -> {"none", "raised", "mailed", "closed", "refused", "error"}]
    /\ outages \in 0..MaxOutages /\ deaths \in 0..MaxDeaths

\* Nobody is alarmed over an incident that is not on record: neither the ops
\* room nor a partner hears of one whose insert failed.
RecordComesFirst ==
    /\ \A t \in broadcast : Saved(t)
    /\ \A j \in Jobs : j[2] \in Webhooks /\ job[j].state # "none" =>
          Saved(j[1]) /\ j[1] \in broadcast

\* A job counts as done only when every target has it, over however many
\* attempts and workers; what only some heard is still in the queue.
DoneMeansAllHeard ==
    \A j \in Jobs : job[j].state = "completed" => job[j].reached = Reaches(j)

\* A queue whose receiver is not configured does not fill up: its jobs end
\* without using an attempt.
NothingToTellIsNoFailure ==
    \A j \in Jobs : Reaches(j) = {} => job[j].attempts = 0

\* A worker's death alone loses no alert: a job is given up only after its
\* last attempt or a second death.
GivenUpLate ==
    \A j \in Jobs : job[j].state = "failed" =>
        job[j].attempts = Attempts(j[2]) \/ job[j].stalls = 2

\* The queue tells the truth about the alerts: they are on record before they
\* are told, done when everybody heard them, and given up only after a fight.
QueueIsHonest ==
    /\ TypeOK
    /\ RecordComesFirst /\ DoneMeansAllHeard
    /\ NothingToTellIsNoFailure /\ GivenUpLate

\* The platform keeps its word to everybody who is to hear of an emergency or
\* to get an e-mail, as AlertContract says: nothing is owed twice or before it
\* is on record, and what was delivered or given up is over.
Phase(state) ==
    CASE state = "none" -> "none"
      [] state = "completed" -> "delivered"
      [] state = "failed" -> "givenUp"
      [] OTHER -> "owed"
Contract == INSTANCE AlertContract WITH
    Incidents <- Presses,
    Messages <- Jobs,
    IncidentOf <- [m \in Alarms |-> m[1]],
    receivers <- [j \in Jobs |-> Reaches(j)],
    recorded <- {t \in Presses : Saved(t)},
    shown <- broadcast,
    phase <- [j \in Jobs |-> Phase(job[j].state)],
    told <- [j \in Jobs |-> job[j].reached]
KeepsItsWord == Contract!Spec

\* An SOS that was answered as raised reaches every partner with both calls,
\* through outages shorter than its attempts and one dying worker.
AlertsLand ==
    \A t \in Presses :
        reply[t] = "raised" ~> \A e \in Webhooks : job[<<t, e>>].reached = urls

\* No alarm stays in the queue for ever: it is delivered or given up.
JobsAreSettled ==
    \A j \in Alarms :
        job[j].state # "none" ~> job[j].state \in {"completed", "failed"}

-----------------------------------------------------------------------------
(* The inductive invariant behind the theorems of BackOfficeProofs         *)

\* Where a request may be: an SOS on its way from the record to the queue, or
\* a verdict on an incident.
InPlace ==
    \A t \in Requests :
        /\ pc[t] \in {"locate", "save", "dispatch"} => t \in Presses
        /\ pc[t] = "dispatch" => t \in broadcast
        /\ pc[t] \in {"load", "reread", "update"} => call[t].on # {}

\* A job that has not failed has an attempt and a death to spare; it told
\* nobody but its receivers.
HasHope(j) ==
    /\ job[j].reached \subseteq Reaches(j)
    /\ job[j].attempts <= Attempts(j[2])
    /\ job[j].state # "failed" =>
          job[j].attempts < Attempts(j[2]) /\ job[j].stalls < 2

\* A request has added no job before it is answered.
UntilAnswered ==
    \A t \in Requests : pc[t] # "done" =>
        \A j \in Jobs : j[1] = t => job[j] = Unqueued

QueueInv ==
    /\ TypeOK
    /\ InPlace /\ (\A j \in Jobs : HasHope(j))
    /\ RecordComesFirst /\ DoneMeansAllHeard
    /\ NothingToTellIsNoFailure /\ GivenUpLate
=============================================================================

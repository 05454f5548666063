--------------------------- MODULE ExternalCanary ---------------------------
(* The external business canary and its independent dead-man heartbeat.  Two  *)
(* systemd timers start two services on the observer host: at :00 of every    *)
(* minute `run` exercises the gateway through the SDK and records a sample,   *)
(* at :45 `watchdog` judges the newest sample; the watchdog's result starts   *)
(* the heartbeat reporter, which pings a hosted provider that reports a       *)
(* heartbeat it misses.  A governed drill suppresses the heartbeat once, to   *)
(* prove that the provider notices, and is attested afterwards.               *)
(* Time is counted in halves of a minute: an even instant is :00, an odd one  *)
(* is :45.  The provider, Alertmanager and the gateway are environment.       *)
EXTENDS Integers, FiniteSets

CONSTANTS
    Record,         \* deployment records the observer can be given
    MaxNow,         \* horizon
    Timeout,        \* the provider's schedule and grace: ping to missing heartbeat
    RearmAfter,     \* arming of a drill to its automatic recovery
    SnapshotAge,    \* how long a snapshot of the check is admitted
    Refresh,        \* age at which a delivered silence alert is sent again
    MaxFaults,      \* bound on outages, crashes, kills and lost calls
    MaxExtra,       \* bound on samples started by hand and windows superseded
    MaxDrift,       \* bound on new records and observer tools provisioned
    MaxTrouble,     \* bound on all of these together
    ActivateBy,     \* bounds on when the operator activates the heartbeat
    ArmBy,          \* and arms the drill
    None

ASSUME CanaryAssumption == MaxNow \in Nat /\ RearmAfter \in Nat /\ Record # {} /\ None \notin Int

VARIABLES
    now,
    due,            \* services whose timer has elapsed
    host,           \* the observer host is up
    record,         \* deployment record on the observer
    tools,          \* version of the observer's installed programs
    run, wd,        \* the two services, or None
    rep,            \* [heartbeat -> its reporter, or None]
    samples, incidents, receipts,   \* create-only evidence
    bound,          \* the heartbeat drop-in is installed
    wtimer,         \* the watchdog timer is active
    result,         \* last result of the watchdog service
    provider,       \* the hosted check: its status, last success, last instant it was up
    drill,          \* the missing-heartbeat drill
    attested,       \* its attestation, or None
    served,         \* history: starts of flows that the gateway served entirely
    pings,          \* history: pings the provider got
    faults, extra, drift

evidence == <<samples, incidents, receipts>>
services == <<run, wd, rep>>
world == <<host, record, tools, drift>>
heartbeat == <<bound, wtimer, result, provider, drill, attested, pings>>
vars == <<now, due, world, services, evidence, heartbeat, served, faults, extra>>

Instant == -2 .. MaxNow
Minute(t) == t \div 2

\* active is history: the heartbeat was active when the flow started.
Sample == [at : Int, hand : BOOLEAN, record : Record, pass : BOOLEAN, told : BOOLEAN,
           active : BOOLEAN]

TypeOK ==
    /\ now \in Instant /\ due \subseteq {"run", "watchdog"}
    /\ record \in Record /\ tools \in 0 .. MaxDrift
    /\ run # None =>
        /\ run.pc \in {"flow", "incident", "sample"} /\ run.at \in Instant
        /\ now - run.at <= 1
    /\ wd # None => wd.pc \in {"scan", "judge"} /\ wd.at \in Instant /\ now - wd.at <= 1
    /\ \A ok \in BOOLEAN : rep[ok] # None =>
        rep[ok].pc \in {"post", "receipt"} /\ now - rep[ok].at <= 1
    /\ samples \subseteq Sample /\ \A s \in samples : s.at \in Instant
    /\ \A i \in incidents : i.kind \in {"failed", "retry", "silent", "unready"} /\ i.at \in Instant
    /\ \A r \in receipts : r.at \in Instant /\ r.accepted \in BOOLEAN
    /\ provider.status \in {"new", "up", "down"}
    /\ faults \in 0 .. MaxFaults /\ extra \in 0 .. MaxExtra /\ drift \in 0 .. MaxDrift

NoDrill == [pc |-> "none", subject |-> None, armed |-> None, timer |-> None,
            stopped |-> None, down |-> None, rearmed |-> None]

FirstRecord == CHOOSE r \in Record : TRUE

\* The heartbeat is installed but not yet active.
Shadow ==
    /\ samples = {} /\ receipts = {} /\ served = {} /\ pings = {}
    /\ bound = FALSE /\ provider = [status |-> "new", last |-> 0, up |-> None]
    /\ drill = NoDrill /\ attested = None

\* The heartbeat is active and its drill of the last hour is attested.
Accepted ==
    /\ samples = {[at |-> -2, hand |-> FALSE, record |-> FirstRecord, pass |-> TRUE,
                    told |-> FALSE, active |-> TRUE]}
    /\ served = {-2} /\ pings = {[ok |-> TRUE, at |-> -1]}
    /\ receipts = {[ok |-> TRUE, at |-> -1, for |-> Minute(-1), accepted |-> TRUE,
                     strict |-> TRUE]}
    /\ bound = TRUE /\ provider = [status |-> "up", last |-> -1, up |-> 0]
    /\ drill = [pc |-> "stopped", subject |-> FirstRecord, armed |-> -40, timer |-> None,
                stopped |-> -39, down |-> -30, rearmed |-> -24]
    /\ attested = [subject |-> FirstRecord, at |-> -20]

Init ==
    /\ now = 0 /\ due = {"run"} /\ host = TRUE /\ tools = 0 /\ record = FirstRecord
    /\ run = None /\ wd = None /\ rep = [ok \in BOOLEAN |-> None]
    /\ incidents = {} /\ wtimer = TRUE /\ result = "success"
    /\ faults = 0 /\ extra = 0 /\ drift = 0
    /\ Shadow \/ Accepted

-----------------------------------------------------------------------------
(* The environment.                                                           *)

Trouble == faults + extra + drift < MaxTrouble
Spend(n) == /\ n > 0 => Trouble /\ faults + n <= MaxFaults
            /\ faults' = faults + n
Fault == Spend(1)

\* A oneshot service is ended by its start timeout before the next but one instant.
Bounded(s) == s # None => s.at = now

Elapsed(t) == IF t % 2 = 0 THEN "run" ELSE "watchdog"

Busy == run # None \/ wd # None \/ \E ok \in BOOLEAN : rep[ok] # None

\* A host command is given 30 seconds: begun at an even instant, which lasts 45 seconds,
\* it can end at the next even one, and begun at an odd instant at the next.
StopTakes(armed) == IF armed % 2 = 0 THEN 2 ELSE 1

\* Time passes once what the timers started within a second has started.  A service
\* that is still running at the next instant is a slow one.  arm-drill gives up 75
\* seconds after it stopped the timer.
Tick ==
    /\ now < MaxNow
    /\ Bounded(run) /\ Bounded(wd)
    /\ now % 2 = 0 => \A ok \in BOOLEAN : rep[ok] = None
    /\ host => /\ "run" \notin due
               /\ wtimer => "watchdog" \notin due
               /\ drill.timer # None => now < drill.timer
               /\ drill.pc = "armed" => now < drill.armed + StopTakes(drill.armed)
               /\ drill.pc = "stopping" => now - drill.armed <= 1
    /\ now' = now + 1
    /\ provider' = IF provider.status = "up" THEN [provider EXCEPT !.up = now'] ELSE provider
    /\ due' = due \cup {Elapsed(now')}
    /\ Spend(IF Busy THEN 1 ELSE 0)
    /\ UNCHANGED <<world, services, evidence, bound, wtimer, result, drill, attested, pings,
                   served, extra>>

\* The host stops: services end, the transient recovery timer of a drill is gone.
Crash ==
    /\ host /\ Fault /\ host' = FALSE
    /\ run' = None /\ wd' = None /\ rep' = [ok \in BOOLEAN |-> None]
    /\ drill' = [drill EXCEPT !.timer = None,
                              !.pc = IF @ \in {"armed", "stopping"} THEN "killed" ELSE @]
    /\ UNCHANGED <<now, due, record, tools, drift, evidence, bound,
                   wtimer, result, provider, attested, pings, served, extra>>

\* Both timers are enabled and persistent: they run at once what they missed.
Boot ==
    /\ ~host /\ host' = TRUE /\ wtimer' = TRUE
    /\ UNCHANGED <<now, due, record, tools, drift, services, evidence,
                   bound, result, provider, drill, attested, pings, served, faults, extra>>

\* Another exported record, or another version of the observer's programs, is provisioned.
Provision ==
    /\ Trouble /\ drift < MaxDrift /\ drift' = drift + 1
    /\ \/ record' \in Record \ {record} /\ UNCHANGED tools
       \/ tools' = tools + 1 /\ UNCHANGED record
    /\ UNCHANGED <<now, due, host, services, evidence, heartbeat,
                   served, faults, extra>>

-----------------------------------------------------------------------------
(* external_business_canary.py run                                            *)

\* The record is read before the flow starts.
StartRun ==
    /\ host /\ run = None
    /\ \E hand \in BOOLEAN :
        /\ run' = [pc |-> "flow", hand |-> hand, at |-> now, record |-> record,
                   pass |-> FALSE, told |-> FALSE, active |-> bound]
        /\ IF hand THEN Trouble /\ extra < MaxExtra /\ extra' = extra + 1 /\ UNCHANGED due
                   ELSE "run" \in due /\ due' = due \ {"run"} /\ UNCHANGED extra
    /\ UNCHANGED <<now, world, wd, rep, evidence, heartbeat, served, faults>>

\* The six steps of the business flow in order: a step after a failed one is not
\* tried, so the sample passes exactly when the gateway served all of them.  Whether the
\* alert of a failure is delivered is Alertmanager's choice, today and at every retry.
RunFlow(pass, told) ==
    /\ run # None /\ run.pc = "flow"
    /\ pass => ~told
    /\ Spend(IF pass THEN 0 ELSE 1)
    /\ run' = [run EXCEPT !.pc = IF pass THEN "sample" ELSE "incident", !.pass = pass, !.told = told]
    /\ served' = IF pass THEN served \cup {run.at} ELSE served
    /\ UNCHANGED <<now, due, world, wd, rep, evidence, heartbeat, extra>>

RunIncident ==
    /\ run # None /\ run.pc = "incident"
    /\ incidents' = incidents \cup
        {[kind |-> "failed", key |-> run.at, at |-> run.at, delivered |-> run.told]}
    /\ run' = [run EXCEPT !.pc = "sample"]
    /\ UNCHANGED <<now, due, world, wd, rep, samples, receipts, heartbeat, served,
                   faults, extra>>

RunSample ==
    /\ run # None /\ run.pc = "sample"
    /\ samples' = samples \cup {[at |-> run.at, hand |-> run.hand, record |-> run.record,
                                 pass |-> run.pass, told |-> run.told,
                                 active |-> run.active]}
    /\ run' = None
    /\ UNCHANGED <<now, due, world, wd, rep, incidents, receipts, heartbeat, served,
                   faults, extra>>

\* The service is ended by its start timeout.
KillRun ==
    /\ run # None /\ Fault /\ run' = None
    /\ UNCHANGED <<now, due, world, wd, rep, evidence, heartbeat, served, extra>>

-----------------------------------------------------------------------------
(* external_business_canary.py watchdog                                       *)

\* The watchdog first asks whether Alertmanager is ready.
StartWatchdog(ready) ==
    /\ host /\ wtimer /\ wd = None /\ "watchdog" \in due
    /\ due' = due \ {"watchdog"}
    /\ wd' = [pc |-> "scan", at |-> now, ready |-> ready, strict |-> bound,
              latest |-> None, count |-> 0]
    /\ Spend(IF ready THEN 0 ELSE 1)
    /\ UNCHANGED <<now, world, run, rep, evidence, heartbeat, served, extra>>

Newest(set) == CHOOSE s \in set : \A q \in set : q.at <= s.at

WatchdogScan ==
    /\ wd # None /\ wd.pc = "scan"
    /\ wd' = [wd EXCEPT
        !.pc = "judge",
        !.latest = IF samples = {} THEN None ELSE Newest(samples),
        !.count = Cardinality({s \in samples : Minute(s.at) = Minute(wd.at)})]
    /\ UNCHANGED <<now, due, world, run, rep, evidence, heartbeat, served, faults, extra>>

\* A sample started in the watchdog's minute or the one before is at most 105 of the
\* allowed 130 seconds old; one minute more is stale.
Fresh == wd.latest # None /\ Minute(wd.at) - Minute(wd.latest.at) <= 1

\* Mutant: any fresh passing sample is good enough.
SampleOfAnyMinute == wd.latest.pass /\ wd.latest.record = record /\ wd.latest.at <= wd.at

\* --require-successful-sample: the only sample of this minute passed for this record.
SampleValid ==
    /\ wd.latest.pass /\ wd.latest.record = record
    /\ wd.latest.at <= wd.at /\ Minute(wd.latest.at) = Minute(wd.at)
    /\ wd.count = 1

Undelivered == wd.latest # None /\ ~wd.latest.pass /\ ~wd.latest.told

Retried == \E i \in incidents : i.kind = "retry" /\ i.key = wd.latest.at /\ i.delivered

StaleKey == IF wd.latest = None THEN None ELSE wd.latest.at

SilenceTold ==
    \E i \in incidents : /\ i.kind = "silent" /\ i.key = StaleKey /\ i.delivered
                         /\ wd.at - i.at \in 0 .. Refresh - 1

\* Mutant: the drop-in has no OnFailure=.
ConcludeSuccessOnly(ok) ==
    /\ wd' = None
    /\ result' = IF ok THEN "success" ELSE "failed"
    /\ IF ok /\ bound /\ rep[ok] = None
       THEN rep' = [rep EXCEPT ![ok] = [pc |-> "post", at |-> now, for |-> Minute(wd.at),
                                        accepted |-> FALSE, strict |-> wd.strict]]
       ELSE UNCHANGED rep

\* The result of the service decides which heartbeat the drop-in starts.  systemd looks
\* at OnSuccess= and OnFailure= when the service ends, while the command that judged is
\* the one it was started with: strict is history, of that command.
Conclude(ok) ==
    /\ wd' = None
    /\ result' = IF ok THEN "success" ELSE "failed"
    /\ IF bound /\ rep[ok] = None
       THEN rep' = [rep EXCEPT ![ok] = [pc |-> "post", at |-> now, for |-> Minute(wd.at),
                                        accepted |-> FALSE, strict |-> wd.strict]]
       ELSE UNCHANGED rep

\* Each alert is one delivery, recorded with its outcome in a create-only incident; what
\* one watchdog sends within seconds shares that outcome.
Report(sent, told) ==
    /\ incidents' = incidents \cup
        {[kind |-> k[1], key |-> k[2], at |-> wd.at, delivered |-> told] : k \in sent}
    /\ sent = {} => told
    /\ UNCHANGED faults

RetryDue == IF Undelivered /\ ~Retried THEN {<<"retry", wd.latest.at>>} ELSE {}
SilenceDue == IF SilenceTold THEN {} ELSE {<<"silent", StaleKey>>}

\* Alertmanager was not ready: nothing else is judged in this minute.
WatchdogUnready(told) ==
    /\ wd # None /\ wd.pc = "judge" /\ ~wd.ready
    /\ Report({<<"unready", wd.at>>}, told)
    /\ Conclude(FALSE)
    /\ UNCHANGED <<now, due, world, run, samples, receipts, bound, wtimer, provider, drill,
                   attested, pings, served, extra>>

\* The alert of the newest sample is sent again when it failed unheard.
WatchdogFresh(told) ==
    /\ wd # None /\ wd.pc = "judge" /\ wd.ready /\ Fresh
    /\ Report(RetryDue, told)
    /\ Conclude(IF wd.strict THEN SampleValid ELSE told)
    /\ UNCHANGED <<now, due, world, run, samples, receipts, bound, wtimer, provider, drill,
                   attested, pings, served, extra>>

\* No fresh sample: the silence is reported again before the last report lapses.
WatchdogSilent(told) ==
    /\ wd # None /\ wd.pc = "judge" /\ wd.ready /\ ~Fresh
    /\ Report(RetryDue \cup SilenceDue, told)
    /\ Conclude(FALSE)
    /\ UNCHANGED <<now, due, world, run, samples, receipts, bound, wtimer, provider, drill,
                   attested, pings, served, extra>>

\* The service is ended by its start timeout, which counts as a failure.
KillWatchdog ==
    /\ wd # None /\ Fault /\ Conclude(FALSE)
    /\ UNCHANGED <<now, due, world, run, evidence, bound, wtimer, provider, drill,
                   attested, pings, served, extra>>

-----------------------------------------------------------------------------
(* external_deadman_reporter.py and the hosted provider                       *)

Ping(ok) ==
    /\ provider' = IF ok THEN [status |-> "up", last |-> now, up |-> now]
                         ELSE [provider EXCEPT !.status = "down"]
    /\ pings' = pings \cup {[ok |-> ok, at |-> now]}

\* One request: answered, or lost on the way there or on the way back.
Post(ok) ==
    /\ rep[ok] # None /\ rep[ok].pc = "post"
    /\ \/ Ping(ok) /\ rep' = [rep EXCEPT ![ok].pc = "receipt", ![ok].accepted = TRUE]
          /\ UNCHANGED faults
       \/ Ping(ok) /\ rep' = [rep EXCEPT ![ok].pc = "receipt"] /\ Fault
       \/ UNCHANGED <<provider, pings>> /\ rep' = [rep EXCEPT ![ok].pc = "receipt"] /\ Fault
    /\ UNCHANGED <<now, due, world, run, wd, evidence, bound, wtimer, result, drill,
                   attested, served, extra>>

\* The create-only receipt carries the instant taken before the request.
Receipt(ok) ==
    /\ rep[ok] # None /\ rep[ok].pc = "receipt"
    /\ receipts' = receipts \cup {[ok |-> ok, at |-> rep[ok].at, for |-> rep[ok].for,
                                   accepted |-> rep[ok].accepted,
                                   strict |-> rep[ok].strict]}
    /\ rep' = [rep EXCEPT ![ok] = None]
    /\ UNCHANGED <<now, due, world, run, wd, samples, incidents, heartbeat, served,
                   faults, extra>>

\* No ping within the schedule and its grace.
MissingHeartbeat ==
    /\ provider.status = "up" /\ now >= provider.last + Timeout
    /\ provider' = [provider EXCEPT !.status = "down"]
    /\ UNCHANGED <<now, due, world, services, evidence, bound, wtimer, result, drill,
                   attested, pings, served, faults, extra>>

-----------------------------------------------------------------------------
(* manage_external_deadman.py                                                 *)

\* A snapshot says that the check was up, at most SnapshotAge ago.
SnapshotUp == provider.up # None /\ now - provider.up <= SnapshotAge

\* activate: the check is new or up; the next watchdog is started by the drop-in's
\* command, and one that is running ends under it.
Activate ==
    /\ host /\ ~bound /\ wtimer /\ now <= ActivateBy
    /\ provider.status = "new" \/ SnapshotUp
    /\ bound' = TRUE
    /\ UNCHANGED <<now, due, world, services, evidence, wtimer, result, provider, drill,
                   attested, pings, served, faults, extra>>

\* preflight --active: the newest success receipt was accepted at most 90 seconds ago.
Admitted ==
    /\ host /\ bound /\ wtimer /\ tools = 0 /\ SnapshotUp
    /\ LET successes == {r \in receipts : r.ok}
       IN successes # {} /\ Newest(successes).accepted /\ now - Newest(successes).at <= 2

\* arm-drill: the recovery timer exists before the heartbeat is suppressed.
ArmDrill ==
    /\ drill.pc = "none" /\ now <= ArmBy /\ Admitted
    /\ drill' = [NoDrill EXCEPT !.pc = "armed", !.subject = record, !.armed = now,
                                !.timer = now + RearmAfter]
    /\ UNCHANGED <<now, due, world, services, evidence, bound, wtimer, result, provider,
                   attested, pings, served, faults, extra>>

StopHeartbeat ==
    /\ host /\ drill.pc = "armed"
    /\ wtimer' = FALSE
    /\ drill' = [drill EXCEPT !.pc = "stopping"]
    /\ UNCHANGED <<now, due, world, services, evidence, bound, result, provider,
                   attested, pings, served, faults, extra>>

\* Mutant: the units in flight are not waited for.
Undrained == TRUE

Drained == wd = None /\ \A ok \in BOOLEAN : rep[ok] = None

\* A watchdog that is already running ends before the missing heartbeat is counted.
HeartbeatStopped ==
    /\ host /\ drill.pc = "stopping" /\ Drained
    /\ IF result = "success"
       THEN /\ drill' = [drill EXCEPT !.pc = "stopped", !.stopped = now] /\ UNCHANGED wtimer
       ELSE /\ drill' = [drill EXCEPT !.pc = "failed"] /\ wtimer' = TRUE
    /\ UNCHANGED <<now, due, world, services, evidence, bound, result, provider,
                   attested, pings, served, faults, extra>>

KillDrill ==
    /\ drill.pc \in {"armed", "stopping"} /\ Fault
    /\ drill' = [drill EXCEPT !.pc = "killed"]
    /\ UNCHANGED <<now, due, world, services, evidence, bound, wtimer, result, provider,
                   attested, pings, served, extra>>

\* snapshot: the operator collects the provider's missing-heartbeat status.  One taken
\* after the recovery is of no use: attest requires the down snapshot to be older.
SnapshotDown ==
    /\ drill.pc = "stopped" /\ drill.down = None /\ drill.rearmed = None
    /\ provider.status = "down"
    /\ drill' = [drill EXCEPT !.down = now]
    /\ UNCHANGED <<now, due, world, services, evidence, bound, wtimer, result, provider,
                   attested, pings, served, faults, extra>>

\* rearm, in the service of the recovery timer.
Rearm ==
    /\ host /\ drill.timer # None /\ now >= drill.timer
    /\ wtimer' = TRUE
    /\ drill' = [drill EXCEPT !.timer = None, !.rearmed = now]
    /\ UNCHANGED <<now, due, world, services, evidence, bound, result, provider,
                   attested, pings, served, faults, extra>>

\* 90 seconds are at least three instants.
Grace == 3

\* validate_attestation: the drill's events in their order.
ValidDrill ==
    /\ drill.stopped # None /\ drill.down # None /\ drill.rearmed # None
    /\ drill.armed <= drill.stopped /\ drill.down - drill.stopped >= Grace
    /\ drill.down <= drill.rearmed /\ drill.rearmed <= now

\* attest: the drill was of this installation and record, nothing was delivered while the
\* heartbeat was off, and a recovery heartbeat came before the up snapshot.
Attest ==
    /\ attested = None /\ SnapshotUp /\ ValidDrill
    /\ drill.subject = record /\ tools = 0
    /\ \A r \in receipts : r.accepted => ~(drill.stopped < r.at /\ r.at < drill.rearmed)
    /\ \E r \in receipts : r.ok /\ r.accepted /\ r.at \in drill.rearmed .. provider.up
    /\ attested' = [subject |-> record, at |-> now]
    /\ UNCHANGED <<now, due, world, services, evidence, bound, wtimer, result, provider,
                   drill, pings, served, faults, extra>>

Timers == Tick \/ Boot \/ Rearm
Services ==
    \/ StartRun \/ RunIncident \/ RunSample \/ WatchdogScan
    \/ \E pass, told \in BOOLEAN : RunFlow(pass, told)
    \/ \E ok \in BOOLEAN :
        \/ StartWatchdog(ok) \/ WatchdogUnready(ok) \/ WatchdogFresh(ok) \/ WatchdogSilent(ok)
        \/ Post(ok) \/ Receipt(ok)
Faults ==
    Crash \/ Provision \/ KillRun \/ KillWatchdog \/ KillDrill
Deadman == Activate \/ ArmDrill \/ StopHeartbeat \/ HeartbeatStopped \/ SnapshotDown \/ Attest

Next == Timers \/ Services \/ Faults \/ Deadman \/ MissingHeartbeat

Spec == Init /\ [][Next]_vars

-----------------------------------------------------------------------------
(* Properties.                                                                *)

\* A success heartbeat stands for business: whatever the order of samples, watchdogs and
\* reporters, it is only sent for a minute in which the gateway served a whole flow.  The
\* one exception is the watchdog that was running when the heartbeat was activated: it
\* was not told to require a sample, and its success is reported all the same.
HeartbeatIsEarned ==
    /\ \A r \in receipts : r.ok /\ r.strict => \E i \in served : Minute(i) = r.for
    /\ \A r, q \in receipts : ~r.strict /\ ~q.strict => r = q

\* An attested drill is a missing heartbeat and nothing else: between arming and the down
\* snapshot no failure was signalled, and from the stop to the automatic recovery the
\* provider heard nothing.
AttestedDrillWasReal ==
    attested # None =>
        /\ drill.subject = attested.subject
        /\ \A p \in pings :
            /\ ~p.ok => ~(drill.armed <= p.at /\ p.at < drill.down)
            /\ ~(drill.stopped < p.at /\ p.at < drill.rearmed)
            /\ p.at <= drill.stopped => p.at + Timeout <= drill.down

\* A drill stops the watchdog of this sample: the heartbeat is off, and nothing is retried.
Suppressed(s) ==
    /\ drill.armed # None /\ drill.armed <= s.at + 1
    /\ drill.rearmed # None => s.at < drill.rearmed

\* Someone has heard of sample s: its alert or a retry of it was delivered, or the
\* provider was sent a failure after it.
Heard(s) ==
    \/ \E n \in incidents : n.key = s.at /\ n.kind \in {"failed", "retry"} /\ n.delivered
    \/ \E p \in pings : ~p.ok /\ s.at <= p.at

\* Once the heartbeat is active someone hears of every failed sample that is not left to a
\* drill before the next sample is due, however long Alertmanager is down: the watchdog
\* retries only the newest sample, so a failure not heard by then may never be.
FailureIsHeard ==
    \A s \in samples :
        ~s.pass /\ ~s.hand /\ s.active /\ ~Suppressed(s) /\ s.at + 2 <= now => Heard(s)
=============================================================================

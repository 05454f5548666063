---------------------------- MODULE WindowProofs ----------------------------
(***************************************************************************)
(* The canary, its heartbeat and the observation window, for any horizon,  *)
(* any bounds on what goes wrong, any records and any windows: a success   *)
(* heartbeat stands for a flow that was served, an attested drill was a     *)
(* silence, and a closed window was earned.                                *)
(***************************************************************************)
EXTENDS ImmutableWindow, FiniteSetTheorems, WellFoundedInduction, TLAPS

USE ZenonT(5), SMTT(30)

-----------------------------------------------------------------------------
(* The inductive invariant.                                                *)

RunState == [pc : {"flow", "incident", "sample"}, hand : BOOLEAN, at : Int, record : Record,
             pass : BOOLEAN, told : BOOLEAN, active : BOOLEAN]
WatchdogState == [pc : {"scan", "judge"}, at : Int, ready : BOOLEAN, strict : BOOLEAN,
                  latest : Sample \cup {None}, count : Nat]
ReporterState == [pc : {"post", "receipt"}, at : Int, for : Int, accepted : BOOLEAN,
                  strict : BOOLEAN]
ReceiptState == [ok : BOOLEAN, at : Int, for : Int, accepted : BOOLEAN, strict : BOOLEAN]
DrillState == [pc : {"none", "armed", "stopping", "stopped", "failed", "killed"},
               subject : Record \cup {None}, armed : Int \cup {None}, timer : Int \cup {None},
               stopped : Int \cup {None}, down : Int \cup {None}, rearmed : Int \cup {None}]

HostOK ==
    /\ now \in 0 .. MaxNow /\ host \in BOOLEAN /\ record \in Record /\ tools \in Int
    /\ bound \in BOOLEAN

\* A sample that passed, or is about to be recorded as such, is of a flow that was served.
SamplesOK ==
    /\ run \in RunState \cup {None} /\ samples \subseteq Sample /\ IsFiniteSet(samples)
    /\ run # None => run.at <= now /\ (run.pass => run.at \in served)
    /\ \A s \in samples : s.at <= now /\ (s.pass => s.at \in served)

\* The watchdog judges a sample that was recorded.
WatchdogOK ==
    /\ wd \in WatchdogState \cup {None}
    /\ wd # None /\ wd.latest # None => wd.latest \in samples

Earned(minute) == \E i \in served : Minute(i) = minute

\* The recorded success heartbeats of watchdogs that required a sample were earned.
StrictEarned == \A r \in receipts : r.ok /\ r.strict => Earned(r.for)

\* A success heartbeat on its way is for a minute that was served.
ReporterOK ==
    /\ rep \in [BOOLEAN -> ReporterState \cup {None}] /\ receipts \subseteq ReceiptState
    /\ \A ok \in BOOLEAN : rep[ok] # None => rep[ok].at <= now
    /\ \A r \in receipts : r.at <= now
    /\ rep[TRUE] # None /\ rep[TRUE].strict => Earned(rep[TRUE].for)
    /\ StrictEarned

\* A heartbeat of a watchdog that did not require a sample, on its way or recorded.
LaxAt(ok) == rep[ok] # None /\ ~rep[ok].strict
LaxReceipts == {r \in receipts : ~r.strict}

\* There is one such heartbeat at most: the watchdog that runs when the heartbeat is
\* activated sends it, and before the activation there are none at all.
LoneOK ==
    /\ ~bound => receipts = {} /\ \A ok \in BOOLEAN : rep[ok] = None
    /\ wd # None /\ ~wd.strict => LaxReceipts = {} /\ \A ok \in BOOLEAN : ~LaxAt(ok)
    /\ \A a, b \in BOOLEAN : LaxAt(a) /\ LaxAt(b) => a = b
    /\ \A a \in BOOLEAN : LaxAt(a) => LaxReceipts = {}
    /\ \A r, q \in LaxReceipts : r = q

\* Once stopped, and until its recovery timer fires, a drill suppresses the heartbeat:
\* nothing is on its way to the provider and nothing will be.
Quiet == ~wtimer /\ wd = None /\ \A ok \in BOOLEAN : rep[ok] = None

PingsOK == \A p \in pings : p.at \in Int /\ p.at <= now

DrillOK ==
    /\ drill \in DrillState /\ wtimer \in BOOLEAN
    /\ drill.pc # "stopped" => drill.stopped = None
    /\ drill.pc = "none" => drill.timer = None
    /\ ~host => drill.timer = None
    /\ drill.timer # None => drill.rearmed = None
    /\ drill.rearmed # None => drill.rearmed <= now
    /\ drill.pc = "stopping" /\ drill.timer # None => ~wtimer
    /\ drill.pc = "stopped" /\ drill.timer # None =>
        Quiet /\ \A p \in pings : p.at <= drill.stopped
    /\ drill.stopped # None /\ drill.rearmed # None =>
        \A p \in pings : p.at <= drill.stopped \/ p.at >= drill.rearmed

\* An attested drill is of one record and lasted long enough, and nobody touches it again.
AttestedOK ==
    attested # None =>
        /\ drill.pc = "stopped" /\ drill.subject = attested.subject
        /\ drill.stopped # None /\ drill.down # None /\ drill.rearmed # None
        /\ drill.down - drill.stopped >= Grace /\ drill.down <= drill.rearmed

CanaryInv ==
    /\ HostOK /\ SamplesOK /\ WatchdogOK /\ ReporterOK /\ LoneOK
    /\ PingsOK /\ DrillOK /\ AttestedOK

Command == [start : Starts, final : BOOLEAN, inputs : SUBSET Sample, pc : {"cli", "check", "final"}]
WindowTypes ==
    /\ report \in [at : Int, subject : Record] \cup {None}
    /\ windows \in [Starts -> Directory \cup {None}]
    /\ fin \in Command \cup {None}

\* A success heartbeat was accepted at most `age` before `at`.
Heartbeat(at, age) == \E r \in receipts : r.ok /\ r.accepted /\ at - r.at \in 0 .. age

\* Minutes of the window in which no flow was served.
Unserved(t) == {m \in Minutes(t) : \A i \in served : Minute(i) # m}

ReportOK == report # None => report.at <= now /\ Heartbeat(report.at, 2)

DirectoryOK(t) ==
    windows[t] # None =>
        /\ Heartbeat(windows[t].at, ReportAge + 2)
        /\ \A s \in windows[t].inputs : s.record = windows[t].record
        /\ windows[t].passed => Cardinality(Unserved(t)) <= Misses
        /\ "final" \in windows[t].docs => "aggregate" \in windows[t].docs /\ windows[t].passed

\* The command that holds the lock aggregates once, and finalizes what has passed.
FinalizerOK ==
    fin # None =>
        /\ windows[fin.start] # None
        /\ fin.pc = "cli" <=> "aggregate" \notin windows[fin.start].docs
        /\ fin.pc = "final" => windows[fin.start].passed

WindowInv ==
    CanaryInv /\ WindowTypes /\ ReportOK /\ (\A t \in Starts : DirectoryOK(t)) /\ FinalizerOK

-----------------------------------------------------------------------------
(* Lemmas about the operators.                                             *)

\* Newest takes a member of a set of dated documents none of which is later than a bound.
LEMMA NewestIsMember ==
  ASSUME NEW set, NEW bound_ \in Int, set # {},
         \A s \in set : s.at \in Int /\ s.at <= bound_
  PROVE  Newest(set) \in set
<1> DEFINE ages == {bound_ - s.at : s \in set}
<1>1. ages \subseteq Nat /\ ages # {}
  OBVIOUS
<1>2. PICK a \in ages : \A b \in ages : ~(<<b, a>> \in OpToRel(<, Nat))
  <2> HIDE DEF ages
  <2> QED  BY <1>1, WFMin, NatLessThanWellFounded
<1>0. \A b \in Nat, c \in Nat : ~(<<b, c>> \in OpToRel(<, Nat)) => c <= b
  BY DEF OpToRel
<1>3. \A b \in ages : a <= b
  <2> HIDE DEF ages
  <2> QED  BY <1>0, <1>1, <1>2
<1>4. PICK s \in set : a = bound_ - s.at
  OBVIOUS
<1>5. \A q \in set : q.at <= s.at
  BY <1>3, <1>4
<1> QED  BY <1>5 DEF Newest

\* The minutes of a window are finitely many.
LEMMA MinutesFinite ==
  ASSUME NEW t \in Starts
  PROVE  IsFiniteSet(Minutes(t))
<1>1. t \in Int /\ Duration \in Int
  BY WindowAssumption
<1>2. (t \div 2) \in Int /\ ((t + Duration) \div 2) \in Int
  BY <1>1
<1>3. Minutes(t) \in SUBSET ((t \div 2) .. ((t + Duration) \div 2))
  BY <1>1 DEF Minutes, Minute
<1> QED  BY <1>2, <1>3, FS_Interval, FS_Subset

-----------------------------------------------------------------------------
(* The canary.                                                             *)

USE DEF world, services, evidence, heartbeat

\* The clock goes forward, and what is served, recorded and delivered stays so.
LEMMA Grows ==
  ASSUME HostOK, Next
  PROVE  /\ HostOK' /\ now <= now'
         /\ served \subseteq served' /\ samples \subseteq samples' /\ receipts \subseteq receipts'
<1> DEFINE Goal == /\ HostOK' /\ now <= now'
                   /\ served \subseteq served' /\ samples \subseteq samples' /\ receipts \subseteq receipts'
           still == <<now, host, record, tools, bound, served, samples, receipts>>
<1>1. ASSUME UNCHANGED still PROVE Goal
  BY <1>1 DEF HostOK
<1>2. ASSUME Tick PROVE Goal
  <2>1. UNCHANGED <<host, record, tools, bound, served, samples, receipts>>
    BY <1>2 DEF Tick
  <2>2. now < MaxNow /\ now' = now + 1
    BY <1>2 DEF Tick
  <2> QED  BY <2>1, <2>2, CanaryAssumption DEF HostOK
<1>3. ASSUME Boot \/ Crash PROVE Goal
  <2>1. UNCHANGED <<now, record, tools, bound, served, samples, receipts>> /\ host' \in BOOLEAN
    BY <1>3 DEF Boot, Crash
  <2> QED  BY <2>1 DEF HostOK
<1>4. ASSUME Activate PROVE Goal
  <2>1. UNCHANGED <<now, host, record, tools, served, samples, receipts>> /\ bound' \in BOOLEAN
    BY <1>4 DEF Activate
  <2> QED  BY <2>1 DEF HostOK
<1>5. ASSUME Provision PROVE Goal
  <2>1. UNCHANGED <<now, host, bound, served, samples, receipts>>
    BY <1>5 DEF Provision
  <2>2. record' \in Record /\ tools' \in Int
    BY <1>5 DEF Provision, HostOK
  <2> QED  BY <2>1, <2>2 DEF HostOK
<1>6. ASSUME NEW pass, NEW told, RunFlow(pass, told)
      PROVE  Goal
  <2>1. UNCHANGED <<now, host, record, tools, bound, samples, receipts>> /\ served \subseteq served'
    BY <1>6 DEF RunFlow
  <2> QED  BY <2>1 DEF HostOK
<1>7. ASSUME RunSample PROVE Goal
  <2>1. UNCHANGED <<now, host, record, tools, bound, served, receipts>> /\ samples \subseteq samples'
    BY <1>7 DEF RunSample
  <2> QED  BY <2>1 DEF HostOK
<1>8. ASSUME NEW ok, Receipt(ok)
      PROVE  Goal
  <2>1. UNCHANGED <<now, host, record, tools, bound, served, samples>> /\ receipts \subseteq receipts'
    BY <1>8 DEF Receipt
  <2> QED  BY <2>1 DEF HostOK
<1>9. Rearm \/ StartRun \/ RunIncident \/ WatchdogScan => UNCHANGED still
  BY DEF Rearm, StartRun, RunIncident, WatchdogScan
<1>10. \A ok \in BOOLEAN : StartWatchdog(ok) \/ Post(ok) => UNCHANGED still
  BY DEF StartWatchdog, Post
<1>11. \A told \in BOOLEAN : WatchdogUnready(told) \/ WatchdogFresh(told) \/ WatchdogSilent(told)
         => UNCHANGED still
  BY DEF WatchdogUnready, WatchdogFresh, WatchdogSilent
<1>12. KillRun \/ KillWatchdog \/ KillDrill => UNCHANGED still
  BY DEF KillRun, KillWatchdog, KillDrill
<1>13. ArmDrill \/ StopHeartbeat \/ HeartbeatStopped \/ SnapshotDown \/ Attest \/ MissingHeartbeat
         => UNCHANGED still
  BY DEF ArmDrill, StopHeartbeat, HeartbeatStopped, SnapshotDown, Attest, MissingHeartbeat
<1> HIDE DEF Goal, still
<1>14. Goal
  BY <1>1, <1>2, <1>3, <1>4, <1>5, <1>6, <1>7, <1>8, <1>9, <1>10, <1>11, <1>12, <1>13
     DEF Next, Timers, Services, Faults, Deadman
<1> QED  BY <1>14 DEF Goal

\* Samples are recorded by the run service alone.
LEMMA SamplesStep ==
  ASSUME HostOK, SamplesOK, Next
  PROVE  SamplesOK'
<1>0. now \in Int /\ now' \in Int /\ now <= now'
  BY Grows DEF HostOK
<1>1. CASE Tick
  BY <1>0, <1>1 DEF Tick, SamplesOK, RunState, Sample
<1>2. CASE StartRun
  BY <1>0, <1>2 DEF StartRun, SamplesOK, RunState, Sample, HostOK
<1>3. ASSUME NEW pass \in BOOLEAN, NEW told \in BOOLEAN, RunFlow(pass, told)
      PROVE  SamplesOK'
  BY <1>0, <1>3 DEF RunFlow, SamplesOK, RunState, Sample
<1>4. CASE RunIncident
  BY <1>4 DEF RunIncident, SamplesOK, RunState
<1>5. CASE RunSample
  <2> DEFINE new == [at |-> run.at, hand |-> run.hand, record |-> run.record,
                     pass |-> run.pass, told |-> run.told, active |-> run.active]
  <2>1. new \in Sample /\ samples' = samples \cup {new} /\ run' = None
        /\ now' = now /\ served' = served
    BY <1>5 DEF RunSample, SamplesOK, RunState, Sample
  <2>2. IsFiniteSet(samples')
    BY <2>1, FS_AddElement DEF SamplesOK
  <2> QED  BY <2>1, <2>2, <1>5 DEF RunSample, SamplesOK
<1>6. CASE KillRun \/ Crash
  BY <1>6 DEF KillRun, Crash, SamplesOK
<1>7. CASE UNCHANGED <<now, run, samples, served>>
  BY <1>7 DEF SamplesOK
<1>8. WatchdogScan \/ Boot \/ Rearm => UNCHANGED <<now, run, samples, served>>
  BY DEF WatchdogScan, Boot, Rearm
<1>9. \A ok \in BOOLEAN : StartWatchdog(ok) \/ WatchdogUnready(ok) \/ WatchdogFresh(ok)
         \/ WatchdogSilent(ok) \/ Post(ok) \/ Receipt(ok)
         => UNCHANGED <<now, run, samples, served>>
  BY DEF StartWatchdog, WatchdogUnready, WatchdogFresh, WatchdogSilent, Post, Receipt
<1>10. Provision \/ KillWatchdog \/ KillDrill => UNCHANGED <<now, run, samples, served>>
  BY DEF Provision, KillWatchdog, KillDrill
<1>11. Deadman \/ MissingHeartbeat => UNCHANGED <<now, run, samples, served>>
  BY DEF Deadman, Activate, ArmDrill, StopHeartbeat, HeartbeatStopped, SnapshotDown, Attest,
         MissingHeartbeat
<1> QED
  BY <1>1, <1>2, <1>3, <1>4, <1>5, <1>6, <1>7, <1>8, <1>9, <1>10, <1>11
     DEF Next, Timers, Services, Faults

\* The watchdog's newest sample is one of those it has found.
LEMMA WatchdogStep ==
  ASSUME HostOK, SamplesOK, WatchdogOK, Next
  PROVE  WatchdogOK'
<1>1. samples \subseteq samples'
  BY Grows
<1>2. ASSUME NEW ready \in BOOLEAN, StartWatchdog(ready)
      PROVE  WatchdogOK'
  BY <1>2 DEF StartWatchdog, WatchdogOK, WatchdogState, HostOK
<1>3. CASE WatchdogScan
  <2> DEFINE latest == IF samples = {} THEN None ELSE Newest(samples)
             count == Cardinality({s \in samples : Minute(s.at) = Minute(wd.at)})
  <2>1. latest # None => latest \in samples
    BY NewestIsMember DEF SamplesOK, HostOK, Sample
  <2>2. count \in Nat
    BY FS_Subset, FS_CardinalityType DEF SamplesOK
  <2>3. latest \in Sample \cup {None}
    BY <2>1 DEF SamplesOK
  <2> HIDE DEF latest, count
  <2>4. wd \in WatchdogState /\ wd' = [wd EXCEPT !.pc = "judge", !.latest = latest, !.count = count]
        /\ samples' = samples
    BY <1>3 DEF WatchdogScan, WatchdogOK, latest, count
  <2> QED  BY <2>1, <2>2, <2>3, <2>4 DEF WatchdogOK, WatchdogState
<1>4. CASE wd' = None
  BY <1>4 DEF WatchdogOK
<1>5. CASE wd' = wd
  BY <1>1, <1>5 DEF WatchdogOK
<1>6. Tick \/ Boot \/ Rearm \/ StartRun \/ RunIncident \/ RunSample => wd' = wd
  BY DEF Tick, Boot, Rearm, StartRun, RunIncident, RunSample
<1>7. \A pass, told \in BOOLEAN : RunFlow(pass, told) => wd' = wd
  BY DEF RunFlow
<1>8. \A ok \in BOOLEAN : Post(ok) \/ Receipt(ok) => wd' = wd
  BY DEF Post, Receipt
<1>9. \A ok \in BOOLEAN : WatchdogUnready(ok) \/ WatchdogFresh(ok) \/ WatchdogSilent(ok) => wd' = None
  BY DEF WatchdogUnready, WatchdogFresh, WatchdogSilent, Conclude
<1>10. Faults => wd' = wd \/ wd' = None
  BY DEF Faults, Crash, Provision, KillRun, KillWatchdog, KillDrill, Conclude
<1>11. Deadman \/ MissingHeartbeat => wd' = wd
  BY DEF Deadman, Activate, ArmDrill, StopHeartbeat, HeartbeatStopped, SnapshotDown, Attest,
         MissingHeartbeat
<1> QED
  BY <1>2, <1>3, <1>4, <1>5, <1>6, <1>7, <1>8, <1>9, <1>10, <1>11 DEF Next, Timers, Services

\* A success heartbeat leaves only for a watchdog that found the minute's sample passing.
LEMMA ReporterStep ==
  ASSUME HostOK, SamplesOK, WatchdogOK, ReporterOK, Next
  PROVE  ReporterOK'
<1>0. now \in Int /\ now' \in Int /\ now <= now' /\ served \subseteq served'
  BY Grows DEF HostOK
<1>1. ASSUME NEW ok \in BOOLEAN, wd # None, Conclude(ok), ok /\ wd.strict => Earned(Minute(wd.at)),
             UNCHANGED <<now, receipts, served>>
      PROVE  ReporterOK'
  <2>1. wd \in WatchdogState /\ Minute(wd.at) \in Int
    BY <1>1 DEF WatchdogOK, WatchdogState, Minute
  <2>2. CASE rep' = rep
    BY <1>1, <2>2 DEF ReporterOK, Earned, StrictEarned
  <2>3. CASE rep' = [rep EXCEPT ![ok] = [pc |-> "post", at |-> now, for |-> Minute(wd.at),
                                         accepted |-> FALSE, strict |-> wd.strict]]
    <3> DEFINE new == [pc |-> "post", at |-> now, for |-> Minute(wd.at), accepted |-> FALSE,
                       strict |-> wd.strict]
    <3>1. /\ new \in ReporterState /\ new.at = now /\ new.for = Minute(wd.at)
          /\ new.strict = wd.strict
      BY <2>1, <1>0 DEF ReporterState, WatchdogState
    <3>2. rep' = [rep EXCEPT ![ok] = new]
      BY <2>3
    <3> HIDE DEF new
    <3>3. rep' \in [BOOLEAN -> ReporterState \cup {None}]
      BY <3>1, <3>2 DEF ReporterOK
    <3>4. \A b \in BOOLEAN : rep'[b] = IF b = ok THEN new ELSE rep[b]
      BY <3>2 DEF ReporterOK
    <3>5. \A b \in BOOLEAN : rep'[b] # None => rep'[b].at <= now'
      BY <1>0, <1>1, <3>1, <3>4 DEF ReporterOK
    <3>6. rep'[TRUE] # None /\ rep'[TRUE].strict => Earned(rep'[TRUE].for)
      BY <1>1, <3>1, <3>4 DEF ReporterOK
    <3> QED  BY <1>1, <3>3, <3>5, <3>6 DEF ReporterOK, Earned, StrictEarned
  <2> QED  BY <1>1, <2>2, <2>3 DEF Conclude
<1>2. ASSUME NEW told \in BOOLEAN, WatchdogFresh(told)
      PROVE  ReporterOK'
  <2> DEFINE ok == IF wd.strict THEN SampleValid ELSE told
  <2>1. wd \in WatchdogState /\ wd.latest \in samples
    BY <1>2 DEF WatchdogFresh, Fresh, WatchdogOK
  <2>2. wd.latest.pass \in BOOLEAN /\ (wd.latest.pass => wd.latest.at \in served)
    BY <2>1 DEF SamplesOK, Sample
  <2>3. SampleValid \in BOOLEAN
    BY <2>2 DEF SampleValid
  <2>4. SampleValid => Earned(Minute(wd.at))
    BY <2>2 DEF SampleValid, Earned
  <2>5. ok \in BOOLEAN /\ (ok /\ wd.strict => Earned(Minute(wd.at)))
    BY <2>3, <2>4
  <2>6. wd # None /\ Conclude(ok) /\ UNCHANGED <<now, receipts, served>>
    BY <1>2 DEF WatchdogFresh
  <2> QED  BY <1>1, <2>5, <2>6
<1>3. ASSUME NEW told \in BOOLEAN, WatchdogUnready(told) \/ WatchdogSilent(told)
      PROVE  ReporterOK'
  BY <1>1, <1>3 DEF WatchdogUnready, WatchdogSilent
<1>4. CASE KillWatchdog
  BY <1>1, <1>4 DEF KillWatchdog
<1>5. ASSUME NEW ok \in BOOLEAN, Post(ok)
      PROVE  ReporterOK'
  <2>1. rep[ok] \in ReporterState
    BY <1>5 DEF Post, ReporterOK
  <2>2. PICK new \in ReporterState : rep' = [rep EXCEPT ![ok] = new]
                                     /\ new.at = rep[ok].at /\ new.for = rep[ok].for
                                     /\ new.strict = rep[ok].strict
    BY <1>5, <2>1 DEF Post, ReporterOK, ReporterState
  <2>3. rep' \in [BOOLEAN -> ReporterState \cup {None}]
    BY <2>2 DEF ReporterOK
  <2>4. \A b \in BOOLEAN : rep'[b] = IF b = ok THEN new ELSE rep[b]
    BY <2>2 DEF ReporterOK
  <2>5. UNCHANGED <<now, receipts, served>> /\ rep[ok] # None
    BY <1>5 DEF Post
  <2>6. \A b \in BOOLEAN : rep'[b] # None => rep'[b].at <= now'
    BY <2>2, <2>4, <2>5 DEF ReporterOK
  <2>7. rep'[TRUE] # None /\ rep'[TRUE].strict => Earned(rep'[TRUE].for)
    BY <2>2, <2>4, <2>5 DEF ReporterOK
  <2> QED  BY <2>3, <2>5, <2>6, <2>7 DEF ReporterOK, Earned, StrictEarned
<1>6. ASSUME NEW ok \in BOOLEAN, Receipt(ok)
      PROVE  ReporterOK'
  <2> DEFINE new == [ok |-> ok, at |-> rep[ok].at, for |-> rep[ok].for,
                     accepted |-> rep[ok].accepted, strict |-> rep[ok].strict]
  <2>1. rep[ok] \in ReporterState /\ rep[ok].at <= now
        /\ (ok /\ rep[ok].strict => Earned(rep[ok].for))
    BY <1>6 DEF Receipt, ReporterOK
  <2>2. new \in ReceiptState /\ new.at <= now /\ (new.ok /\ new.strict => Earned(new.for))
    BY <2>1 DEF ReporterState, ReceiptState
  <2>3. receipts' = receipts \cup {new} /\ rep' = [rep EXCEPT ![ok] = None]
        /\ UNCHANGED <<now, served>>
    BY <1>6 DEF Receipt
  <2> HIDE DEF new
  <2>4. rep' \in [BOOLEAN -> ReporterState \cup {None}]
        /\ \A b \in BOOLEAN : rep'[b] # None => rep'[b] = rep[b]
    BY <2>3 DEF ReporterOK
  <2> QED  BY <2>2, <2>3, <2>4 DEF ReporterOK, Earned, StrictEarned
<1>7. CASE Crash
  BY <1>7 DEF Crash, ReporterOK, Earned, StrictEarned
<1>8. CASE UNCHANGED <<rep, receipts>>
  <2>1. rep' \in [BOOLEAN -> ReporterState \cup {None}] /\ receipts' \subseteq ReceiptState
    BY <1>8 DEF ReporterOK
  <2>2. \A ok \in BOOLEAN : rep'[ok] # None => rep'[ok].at <= now'
    <3> SUFFICES ASSUME NEW ok \in BOOLEAN, rep[ok] # None PROVE rep[ok].at <= now'
      BY <1>8
    <3>1. rep[ok] \in ReporterState /\ rep[ok].at <= now
      BY DEF ReporterOK
    <3>2. rep[ok].at \in Int
      BY <3>1 DEF ReporterState
    <3> QED  BY <1>0, <3>1, <3>2
  <2>3. \A r \in receipts' : r.at <= now'
    <3> SUFFICES ASSUME NEW r \in receipts PROVE r.at <= now'
      BY <1>8
    <3>1. r \in ReceiptState /\ r.at <= now
      BY DEF ReporterOK
    <3>2. r.at \in Int
      BY <3>1 DEF ReceiptState
    <3> QED  BY <1>0, <3>1, <3>2
  <2>4. /\ rep'[TRUE] # None /\ rep'[TRUE].strict =>
              \E i \in served' : Minute(i) = rep'[TRUE].for
        /\ \A r \in receipts' : r.ok /\ r.strict => \E i \in served' : Minute(i) = r.for
    BY <1>0, <1>8 DEF ReporterOK, Earned, StrictEarned
  <2> QED  BY <2>1, <2>2, <2>3, <2>4 DEF ReporterOK, Earned, StrictEarned, Minute
<1>9. Timers \/ StartRun \/ RunIncident \/ RunSample \/ WatchdogScan => UNCHANGED <<rep, receipts>>
  BY DEF Timers, Tick, Boot, Rearm, StartRun, RunIncident, RunSample, WatchdogScan
<1>10. \A pass, told \in BOOLEAN : RunFlow(pass, told) => UNCHANGED <<rep, receipts>>
  BY DEF RunFlow
<1>11. \A ready \in BOOLEAN : StartWatchdog(ready) => UNCHANGED <<rep, receipts>>
  BY DEF StartWatchdog
<1>12. Provision \/ KillRun \/ KillDrill => UNCHANGED <<rep, receipts>>
  BY DEF Provision, KillRun, KillDrill
<1>13. Deadman \/ MissingHeartbeat => UNCHANGED <<rep, receipts>>
  BY DEF Deadman, Activate, ArmDrill, StopHeartbeat, HeartbeatStopped, SnapshotDown, Attest,
         MissingHeartbeat
<1> QED
  BY <1>2, <1>3, <1>4, <1>5, <1>6, <1>7, <1>8, <1>9, <1>10, <1>11, <1>12, <1>13
     DEF Next, Services, Faults

\* What a step does to the heartbeats of lax watchdogs.
LEMMA LaxMoves ==
  ASSUME ReporterOK, NEW ok \in BOOLEAN, NEW new \in ReporterState \cup {None},
         rep' = [rep EXCEPT ![ok] = new]
  PROVE  \A b \in BOOLEAN :
            LaxAt(b)' <=> IF b = ok THEN new # None /\ ~new.strict ELSE LaxAt(b)
<1>1. \A b \in BOOLEAN : rep'[b] = IF b = ok THEN new ELSE rep[b]
  BY DEF ReporterOK
<1> QED  BY <1>1 DEF LaxAt

\* Only the watchdog that was running at the activation sends a lax heartbeat.
LEMMA LoneStep ==
  ASSUME HostOK, WatchdogOK, ReporterOK, LoneOK, Next
  PROVE  LoneOK'
<1>1. CASE UNCHANGED <<bound, wd, rep, receipts>>
  BY <1>1 DEF LoneOK, LaxAt, LaxReceipts
<1>2. CASE Activate
  BY <1>2 DEF Activate, services, evidence, LoneOK, LaxAt, LaxReceipts
<1>3. ASSUME NEW ready \in BOOLEAN, StartWatchdog(ready) PROVE LoneOK'
  <2>1. UNCHANGED <<bound, rep, receipts>> /\ wd'.strict = bound
    BY <1>3 DEF StartWatchdog, evidence, heartbeat
  <2> QED  BY <2>1 DEF LoneOK, LaxAt, LaxReceipts, HostOK
<1>4. CASE WatchdogScan
  <2>1. UNCHANGED <<bound, rep, receipts>> /\ wd \in WatchdogState
    BY <1>4 DEF WatchdogScan, evidence, heartbeat, WatchdogOK
  <2>2. wd'.strict = wd.strict /\ wd # None
    BY <1>4, <2>1 DEF WatchdogScan, WatchdogState
  <2> QED  BY <2>1, <2>2 DEF LoneOK, LaxAt, LaxReceipts
<1>5. ASSUME NEW ok \in BOOLEAN, wd # None, Conclude(ok), UNCHANGED <<now, bound, receipts>>
      PROVE  LoneOK'
  <2>1. wd' = None /\ wd \in WatchdogState /\ Minute(wd.at) \in Int
    BY <1>5 DEF Conclude, WatchdogOK, WatchdogState, Minute
  <2>2. CASE rep' = rep
    BY <1>5, <2>1, <2>2 DEF LoneOK, LaxAt, LaxReceipts
  <2>3. CASE /\ bound /\ rep[ok] = None
             /\ rep' = [rep EXCEPT ![ok] = [pc |-> "post", at |-> now, for |-> Minute(wd.at),
                                            accepted |-> FALSE, strict |-> wd.strict]]
    <3> DEFINE new == [pc |-> "post", at |-> now, for |-> Minute(wd.at), accepted |-> FALSE,
                       strict |-> wd.strict]
    <3>1. new \in ReporterState /\ new.strict = wd.strict
      BY <2>1 DEF ReporterState, WatchdogState, HostOK
    <3>2. rep' = [rep EXCEPT ![ok] = new]
      BY <2>3
    <3> HIDE DEF new
    <3>3. \A b \in BOOLEAN : LaxAt(b)' => LaxAt(b) \/ (b = ok /\ ~wd.strict)
      BY <3>1, <3>2, LaxMoves
    <3>4. LaxReceipts' = LaxReceipts
      BY <1>5 DEF LaxReceipts
    <3> QED  BY <1>5, <2>1, <2>3, <3>3, <3>4 DEF LoneOK
  <2> QED  BY <1>5, <2>2, <2>3 DEF Conclude
<1>6. ASSUME NEW ok \in BOOLEAN,
             WatchdogUnready(ok) \/ WatchdogFresh(ok) \/ WatchdogSilent(ok) \/ KillWatchdog
      PROVE  LoneOK'
  <2>1. wd # None /\ UNCHANGED <<now, bound, receipts>>
    BY <1>6 DEF WatchdogUnready, WatchdogFresh, WatchdogSilent, KillWatchdog, evidence
  <2>2. SampleValid \in BOOLEAN \/ ~WatchdogFresh(ok) \/ ~wd.strict
    BY DEF SampleValid
  <2>3. \E b \in BOOLEAN : Conclude(b)
    BY <1>6, <2>2 DEF WatchdogUnready, WatchdogFresh, WatchdogSilent, KillWatchdog
  <2> QED  BY <1>5, <2>1, <2>3
<1>7. ASSUME NEW ok \in BOOLEAN, Post(ok) PROVE LoneOK'
  <2>1. rep[ok] \in ReporterState
    BY <1>7 DEF Post, ReporterOK
  <2>2. PICK new \in ReporterState : rep' = [rep EXCEPT ![ok] = new] /\ new.strict = rep[ok].strict
    BY <1>7, <2>1 DEF Post, ReporterState
  <2>3. UNCHANGED <<bound, wd, receipts>> /\ rep[ok] # None
    BY <1>7 DEF Post, evidence
  <2>4. \A b \in BOOLEAN : LaxAt(b)' => LaxAt(b)
    BY <2>2, <2>3, LaxMoves DEF LaxAt
  <2>5. LaxReceipts' = LaxReceipts
    BY <2>3 DEF LaxReceipts
  <2> QED  BY <2>3, <2>4, <2>5 DEF LoneOK
<1>8. ASSUME NEW ok \in BOOLEAN, Receipt(ok) PROVE LoneOK'
  <2> DEFINE new == [ok |-> ok, at |-> rep[ok].at, for |-> rep[ok].for,
                     accepted |-> rep[ok].accepted, strict |-> rep[ok].strict]
  <2>1. receipts' = receipts \cup {new} /\ rep' = [rep EXCEPT ![ok] = None]
        /\ UNCHANGED <<bound, wd>> /\ rep[ok] # None
    BY <1>8 DEF Receipt, heartbeat
  <2>2. new.strict = rep[ok].strict
    OBVIOUS
  <2> HIDE DEF new
  <2>3. \A b \in BOOLEAN : LaxAt(b)' => b # ok /\ LaxAt(b)
    BY <2>1, LaxMoves
  <2>4. CASE LaxAt(ok)
    <3>1. LaxReceipts' = {new}
      BY <2>1, <2>2, <2>4 DEF LoneOK, LaxReceipts, LaxAt
    <3>2. \A b \in BOOLEAN : ~LaxAt(b)'
      BY <2>3, <2>4 DEF LoneOK
    <3>3. ~(wd # None /\ ~wd.strict) /\ bound
      BY <2>1, <2>4 DEF LoneOK
    <3> QED  BY <2>1, <3>1, <3>2, <3>3 DEF LoneOK
  <2>5. CASE ~LaxAt(ok)
    <3>1. LaxReceipts' = LaxReceipts
      BY <2>1, <2>2, <2>5 DEF LaxReceipts, LaxAt
    <3>2. bound
      BY <2>1 DEF LoneOK
    <3> QED  BY <2>1, <2>3, <3>1, <3>2 DEF LoneOK
  <2> QED  BY <2>4, <2>5
<1>9. CASE Crash
  <2>1. UNCHANGED <<bound, receipts>> /\ wd' = None /\ \A ok \in BOOLEAN : rep'[ok] = None
    BY <1>9 DEF Crash, evidence
  <2> QED  BY <2>1 DEF LoneOK, LaxAt, LaxReceipts
<1> DEFINE still == <<bound, wd, rep, receipts>>
<1>10. Timers \/ StartRun \/ RunIncident \/ RunSample => UNCHANGED still
  BY DEF Timers, Tick, Boot, Rearm, StartRun, RunIncident, RunSample, services, evidence, heartbeat
<1>11. \A pass, told \in BOOLEAN : RunFlow(pass, told) => UNCHANGED still
  BY DEF RunFlow, evidence, heartbeat
<1>12. Provision \/ KillRun \/ KillDrill => UNCHANGED still
  BY DEF Provision, KillRun, KillDrill, services, evidence, heartbeat
<1>13. ArmDrill \/ StopHeartbeat \/ HeartbeatStopped \/ SnapshotDown \/ Attest \/ MissingHeartbeat
          => UNCHANGED still
  BY DEF ArmDrill, StopHeartbeat, HeartbeatStopped, SnapshotDown, Attest, MissingHeartbeat,
         services, evidence
<1> HIDE DEF still
<1>14. UNCHANGED still => LoneOK'
  BY <1>1 DEF still
<1> QED
  BY <1>2, <1>3, <1>4, <1>6, <1>7, <1>8, <1>9, <1>10, <1>11, <1>12, <1>13, <1>14
     DEF Next, Services, Faults, Deadman

\* Pings are dated when they arrive.
LEMMA PingsStep ==
  ASSUME HostOK, PingsOK, Next
  PROVE  PingsOK'
<1>0. now \in Int /\ now' \in Int /\ now <= now'
  BY Grows DEF HostOK
<1>1. ASSUME NEW ok \in BOOLEAN, Post(ok)
      PROVE  PingsOK'
  BY <1>0, <1>1 DEF Post, Ping, PingsOK
<1>2. CASE pings' = pings
  BY <1>0, <1>2 DEF PingsOK
<1>3. Timers \/ StartRun \/ RunIncident \/ RunSample \/ WatchdogScan => pings' = pings
  BY DEF Timers, Tick, Boot, Rearm, StartRun, RunIncident, RunSample, WatchdogScan
<1>4. \A pass, told \in BOOLEAN : RunFlow(pass, told) => pings' = pings
  BY DEF RunFlow
<1>5. \A ok \in BOOLEAN : StartWatchdog(ok) \/ WatchdogUnready(ok) \/ WatchdogFresh(ok)
         \/ WatchdogSilent(ok) \/ Receipt(ok) => pings' = pings
  BY DEF StartWatchdog, WatchdogUnready, WatchdogFresh, WatchdogSilent, Receipt
<1>6. Faults => pings' = pings
  BY DEF Faults, Crash, Provision, KillRun, KillWatchdog, KillDrill
<1>7. Deadman \/ MissingHeartbeat => pings' = pings
  BY DEF Deadman, Activate, ArmDrill, StopHeartbeat, HeartbeatStopped, SnapshotDown, Attest,
         MissingHeartbeat
<1> QED  BY <1>1, <1>2, <1>3, <1>4, <1>5, <1>6, <1>7 DEF Next, Services

drillVars == <<host, wtimer, wd, rep, drill, pings, attested>>

\* A stopped drill stays silent until its own recovery timer ends the suppression.
LEMMA DrillStep ==
  ASSUME HostOK, PingsOK, DrillOK, AttestedOK, Next
  PROVE  DrillOK' /\ AttestedOK'
<1> USE CanaryAssumption
<1>0. now \in Int /\ now' \in Int /\ now <= now'
  BY Grows DEF HostOK
<1>1. CASE UNCHANGED drillVars
  BY <1>0, <1>1 DEF drillVars, DrillOK, DrillState, AttestedOK, Quiet
<1>2. CASE Boot
  BY <1>2 DEF Boot, DrillOK, AttestedOK, Quiet
<1>a. now \in Int \ {None} /\ None \notin Int
  BY <1>0
<1>b. drill \in DrillState /\ wtimer \in BOOLEAN
  BY DEF DrillOK
<1>3. CASE Rearm
  <2>1. /\ drill.timer # None /\ wtimer' = TRUE /\ drill' = [drill EXCEPT !.timer = None, !.rearmed = now]
        /\ UNCHANGED <<now, host, pings, attested>>
    BY <1>3 DEF Rearm
  <2>2. drill' \in DrillState
    BY <1>a, <1>b, <2>1 DEF DrillState
  <2>3. /\ drill'.timer = None /\ drill'.rearmed = now
        /\ drill'.pc = drill.pc /\ drill'.stopped = drill.stopped
    BY <1>b, <2>1 DEF DrillState
  <2>4. drill.pc # "none" /\ drill.rearmed = None
    BY <2>1 DEF DrillOK
  <2>5. drill.pc # "stopped" \/ \A p \in pings : p.at <= drill.stopped
    BY <2>1 DEF DrillOK
  <2>6. attested = None
    BY <2>4 DEF AttestedOK
  <2>7. drill'.stopped # None => \A p \in pings' : p.at <= drill'.stopped
    BY <2>1, <2>3, <2>5 DEF DrillOK
  <2>8. AttestedOK'
    BY <2>1, <2>6 DEF AttestedOK
  <2>9. DrillOK'
    BY <1>0, <1>a, <2>1, <2>2, <2>3, <2>4, <2>7 DEF DrillOK
  <2> QED  BY <2>8, <2>9
<1>4. ASSUME UNCHANGED <<now, host, wtimer, drill, pings, attested>>, ~Quiet
      PROVE  DrillOK' /\ AttestedOK'
  BY <1>4 DEF DrillOK, AttestedOK
<1>5. ASSUME NEW ok \in BOOLEAN,
             StartWatchdog(ok) \/ WatchdogUnready(ok) \/ WatchdogFresh(ok) \/ WatchdogSilent(ok)
      PROVE  DrillOK' /\ AttestedOK'
  BY <1>4, <1>5 DEF StartWatchdog, WatchdogUnready, WatchdogFresh, WatchdogSilent, Quiet
<1>6. CASE WatchdogScan \/ KillWatchdog
  BY <1>4, <1>6 DEF WatchdogScan, KillWatchdog, Quiet
<1>7. ASSUME NEW ok \in BOOLEAN, Receipt(ok)
      PROVE  DrillOK' /\ AttestedOK'
  BY <1>4, <1>7 DEF Receipt, Quiet
<1>8. ASSUME NEW ok \in BOOLEAN, Post(ok)
      PROVE  DrillOK' /\ AttestedOK'
  <2>1. ~Quiet /\ UNCHANGED <<now, host, wtimer, drill, attested>>
    BY <1>8 DEF Post, Quiet
  <2>2. \A p \in pings' : p \in pings \/ p.at = now
    BY <1>8 DEF Post, Ping
  <2> QED  BY <1>0, <2>1, <2>2 DEF DrillOK, DrillState, AttestedOK
<1>9. CASE Crash
  <2>1. /\ drill' = [drill EXCEPT !.timer = None,
                                  !.pc = IF @ \in {"armed", "stopping"} THEN "killed" ELSE @]
        /\ UNCHANGED <<now, wtimer, pings, attested>>
    BY <1>9 DEF Crash
  <2>2. drill' \in DrillState
    BY <1>b, <2>1 DEF DrillState
  <2>3. /\ drill'.pc = IF drill.pc \in {"armed", "stopping"} THEN "killed" ELSE drill.pc
        /\ drill'.timer = None /\ drill'.stopped = drill.stopped /\ drill'.rearmed = drill.rearmed
        /\ drill'.subject = drill.subject /\ drill'.down = drill.down
    BY <1>b, <2>1 DEF DrillState
  <2>5. drill'.pc # "stopped" => drill'.stopped = None
    BY <2>3 DEF DrillOK
  <2>6. DrillOK'
    <3>1. drill'.rearmed # None => drill'.rearmed <= now'
      BY <2>1, <2>3 DEF DrillOK
    <3>2. drill'.stopped # None /\ drill'.rearmed # None =>
            \A p \in pings' : p.at <= drill'.stopped \/ p.at >= drill'.rearmed
      BY <2>1, <2>3 DEF DrillOK
    <3> QED  BY <1>b, <2>1, <2>2, <2>3, <2>5, <3>1, <3>2 DEF DrillOK
  <2>7. AttestedOK'
    BY <2>1, <2>3 DEF AttestedOK
  <2> QED  BY <2>6, <2>7
<1>10. CASE KillDrill
  BY <1>10 DEF KillDrill, DrillOK, DrillState, AttestedOK, NoDrill
<1>11. CASE ArmDrill
  <2>1. /\ drill.pc = "none" /\ host /\ UNCHANGED <<now, host, wtimer, pings, attested>>
        /\ drill' = [NoDrill EXCEPT !.pc = "armed", !.subject = record, !.armed = now,
                                    !.timer = now + RearmAfter]
    BY <1>11 DEF ArmDrill, Admitted
  <2>2. now + RearmAfter \in Int /\ record \in Record
    BY <1>0 DEF HostOK
  <2>3. drill' = [pc |-> "armed", subject |-> record, armed |-> now, timer |-> now + RearmAfter,
                  stopped |-> None, down |-> None, rearmed |-> None]
    BY <2>1 DEF NoDrill
  <2>4. drill' \in DrillState
    BY <1>0, <2>2, <2>3 DEF DrillState
  <2>5. drill'.pc = "armed" /\ drill'.stopped = None /\ drill'.rearmed = None
    BY <2>3
  <2>6. AttestedOK'
    BY <2>1 DEF AttestedOK
  <2>7. DrillOK'
    BY <1>b, <2>1, <2>4, <2>5 DEF DrillOK
  <2> QED  BY <2>6, <2>7
<1>12. CASE StopHeartbeat
  BY <1>12 DEF StopHeartbeat, DrillOK, DrillState, AttestedOK, NoDrill
<1>13. CASE HeartbeatStopped
  <2>1. CASE result = "success"
    <3>1. /\ host /\ drill.pc = "stopping" /\ Drained
          /\ drill' = [drill EXCEPT !.pc = "stopped", !.stopped = now]
          /\ UNCHANGED <<now, host, wtimer, services, pings, attested>>
      BY <1>13, <2>1 DEF HeartbeatStopped
    <3>2. drill' \in DrillState
      BY <1>a, <1>b, <3>1 DEF DrillState
    <3>3. /\ drill'.pc = "stopped" /\ drill'.stopped = now
          /\ drill'.timer = drill.timer /\ drill'.rearmed = drill.rearmed
      BY <1>b, <3>1 DEF DrillState
    <3>4. AttestedOK'
      BY <3>1 DEF AttestedOK
    <3>5. \A p \in pings' : p.at <= drill'.stopped
      BY <3>1, <3>3 DEF PingsOK
    <3>6. drill'.timer # None => Quiet'
      BY <3>1, <3>3 DEF Quiet, Drained, DrillOK, services
    <3>7. /\ drill'.timer # None => drill'.rearmed = None
          /\ drill'.rearmed # None => drill'.rearmed <= now'
      BY <3>1, <3>3 DEF DrillOK
    <3>8. DrillOK'
      BY <1>b, <3>1, <3>2, <3>3, <3>5, <3>6, <3>7 DEF DrillOK
    <3> QED  BY <3>4, <3>8
  <2>2. CASE result # "success"
    BY <1>13, <2>2 DEF HeartbeatStopped, DrillOK, DrillState, AttestedOK, NoDrill
  <2> QED  BY <2>1, <2>2
<1>14. CASE SnapshotDown
  BY <1>0, <1>14 DEF SnapshotDown, DrillOK, DrillState, AttestedOK, NoDrill, Quiet
<1>15. CASE Attest
  BY <1>15 DEF Attest, ValidDrill, DrillOK, DrillState, AttestedOK, Quiet
<1>16. Tick \/ StartRun \/ RunIncident \/ RunSample => UNCHANGED drillVars
  BY DEF Tick, StartRun, RunIncident, RunSample, drillVars
<1>17. \A pass, told \in BOOLEAN : RunFlow(pass, told) => UNCHANGED drillVars
  BY DEF RunFlow, drillVars
<1>18. Provision \/ KillRun \/ Activate \/ MissingHeartbeat => UNCHANGED drillVars
  BY DEF Provision, KillRun, Activate, MissingHeartbeat, drillVars
<1> QED
  BY <1>1, <1>2, <1>3, <1>5, <1>6, <1>7, <1>8, <1>9, <1>10, <1>11, <1>12, <1>13, <1>14, <1>15,
     <1>16, <1>17, <1>18 DEF Next, Timers, Services, Faults, Deadman

\* The instants -2 and -1 are :00 and :45 of one minute.
LEMMA FirstMinute == Minute(-2) = -1 /\ Minute(-1) = -1
<1>1. \A x \in Int, y \in Int : 2 * y <= x /\ x < 2 * y + 2 => Minute(x) = y
  BY DEF Minute
<1>2. /\ -1 \in Int /\ -2 \in Int
      /\ 2 * (-1) <= -2 /\ -2 < 2 * (-1) + 2
      /\ 2 * (-1) <= -1 /\ -1 < 2 * (-1) + 2
  OBVIOUS
<1>3. Minute(-1) = -1
  BY <1>1, <1>2
<1>4. Minute(-2) = -1
  BY <1>1, <1>2
<1> QED  BY <1>3, <1>4

\* Both initial states of the canary are accounted for.
LEMMA CanaryInit ==
  Init => CanaryInv
<1> SUFFICES ASSUME Init PROVE CanaryInv
  OBVIOUS
<1> USE CanaryAssumption DEF Init
<1>1. FirstRecord \in Record
  BY DEF FirstRecord
<1>2. HostOK
  <2>1. bound \in BOOLEAN
    BY DEF Shadow, Accepted
  <2>2. now = 0 /\ host = TRUE /\ tools = 0 /\ record = FirstRecord
    OBVIOUS
  <2> HIDE DEF Init
  <2> QED  BY <1>1, <2>1, <2>2 DEF HostOK
<1>3. WatchdogOK
  BY DEF WatchdogOK
<1>4. CASE Shadow
  <2>1. SamplesOK
    BY <1>4, FS_EmptySet DEF Shadow, SamplesOK
  <2>2. ReporterOK /\ LoneOK
    BY <1>4 DEF Shadow, ReporterOK, StrictEarned, LoneOK, LaxAt, LaxReceipts
  <2>3. PingsOK /\ DrillOK /\ AttestedOK
    BY <1>4 DEF Shadow, PingsOK, DrillOK, DrillState, NoDrill, AttestedOK
  <2> QED  BY <1>2, <1>3, <2>1, <2>2, <2>3 DEF CanaryInv
<1>5. CASE Accepted
  <2>1. SamplesOK
    <3> DEFINE first == [at |-> -2, hand |-> FALSE, record |-> FirstRecord, pass |-> TRUE,
                         told |-> FALSE, active |-> TRUE]
    <3>1. samples = {first} /\ served = {-2} /\ run = None /\ now = 0
      BY <1>5 DEF Accepted
    <3>2. first \in Sample /\ first.at = -2
      BY <1>1 DEF Sample
    <3> HIDE DEF Init, first
    <3>3. IsFiniteSet({first})
      BY FS_Singleton
    <3> QED  BY <3>1, <3>2, <3>3 DEF SamplesOK
  <2>2. ReporterOK /\ LoneOK
    <3> DEFINE first == [ok |-> TRUE, at |-> -1, for |-> Minute(-1), accepted |-> TRUE,
                         strict |-> TRUE]
    <3>1. /\ bound = TRUE /\ wd = None /\ receipts = {first} /\ served = {-2} /\ now = 0 /\ rep = [ok \in BOOLEAN |-> None]
      BY <1>5 DEF Accepted
    <3>2. Minute(-1) \in Int /\ Minute(-2) = Minute(-1)
      BY FirstMinute
    <3>3. first \in ReceiptState /\ first.at = -1 /\ first.for = Minute(-1)
          /\ first.strict
      BY <3>2 DEF ReceiptState
    <3> HIDE DEF Init, first
    <3>4. StrictEarned
      BY <3>1, <3>2, <3>3 DEF StrictEarned, Earned
    <3>5. rep \in [BOOLEAN -> ReporterState \cup {None}] /\ \A ok \in BOOLEAN : rep[ok] = None
      BY <3>1
    <3>6. LaxReceipts = {} /\ \A ok \in BOOLEAN : ~LaxAt(ok)
      BY <3>1, <3>3, <3>5 DEF LaxReceipts, LaxAt
    <3> QED  BY <3>1, <3>3, <3>4, <3>5, <3>6 DEF ReporterOK, LoneOK
  <2>3. PingsOK /\ DrillOK /\ AttestedOK
    BY <1>1, <1>5 DEF Accepted, PingsOK, DrillOK, DrillState, NoDrill, AttestedOK, Grace
  <2> QED  BY <1>2, <1>3, <2>1, <2>2, <2>3 DEF CanaryInv
<1> QED  BY <1>4, <1>5

\* Every step of the canary keeps the invariant.
LEMMA CanaryStep ==
  ASSUME CanaryInv, Next
  PROVE  CanaryInv'
BY Grows, SamplesStep, WatchdogStep, ReporterStep, LoneStep, PingsStep, DrillStep DEF CanaryInv

-----------------------------------------------------------------------------
(* The window.                                                             *)

\* A window command leaves the canary as it is.
LEMMA CanaryRests ==
  ASSUME CanaryInv, CanaryKept
  PROVE  CanaryInv'
<1>1. HostOK' /\ SamplesOK' /\ WatchdogOK'
  BY DEF CanaryInv, CanaryKept, HostOK, SamplesOK, WatchdogOK
<1>2. ReporterOK' /\ LoneOK' /\ PingsOK'
  BY DEF CanaryInv, CanaryKept, ReporterOK, StrictEarned, Earned, LoneOK, LaxAt, LaxReceipts, PingsOK
<1>3. DrillOK' /\ AttestedOK'
  BY DEF CanaryInv, CanaryKept, DrillOK, AttestedOK, Quiet
<1> QED  BY <1>1, <1>2, <1>3 DEF CanaryInv

\* Fewer minutes are missed than the objective tolerates if they are among such minutes.
LEMMA FewerMisses ==
  ASSUME NEW t \in Starts, NEW S \in SUBSET Minutes(t), NEW T \in SUBSET S,
         Cardinality(S) <= Misses
  PROVE  Cardinality(T) <= Misses
<1>1. IsFiniteSet(S)
  BY MinutesFinite, FS_Subset
<1>2. IsFiniteSet(T) /\ Cardinality(T) <= Cardinality(S)
  BY <1>1, FS_Subset
<1>3. Cardinality(S) \in Nat /\ Cardinality(T) \in Nat
  BY <1>1, <1>2, FS_CardinalityType
<1> QED  BY <1>2, <1>3, WindowAssumption

\* What is served and delivered later takes nothing from a window.
LEMMA DirectoryRests ==
  ASSUME NEW t \in Starts, DirectoryOK(t), windows'[t] = windows[t],
         served \subseteq served', receipts \subseteq receipts'
  PROVE  DirectoryOK(t)'
<1>1. \A at, age : Heartbeat(at, age) => \E r \in receipts' : r.ok /\ r.accepted /\ at - r.at \in 0 .. age
  BY DEF Heartbeat
<1>2. Unserved(t) \in SUBSET Minutes(t) /\ Unserved(t)' \in SUBSET Unserved(t)
  BY DEF Unserved
<1>3. Cardinality(Unserved(t)) <= Misses => Cardinality(Unserved(t)') <= Misses
  BY <1>2, FewerMisses
<1> QED  BY <1>1, <1>3 DEF DirectoryOK, Heartbeat

\* A passing aggregate counts minutes that were served.
LEMMA AggregateIsEarned ==
  ASSUME NEW t \in Starts, SamplesOK, AggregatePass(t, Of(t, samples))
  PROVE  Cardinality(Unserved(t)) <= Misses
<1> DEFINE missed == Minutes(t) \ Succeeded(Of(t, samples))
<1>1. Cardinality(missed) <= Misses
  BY DEF AggregatePass
<1>2. Succeeded(Of(t, samples)) \subseteq {Minute(i) : i \in served}
  BY DEF Succeeded, Of, SamplesOK
<1>3. missed \in SUBSET Minutes(t) /\ Unserved(t) \in SUBSET missed
  BY <1>2 DEF Unserved
<1> QED  BY <1>1, <1>3, FewerMisses

\* The canary's own steps.
LEMMA CanaryStepKeepsWindows ==
  ASSUME WindowInv, Next, fin' = (IF host' THEN fin ELSE None), UNCHANGED <<report, windows>>
  PROVE  WindowInv'
<1>1. CanaryInv' /\ served \subseteq served' /\ receipts \subseteq receipts'
      /\ now \in Int /\ now' \in Int /\ now <= now'
  BY CanaryStep, Grows DEF WindowInv, CanaryInv, HostOK
<1>2. WindowTypes' /\ FinalizerOK'
  BY DEF WindowInv, WindowTypes, FinalizerOK
<1>3. \A t \in Starts : DirectoryOK(t)'
  BY <1>1, DirectoryRests DEF WindowInv
<1>4. ReportOK'
  BY <1>1 DEF WindowInv, ReportOK, Heartbeat, WindowTypes
<1> QED  BY <1>1, <1>2, <1>3, <1>4 DEF WindowInv

\* A window command that changes one directory.
LEMMA OneDirectory ==
  ASSUME WindowInv, CanaryKept, NEW t \in Starts, NEW d \in Directory,
         windows' = [windows EXCEPT ![t] = d], DirectoryOK(t)', WindowTypes', FinalizerOK',
         UNCHANGED report
  PROVE  WindowInv'
<1>1. CanaryInv'
  BY CanaryRests DEF WindowInv
<1>2. \A q \in Starts : q # t => windows'[q] = windows[q]
  BY DEF WindowInv, WindowTypes
<1>3. served' = served /\ receipts' = receipts /\ now' = now
  BY DEF CanaryKept
<1>4. \A q \in Starts : DirectoryOK(q)'
  BY <1>2, <1>3, DirectoryRests DEF WindowInv
<1>5. ReportOK'
  BY <1>3 DEF WindowInv, ReportOK, Heartbeat
<1> QED  BY <1>1, <1>4, <1>5 DEF WindowInv

\* A command that publishes documents, of which none is an aggregate and a final one only
\* closes what has passed.
LEMMA PutStep ==
  ASSUME WindowInv, CanaryKept, UNCHANGED report,
         NEW t \in Starts, windows[t] # None, NEW D \in SUBSET Document, Put(t, D),
         "aggregate" \notin D,
         "final" \in D => "aggregate" \in windows[t].docs /\ windows[t].passed,
         fin' \in Command \cup {None},
         fin' # None => /\ fin'.start = t /\ fin'.pc = "final"
                        /\ "aggregate" \in windows[t].docs /\ windows[t].passed
  PROVE  WindowInv'
<1> DEFINE d == [windows[t] EXCEPT !.docs = @ \cup D]
<1>1. windows[t] \in Directory
  BY DEF WindowInv, WindowTypes
<1>2. d \in Directory /\ d.docs = windows[t].docs \cup D /\ d.passed = windows[t].passed
      /\ d.at = windows[t].at /\ d.record = windows[t].record /\ d.inputs = windows[t].inputs
  BY <1>1 DEF Directory
<1>3. windows' = [windows EXCEPT ![t] = d]
  BY DEF Put
<1> HIDE DEF d
<1>4. windows'[t] = d /\ windows' \in [Starts -> Directory \cup {None}]
  BY <1>2, <1>3 DEF WindowInv, WindowTypes
<1>5. served' = served /\ receipts' = receipts
  BY DEF CanaryKept
<1>6. Unserved(t)' = Unserved(t) /\ \A at, age : Heartbeat(at, age)' <=> Heartbeat(at, age)
  BY <1>5 DEF Unserved, Heartbeat
<1>7. DirectoryOK(t)
  BY DEF WindowInv
<1>8. DirectoryOK(t)'
  BY <1>2, <1>4, <1>5, <1>6, <1>7 DEF DirectoryOK, Heartbeat
<1>9. WindowTypes' /\ FinalizerOK'
  BY <1>2, <1>4, WindowAssumption DEF WindowInv, WindowTypes, FinalizerOK
<1> QED  BY <1>2, <1>3, <1>8, <1>9, OneDirectory

\* preflight --active reports an accepted heartbeat of the last 90 seconds.
LEMMA PreflightStep ==
  ASSUME WindowInv, Preflight
  PROVE  WindowInv'
<1> DEFINE successes == {r \in receipts : r.ok}
<1>1. successes # {} /\ Newest(successes).accepted /\ now - Newest(successes).at <= 2
  BY DEF Preflight, Admitted
<1>2. Newest(successes) \in successes
  <2>1. now \in Int /\ \A r \in successes : r.at \in Int /\ r.at <= now
    BY DEF WindowInv, CanaryInv, HostOK, ReporterOK, ReceiptState
  <2> HIDE DEF successes
  <2> QED  BY <1>1, <2>1, NewestIsMember
<1>3. Heartbeat(now, 2)
  BY <1>1, <1>2 DEF Heartbeat, WindowInv, CanaryInv, HostOK, ReporterOK, ReceiptState
<1>4. CanaryKept /\ report' = [at |-> now, subject |-> record] /\ UNCHANGED <<windows, fin>>
  BY DEF Preflight
<1>5. CanaryInv' /\ now' = now /\ receipts' = receipts /\ served' = served
  BY <1>4, CanaryRests DEF WindowInv, CanaryKept
<1>6. ReportOK' /\ WindowTypes'
  BY <1>3, <1>4, <1>5 DEF ReportOK, Heartbeat, WindowInv, WindowTypes, CanaryInv, HostOK
<1>7. FinalizerOK'
  BY <1>4 DEF WindowInv, FinalizerOK
<1>8. \A t \in Starts : DirectoryOK(t)'
  BY <1>4, <1>5, DirectoryRests DEF WindowInv
<1> QED  BY <1>5, <1>6, <1>7, <1>8 DEF WindowInv

\* declare takes over the heartbeat of a fresh report.
LEMMA DeclareStep ==
  ASSUME WindowInv, NEW t \in Starts, Declare(t)
  PROVE  WindowInv'
<1> DEFINE directory(documents) ==
      [docs |-> documents, at |-> now, record |-> record, tools |-> None,
       reported |-> report.at, inputs |-> {}, passed |-> FALSE]
<1>1. PICK D \in SUBSET {"declaration", "maintenance"} : windows' = [windows EXCEPT ![t] = directory(D)]
  BY DEF Declare
<1>2. CanaryKept /\ UNCHANGED <<report, fin>> /\ fin = None /\ FreshReport
  BY DEF Declare, Unlocked
<1>3. report \in [at : Int, subject : Record] /\ report.at <= now /\ now - report.at <= ReportAge
      /\ Heartbeat(report.at, 2) /\ now \in Int /\ record \in Record
  BY <1>2 DEF FreshReport, WindowInv, WindowTypes, ReportOK, CanaryInv, HostOK
<1>4. Heartbeat(now, ReportAge + 2)
  <2>1. PICK r \in receipts : r.ok /\ r.accepted /\ report.at - r.at \in 0 .. 2
    BY <1>3 DEF Heartbeat
  <2>2. r.at \in Int
    BY <2>1 DEF WindowInv, CanaryInv, ReporterOK, ReceiptState
  <2>3. now - r.at \in 0 .. (ReportAge + 2)
    BY <1>3, <2>1, <2>2, WindowAssumption
  <2> QED  BY <2>1, <2>3 DEF Heartbeat
<1>5. directory(D) \in Directory
  BY <1>1, <1>3 DEF Directory, Document
<1>6. directory(D).at = now /\ directory(D).inputs = {} /\ directory(D).passed = FALSE
      /\ "final" \notin directory(D).docs
  BY <1>1
<1> DEFINE d == directory(D)
<1>7. windows' = [windows EXCEPT ![t] = d] /\ d \in Directory /\ d.at = now /\ d.inputs = {}
      /\ d.passed = FALSE /\ "final" \notin d.docs
  BY <1>1, <1>5, <1>6
<1> HIDE DEF d, directory
<1>8. windows'[t] = d /\ windows' \in [Starts -> Directory \cup {None}]
  BY <1>7 DEF WindowInv, WindowTypes
<1>9. receipts' = receipts
  BY <1>2 DEF CanaryKept
<1>10. DirectoryOK(t)'
  BY <1>4, <1>7, <1>8, <1>9 DEF DirectoryOK, Heartbeat
<1>11. WindowTypes' /\ FinalizerOK'
  BY <1>2, <1>8 DEF WindowInv, WindowTypes, FinalizerOK
<1> QED  BY <1>2, <1>7, <1>10, <1>11, OneDirectory

\* bind, which also records the version of the observer's programs.
LEMMA BindStep ==
  ASSUME WindowInv, NEW t \in Starts, Bind(t)
  PROVE  WindowInv'
<1>1. windows[t] # None /\ CanaryKept /\ UNCHANGED <<report, fin>> /\ fin = None
  BY DEF Bind, Loaded, Has, Unlocked
<1>2. windows[t] \in Directory /\ tools \in Int /\ DirectoryOK(t)
  BY <1>1 DEF WindowInv, WindowTypes, CanaryInv, HostOK
<1>3. CASE Put(t, {"units"})
  BY <1>1, <1>3, PutStep DEF Document, WindowInv, WindowTypes
<1>4. CASE windows' = [windows EXCEPT ![t].docs = @ \cup {"units", "binding"}, ![t].tools = tools]
  <2> DEFINE d == [windows[t] EXCEPT !.docs = @ \cup {"units", "binding"}, !.tools = tools]
  <2>1. d \in Directory /\ d.docs = windows[t].docs \cup {"units", "binding"}
        /\ d.passed = windows[t].passed /\ d.at = windows[t].at
        /\ d.record = windows[t].record /\ d.inputs = windows[t].inputs
    BY <1>2 DEF Directory, Document
  <2>2. windows' = [windows EXCEPT ![t] = d]
    BY <1>4 DEF WindowInv, WindowTypes
  <2> HIDE DEF d
  <2>3. windows'[t] = d /\ windows' \in [Starts -> Directory \cup {None}]
    BY <2>1, <2>2 DEF WindowInv, WindowTypes
  <2>4. DirectoryOK(t)'
    BY <1>1, <1>2, <2>1, <2>3 DEF CanaryKept, DirectoryOK, Heartbeat, Unserved
  <2>5. WindowTypes' /\ FinalizerOK'
    BY <1>1, <2>3 DEF WindowInv, WindowTypes, FinalizerOK
  <2> QED  BY <1>1, <2>1, <2>2, <2>4, <2>5, OneDirectory
<1> QED  BY <1>3, <1>4 DEF Bind

\* startup-audit and supersede publish one document.
LEMMA DocumentStep ==
  ASSUME WindowInv, NEW t \in Starts, StartupAudit(t) \/ Supersede(t)
  PROVE  WindowInv'
<1>1. windows[t] # None /\ CanaryKept /\ UNCHANGED <<report, fin>> /\ fin = None
  BY DEF StartupAudit, Supersede, Loaded, Has, Unlocked
<1>2. PICK D \in SUBSET {"startup", "superseded"} : Put(t, D)
  BY DEF StartupAudit, Supersede
<1>3. D \in SUBSET Document /\ "aggregate" \notin D /\ "final" \notin D
  BY <1>2 DEF Document
<1>4. fin' \in Command \cup {None} /\ fin' = None
  BY <1>1
<1> QED  BY <1>1, <1>2, <1>3, <1>4, PutStep

\* aggregate takes the lock with the samples of the window, all of the declared record.
LEMMA AggregateInputsStep ==
  ASSUME WindowInv, NEW t \in Starts, NEW final \in BOOLEAN, AggregateInputs(t, final)
  PROVE  WindowInv'
<1> DEFINE set == Of(t, samples)
           command == [start |-> t, final |-> final, inputs |-> set,
                       pc |-> IF Has(t, "aggregate") THEN "check" ELSE "cli"]
<1>1. windows[t] # None /\ CanaryKept /\ UNCHANGED report /\ fin' = command
  BY DEF AggregateInputs, Loaded, Has
<1>2. windows[t] \in Directory /\ DirectoryOK(t)
  BY <1>1 DEF WindowInv, WindowTypes
<1>3. set \subseteq Sample /\ \A s \in set : s.record = windows[t].record
  BY DEF Of, AggregateInputs, Identical, WindowInv, CanaryInv, SamplesOK
<1>4. command \in Command /\ command.start = t /\ command.pc # "final"
      /\ (command.pc = "cli" <=> "aggregate" \notin windows[t].docs)
  BY <1>1, <1>3 DEF Command, Has
<1> HIDE DEF command
<1>5. CASE UNCHANGED windows
  <2>1. CanaryInv' /\ now' = now /\ receipts' = receipts /\ served' = served
    BY <1>1, CanaryRests DEF WindowInv, CanaryKept
  <2>2. WindowTypes' /\ FinalizerOK'
    BY <1>1, <1>4, <1>5 DEF WindowInv, WindowTypes, FinalizerOK
  <2>3. \A q \in Starts : DirectoryOK(q)'
    BY <1>5, <2>1, DirectoryRests DEF WindowInv
  <2>4. ReportOK'
    BY <1>1, <2>1 DEF WindowInv, ReportOK, Heartbeat
  <2> QED  BY <2>1, <2>2, <2>3, <2>4 DEF WindowInv
<1>6. CASE windows' = [windows EXCEPT ![t].docs = @ \cup {"inputs"}, ![t].inputs = set]
  <2> DEFINE d == [windows[t] EXCEPT !.docs = @ \cup {"inputs"}, !.inputs = set]
  <2>1. d \in Directory /\ d.docs = windows[t].docs \cup {"inputs"}
        /\ d.passed = windows[t].passed /\ d.at = windows[t].at
        /\ d.record = windows[t].record /\ d.inputs = set
    BY <1>2, <1>3 DEF Directory, Document
  <2>2. windows' = [windows EXCEPT ![t] = d]
    BY <1>6 DEF WindowInv, WindowTypes
  <2> HIDE DEF d, set
  <2>3. windows'[t] = d /\ windows' \in [Starts -> Directory \cup {None}]
    BY <2>1, <2>2 DEF WindowInv, WindowTypes
  <2>4. DirectoryOK(t)'
    BY <1>1, <1>2, <1>3, <2>1, <2>3 DEF CanaryKept, DirectoryOK, Heartbeat, Unserved
  <2>5. WindowTypes' /\ FinalizerOK'
    BY <1>1, <1>4, <2>1, <2>3, WindowAssumption DEF WindowInv, WindowTypes, FinalizerOK
  <2> QED  BY <1>1, <2>1, <2>2, <2>4, <2>5, OneDirectory
<1> QED  BY <1>5, <1>6 DEF AggregateInputs

\* A command that ends without a document, or is killed.
LEMMA CommandEnds ==
  ASSUME WindowInv, CanaryKept, UNCHANGED <<report, windows>>, fin' = None
  PROVE  WindowInv'
<1>1. CanaryInv' /\ now' = now /\ receipts' = receipts /\ served' = served
  BY CanaryRests DEF WindowInv, CanaryKept
<1>2. WindowTypes' /\ FinalizerOK'
  BY DEF WindowInv, WindowTypes, FinalizerOK
<1>3. \A q \in Starts : DirectoryOK(q)'
  BY <1>1, DirectoryRests DEF WindowInv
<1>4. ReportOK'
  BY <1>1 DEF WindowInv, ReportOK, Heartbeat
<1> QED  BY <1>1, <1>2, <1>3, <1>4 DEF WindowInv

\* The aggregate passes only on minutes that were served.
LEMMA AggregateSamplesStep ==
  ASSUME WindowInv, AggregateSamples
  PROVE  WindowInv'
<1>0. CanaryKept /\ UNCHANGED report /\ fin \in Command /\ fin.pc = "cli"
  BY DEF AggregateSamples, WindowInv, WindowTypes
<1>1. PICK t \in Starts : t = fin.start
  BY <1>0 DEF Command
<1> DEFINE pass == AggregatePass(t, Of(t, samples))
<1>2. CASE ~Has(t, "maintenance")
  BY <1>0, <1>1, <1>2, CommandEnds DEF AggregateSamples
<1>3. CASE Has(t, "maintenance")
  <2>1. /\ windows' = [windows EXCEPT ![t].docs = @ \cup {"aggregate"}, ![t].passed = pass]
        /\ fin' = IF pass THEN [fin EXCEPT !.pc = "check"] ELSE None
    BY <1>1, <1>3 DEF AggregateSamples
  <2>2. pass \in BOOLEAN
    BY DEF AggregatePass
  <2>3. pass => Cardinality(Unserved(t)) <= Misses
    BY <1>0, <1>1, AggregateIsEarned DEF WindowInv, CanaryInv
  <2> HIDE DEF pass
  <2>a. "aggregate" \notin windows[t].docs
    <3>1. fin # None
      BY DEF AggregateSamples
    <3> QED  BY <1>0, <1>1, <3>1 DEF WindowInv, FinalizerOK
  <2>4. windows[t] # None /\ windows[t] \in Directory /\ DirectoryOK(t)
    BY <1>1, <1>3 DEF Has, WindowInv, WindowTypes
  <2> DEFINE d == [windows[t] EXCEPT !.docs = @ \cup {"aggregate"}, !.passed = pass]
  <2>5. d \in Directory /\ d.docs = windows[t].docs \cup {"aggregate"}
        /\ d.passed = pass /\ d.at = windows[t].at
        /\ d.record = windows[t].record /\ d.inputs = windows[t].inputs
    BY <2>2, <2>4 DEF Directory, Document
  <2>6. windows' = [windows EXCEPT ![t] = d]
    BY <2>1 DEF WindowInv, WindowTypes
  <2>7. fin' # None => fin' \in Command /\ fin'.start = t /\ fin'.pc = "check"
    BY <1>0, <1>1, <2>1 DEF Command
  <2> HIDE DEF d
  <2>8. windows'[t] = d /\ windows' \in [Starts -> Directory \cup {None}]
    BY <1>0, <1>1, <2>5, <2>6 DEF WindowInv, WindowTypes
  <2>9. Unserved(t)' = Unserved(t) /\ receipts' = receipts
    BY <1>0, <1>1 DEF CanaryKept, Unserved
  <2>10. DirectoryOK(t)'
    BY <1>0, <1>1, <2>3, <2>4, <2>a, <2>5, <2>8, <2>9 DEF DirectoryOK, Heartbeat
  <2>11. WindowTypes' /\ FinalizerOK'
    BY <1>0, <1>1, <2>5, <2>7, <2>8, WindowAssumption DEF WindowInv, WindowTypes, FinalizerOK
  <2> QED  BY <1>0, <1>1, <2>5, <2>6, <2>10, <2>11, OneDirectory
<1> QED  BY <1>2, <1>3

\* A receipt is of an aggregate that passed, and lets the finalizer go on.
LEMMA AggregateReceiptStep ==
  ASSUME WindowInv, AggregateReceipt
  PROVE  WindowInv'
<1>0. CanaryKept /\ UNCHANGED report /\ fin \in Command /\ fin.pc = "check"
  BY DEF AggregateReceipt, WindowInv, WindowTypes
<1>1. PICK t \in Starts : t = fin.start
  BY <1>0 DEF Command
<1>2. CASE UNCHANGED windows /\ fin' = None
  BY <1>0, <1>2, CommandEnds
<1>3. CASE /\ windows[t].passed /\ Put(t, {"receipt"})
           /\ fin' = IF fin.final THEN [fin EXCEPT !.pc = "final"] ELSE None
  <2>1. windows[t] # None /\ "aggregate" \in windows[t].docs
    BY <1>0, <1>1 DEF WindowInv, FinalizerOK, AggregateReceipt
  <2>2. fin' # None => fin' \in Command /\ fin'.start = t /\ fin'.pc = "final"
    BY <1>0, <1>1, <1>3 DEF Command
  <2>3. {"receipt"} \in SUBSET Document
    BY DEF Document
  <2> QED  BY <1>0, <1>3, <2>1, <2>2, <2>3, PutStep
<1> QED  BY <1>1, <1>2, <1>3 DEF AggregateReceipt, ValidAggregate

\* final.json closes a window whose aggregate passed.
LEMMA FinalizeStep ==
  ASSUME WindowInv, Finalize
  PROVE  WindowInv'
<1>0. CanaryKept /\ UNCHANGED report /\ fin \in Command /\ fin.pc = "final" /\ fin' = None
  BY DEF Finalize, WindowInv, WindowTypes
<1>1. PICK t \in Starts : t = fin.start
  BY <1>0 DEF Command
<1>2. CASE UNCHANGED windows
  BY <1>0, <1>2, CommandEnds
<1>3. CASE Put(t, {"final"})
  <2>1. windows[t] # None /\ "aggregate" \in windows[t].docs /\ windows[t].passed
    BY <1>0, <1>1 DEF WindowInv, FinalizerOK, Finalize
  <2>2. {"final"} \in SUBSET Document
    BY DEF Document
  <2> QED  BY <1>0, <1>3, <2>1, <2>2, PutStep
<1> QED  BY <1>1, <1>2, <1>3 DEF Finalize

\* A step that changes nothing.
LEMMA Stutters ==
  ASSUME WindowInv, UNCHANGED allvars
  PROVE  WindowInv'
<1>1. CanaryKept /\ UNCHANGED <<report, windows, fin>>
  BY DEF allvars, vars, wvars, CanaryKept
<1>2. CanaryInv' /\ now' = now /\ receipts' = receipts /\ served' = served
  BY <1>1, CanaryRests DEF WindowInv, CanaryKept
<1>3. WindowTypes' /\ FinalizerOK'
  BY <1>1 DEF WindowInv, WindowTypes, FinalizerOK
<1>4. \A q \in Starts : DirectoryOK(q)'
  BY <1>1, <1>2, DirectoryRests DEF WindowInv
<1>5. ReportOK'
  BY <1>1, <1>2 DEF WindowInv, ReportOK, Heartbeat
<1> QED  BY <1>2, <1>3, <1>4, <1>5 DEF WindowInv

-----------------------------------------------------------------------------
(* The theorems.                                                           *)

\* The invariant holds of every behaviour: whatever fails, whoever is killed, and whenever
\* a command is given.
THEOREM WindowInvariant ==
  WindowSpec => []WindowInv
<1>1. WindowInit => WindowInv
  <2> SUFFICES ASSUME WindowInit PROVE WindowInv
    OBVIOUS
  <2>1. CanaryInv
    BY CanaryInit DEF WindowInit
  <2>2. WindowTypes /\ ReportOK /\ FinalizerOK
    BY DEF WindowInit, WindowTypes, ReportOK, FinalizerOK
  <2>3. \A t \in Starts : DirectoryOK(t)
    BY DEF WindowInit, DirectoryOK
  <2> QED  BY <2>1, <2>2, <2>3 DEF WindowInv
<1>2. WindowInv /\ [WindowNext]_allvars => WindowInv'
  <2> SUFFICES ASSUME WindowInv, [WindowNext]_allvars PROVE WindowInv'
    OBVIOUS
  <2>1. CASE UNCHANGED allvars
    BY <2>1, Stutters
  <2>2. CASE Next /\ fin' = (IF host' THEN fin ELSE None) /\ UNCHANGED <<report, windows>>
    BY <2>2, CanaryStepKeepsWindows
  <2>3. CASE Preflight
    BY <2>3, PreflightStep
  <2>4. CASE KillFinalizer
    BY <2>4, CommandEnds DEF KillFinalizer
  <2>5. ASSUME NEW t \in Starts, Declare(t) PROVE WindowInv'
    BY <2>5, DeclareStep
  <2>6. ASSUME NEW t \in Starts, Bind(t) PROVE WindowInv'
    BY <2>6, BindStep
  <2>7. ASSUME NEW t \in Starts, StartupAudit(t) \/ Supersede(t) PROVE WindowInv'
    BY <2>7, DocumentStep
  <2>8. ASSUME NEW t \in Starts, NEW final \in BOOLEAN, AggregateInputs(t, final) PROVE WindowInv'
    BY <2>8, AggregateInputsStep
  <2>9. CASE AggregateSamples
    BY <2>9, AggregateSamplesStep
  <2>10. CASE AggregateReceipt
    BY <2>10, AggregateReceiptStep
  <2>11. CASE Finalize
    BY <2>11, FinalizeStep
  <2> QED
    BY <2>1, <2>2, <2>3, <2>4, <2>5, <2>6, <2>7, <2>8, <2>9, <2>10, <2>11
       DEF WindowNext, Operator, Finalizer
<1> QED  BY <1>1, <1>2, PTL DEF WindowSpec

\* A success heartbeat is only recorded for a minute in which the gateway served a whole
\* flow (external_business_canary.py watchdog --require-successful-sample and
\* external_deadman_reporter.py), but for the one of the watchdog that was running when
\* the heartbeat was activated, for any horizon and any number of disturbances.
THEOREM HeartbeatsAreEarned ==
  WindowSpec => []HeartbeatIsEarned
<1>1. WindowInv => HeartbeatIsEarned
  BY DEF WindowInv, CanaryInv, ReporterOK, StrictEarned, Earned, LoneOK, LaxReceipts, HeartbeatIsEarned
<1> QED  BY <1>1, WindowInvariant, PTL

\* A closed window (immutable_window finalize) was served but for the tolerated misses, is
\* of the declared record only, and was declared on an accepted heartbeat, for any windows
\* and any tolerance.
THEOREM FinalsAreEarned ==
  WindowSpec => []FinalIsEarned
<1>1. WindowInv => FinalIsEarned
  BY DEF WindowInv, DirectoryOK, Has, Unserved, Heartbeat, FinalIsEarned
<1> QED  BY <1>1, WindowInvariant, PTL

\* An attested drill (manage_external_deadman.py attest) is of one record, lasted at least
\* 90 seconds, and was a silence: the provider heard nothing between the stop of the
\* heartbeat and its automatic recovery.
DrillIsSilent ==
    attested # None =>
        /\ drill.subject = attested.subject
        /\ drill.stopped + Grace <= drill.down /\ drill.down <= drill.rearmed
        /\ \A p \in pings : p.at <= drill.stopped \/ p.at >= drill.rearmed

\* The silence of an attested drill holds whatever crashes, kills, lost calls and slow
\* services there are.
THEOREM AttestedDrillsAreSilent ==
  WindowSpec => []DrillIsSilent
<1>1. WindowInv => DrillIsSilent
  BY CanaryAssumption DEF WindowInv, CanaryInv, AttestedOK, DrillOK, DrillState, DrillIsSilent, Grace
<1> QED  BY <1>1, WindowInvariant, PTL
=============================================================================

------------------------------ MODULE LongSoak ------------------------------
(***************************************************************************)
(* scripts/gates/production/run_long_soak_capacity.py over its children:    *)
(* the resilience gate (verify_production_resilience_gate.py), which runs   *)
(* the soak of StabilitySoak, and the release baselines of PerfCollector;   *)
(* then verify_fixed_runner_release_capacity.py, which reads what they left *)
(* on disk.  A run may be interrupted, lose its parent or be killed, and it *)
(* finds what an earlier run of this or of another commit has left.         *)
(***************************************************************************)
EXTENDS StabilitySoak, PerfCollector

CONSTANTS Plans,         \* the selections of steps a run may be started with
          Found,         \* what it may find: the commit of the summaries, the services left
          MaxRuns

ASSUME PlanAssumption ==
  /\ \A plan \in Plans : plan \in Seq({"soak", "capacity", "business"})
  /\ Found \subseteq [rev : {0, 1}, left : SUBSET Service, board : {"", "redis"}, gateway : {"", "export"}]

VARIABLES orch,      \* control state of the orchestrator
          gate,      \* control state of the resilience gate
          top,       \* runtime/validation/long-soak-capacity-summary.json
          gateFile,  \* runtime/validation/long-soak-2h-summary.json
          r4,        \* runtime/validation/fixed-runner-release-capacity-summary.json
          head,      \* the commit that is checked out and built
          done,      \* per step of the last run: its status (for the properties)
          killed     \* the orchestrator was killed (for the properties)

longVars == <<orch, gate, top, gateFile, r4, head, done, killed>>
vars == <<processVars, soakVars, perfVars, longVars>>

Step == {"soak"} \union Preset
OrchIdle == [pc |-> "off", run |-> 0, rev |-> None, todo |-> <<>>, plan |-> {}, step |-> None,
             bad |-> FALSE, error |-> FALSE, cut |-> FALSE]
GateIdle == [pc |-> "off", i |-> 1, bad |-> FALSE, cut |-> FALSE, run |-> 0]

(* What an earlier run has left: a full set of passing summaries, of this   *)
(* commit or of the one before.                                             *)
Passed(rev) == [Report(TRUE, FALSE, TRUE, 0) EXCEPT !.rev = rev]
Collected(rev) == [ok |-> TRUE, run |-> 0, rev |-> rev, met |-> {}, id |-> 0, otel |-> TRUE, redis |-> TRUE]

(* ... and, where its collector was killed, the services it had running: in *)
(* their first mode, for a comparison, or a part of them.                   *)
LeftServices(ss, board, gateway) ==
  LET mode == [battle |-> "", board |-> board, gateway |-> gateway]
  IN  [s \in Service |-> IF s \in ss THEN [Holder(0, 0, mode[s]) EXCEPT !.lost = TRUE] ELSE None]

Inherited ==
  \E found \in Found : LET rev == found.rev IN
    /\ top = Passed(rev) /\ gateFile = Passed(rev) /\ stab = Passed(None)
    /\ soak = SoakIdle /\ arch = "none" /\ archFile = [bad |-> FALSE, dev |-> 0] /\ history = <<>>
    /\ base = BaseIdle /\ perf = PerfIdle /\ port = LeftServices(found.left, found.board, found.gateway) /\ trouble = 0
    /\ perfFile = [p \in Preset |-> Collected(rev)] /\ baseFile = [p \in Preset |-> Passed(rev)]

LongInit ==
  /\ ProcessInit /\ Inherited
  /\ orch = OrchIdle /\ gate = GateIdle
  /\ r4 = None /\ head = 1
  /\ done = [s \in Step |-> "none"]
  /\ killed = FALSE

(* ------------------------------ the runner ----------------------------- *)
(* A job starts when nothing of the last one is left of its process tree;   *)
(* services that escaped their collector may still hold their ports.        *)
Idle == \A p \in Proc : ~Up(p)

Invoke(plan) ==
  /\ Idle /\ ~Measuring /\ orch.run < MaxRuns
  /\ proc' = [proc EXCEPT !["orch"] = Born]
  /\ top' = Report(FALSE, FALSE, FALSE, orch.run + 1)
  /\ orch' = [OrchIdle EXCEPT !.pc = "select", !.run = orch.run + 1, !.todo = plan, !.plan = ToSet(plan)]
  /\ done' = [s \in Step |-> "none"]
  /\ UNCHANGED <<sup, stuck, soakVars, perfVars, gate, gateFile, r4, head, killed>>

(* --------------------------- the orchestrator -------------------------- *)
OrchSelects ==
  /\ Computing("orch") /\ orch.pc = "select"
  /\ IF orch.todo = <<>>
     THEN Exit("orch", "two") /\ orch' = [orch EXCEPT !.pc = "off"]
     ELSE orch' = [orch EXCEPT !.pc = "arm", !.rev = head] /\ UNCHANGED <<proc, sup>>
  /\ UNCHANGED <<stuck, soakVars, perfVars, gate, top, gateFile, r4, head, done, killed>>

(* installed_signal_handlers, then arm_parent_death_signal, which raises    *)
(* where prctl fails or the parent is gone already.                         *)
OrchArms ==
  /\ Computing("orch") /\ orch.pc = "arm"
  /\ proc' = [proc EXCEPT !["orch"].hand = TRUE]
  /\ \/ orch' = [orch EXCEPT !.pc = "next"]
     \/ orch' = [orch EXCEPT !.pc = "final", !.error = TRUE]
  /\ UNCHANGED <<sup, stuck, soakVars, perfVars, gate, top, gateFile, r4, head, done, killed>>

(* execute_step: the summary the last run left for this step is removed.    *)
Drop(step) ==
  /\ gateFile' = IF step = "soak" THEN None ELSE gateFile
  /\ baseFile' = [p \in Preset |-> IF step = p THEN None ELSE baseFile[p]]

OrchNext ==
  /\ Computing("orch") /\ orch.pc = "next"
  /\ IF orch.todo = <<>> \/ Cancelled("orch")
     THEN orch' = [orch EXCEPT !.pc = "final"] /\ UNCHANGED <<gateFile, baseFile>>
     ELSE /\ orch' = [orch EXCEPT !.pc = "spawn", !.step = Head(orch.todo), !.todo = Tail(@)]
          /\ Drop(Head(orch.todo))
  /\ UNCHANGED <<processVars, soakVars, base, perf, port, perfFile, trouble, gate, top, r4, head, done, killed>>

(* run_cancellable_process looks at the flag before it starts the child.    *)
OrchSpawns ==
  /\ Computing("orch") /\ orch.pc = "spawn"
  /\ IF Cancelled("orch")
     THEN /\ orch' = [orch EXCEPT !.pc = "next", !.bad = TRUE, !.cut = TRUE]
          /\ done' = [done EXCEPT ![orch.step] = "cancelled"]
          /\ UNCHANGED <<proc, sup, gate, base>>
     ELSE /\ orch' = [orch EXCEPT !.pc = "wait"]
          /\ UNCHANGED done
          /\ IF orch.step = "soak"
             THEN /\ Popen("orch", "gate")
                  /\ gate' = [GateIdle EXCEPT !.pc = "boot", !.run = orch.run]
                  /\ UNCHANGED base
             ELSE /\ Popen("orch", "base")
                  /\ base' = [pc |-> "boot", step |-> orch.step, id |-> base.id + 1, rev |-> head, run |-> orch.run]
                  /\ UNCHANGED gate
  /\ UNCHANGED <<stuck, soakVars, perf, port, perfFile, baseFile, trouble, top, gateFile, r4, head, killed>>

(* attach_provenance stamps the summary with the revision of this run, and  *)
(* validate_child_summary turns exit code 0 with no passing summary into a  *)
(* failure.                                                                 *)
Stamped(file) == IF file = None THEN None ELSE [file EXCEPT !.rev = orch.rev]
ChildFile(step) == IF step = "soak" THEN gateFile ELSE baseFile[step]
Validated(status, file) ==
  IF status = "passed" /\ (file = None \/ ~file.ok) THEN "failed" ELSE status

OrchStepEnds ==
  /\ orch.pc = "wait" /\ Returned("orch")
  /\ LET status == Validated(Outcome("orch"), ChildFile(orch.step)) IN
       /\ orch' = [orch EXCEPT !.pc = "next", !.bad = @ \/ status # "passed", !.cut = @ \/ status = "cancelled"]
       /\ done' = [done EXCEPT ![orch.step] = status]
  /\ gateFile' = IF orch.step = "soak" THEN Stamped(gateFile) ELSE gateFile
  /\ baseFile' = [p \in Preset |-> IF orch.step = p THEN Stamped(baseFile[p]) ELSE baseFile[p]]
  /\ Resume("orch")
  /\ UNCHANGED <<proc, stuck, soakVars, base, perf, port, perfFile, trouble, gate, top, r4, head, killed>>

(* Mutant: a step that failed is not looked for.                            *)
SummarisedBlindly(p, ctl) ==
  LET intr == Cancelled(p) \/ ctl.cut IN Report(~intr /\ ~ctl.error, intr, TRUE, ctl.run)

(* finalize_summary, the second look at the flag, and the exit code.        *)
Summarised(p, ctl) ==
  LET intr == Cancelled(p) \/ ctl.cut IN Report(~intr /\ ~ctl.error /\ ~ctl.bad, intr, TRUE, ctl.run)

OrchFinalizes ==
  /\ Computing("orch") /\ orch.pc = "final"
  /\ top' = [Summarised("orch", orch) EXCEPT !.rev = orch.rev]
  /\ orch' = [orch EXCEPT !.pc = "again"]
  /\ UNCHANGED <<processVars, soakVars, perfVars, gate, gateFile, r4, head, done, killed>>

OrchLooksAgain ==
  /\ Computing("orch") /\ orch.pc = "again"
  /\ proc' = [proc EXCEPT !["orch"].hand = FALSE]
  /\ top' = IF Cancelled("orch") THEN [Summarised("orch", orch) EXCEPT !.rev = orch.rev] ELSE top
  /\ orch' = [orch EXCEPT !.pc = "leave"]
  /\ UNCHANGED <<sup, stuck, soakVars, perfVars, gate, gateFile, r4, head, done, killed>>

OrchLeaves ==
  /\ Computing("orch") /\ orch.pc = "leave"
  /\ Exit("orch", IF top.ok THEN "zero" ELSE "other")
  /\ orch' = [orch EXCEPT !.pc = "off"]
  /\ UNCHANGED <<stuck, soakVars, perfVars, gate, top, gateFile, r4, head, done, killed>>

(* -------------------------- the resilience gate ------------------------ *)
(* Static checks, the soak, and fault-recovery checks; a failed step does   *)
(* not stop the ones after it.                                              *)
GateSteps == <<"tool", "soak", "tool">>

GateUnlinks ==
  /\ Computing("gate") /\ gate.pc = "boot"
  /\ gateFile' = None
  /\ gate' = [gate EXCEPT !.pc = "arm"]
  /\ UNCHANGED <<processVars, soakVars, perfVars, orch, top, r4, head, done, killed>>

GateArms ==
  /\ Computing("gate") /\ gate.pc = "arm"
  /\ proc' = [proc EXCEPT !["gate"].hand = TRUE]
  /\ gateFile' = Report(FALSE, FALSE, FALSE, gate.run)
  /\ gate' = [gate EXCEPT !.pc = "next"]
  /\ UNCHANGED <<sup, stuck, soakVars, perfVars, orch, top, r4, head, done, killed>>

GateNext ==
  /\ Computing("gate") /\ gate.pc = "next"
  /\ IF Cancelled("gate") \/ gate.i > Len(GateSteps)
     THEN gate' = [gate EXCEPT !.pc = "final"] /\ UNCHANGED <<proc, sup, soak, arch, history>>
     ELSE /\ gate' = [gate EXCEPT !.pc = "wait"]
          /\ Popen("gate", GateSteps[gate.i])
          /\ IF GateSteps[gate.i] = "soak"
             THEN soak' = [SoakIdle EXCEPT !.pc = "boot", !.run = gate.run] /\ arch' = "none" /\ history' = <<>>
             ELSE UNCHANGED <<soak, arch, history>>
  /\ UNCHANGED <<stuck, archFile, stab, perfVars, orch, top, gateFile, r4, head, done, killed>>

GateStepEnds ==
  /\ gate.pc = "wait" /\ Returned("gate")
  /\ gate' = [gate EXCEPT !.pc = "next", !.i = @ + 1, !.bad = @ \/ Outcome("gate") # "passed",
                          !.cut = @ \/ Outcome("gate") = "cancelled"]
  /\ Resume("gate")
  /\ UNCHANGED <<proc, stuck, soakVars, perfVars, orch, top, gateFile, r4, head, done, killed>>

GateSummary == Summarised("gate", [bad |-> gate.bad, cut |-> gate.cut, run |-> gate.run, error |-> FALSE])

GateFinalizes ==
  /\ Computing("gate") /\ gate.pc = "final"
  /\ gateFile' = GateSummary
  /\ gate' = [gate EXCEPT !.pc = "again"]
  /\ UNCHANGED <<processVars, soakVars, perfVars, orch, top, r4, head, done, killed>>

GateLooksAgain ==
  /\ Computing("gate") /\ gate.pc = "again"
  /\ proc' = [proc EXCEPT !["gate"].hand = FALSE]
  /\ gateFile' = IF Cancelled("gate") THEN GateSummary ELSE gateFile
  /\ gate' = [gate EXCEPT !.pc = "leave"]
  /\ UNCHANGED <<sup, stuck, soakVars, perfVars, orch, top, r4, head, done, killed>>

GateLeaves ==
  /\ Computing("gate") /\ gate.pc = "leave"
  /\ Exit("gate", IF gateFile.ok THEN "zero" ELSE "other")
  /\ gate' = GateIdle
  /\ UNCHANGED <<stuck, soakVars, perfVars, orch, top, gateFile, r4, head, done, killed>>
(* ------------------------- signals and deadlines ----------------------- *)
(* SIGINT or SIGTERM to the orchestrator, or the death of the runner that   *)
(* started it; without the handlers it ends where it is.                    *)
Signal ==
  /\ Up("orch") /\ Troubled
  /\ proc' = [proc EXCEPT !["orch"] = Termed(@, "orch")]
  /\ sup' = Waits(proc')
  /\ orch' = IF proc'["orch"].up THEN orch ELSE [orch EXCEPT !.pc = "off"]
  /\ UNCHANGED <<stuck, soakVars, base, perf, port, perfFile, baseFile, gate, top, gateFile, r4, head, done, killed>>

(* SIGKILL to the orchestrator: its children run on.                        *)
Kill ==
  /\ Up("orch") /\ Troubled
  /\ Exit("orch", "other")
  /\ orch' = [orch EXCEPT !.pc = "off"]
  /\ killed' = TRUE
  /\ UNCHANGED <<stuck, soakVars, base, perf, port, perfFile, baseFile, gate, top, gateFile, r4, head, done>>

(* What a signal to the group of p's child does besides.                    *)
Fallen ==
  /\ gate' = IF proc'["gate"].up THEN gate ELSE GateIdle
  /\ soak' = IF proc'["soak"].up THEN soak ELSE SoakIdle
  /\ history' = IF proc'["soak"].up THEN history ELSE <<>>
  /\ UNCHANGED <<arch, archFile, stab, perfFile, baseFile, orch, top, gateFile, r4, head, done, killed>>

Reach(p) ==
  /\ IF sup[p].kid = "base" THEN GroupEnds ELSE UNCHANGED <<base, perf, port>>
  /\ Fallen

Notices(p) == NoticeCancel(p) /\ Reach(p) /\ UNCHANGED trouble

Expires(p) ==
  /\ Troubled
  /\ Expire(p) /\ Reach(p)

Escalates(p) == Escalate(p) /\ Fallen /\ UNCHANGED <<base, perf, port, trouble>>

Elapse == Tick /\ UNCHANGED <<soakVars, perfVars, longVars>>
ToolExits == LeafExits("tool") /\ UNCHANGED <<soakVars, perfVars, longVars>>

(* ------------------------------- the R4 gate --------------------------- *)
(* It runs after the orchestrator however that ended, if both capacity      *)
(* steps were selected.  Where the capacity step left no summary it runs a  *)
(* smoke baseline in its place; the two collector summaries must pass and   *)
(* name the commit that is checked out.                                     *)
ReleaseSummary(smoke) ==
  IF baseFile["capacity"] = None THEN [ok |-> smoke, rev |-> head] ELSE baseFile["capacity"]
ValidPerf(file) == file # None /\ file.ok /\ file.rev = head

ValidOtel(file) == file.otel
ValidRedis(file) == file.redis

R4Gate ==
  /\ ~Up("orch") /\ Preset \subseteq orch.plan
  /\ r4 # None => r4.run < orch.run
  /\ \E smoke \in BOOLEAN :
       r4' = [ok |-> /\ ReleaseSummary(smoke).ok /\ ReleaseSummary(smoke).rev = head
                     /\ \A p \in Preset : ValidPerf(perfFile[p])
                     /\ ValidOtel(perfFile["business"]) /\ ValidRedis(perfFile["business"]),
              run |-> orch.run, rev |-> head, read |-> perfFile]
  /\ UNCHANGED <<processVars, soakVars, perfVars, orch, gate, top, gateFile, head, done, killed>>

OrchStep == OrchSelects \/ OrchArms \/ OrchNext \/ OrchSpawns \/ OrchStepEnds
            \/ OrchFinalizes \/ OrchLooksAgain \/ OrchLeaves
GateStep == GateUnlinks \/ GateArms \/ GateNext \/ GateStepEnds \/ GateFinalizes \/ GateLooksAgain \/ GateLeaves
SoakStep == SoakNext /\ UNCHANGED <<perfVars, longVars>>
PerfStep == PerfNext /\ UNCHANGED <<soakVars, longVars>>

Supervise == \E p \in Supervisor : Notices(p) \/ Escalates(p)
Disturb == Signal \/ Kill \/ \E p \in Supervisor : Expires(p)

LongNext ==
  \/ \E plan \in Plans : Invoke(plan)
  \/ R4Gate
  \/ OrchStep \/ GateStep \/ SoakStep \/ PerfStep
  \/ Supervise \/ Elapse \/ ToolExits \/ Disturb

(* The supervisors are running programs and time passes; nothing makes a    *)
(* child finish.                                                            *)
SoakControl == (SoakOpens \/ SoakArms \/ SoakTests \/ SoakTested \/ SoakPass \/ SoakConfirm \/ SoakJudges
                \/ SoakConcludes \/ SoakFinalizes \/ SoakLooksAgain \/ SoakLeaves)
               /\ UNCHANGED <<perfVars, longVars>>

LongSpec ==
  /\ LongInit /\ [][LongNext]_vars
  /\ WF_vars(OrchStep) /\ WF_vars(GateStep) /\ WF_vars(SoakControl)
  /\ WF_vars(Supervise) /\ WF_vars(Elapse)

(* ------------------------------ properties ----------------------------- *)
FileOK(f) == f = None \/ (f.ok \in BOOLEAN /\ f.intr \in BOOLEAN /\ f.end \in BOOLEAN /\ f.run \in 0..MaxRuns)

(* Every variable has its type; a wait is held by a live supervisor, and a  *)
(* supervisor that waits has no step of its own to take.                    *)
SoakTypeOK ==
  /\ \A p \in Proc : proc[p].up \in BOOLEAN /\ proc[p].code \in Code
  /\ \A p \in Supervisor : sup[p].mode \in {"none", "watch", "term", "hard"} /\ sup[p].left \in Nat
  /\ \A p \in Supervisor : Waiting(p) => Up(p) /\ sup[p].kid \in Proc
  /\ stuck \subseteq Leaf
  /\ FileOK(top) /\ FileOK(gateFile) /\ FileOK(stab) /\ \A p \in Preset : FileOK(baseFile[p])
  /\ soak.failures.confirmed <= soak.failures.failed
  /\ orch.pc = "wait" <=> Waiting("orch")
  /\ gate.pc = "wait" <=> Waiting("gate")

(* The orchestrator reports success only if every step it was asked for     *)
(* passed in this run and left a passing summary of this run, stamped with  *)
(* its revision: no summary of an earlier run is taken for one of this.     *)
PassWasEarned ==
  top # None /\ top.ok =>
    \A s \in orch.plan :
      /\ done[s] = "passed"
      /\ ChildFile(s) # None /\ ChildFile(s).ok /\ ChildFile(s).run = top.run /\ ChildFile(s).rev = top.rev
      /\ s = "soak" => stab # None /\ stab.ok /\ stab.run = top.run
      /\ s \in Preset => perfFile[s] # None /\ perfFile[s].ok /\ perfFile[s].run = top.run

(* No process a supervisor started is left behind without having been told  *)
(* to stop: one that no live supervisor waits for was signalled, whichever  *)
(* graces ran out first (a killed orchestrator is excepted).  Nor is a      *)
(* service left by its collector, with two exceptions the code makes: the   *)
(* release baseline's timeout kills the collector and not its services, and *)
(* a service whose start raised was in no list.                             *)
Supervised(p) == \E q \in Supervisor : Waiting(q) /\ sup[q].kid = p
OrphansWereSignalled ==
  /\ ~killed => \A p \in Proc \ {"orch"} : Up(p) => Supervised(p) \/ proc[p].told
  /\ \A s \in Service : port[s] # None => (Measuring /\ Mine(s)) \/ port[s].told \/ port[s].lost

(* What the sustained baseline accepts, read off the passes it made: the    *)
(* episodes are recomputed from the history, a failing pass opening one     *)
(* that takes the next Confirmations passes with it.                        *)
Episodes(h) ==
  FoldLeft(LAMBDA eps, x :
             IF eps # <<>> /\ Len(Last(eps)) <= Confirmations THEN Append(Front(eps), Append(Last(eps), x.dev))
             ELSE IF x.bad THEN Append(eps, <<x.dev>>) ELSE eps,
           <<>>, h)
ConfirmedMisses(h) ==
  FoldLeft(LAMBDA acc, e : IF Len(Missed(e)) >= 2 THEN acc \o Missed(e) ELSE acc, <<>>, Episodes(h))
Misses(h) == SelectSeq(h, LAMBDA x : x.dev > 0)

(* A passing soak measured every pass it counts, filled its duration, had   *)
(* no more confirmed failures than the standard rate allows, none of them   *)
(* beyond the rare deviation, and where they exceed the rare rate, none     *)
(* beyond the standard deviation.                                           *)
SoakVerdictIsDeserved ==
  soak.pc \in {"again", "leave"} /\ stab.ok =>
    LET n == Len(history)
        confirmed == ConfirmedMisses(history)
    IN  /\ n >= MinPasses /\ \A i \in 1..n : history[i].pass = i
        /\ Len(confirmed) * 100 <= StandardRate * n
        /\ \A d \in ToSet(confirmed) : d <= RareDev
        /\ Len(confirmed) * 100 > RareRate * n => \A d \in ToSet(confirmed) : d <= StandardDev
        /\ confirmed = <<>> => Len(Misses(history)) * 100 <= StandardRate * n

(* Where R4 passes on a business collection of its own run, the gateways    *)
(* and leaderboards that were measured were started from the commit R4      *)
(* attests.  A port that a service of an earlier commit still holds is      *)
(* accepted by wait_tcp_port, but the comparisons show that nothing was     *)
(* restarted behind it, and with the business collection R4 fails the       *)
(* capacity measured through the same ports.  The battle backend is not so  *)
(* caught, and a business summary an earlier run of the commit left is      *)
(* taken as it is.                                                          *)
AttestedServicesAreOwn ==
  r4 # None /\ r4.ok /\ r4.read["business"].run = r4.run =>
    \A p \in Preset : \A h \in r4.read[p].met :
      h.svc \in {"gateway", "board"} => h.rev = r4.rev

============================================================================

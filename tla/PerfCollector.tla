---------------------------- MODULE PerfCollector ----------------------------
(***************************************************************************)
(* scripts/producers/collect_release_baseline.py and the collector it runs, *)
(* scripts/producers/collect_v2_perf_baseline.py with its perf_*.py          *)
(* libraries: a topology of services on fixed local ports, measured and     *)
(* partly restarted in another mode for the OTel and the Redis comparison.  *)
(*                                                                         *)
(* The collector and its services belong to the process group of the        *)
(* release baseline.  A port is served by at most one process: a service    *)
(* that finds its port taken exits, and wait_tcp_port is content with       *)
(* whoever answers.  Three of the six services stand for all: the two the   *)
(* comparisons restart, and the gateway.                                    *)
(***************************************************************************)
EXTENDS CancellableProcess, Sequences

CONSTANT MaxTrouble   \* faults: signals, expired waits, steps that raise, lost collectors

ASSUME PerfAssumption == MaxTrouble \in Nat

VARIABLES base,      \* control state of the release baseline
          perf,      \* control state of the collector
          port,      \* per service: the process that holds its port, or None
          perfFile,  \* runtime/perf/fixed-runner-<preset>/summary.json
          baseFile,  \* runtime/validation/<preset>-baseline-summary.json
          trouble    \* faults so far

perfVars == <<base, perf, port, perfFile, baseFile, trouble>>

Service == {"battle", "board", "gateway"}
Topology == <<"battle", "board", "gateway">>
Preset == {"capacity", "business"}

BaseIdle == [pc |-> "off", step |-> None, id |-> 0, rev |-> None, run |-> 0]
PerfIdle == [pc |-> "off", step |-> None, id |-> 0, rev |-> None, i |-> 1, managed |-> {},
             ok |-> TRUE, met |-> {}, off |-> {}, on |-> {}, otel |-> FALSE, redis |-> FALSE,
             run |-> 0, after |-> "bench"]

Troubled == trouble < MaxTrouble /\ trouble' = trouble + 1
Measuring == perf.pc # "off"

(* The process that serves a port: the collection that started it, its      *)
(* commit and mode, and (for the properties) whether it was signalled and   *)
(* whether its collector has lost sight of it.                              *)
Holder(id, rev, mode) == [id |-> id, rev |-> rev, mode |-> mode, told |-> FALSE, lost |-> FALSE]
Mine(s) == port[s] # None /\ port[s].id = perf.id

(* collect_release_baseline.main: the build is skipped, the R4 contract     *)
(* too; the collector is its one step, run by a plain subprocess.run.       *)
BaseStarts ==
  /\ Up("base") /\ base.pc = "boot"
  /\ base' = [base EXCEPT !.pc = "wait"]
  /\ perf' = [PerfIdle EXCEPT !.pc = "layout", !.step = base.step, !.rev = base.rev, !.run = base.run, !.id = base.id]
  /\ UNCHANGED <<processVars, port, perfFile, baseFile, trouble>>

(* prepare_perf_constraints may refuse the machine before prepare_perf_     *)
(* layout has removed the summary of the last collection.                   *)
PerfRefuses ==
  /\ perf.pc = "layout" /\ Troubled
  /\ perf' = [perf EXCEPT !.pc = "off", !.ok = FALSE, !.after = "raised"]
  /\ UNCHANGED <<processVars, base, port, perfFile, baseFile>>

PerfLayout ==
  /\ perf.pc = "layout"
  /\ perfFile' = [perfFile EXCEPT ![perf.step] = None]
  /\ perf' = [perf EXCEPT !.pc = "start", !.i = 1, !.after = "bench"]
  /\ UNCHANGED <<processVars, base, port, baseFile, trouble>>

(* ManagedProcess: Popen, then the affinity of the new process is verified; *)
(* an exception there leaves a process that is in no list.                  *)
Starting(s, mode, lost) ==
  LET new == [Holder(perf.id, perf.rev, mode) EXCEPT !.lost = lost]
  IN  port' = [port EXCEPT ![s] = IF @ = None THEN new ELSE @]

ManagedStart(s, mode, next) ==
  /\ Starting(s, mode, FALSE)
  /\ perf' = [next EXCEPT !.managed = @ \union {s}]
  /\ UNCHANGED <<processVars, base, perfFile, baseFile, trouble>>

UnverifiedStart(s, mode) ==
  /\ Troubled
  /\ Starting(s, mode, TRUE)
  /\ perf' = [perf EXCEPT !.pc = "stop", !.after = "raised"]
  /\ UNCHANGED <<processVars, base, perfFile, baseFile>>

(* start_perf_topology                                                      *)
StartTopology ==
  /\ perf.pc = "start"
  /\ LET s == Topology[perf.i] IN
       \/ ManagedStart(s, "", [perf EXCEPT !.i = @ + 1, !.pc = IF perf.i = Len(Topology) THEN "bench" ELSE "start"])
       \/ UnverifiedStart(s, "")

(* What answers on the ports is what a benchmark measures: per service, the *)
(* commit it was started from.                                              *)
Served == {[svc |-> s, rev |-> port[s].rev] : s \in {x \in Service : port[x] # None}}
AllServed == \A s \in Service : port[s] # None

(* A wait for a port or for a line in a service's log, a benchmark or a     *)
(* diagnostics call raises, by a fault or because nobody answers any more:  *)
(* finally stops what is in the list.                                       *)
PerfRaises ==
  /\ perf.pc \in {"start", "bench", "otelgate", "otelrun", "biz", "boardgate", "boardrun",
                  "stable", "flow", "judge"}
  /\ IF \A s \in perf.managed : port[s] # None THEN Troubled ELSE UNCHANGED trouble
  /\ perf' = [perf EXCEPT !.pc = "stop", !.after = "raised"]
  /\ UNCHANGED <<processVars, base, port, perfFile, baseFile>>

(* A gate over what was measured: good, if the numbers are within the       *)
(* thresholds and every service answered.                                   *)
EvaluateReleaseGates(good) == good /\ AllServed
OperationsPass(good) == good /\ AllServed

(* The benchmark cases, their aggregates and their gates.                   *)
BenchCases ==
  /\ perf.pc = "bench"
  /\ \E good \in BOOLEAN :
       perf' = [perf EXCEPT !.ok = @ /\ EvaluateReleaseGates(good), !.met = @ \union Served,
                            !.pc = IF perf.step = "business" THEN "otelstop" ELSE "judge"]
  /\ UNCHANGED <<processVars, base, port, perfFile, baseFile, trouble>>

(* ManagedProcess.stop on a process in the list, and its removal from it.   *)
(* It ends the process this collector started; another holder stays.        *)
Freed(ss) == [s \in Service |-> IF s \in ss \intersect perf.managed /\ Mine(s) THEN None ELSE port[s]]

StopFor(ss, next) ==
  /\ port' = Freed(ss)
  /\ perf' = [next EXCEPT !.managed = @ \ ss]
  /\ UNCHANGED <<processVars, base, perfFile, baseFile, trouble>>

(* The OTel comparison: per mode a fresh battle backend and gateway.        *)
OtelStopsGateway ==
  /\ perf.pc = "otelstop"
  /\ StopFor({"gateway"}, [perf EXCEPT !.pc = "otelfresh", !.off = {}, !.on = {}])

OtelStopsBattle ==
  /\ perf.pc = "otelfresh"
  /\ StopFor({"battle"}, [perf EXCEPT !.pc = "otelbattle"])

OtelBattle ==
  /\ perf.pc = "otelbattle"
  /\ \/ ManagedStart("battle", "", [perf EXCEPT !.pc = "otelgate"])
     \/ UnverifiedStart("battle", "")

OtelMode == IF perf.off = {} THEN "" ELSE "export"

OtelGateway ==
  /\ perf.pc = "otelgate"
  /\ \/ ManagedStart("gateway", OtelMode, [perf EXCEPT !.pc = "otelrun"])
     \/ UnverifiedStart("gateway", OtelMode)

OtelRun ==
  /\ perf.pc = "otelrun" /\ AllServed
  /\ LET seen == {port["gateway"]} IN
       StopFor({"gateway"},
               IF perf.off = {}
               THEN [perf EXCEPT !.off = seen, !.met = @ \union Served, !.pc = "otelfresh"]
               ELSE [perf EXCEPT !.on = seen, !.met = @ \union Served, !.pc = "otelverdict"])

(* build_otel_comparison: the counters of the exporter, the gateway and the *)
(* loopback collector agree with the mode, and the pids of the processes    *)
(* the collector started differ, which they always do.                      *)
Exports(seen) == \E h \in seen : h.mode = "export"

BuildOtelComparison(off, on) == ~Exports(off) /\ Exports(on)

OtelVerdict ==
  /\ perf.pc = "otelverdict"
  /\ \E good \in BOOLEAN :
       LET verified == good /\ BuildOtelComparison(perf.off, perf.on) IN
         perf' = [perf EXCEPT !.otel = verified, !.ok = @ /\ verified, !.pc = "regate"]
  /\ UNCHANGED <<processVars, base, port, perfFile, baseFile, trouble>>

PostOtelGateway ==
  /\ perf.pc = "regate"
  /\ \/ ManagedStart("gateway", "", [perf EXCEPT !.pc = "biz"])
     \/ UnverifiedStart("gateway", "")

(* run_business_operation_perf in memory, then the restart of leaderboard   *)
(* and gateway against Redis, under a key removed just before.              *)
BusinessOperations ==
  /\ perf.pc = "biz"
  /\ \E good \in BOOLEAN :
       StopFor({"gateway", "board"},
               [perf EXCEPT !.ok = @ /\ OperationsPass(good), !.met = @ \union Served, !.pc = "board"])

RedisBoard ==
  /\ perf.pc = "board"
  /\ \/ ManagedStart("board", "redis", [perf EXCEPT !.pc = "boardgate"])
     \/ UnverifiedStart("board", "redis")

RedisGateway ==
  /\ perf.pc = "boardgate"
  /\ \/ ManagedStart("gateway", "", [perf EXCEPT !.pc = "boardrun"])
     \/ UnverifiedStart("gateway", "")

(* Mutant: the key has one name for all collections, which any leaderboard  *)
(* on Redis fills.                                                          *)
BuildLeaderboardComparisonFixedKey(good, board) == good /\ board.mode = "redis"

(* build_leaderboard_persistence_comparison: ZCARD of a key that is named   *)
(* for this collection and was removed before it.                           *)
BuildLeaderboardComparison(good, board) == good /\ board.mode = "redis" /\ board.id = perf.id

RedisRun ==
  /\ perf.pc = "boardrun"
  /\ \E good \in BOOLEAN :
       LET verified == AllServed /\ BuildLeaderboardComparison(good, port["board"]) IN
         perf' = [perf EXCEPT !.redis = verified, !.ok = @ /\ verified,
                              !.met = @ \union Served, !.pc = "stable"]
  /\ UNCHANGED <<processVars, base, port, perfFile, baseFile, trouble>>

(* The accelerated resource-stability gate: more operations, sampled.       *)
ResourceGate ==
  /\ perf.pc = "stable"
  /\ \E good \in BOOLEAN :
       perf' = [perf EXCEPT !.ok = @ /\ OperationsPass(good), !.met = @ \union Served, !.pc = "flow"]
  /\ UNCHANGED <<processVars, base, port, perfFile, baseFile, trouble>>

(* The SDK full flow through the gateway.                                   *)
BusinessFlow ==
  /\ perf.pc = "flow"
  /\ \E good \in BOOLEAN :
       perf' = [perf EXCEPT !.ok = @ /\ good /\ port["gateway"] # None, !.met = @ \union Served, !.pc = "judge"]
  /\ UNCHANGED <<processVars, base, port, perfFile, baseFile, trouble>>

(* The isolation check, then summary.json, written only here.               *)
PerfReport == [ok |-> perf.ok, run |-> perf.run, rev |-> perf.rev, met |-> perf.met, id |-> perf.id,
               otel |-> perf.otel, redis |-> perf.redis]

PerfWrites ==
  /\ perf.pc = "judge"
  /\ \E good \in BOOLEAN :
       LET p == [perf EXCEPT !.ok = @ /\ good, !.met = @ \union Served, !.pc = "stop",
                             !.after = IF perf.ok /\ good THEN "passed" ELSE "failed"] IN
         /\ perf' = p
         /\ perfFile' = [perfFile EXCEPT ![p.step] = [PerfReport EXCEPT !.ok = p.ok, !.met = p.met]]
  /\ UNCHANGED <<processVars, base, port, baseFile, trouble>>

(* finally: everything in the list is stopped, in reverse.                  *)
PerfStops ==
  /\ perf.pc = "stop"
  /\ StopFor(perf.managed, [perf EXCEPT !.pc = "off"])

(* subprocess.run in the release baseline: the collector ended, or the time *)
(* is up and SIGKILL reaches the collector alone.                           *)
BaseReport(ok) == [ok |-> ok, intr |-> FALSE, end |-> TRUE, run |-> base.run, rev |-> base.rev]

BaseEnds(ok) ==
  /\ baseFile' = [baseFile EXCEPT ![base.step] = BaseReport(ok)]
  /\ proc' = [proc EXCEPT !["base"] = Dead(IF ok THEN "zero" ELSE "other")]
  /\ base' = [base EXCEPT !.pc = "off"]
  /\ UNCHANGED <<sup, stuck, perfFile>>

BaseConcludes ==
  /\ Up("base") /\ base.pc = "wait" /\ ~Measuring
  /\ BaseEnds(perf.after = "passed")
  /\ UNCHANGED <<perf, port, trouble>>

BaseTimesOut ==
  /\ Up("base") /\ base.pc = "wait" /\ Measuring /\ Troubled
  /\ perf' = [perf EXCEPT !.pc = "off", !.after = "killed"]
  /\ port' = [s \in Service |-> IF Mine(s) THEN [port[s] EXCEPT !.lost = TRUE] ELSE port[s]]
  /\ BaseEnds(FALSE)

(* SIGTERM or SIGKILL to the group of the release baseline ends it and the  *)
(* collector; a service ends when it gets to it.                            *)
GroupEnds ==
  /\ base' = [base EXCEPT !.pc = "off"]
  /\ perf' = IF Measuring THEN [perf EXCEPT !.pc = "off", !.after = "killed"] ELSE perf
  /\ port' = [s \in Service |-> IF port[s] # None /\ port[s].id = base.id THEN [port[s] EXCEPT !.told = TRUE] ELSE port[s]]

ServiceEnds(s) ==
  /\ port[s] # None /\ port[s].told
  /\ port' = [port EXCEPT ![s] = None]
  /\ UNCHANGED <<processVars, base, perf, perfFile, baseFile, trouble>>

PerfNext ==
  \/ BaseStarts \/ PerfRefuses \/ PerfLayout \/ StartTopology \/ PerfRaises \/ BenchCases
  \/ OtelStopsGateway \/ OtelStopsBattle \/ OtelBattle \/ OtelGateway \/ OtelRun \/ OtelVerdict
  \/ PostOtelGateway \/ BusinessOperations \/ RedisBoard \/ RedisGateway \/ RedisRun \/ ResourceGate \/ BusinessFlow
  \/ PerfWrites \/ PerfStops \/ BaseConcludes \/ BaseTimesOut
  \/ \E s \in Service : ServiceEnds(s)
=============================================================================

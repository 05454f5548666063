---------------------------- MODULE StabilitySoak ----------------------------
(***************************************************************************)
(* scripts/gates/release/verify_stability_soak.py, the passes of            *)
(* scripts/producers/collect_v2_arch_baseline.py it repeats, and the         *)
(* failure accounting of scripts/lib/long_soak_contract.py.                  *)
(*                                                                         *)
(* The soak repeats the architecture baseline until its minimum duration    *)
(* has passed.  A pass that fails a check is followed by Confirmations      *)
(* more; the episode is recorded per check, and the verdict weighs how      *)
(* often and how far a check failed.  One check is followed, since each is  *)
(* accounted for on its own; its deviation is a small integer (0: within    *)
(* its threshold).  Another check may fail in its place and open or lengthen*)
(* an episode in which the followed one is within its threshold.            *)
(***************************************************************************)
EXTENDS CancellableProcess, Sequences, SequencesExt

CONSTANTS TestSteps,       \* gtest steps before the sustained baseline
          MinPasses,       \* passes that fill the minimum duration
          Confirmations,   \* SUSTAINED_GATE_CONFIRMATION_RUNS
          Deviations,      \* how far a failing check may miss its threshold
          StandardRate,    \* SUSTAINED_GATE_MAX_FAILURE_RATE, in percent
          StandardDev,     \* SUSTAINED_GATE_MAX_DEVIATION_RATIO
          RareRate,        \* SUSTAINED_GATE_RARE_MAX_FAILURE_RATE, in percent
          RareDev          \* SUSTAINED_GATE_RARE_MAX_DEVIATION_RATIO

ASSUME SoakAssumption ==
  /\ MinPasses \in Nat \ {0} /\ Confirmations \in Nat \ {0} /\ TestSteps \in Nat \ {0}
  /\ Deviations \subseteq Nat \ {0}
  /\ StandardRate \in 1..100 /\ RareRate \in 1..StandardRate
  /\ StandardDev \in Nat /\ RareDev \in Nat /\ RareDev > StandardDev

VARIABLES soak,      \* the control state and accounting of the soak
          arch,      \* how far the running baseline pass has got
          archFile,  \* runtime/perf/v2-stability-soak/summary.json
          stab,      \* the soak's own summary file
          history    \* what each pass of the running soak really measured (for the properties)

soakVars == <<soak, arch, archFile, stab, history>>

NoFailures == [failed |-> 0, confirmed |-> 0, worst |-> 0, worstConfirmed |-> 0]
SoakIdle == [pc |-> "off", left |-> 0, runs |-> 0, episode |-> <<>>, failures |-> NoFailures,
             bad |-> FALSE, error |-> FALSE, cut |-> FALSE, run |-> 0]

(* A summary: the placeholder written first, or the final one.              *)
Report(ok, intr, end, run) == [ok |-> ok, intr |-> intr, end |-> end, run |-> run, rev |-> None]

(* main, up to its handlers: a failing summary replaces the last one, and a *)
(* SIGTERM before the handlers are in place ends the process there.         *)
SoakOpens ==
  /\ Computing("soak") /\ soak.pc = "boot"
  /\ stab' = Report(FALSE, FALSE, FALSE, soak.run)
  /\ soak' = [soak EXCEPT !.pc = "arm"]
  /\ UNCHANGED <<processVars, arch, archFile, history>>

SoakArms ==
  /\ Computing("soak") /\ soak.pc = "arm"
  /\ proc' = [proc EXCEPT !["soak"].hand = TRUE]
  /\ \/ soak' = [soak EXCEPT !.pc = "tests", !.left = TestSteps]
     \/ soak' = [soak EXCEPT !.pc = "final", !.error = TRUE]     \* an executable is missing
  /\ UNCHANGED <<sup, stuck, arch, archFile, stab, history>>

(* A step of main or a pass starts its process, or returns "cancelled".     *)
StartArch(kind, next) ==
  /\ Popen("soak", "arch") /\ arch' = kind
  /\ soak' = next
  /\ UNCHANGED <<stuck, archFile, stab, history>>

SoakTests ==
  /\ Computing("soak") /\ soak.pc = "tests"
  /\ IF Cancelled("soak")
     THEN soak' = [soak EXCEPT !.pc = "final"] /\ UNCHANGED <<processVars, arch, archFile, stab, history>>
     ELSE IF soak.left = 0
     THEN soak' = [soak EXCEPT !.pc = "loop"] /\ UNCHANGED <<processVars, arch, archFile, stab, history>>
     ELSE StartArch("test", [soak EXCEPT !.pc = "testing", !.left = @ - 1])

(* A failed test step does not stop the ones after it.                      *)
SoakTested ==
  /\ soak.pc = "testing" /\ Returned("soak")
  /\ soak' = [soak EXCEPT !.pc = "tests", !.bad = @ \/ Outcome("soak") # "passed",
                          !.cut = @ \/ Outcome("soak") = "cancelled"]
  /\ Resume("soak") /\ arch' = "none"
  /\ UNCHANGED <<proc, stuck, archFile, stab, history>>

(* run_sustained_arch_baseline: the head of the loop and of a confirmation. *)
DurationReached == soak.runs >= MinPasses

SoakPass ==
  /\ Computing("soak") /\ soak.pc = "loop" /\ ~(soak.runs > 0 /\ DurationReached)
  /\ IF Cancelled("soak")
     THEN /\ soak' = [soak EXCEPT !.pc = "final", !.bad = TRUE, !.cut = TRUE]
          /\ UNCHANGED <<processVars, arch, archFile, stab, history>>
     ELSE StartArch("fresh", [soak EXCEPT !.pc = "passing", !.runs = @ + 1, !.episode = <<>>])

SoakConfirm ==
  /\ Computing("soak") /\ soak.pc = "confirm"
  /\ IF Cancelled("soak")
     THEN /\ soak' = [soak EXCEPT !.pc = "final", !.bad = TRUE, !.cut = TRUE]
          /\ UNCHANGED <<processVars, arch, archFile, stab, history>>
     ELSE StartArch("fresh", [soak EXCEPT !.pc = "passing", !.runs = @ + 1])

(* collect_v2_arch_baseline.py.  A bad profile or a missing executable ends *)
(* it before it has removed what the last pass left; after that it ends     *)
(* without a summary (a benchmark or the merge failed), or with one.        *)
ArchRefuses ==
  /\ Up("arch") /\ arch = "fresh"
  /\ proc' = [proc EXCEPT !["arch"] = Dead("other")]
  /\ stuck' = stuck \ {"arch"}
  /\ UNCHANGED <<sup, soakVars>>

ArchCleans ==
  /\ Up("arch") /\ ~proc["arch"].told /\ arch = "fresh"
  /\ arch' = "clean" /\ archFile' = None
  /\ UNCHANGED <<processVars, soak, stab, history>>

ArchEnds(code, file) ==
  /\ Up("arch") /\ ~proc["arch"].told /\ arch = "clean"
  /\ archFile' = file
  /\ history' = IF file = None THEN history
                ELSE Append(history, [pass |-> soak.runs, bad |-> file.bad, dev |-> file.dev])
  /\ proc' = [proc EXCEPT !["arch"] = Dead(code)]
  /\ UNCHANGED <<sup, stuck, soak, arch, stab>>

BenchmarkFails == ArchEnds("other", None)
MergeFails == ArchEnds("two", None)
GatesEvaluated ==
  \/ ArchEnds("zero", [bad |-> FALSE, dev |-> 0])
  \/ \E dev \in Deviations \union {0} : ArchEnds("two", [bad |-> TRUE, dev |-> dev])

ArchStops ==
  /\ Up("arch") /\ (arch = "test" \/ proc["arch"].told)
  /\ LeafExits("arch")
  /\ UNCHANGED soakVars

(* failed_arch_checks: whatever the summary file says now.                  *)
FailedArchChecks == archFile # None /\ archFile.bad

(* record_failure_episode: a check that failed in two passes of an episode  *)
(* is confirmed, and all its failures in the episode with it.               *)
Worst(a, devs) == FoldLeft(LAMBDA x, y : IF y > x THEN y ELSE x, a, devs)
Missed(devs) == SelectSeq(devs, LAMBDA d : d > 0)

(* Mutant: only a check that failed in every pass is confirmed.             *)
RecordUnanimous(f, devs) ==
  LET bad == Missed(devs)
      confirmed == Len(bad) > Confirmations
  IN  [failed |-> f.failed + Len(bad),
       confirmed |-> f.confirmed + IF confirmed THEN Len(bad) ELSE 0,
       worst |-> Worst(f.worst, bad),
       worstConfirmed |-> IF confirmed THEN Worst(f.worstConfirmed, bad) ELSE f.worstConfirmed]

RecordFailureEpisode(f, devs) ==
  LET bad == Missed(devs)
      confirmed == Len(bad) >= 2
  IN  [failed |-> f.failed + Len(bad),
       confirmed |-> f.confirmed + IF confirmed THEN Len(bad) ELSE 0,
       worst |-> Worst(f.worst, bad),
       worstConfirmed |-> IF confirmed THEN Worst(f.worstConfirmed, bad) ELSE f.worstConfirmed]

(* evaluate_sustained_failure_violations                                    *)
Accepted(f, runs) ==
  LET rate == IF f.confirmed > 0 THEN f.confirmed ELSE f.failed
      deviation == IF f.confirmed > 0 THEN f.worstConfirmed ELSE f.worst
  IN  \/ f.failed = 0
      \/ f.confirmed = 0 /\ f.failed * 100 <= RareRate * runs
      \/ rate * 100 <= StandardRate * runs /\ deviation <= StandardDev
      \/ rate * 100 <= RareRate * runs /\ deviation <= RareDev

(* After a pass: cancelled, passed, a gate failure to confirm, or a failure *)
(* that ends the soak with the status of the pass.                          *)
SoakJudges ==
  /\ soak.pc = "passing" /\ Returned("soak")
  /\ LET status == Outcome("soak")
         first == soak.episode = <<>>
         rc == ExitCode("soak")
         failing == rc = "two" /\ FailedArchChecks
         devs == Append(soak.episode, IF failing THEN archFile.dev ELSE 0)
     IN  soak' =
           CASE status = "cancelled" \/ Cancelled("soak") ->
                  [soak EXCEPT !.pc = "final", !.bad = TRUE, !.cut = TRUE]
             [] status # "passed" /\ ~failing -> [soak EXCEPT !.pc = "final", !.bad = TRUE]
             [] first /\ status = "passed" -> [soak EXCEPT !.pc = "loop"]
             [] Len(devs) <= Confirmations -> [soak EXCEPT !.pc = "confirm", !.episode = devs]
             [] OTHER -> [soak EXCEPT !.pc = "loop", !.episode = <<>>,
                            !.failures = RecordFailureEpisode(@, devs)]
  /\ Resume("soak") /\ arch' = "none"
  /\ UNCHANGED <<proc, stuck, archFile, stab, history>>

(* The end of the loop, and finish(): the samples of the host's resources   *)
(* must cover the duration too, and the checks that are not followed are    *)
(* judged likewise.                                                         *)
Finish(good, covered) == [soak EXCEPT !.pc = "final", !.bad = @ \/ ~good \/ ~covered]

SoakConcludes ==
  /\ Computing("soak") /\ soak.pc = "loop" /\ soak.runs > 0 /\ DurationReached
  /\ \E covered \in BOOLEAN :
       soak' = Finish(Accepted(soak.failures, soak.runs), covered)
  /\ UNCHANGED <<processVars, arch, archFile, stab, history>>

(* finalize_summary, and the second look at the flag as the handlers go.    *)
SoakFinalizes ==
  /\ Computing("soak") /\ soak.pc = "final"
  /\ LET intr == Cancelled("soak") \/ soak.cut IN
       stab' = Report(~intr /\ ~soak.error /\ ~soak.bad, intr, TRUE, soak.run)
  /\ soak' = [soak EXCEPT !.pc = "again"]
  /\ UNCHANGED <<processVars, arch, archFile, history>>

SoakLooksAgain ==
  /\ Computing("soak") /\ soak.pc = "again"
  /\ proc' = [proc EXCEPT !["soak"].hand = FALSE]
  /\ stab' = IF Cancelled("soak") /\ ~stab.intr THEN Report(FALSE, TRUE, TRUE, soak.run) ELSE stab
  /\ soak' = [soak EXCEPT !.pc = "leave"]
  /\ UNCHANGED <<sup, stuck, arch, archFile, history>>

SoakLeaves ==
  /\ Computing("soak") /\ soak.pc = "leave"
  /\ Exit("soak", IF stab.ok THEN "zero" ELSE "other")
  /\ soak' = SoakIdle /\ history' = <<>>
  /\ UNCHANGED <<stuck, arch, archFile, stab>>

SoakNext ==
  \/ SoakOpens \/ SoakArms \/ SoakTests \/ SoakTested \/ SoakPass \/ SoakConfirm
  \/ SoakJudges \/ SoakConcludes \/ SoakFinalizes \/ SoakLooksAgain \/ SoakLeaves
  \/ ArchRefuses \/ ArchCleans \/ BenchmarkFails \/ MergeFails \/ GatesEvaluated
  \/ ArchStops
=============================================================================

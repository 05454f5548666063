-------------------------- MODULE ReleaseLifecycle --------------------------
(* The release deployment manager (scripts/lib/release_deployment_*.py): one  *)
(* command at a time under the lifecycle lock, as a list of steps each of     *)
(* which is one durable write or one external call.  A call may fail, the     *)
(* manager may be killed between any two steps and the host may restart; the  *)
(* next command first reconciles the transaction that was left open.          *)
EXTENDS RedisPersistence, Sequences, FiniteSets

CONSTANTS
    LegacyRelease,  \* the deployment the unmanaged "current" pointer names
    Manifest,       \* deployments whose release manifest validates
    Attestation,    \* deployments whose release and image summaries bind to it
    Contract,       \* [Deployment -> failures of the strict Compose contract]
    UnitOf,         \* [Deployment -> unit]: the systemd unit each release ships
    MaxTx,          \* bound on transactions
    MaxFaults,      \* bound on external calls that fail
    MaxStops,       \* bound on kills of the manager and restarts of the host
    MaxInstalls     \* bound on install commands

Status ==
    {"pending", "candidate_activated", "candidate_verified", "activation_failed",
     "rollback_failed", "recovery_failed", "passed", "passed_reconciled",
     "failed", "rolled_back", "rolled_forward", "failed_closed",
     "legacy_preserved", "interrupted_verification_failed",
     "interrupted_legacy_preserved", "interrupted_rolled_back",
     "interrupted_failed_closed", "recovery_reconciled"}

INCOMPLETE_TRANSACTION_STATES ==
    {"pending", "candidate_activated", "candidate_verified",
     "activation_failed", "rollback_failed"}

BLOCKING_TRANSACTION_STATES == {"recovery_failed"}

PASSING_TRANSACTION_STATES == {"passed", "passed_reconciled"}

VARIABLES
    record,         \* [Deployment -> status of its release and deployment record]
    current,        \* the current link: None, "legacy" or a deployment
    previous,       \* the previous link
    env,            \* the active image environment: "absent", "file" or "link"
    enabled,        \* the systemd unit is enabled
    txs,            \* transaction records, oldest first
    job,            \* the command that holds the lifecycle lock
    manual,         \* what an operator left as evidence of a manual recovery
    faults, stops, installs

fileVars == <<record, current, previous, env, enabled>>
bounds == <<faults, stops, installs>>
vars == <<redisVars, fileVars, txs, job, manual, bounds>>

Idle ==
    [cmd |-> "none", cand |-> None, old |-> None, legacy |-> FALSE, t |-> 0,
     phase |-> "idle", todo |-> <<>>, bridge |-> "none"]

Steps ==
    {"precheck", "transition", "freeze", "checkpoint", "directory", "seed",
     "summary", "activate", "verify", "record", "commit", "current", "envlink",
     "previous", "deactivate", "clear_current", "clear_env", "uncommit",
     "runtime", "verify_read_only", "reconcile_summary", "release", "deployment"}

Phases ==
    {"idle", "scan", "plan", "install", "forward", "restore", "finish", "unwind",
     "resume", "verify", "reconcile"}

TypeOK ==
    /\ RedisTypeOK
    /\ record \in [Deployment -> {"absent", "release", "installed", "verified"}]
    /\ current \in Deployment \cup {None, "legacy"}
    /\ previous \in Deployment \cup {None}
    /\ env \in {"absent", "file", "link"}
    /\ enabled \in BOOLEAN
    /\ \A i \in DOMAIN txs :
         /\ txs[i].op \in {"deploy", "upgrade", "rollback", "verify"}
         /\ txs[i].cand \in Deployment
         /\ txs[i].from \in Deployment \cup {None}
         /\ txs[i].legacy \in BOOLEAN
         /\ txs[i].status \in Status
         /\ {txs[i].candSum, txs[i].recSum} \subseteq {"none", "pass", "fail"}
         /\ txs[i].final \in BOOLEAN
    /\ Len(txs) <= MaxTx
    /\ job.phase \in Phases
    /\ \A i \in DOMAIN job.todo : job.todo[i] \in Steps \cup Status
    /\ manual \in [tx : 0 .. MaxTx, equal : BOOLEAN, merge : BOOLEAN,
                   backups : BOOLEAN]

----------------------------------------------------------------------------
(* Predicates on what the manager reads.                                      *)

\* _record: the deployment is installed and its record is intact.
Installed(d) == record[d] \in {"installed", "verified"}

\* _legacy_current_matches: the unmanaged pointer names the release of d and the
\* image environment is still the regular file of that release.
LegacyCurrentMatches(d) ==
    current = "legacy" /\ env = "file" /\ d = LegacyRelease

\* _resolve_link raises for a current that leads outside the deployments root.
Resolvable == current # "legacy"

\* _validate_unit_compatibility.
UnitCompatible(c, o) == UnitOf[c] = UnitOf[o]

\* validate_compose_document: the static contract of the Compose file of d.
ComposeContractOk(d) == Contract[d] = {}

\* validate_legacy_production_network_bridge, by parts: the one failure is that
\* of the one immutable deployment, which is current,
NetworkIdentityOk(d) == Contract[d] = {"network"} /\ current = d

\* its containers run, all of them and no other,
NetworkContainersOk(d) == run = d /\ writers /\ redis.up

NetworkBridgeOk(d) == NetworkIdentityOk(d) /\ NetworkContainersOk(d)

\* validate_legacy_redis_hardening_bridge: exactly the old Redis contract.
RedisBridgeOk(d) == Contract[d] = {"redis"} /\ Mode[d] = "rdb"

\* verify: every check of the deployment verification.  A bridge that is asked
\* for must be needed.
Verified(d, bridge) ==
    /\ CASE bridge = "network" -> NetworkBridgeOk(d)
         [] bridge = "redis" -> RedisBridgeOk(d)
         [] OTHER -> ComposeContractOk(d)
    /\ ServiceStateOk(d)
    /\ ContainerImagesOk(d)
    /\ RedisAofRuntimeOk(d)

\* runtime_status: the unit is enabled and the containers have d's images.
RuntimeStatusOk(d) == enabled /\ run = d /\ writers

Open(i) == txs[i].status \in INCOMPLETE_TRANSACTION_STATES
Blocks(i) == txs[i].status \in BLOCKING_TRANSACTION_STATES

\* Mutant: the scan passes over a failed recovery.
ScanPassesBlocking == {i \in DOMAIN txs : Open(i)}

\* The record that the newest-first scan of _reconcile_pending stops at.
ScanStops == {i \in DOMAIN txs : Open(i) \/ Blocks(i)}
Newest(S) == CHOOSE i \in S : \A j \in S : j <= i

----------------------------------------------------------------------------
(* The step lists.                                                            *)

\* _activate_files: a regular environment file is replaced after the pointer,
\* a symbolic link (which names the pointer) before it.
ActivateFiles ==
    IF env = "file" THEN <<"current", "envlink">> ELSE <<"envlink", "current">>

\* The try block of _activate and of rollback.
ForwardSteps(op, old) ==
    <<"precheck", "transition", "activate", "candidate_activated", "verify">>
      \o (IF op = "rollback" THEN <<>> ELSE <<"record">>)
      \o <<"candidate_verified", "commit">>
      \o ActivateFiles
      \o (IF old = None THEN <<>> ELSE <<"previous">>)
      \o <<"passed">>

\* Mutant: the containers return, the pointer does not.
RestoreKeepsFiles ==
    <<"transition", "precheck", "activate", "verify", "commit">>

\* _restore to a deployment.
RestoreSteps ==
    <<"transition", "precheck", "activate", "verify", "commit">> \o ActivateFiles

\* _restore to no deployment: only what current names is stopped.
CloseSteps ==
    (IF current \in Deployment THEN <<"deactivate">> ELSE <<>>)
      \o <<"clear_current", "clear_env", "uncommit">>

\* The topology recovery of a failed legacy adoption.
PreserveSteps == <<"precheck", "activate", "verify">>

\* The except block of _activate and of rollback.
FailureSteps(tx) ==
    IF tx.legacy
    THEN <<"activation_failed">> \o PreserveSteps \o <<"legacy_preserved">>
    ELSE IF tx.op = "rollback"
    THEN <<"rollback_failed">> \o RestoreSteps \o <<"rolled_forward">>
    ELSE IF tx.from = None
    THEN <<"activation_failed">> \o CloseSteps \o <<"failed_closed">>
    ELSE <<"activation_failed">> \o RestoreSteps \o <<"rolled_back">>

\* The except block of the finishing branch of _reconcile_pending.
UnwindSteps(tx) ==
    (IF tx.from = None
     THEN <<"deactivate", "clear_current", "clear_env", "uncommit">>
     ELSE RestoreSteps)
      \o <<"interrupted_rolled_back">>

----------------------------------------------------------------------------
(* Running steps.                                                             *)

\* The deployment the steps of the current phase act on.
Subject ==
    CASE job.phase \in {"restore", "unwind"} /\ ~txs[job.t].legacy -> txs[job.t].from
      [] job.phase = "resume" /\ current \in Deployment -> current
      [] OTHER -> txs[job.t].cand

\* Source of a persistence transition: from the running deployment forward,
\* from the candidate back.
Source == IF job.phase = "forward" THEN job.old ELSE txs[job.t].cand

At(step) == job.todo # <<>> /\ Head(job.todo) = step

\* The step is done.
Advance == job' = [job EXCEPT !.todo = Tail(@)]

\* The step raises: into the except block that encloses it, or out of the
\* command, which leaves the transaction as it is.
Raise ==
    job' =
      LET tx == txs[job.t]
          back(phase, todo) == [job EXCEPT !.phase = phase, !.todo = todo]
      IN CASE job.phase = "forward" -> back("restore", FailureSteps(tx))
           [] job.phase = "finish" -> back("unwind", UnwindSteps(tx))
           [] job.phase \in {"restore", "unwind"} ->
                [job EXCEPT !.todo = <<"recovery_failed">>]
           [] job.phase = "verify" -> [job EXCEPT !.todo = <<"failed">>]
           [] OTHER -> Idle

\* An external call fails for a reason outside the host's recorded state.
Fault == faults < MaxFaults /\ faults' = faults + 1 /\ UNCHANGED <<stops, installs>>

NoFault == UNCHANGED bounds

\* executor.precheck: the static contract of the release's Compose file.
Precheck ==
    /\ At("precheck")
    /\ \/ ComposeContractOk(Subject) /\ Advance /\ NoFault
       \/ ~ComposeContractOk(Subject) /\ Raise /\ NoFault
       \/ Fault /\ Raise
    /\ UNCHANGED <<redisVars, fileVars, txs, manual>>

\* The create-only summary of a transition: one name forward, one name back.
Summary == IF job.phase = "forward" THEN txs[job.t].candSum ELSE txs[job.t].recSum

SetSummary(result) ==
    txs' = IF job.phase = "forward"
           THEN [txs EXCEPT ![job.t].candSum = result]
           ELSE [txs EXCEPT ![job.t].recSum = result]

\* main of the transition tool after execute raised: the failure is written
\* under the same create-only name, and the call fails.
ToolFails ==
    /\ SetSummary(IF Summary = "none" THEN "fail" ELSE Summary)
    /\ Raise

\* _prepare_transition and executor.prepare_transition: nothing to do without a
\* source or between equal modes, else the tool checks the runtime mode.
PrepareTransition ==
    /\ At("transition")
    /\ IF Source = None \/ Source = Subject \/ Mode[Source] = Mode[Subject]
       THEN Advance /\ UNCHANGED txs
       ELSE IF ModeAccepted(Mode[Source], Mode[Subject])
       THEN /\ job' = [job EXCEPT !.todo =
                        <<"freeze", "checkpoint", "directory", "seed", "summary">>
                          \o Tail(@)]
            /\ UNCHANGED txs
       ELSE ToolFails
    /\ UNCHANGED <<redisVars, fileVars, manual, bounds>>

ToolFreeze ==
    /\ At("freeze")
    /\ \/ FreezeWrites /\ Advance /\ NoFault /\ UNCHANGED txs
       \/ /\ Fault /\ ToolFails
          /\ FreezeWrites \/ UNCHANGED redisVars
    /\ UNCHANGED <<fileVars, manual>>

ToolCheckpoint ==
    /\ At("checkpoint")
    /\ \/ Checkpoint /\ Advance /\ NoFault /\ UNCHANGED txs
       \/ Fault /\ ToolFails /\ UNCHANGED redisVars
    /\ UNCHANGED <<fileVars, manual>>

ToolDirectory ==
    /\ At("directory")
    /\ IF DirectoryAccepted(Mode[Source], Mode[Subject])
       THEN Advance /\ UNCHANGED txs
       ELSE ToolFails
    /\ UNCHANGED <<redisVars, fileVars, manual, bounds>>

ToolSeed ==
    /\ At("seed")
    /\ \/ SeedAof(Mode[Source], Mode[Subject]) /\ Advance /\ NoFault /\ UNCHANGED txs
       \/ /\ Fault /\ ToolFails
          /\ UNCHANGED redisVars \/ SeedAof(Mode[Source], Mode[Subject])
    /\ UNCHANGED <<fileVars, manual>>

\* atomic_write_json of the tool: the summary is linked under a new name only.
ToolSummary ==
    /\ At("summary")
    /\ IF Summary = "none"
       THEN SetSummary("pass") /\ Advance
       ELSE UNCHANGED txs /\ Raise
    /\ UNCHANGED <<redisVars, fileVars, manual, bounds>>

\* executor.activate.
Activate ==
    /\ At("activate")
    /\ \/ ComposeUp(Subject) /\ Advance /\ NoFault
       \/ ComposeUpFails(Subject) /\ Raise /\ Fault
    /\ UNCHANGED <<fileVars, txs, manual>>

\* executor.verify: the verification of the subject passes or raises.  Only the
\* verify command itself may ask for the network bridge.
Verify ==
    /\ At("verify")
    /\ LET ok == Verified(Subject, IF job.phase = "verify" THEN job.bridge ELSE "none")
       IN \/ ok /\ Advance /\ NoFault
          \/ ~ok /\ Raise /\ NoFault
          \/ Fault /\ Raise
    /\ UNCHANGED <<redisVars, fileVars, txs, manual>>

\* _update_deployment(status = "verified").
UpdateDeployment ==
    /\ At("record") /\ Advance
    /\ record' = [record EXCEPT ![Subject] = "verified"]
    /\ UNCHANGED <<redisVars, current, previous, env, enabled, txs, manual, bounds>>

\* executor.commit: install the unit if there is none, enable it.
Commit ==
    /\ At("commit")
    /\ \/ enabled' = TRUE /\ Advance /\ NoFault
       \/ enabled' \in {enabled, TRUE} /\ Raise /\ Fault
    /\ UNCHANGED <<redisVars, record, current, previous, env, txs, manual>>

\* _atomic_link of the current pointer.
LinkCurrent ==
    /\ At("current") /\ Advance
    /\ current' = Subject
    /\ UNCHANGED <<redisVars, record, previous, env, enabled, txs, manual, bounds>>

\* _ensure_active_image_link.
EnsureActiveImageLink ==
    /\ At("envlink") /\ Advance
    /\ env' = "link"
    /\ UNCHANGED <<redisVars, record, current, previous, enabled, txs, manual, bounds>>

\* _atomic_link of the previous pointer.
LinkPrevious ==
    /\ At("previous") /\ Advance
    /\ previous' = txs[job.t].from
    /\ UNCHANGED <<redisVars, record, current, env, enabled, txs, manual, bounds>>

\* executor.deactivate: docker compose stop.
Deactivate ==
    /\ At("deactivate")
    /\ \/ ComposeStop /\ Advance /\ NoFault
       \/ (ComposeStop \/ UNCHANGED redisVars) /\ Raise /\ Fault
    /\ UNCHANGED <<fileVars, txs, manual>>

\* _clear_link of the current pointer.
ClearCurrent ==
    /\ At("clear_current") /\ Advance
    /\ current' = None
    /\ UNCHANGED <<redisVars, record, previous, env, enabled, txs, manual, bounds>>

\* _clear_active_image_link: only a symbolic link is removed.
ClearActiveImageLink ==
    /\ At("clear_env") /\ Advance
    /\ env' = IF env = "link" THEN "absent" ELSE env
    /\ UNCHANGED <<redisVars, record, current, previous, enabled, txs, manual, bounds>>

\* executor.uncommit: disable the unit.
Uncommit ==
    /\ At("uncommit")
    /\ \/ enabled' = FALSE /\ Advance /\ NoFault
       \/ UNCHANGED enabled /\ Raise /\ Fault
    /\ UNCHANGED <<redisVars, record, current, previous, env, txs, manual>>

\* _write_transaction_record: the record is replaced with its new status.  A
\* reconciliation that ends without raising goes on with the command itself.
WriteTransactionRecord ==
    /\ job.todo # <<>> /\ Head(job.todo) \in Status
    /\ LET status == Head(job.todo)
           resumes == /\ job.phase \in {"finish", "unwind", "resume"}
                      /\ status \notin {"recovery_failed",
                                        "interrupted_verification_failed"}
       IN /\ txs' = [txs EXCEPT ![job.t].status = status]
          /\ job' = IF Tail(job.todo) # <<>>
                    THEN [job EXCEPT !.todo = Tail(@)]
                    ELSE IF resumes THEN [job EXCEPT !.phase = "plan", !.todo = <<>>]
                    ELSE Idle
    /\ UNCHANGED <<redisVars, fileVars, manual, bounds>>

----------------------------------------------------------------------------
(* Commands.                                                                  *)

\* Mutant: status skips the reconciliation.
CommandStatusSkips(cmd, d, bridge) ==
    /\ job = Idle
    /\ cmd \in {"deploy", "upgrade", "rollback", "verify"} => Len(txs) < MaxTx
    /\ bridge # "none" => cmd = "verify"
    /\ d # None <=> cmd \in {"deploy", "upgrade"}
    /\ job' = [Idle EXCEPT !.cmd = cmd, !.cand = d, !.bridge = bridge,
                           !.phase = IF cmd = "status" THEN "plan" ELSE "scan"]
    /\ UNCHANGED <<redisVars, fileVars, txs, manual, bounds>>

\* A command takes the lifecycle lock.  Beyond MaxTx transactions only status,
\* which opens none, is issued.
Command(cmd, d, bridge) ==
    /\ job = Idle
    /\ cmd \in {"deploy", "upgrade", "rollback", "verify"} => Len(txs) < MaxTx
    /\ bridge # "none" => cmd = "verify"
    /\ d # None <=> cmd \in {"deploy", "upgrade"}
    /\ job' = [Idle EXCEPT !.cmd = cmd, !.cand = d, !.phase = "scan",
                           !.bridge = bridge]
    /\ UNCHANGED <<redisVars, fileVars, txs, manual, bounds>>

\* _reconcile_pending: the newest record that is blocking or incomplete decides.
ReconcilePending ==
    /\ job.phase = "scan"
    /\ job' =
         IF ScanStops = {} THEN [job EXCEPT !.phase = "plan"]
         ELSE LET i == Newest(ScanStops)
                  tx == txs[i]
                  to(phase, todo) ==
                      [job EXCEPT !.phase = phase, !.t = i, !.todo = todo]
              IN CASE Blocks(i) -> Idle
                   [] Open(i) /\ tx.op = "verify" ->
                        to("resume", <<"interrupted_verification_failed">>)
                   [] Open(i) /\ tx.op # "verify" /\ tx.legacy
                        /\ LegacyCurrentMatches(tx.cand) ->
                        to("resume", PreserveSteps \o <<"interrupted_legacy_preserved">>)
                   [] OTHER ->
                        IF ~Resolvable THEN Idle
                        ELSE IF current = tx.cand /\ record[tx.cand] = "verified"
                        THEN to("finish",
                                <<"commit">> \o ActivateFiles \o <<"verify">>
                                  \o (IF tx.from = None THEN <<>> ELSE <<"previous">>)
                                  \o <<"passed_reconciled">>)
                        ELSE IF current = None
                        THEN to("resume",
                                <<"deactivate", "clear_current", "clear_env",
                                  "uncommit", "interrupted_failed_closed">>)
                        ELSE IF record[current] # "verified" THEN Idle
                        ELSE to("resume",
                                RestoreSteps \o <<"interrupted_rolled_back">>)
    /\ UNCHANGED <<redisVars, fileVars, txs, manual, bounds>>

NewTransaction(op, cand, from, legacy) ==
    txs' = Append(txs, [op |-> op, cand |-> cand, from |-> from, legacy |-> legacy,
                        status |-> "pending", candSum |-> "none",
                        recSum |-> "none", final |-> FALSE])

\* A command that raises before it opens a transaction.
Refuse == job' = Idle /\ UNCHANGED txs

\* verify_current: a transaction of its own around one verification.
VerifyCurrent ==
    /\ NewTransaction("verify", current, None, FALSE)
    /\ job' = [job EXCEPT !.phase = "verify", !.t = Len(txs) + 1,
                          !.todo = <<"verify", "passed">>]

\* _activate up to its transaction: deploy and upgrade.
PlanActivate ==
    /\ job.phase = "plan" /\ job.cmd \in {"deploy", "upgrade"}
    /\ LET cand == job.cand
           adopts == job.cmd = "deploy" /\ LegacyCurrentMatches(cand)
           old == IF adopts THEN None ELSE current
       IN IF \/ ~Installed(cand)
             \/ ~adopts /\ ~Resolvable
             \/ job.cmd = "deploy" /\ old \notin {None, cand}
             \/ job.cmd = "upgrade" /\ old = None
          THEN Refuse
          ELSE IF old # None /\ (record[old] # "verified" \/ ~UnitCompatible(cand, old))
          THEN Refuse
          ELSE IF old = cand THEN VerifyCurrent
          ELSE /\ NewTransaction(job.cmd, cand, old, adopts)
               /\ job' = [job EXCEPT !.phase = "forward", !.t = Len(txs) + 1,
                                     !.old = old, !.legacy = adopts,
                                     !.todo = ForwardSteps(job.cmd, old)]
    /\ UNCHANGED <<redisVars, fileVars, manual, bounds>>

\* rollback up to its transaction.
PlanRollback ==
    /\ job.phase = "plan" /\ job.cmd = "rollback"
    /\ IF \/ ~Resolvable \/ current = None \/ previous \in {None, current}
       THEN Refuse
       ELSE IF record[previous] # "verified" \/ ~UnitCompatible(previous, current)
       THEN Refuse
       ELSE /\ NewTransaction("rollback", previous, current, FALSE)
            /\ job' = [job EXCEPT !.phase = "forward", !.t = Len(txs) + 1,
                                  !.old = current,
                                  !.todo = ForwardSteps("rollback", current)]
    /\ UNCHANGED <<redisVars, fileVars, manual, bounds>>

\* verify, and status, which only reads once it has reconciled.
PlanVerify ==
    /\ job.phase = "plan" /\ job.cmd = "verify"
    /\ IF Resolvable /\ current # None THEN VerifyCurrent ELSE Refuse
    /\ UNCHANGED <<redisVars, fileVars, manual, bounds>>

StatusReads ==
    /\ job.phase = "plan" /\ job.cmd = "status"
    /\ Refuse
    /\ UNCHANGED <<redisVars, fileVars, manual, bounds>>

----------------------------------------------------------------------------
(* install: takes the lock but reconciles nothing.                            *)

\* _release_manifest: platform, tag, commit and digests of the release tree.
ReleaseManifestOk(d) == d \in Manifest

\* validate_install_attestations: both summaries passed and bind to the release
\* and to the image environment.
InstallAttestationsOk(d) == d \in Attestation

\* accept_existing: an installed deployment is returned as it is; a release tree
\* without its deployment is completed.
Install(d) ==
    /\ job = Idle /\ installs < MaxInstalls
    /\ installs' = installs + 1
    /\ job' = IF ~ReleaseManifestOk(d) \/ ~InstallAttestationsOk(d) \/ Installed(d)
              THEN Idle
              ELSE [Idle EXCEPT !.cmd = "install", !.cand = d, !.phase = "install",
                      !.todo = IF record[d] = "release" THEN <<"deployment">>
                               ELSE <<"release", "deployment">>]
    /\ UNCHANGED <<redisVars, fileVars, txs, manual, faults, stops>>

\* The release tree and then the deployment directory are renamed into place.
InstallRename ==
    /\ job.phase = "install"
    /\ record' = [record EXCEPT ![job.cand] =
                    IF At("release") THEN "release" ELSE "installed"]
    /\ job' = IF At("release") THEN [job EXCEPT !.todo = Tail(@)] ELSE Idle
    /\ UNCHANGED <<redisVars, current, previous, env, enabled, txs, manual, bounds>>

----------------------------------------------------------------------------
(* reconcile-recovery: the only way out of a failed recovery.                 *)

\* The operator (external) brings the source deployment back in RDB mode with the
\* acknowledged writes merged, quarantines the AOF and leaves evidence, which may
\* be incomplete.
ManualRecovery ==
    /\ job = Idle
    /\ \E t \in DOMAIN txs :
         /\ Blocks(t) /\ manual.tx # t
         /\ txs[t].from # None /\ Mode[txs[t].from] = "rdb"
         /\ run' = txs[t].from /\ writers' = TRUE
         /\ redis' = [up |-> TRUE, mode |-> "rdb", mem |-> ack]
         /\ rdb' = ack /\ aof' = Absent
         /\ manual' \in [tx : {t}, equal : BOOLEAN, merge : BOOLEAN, backups : BOOLEAN]
    /\ enabled' = TRUE
    /\ UNCHANGED <<ack, record, current, previous, env, txs, job, bounds>>

\* _validate_manual_recovery, by parts: the manual summary names the transaction
\* and current,
ManualSummaryOk(t) == manual.tx = t /\ txs[t].from = current

\* the recovery transition of the blocking record passed, from AOF to RDB,
ManualTransitionOk(t) ==
    /\ txs[t].recSum = "pass"
    /\ Mode[txs[t].cand] = "aof" /\ Mode[txs[t].from] = "rdb"

\* RDB and AOF hold the same keys,
ManualEquivalenceOk == manual.equal

\* the merge plan, its application and its verification are bound together,
ManualMergeOk == manual.merge

\* and both backups are stored off the host.
ManualBackupsOk == manual.backups

ManualRecoveryOk(t) ==
    /\ ManualSummaryOk(t) /\ ManualTransitionOk(t)
    /\ ManualEquivalenceOk /\ ManualMergeOk /\ ManualBackupsOk

\* reconcile_recovery up to its attempt: exactly one blocking transaction, its
\* source is current, verified and bound to the environment link.  A final
\* summary that exists was written by an attempt that was cut off.
ReconcileRecovery(bridge) ==
    /\ job = Idle
    /\ LET blocking == {i \in DOMAIN txs : Blocks(i)}
       IN /\ Cardinality(blocking) = 1
          /\ \E t \in blocking :
               /\ Resolvable /\ current # None /\ txs[t].from = current
               /\ record[current] = "verified" /\ env = "link"
               /\ ManualRecoveryOk(t)
               /\ job' = [Idle EXCEPT !.cmd = "reconcile", !.phase = "reconcile",
                            !.t = t, !.bridge = bridge,
                            !.todo = IF txs[t].final THEN <<"recovery_reconciled">>
                                     ELSE <<"runtime", "verify_read_only",
                                            "reconcile_summary", "recovery_reconciled">>]
    /\ UNCHANGED <<redisVars, fileVars, txs, manual, bounds>>

\* The attempt: runtime status, then the read-only verification of current.
ReconcileAttempt ==
    /\ job.phase = "reconcile"
    /\ \/ At("runtime") /\ job' = IF RuntimeStatusOk(current)
                                  THEN [job EXCEPT !.todo = Tail(@)] ELSE Idle
       \/ At("verify_read_only") /\ job' = IF Verified(current, job.bridge)
                                  THEN [job EXCEPT !.todo = Tail(@)] ELSE Idle
    /\ UNCHANGED <<redisVars, fileVars, txs, manual, bounds>>

\* The create-only final summary.
ReconcileSummary ==
    /\ At("reconcile_summary") /\ Advance
    /\ txs' = [txs EXCEPT ![job.t].final = TRUE]
    /\ UNCHANGED <<redisVars, fileVars, manual, bounds>>

----------------------------------------------------------------------------
(* Interruptions.                                                             *)

\* The manager is killed.
Kill ==
    /\ job # Idle /\ stops < MaxStops
    /\ stops' = stops + 1 /\ job' = Idle
    /\ UNCHANGED <<redisVars, fileVars, txs, manual, faults, installs>>

\* The host restarts, orderly or not.  Containers that were not stopped come
\* back first with the configuration of their deployment; then systemd, if the
\* unit is enabled and its paths resolve, brings up what current names.  After a
\* power loss an RDB deployment keeps what it had saved.
HostRestart ==
    /\ stops < MaxStops /\ run # None
    /\ stops' = stops + 1 /\ job' = Idle
    /\ \E orderly \in BOOLEAN :
         LET r == IF orderly THEN SavedRdb ELSE rdb
             a == IF orderly THEN SavedAof ELSE aof
             back == Loaded(Mode[run], r, a)
             r2 == IF redis.up THEN back.mem ELSE r
             a2 == IF redis.up /\ Mode[run] = "aof" THEN back.mem ELSE a
             boots == enabled /\ current # None /\ env # "absent"
             d == IF current = "legacy" THEN LegacyRelease ELSE current
         IN /\ ack' = IF ~orderly /\ redis.up /\ Mode[run] = "rdb" /\ rdb < ack
                      THEN rdb ELSE ack
            /\ IF boots
               THEN run' = d /\ writers' = TRUE /\ StartedRedis(d, r2, a2)
               ELSE /\ UNCHANGED <<run, writers>>
                    /\ redis' = IF redis.up THEN back ELSE redis
                    /\ rdb' = r2 /\ aof' = a2
    /\ UNCHANGED <<fileVars, txs, manual, faults, installs>>

\* Clients are served once a deployment is current.
Traffic ==
    /\ current # None
    /\ ClientWrite \/ BackgroundSave
    /\ UNCHANGED <<fileVars, txs, job, manual, bounds>>

----------------------------------------------------------------------------
(* Specification.                                                             *)

Init ==
    /\ txs = <<>> /\ job = Idle /\ previous = None
    /\ manual = [tx |-> 0, equal |-> FALSE, merge |-> FALSE, backups |-> FALSE]
    /\ faults = 0 /\ stops = 0 /\ installs = 0
    /\ rdb = 0 /\ aof = Absent /\ ack = 0
    /\ \/ \* a host without a deployment
          /\ run = None /\ writers = FALSE
          /\ redis = [up |-> FALSE, mode |-> "rdb", mem |-> 0]
          /\ record = [d \in Deployment |-> IF d = LegacyRelease THEN "installed" ELSE "absent"]
          /\ current = None /\ env = "absent" /\ enabled = FALSE
       \/ \* the unmanaged deployment the manager is to adopt
          /\ run = LegacyRelease /\ writers = TRUE
          /\ redis = [up |-> TRUE, mode |-> Mode[LegacyRelease], mem |-> 0]
          /\ record = [d \in Deployment |-> "absent"]
          /\ current = "legacy" /\ env = "file" /\ enabled = TRUE
       \/ \* a managed deployment, verified before this controller
          \E c \in {LegacyRelease} \cup {d \in Deployment : ~ComposeContractOk(d)} :
            /\ run = c /\ writers = TRUE
            /\ redis = [up |-> TRUE, mode |-> Mode[c], mem |-> 0]
            /\ record = [d \in Deployment |->
                           IF d = c THEN "verified"
                           ELSE IF d \notin Attestation THEN "absent" ELSE "installed"]
            /\ current = c /\ env = "link" /\ enabled = TRUE

StepNext ==
    \/ Precheck \/ PrepareTransition \/ ToolFreeze \/ ToolCheckpoint
    \/ ToolDirectory \/ ToolSeed \/ ToolSummary \/ Activate \/ Verify
    \/ UpdateDeployment \/ Commit \/ LinkCurrent \/ EnsureActiveImageLink
    \/ LinkPrevious \/ Deactivate \/ ClearCurrent \/ ClearActiveImageLink
    \/ Uncommit \/ WriteTransactionRecord \/ ReconcilePending \/ PlanActivate
    \/ PlanRollback \/ PlanVerify \/ StatusReads \/ InstallRename
    \/ ReconcileAttempt \/ ReconcileSummary

Next ==
    \/ StepNext
    \/ \E cmd \in {"deploy", "upgrade", "rollback", "verify", "status"},
          d \in Deployment \cup {None}, bridge \in {"none", "network"} : Command(cmd, d, bridge)
    \/ \E d \in Deployment : Install(d)
    \/ \E bridge \in {"none", "redis"} : ReconcileRecovery(bridge)
    \/ ManualRecovery
    \/ Kill \/ HostRestart \/ Traffic

Spec == Init /\ [][Next]_vars

\* The manager runs on once started, and some command (status at least) is
\* issued again and again.
FairSpec ==
    Spec /\ WF_vars(StepNext) /\ WF_vars(Command("status", None, "none"))

----------------------------------------------------------------------------
(* Properties.                                                                *)

\* No command opens a transaction over one that is still open or that blocks:
\* only the newest record can be in such a state, and while a command works on a
\* record it is that one.
OnlyNewestUnsettled ==
    /\ \A i \in DOMAIN txs : (Open(i) \/ Blocks(i)) => i = Len(txs)
    /\ job.phase \in {"forward", "restore", "finish", "unwind", "resume"}
         => job.t = Len(txs)

Settled(i) ==
    CASE txs[i].status \in PASSING_TRANSACTION_STATES -> txs[i].cand
      [] txs[i].status \in {"rolled_back", "rolled_forward",
                            "interrupted_rolled_back", "recovery_reconciled"} -> txs[i].from
      [] OTHER -> None

\* Once an activation, rollback or reconciliation reports how it ended, the
\* host serves exactly that deployment: pointer, environment link, unit and
\* running containers agree, through later kills and restarts.
SettledIsServed ==
    LET n == Len(txs)
    IN (job.phase \in {"idle", "scan", "plan"} /\ n > 0 /\ txs[n].op # "verify"
          /\ Settled(n) # None)
         => current = Settled(n) /\ run = current /\ writers /\ redis.up
              /\ env = "link" /\ enabled

\* A Redis comes up that holds fewer writes than were acknowledged.
LosesWrites == redis'.up /\ redis'.mem < ack' /\ redis.mem >= ack

\* No step of the manager but the activation of a first deployment, which has
\* no source to take data from, loses an acknowledged write: the checkpoint,
\* the seed and the refusal of a stale AOF cover every change of mode, failed,
\* retried or completed.
ManagerKeepsWrites ==
    [][stops' = stops /\ LosesWrites
         => job.phase = "forward" /\ job.old = None /\ At("activate")]_vars

\* The recovery of record i cannot be retried: its create-only summary is used
\* up, or the deployment to return to fails the strict contract.
RecoveryStuck(i) ==
    \/ txs[i].recSum # "none"
    \/ txs[i].from # None /\ ~ComposeContractOk(txs[i].from)

\* A command that was cut off leaves a record that the following commands bring
\* to an end, unless its recovery cannot be retried.
InterruptedIsSettled ==
    \A i \in 1 .. MaxTx :
        (i \in DOMAIN txs /\ Open(i))
          ~> (i \in DOMAIN txs /\ (~Open(i) \/ RecoveryStuck(i)))

============================================================================

---------------------------- MODULE RestoreTools ----------------------------
(* The two tools of a restore drill on the source host: the isolated restore  *)
(* of a staged bundle into a fresh volume, and the business validation of the *)
(* restored volume.  Both run in an operator's shell, work on Docker under    *)
(* the host's lifecycle lock and end with a create-only summary.  A Docker    *)
(* call may fail with or without its effect, and a tool may be killed.        *)
EXTENDS Integers, FiniteSets

CONSTANTS
    N,                  \* backups are numbered up to N
    Deployment, Restore, None,
    Proc,               \* operators' shells, each running one tool at a time
    MaxFaults,          \* bound on Docker calls and transfers that fail
    MaxStops,           \* bound on tools that are killed
    Empty, Mutated      \* contents of a volume besides the snapshot of a backup

\* The host, the wire and the vault, which the tools only read.
VARIABLES
    deployment, lifecycle, job, summary, frame, answer, op,
    backups, trash, incoming, knownGood, deletions, validated, kills, decay, redeploys

VARIABLES
    bundle,             \* [Restore -> exported bundle on the vault, or None]
    staged,             \* [Restore -> bundle received by the source host]
    sent,               \* restores whose sender has its transport receipt
    made,               \* Docker objects that exist: <<kind, restore>>
    data,               \* [volumes -> content]
    proc,               \* [Proc -> the tool that runs there]
    holder,             \* the process that holds the lifecycle lock
    restored, business, \* [Restore -> create-only summary or None]
    faults, stops

vaultVars == <<deployment, lifecycle, job, summary, frame, answer, op, backups, trash,
               incoming, knownGood, deletions, validated, kills, decay, redeploys>>
drillVars ==
    <<bundle, staged, sent, made, data, proc, holder, restored, business, faults, stops>>
vars == <<vaultVars, drillVars>>

Ids == 0 .. N

Containers == {"baseline", "target", "audit", "redis", "app"}
Object == (Containers \cup {"volume", "work", "network"}) \X Restore
Volume == {"volume", "work"} \X Restore
Content == Ids \cup {None, Empty, Mutated}

NoTool ==
    [tool |-> "none", id |-> None, pc |-> "idle", mine |-> {}, from |-> None,
     seed |-> None, pass |-> FALSE, leftovers |-> {}]

Bundle == [backup : Ids, manifest : Deployment, payload : Ids, restore : Restore]

TypeOK ==
    /\ bundle \in [Restore -> [backup : Ids, manifest : Deployment,
                               complete : BOOLEAN] \cup {None}]
    /\ staged \in [Restore -> Bundle \cup {None}]
    /\ sent \subseteq Restore
    /\ made \subseteq Object
    /\ data \in [Volume -> Content]
    /\ \A p \in Proc :
          /\ proc[p].id \in Restore \cup {None}
          /\ proc[p].mine \subseteq Object
          /\ proc[p].from \in Bundle \cup {None}
          /\ proc[p].seed \in Content
    /\ holder \in Proc \cup {None}
    /\ \A r \in Restore, s \in {restored, business} :
          s[r] # None => s[r].pass \in BOOLEAN /\ s[r].leftovers \subseteq Object

DrillInit ==
    /\ bundle = [r \in Restore |-> None] /\ staged = [r \in Restore |-> None]
    /\ sent = {} /\ made = {} /\ data = [v \in Volume |-> None]
    /\ proc = [p \in Proc |-> NoTool] /\ holder = None
    /\ restored = [r \in Restore |-> None] /\ business = [r \in Restore |-> None]
    /\ faults = 0 /\ stops = 0

Fault == faults < MaxFaults /\ faults' = faults + 1

\* validate_bundle: the files are the complete inventory, with the snapshot the
\* bundle binds.
StagedFilesBind(b) == b.payload = b.backup

\* The copied documents name the same backup, and the transport receipt this
\* restore.
StagedDocumentsBind(b, r) == b.restore = r

----------------------------------------------------------------------------
(* Docker, as the tools use it.                                               *)

Of(kind, r) == <<kind, r>>

\* Containers that keep an object from being removed.
Users(x) ==
    LET r == x[2]
    IN  CASE x[1] = "volume" -> {Of("target", r), Of("audit", r)}
          [] x[1] = "work" -> {Of("redis", r)}
          [] x[1] = "network" -> {Of("redis", r), Of("app", r)}
          [] OTHER -> {}

At(p, pc) == proc[p].tool # "none" /\ proc[p].pc = pc
Own(p, kind) == Of(kind, proc[p].id)

Go(p, pc) == proc' = [proc EXCEPT ![p].pc = pc] /\ UNCHANGED holder

\* Mutant: the failure path ends without giving up the lock.
FailKeepsLock(p) == proc' = [proc EXCEPT ![p].pc = "cleanup"] /\ UNCHANGED holder

\* An exception leaves the "with" block first: the lock is free before the
\* cleanup begins.
Fail(p) == proc' = [proc EXCEPT ![p].pc = "cleanup"] /\ holder' = None

\* start_redis, start_backend, start_gateway, docker volume and network create.
\* Only a call that returned is remembered for the cleanup.
DockerCreate(p, kind, next) ==
    LET x == Own(p, kind)
        Exists(m) ==
            /\ made' = m
            /\ data' = [v \in Volume |-> IF v = x /\ x \in m \ made THEN Empty ELSE data[v]]
    IN  /\ \/ /\ x \notin made /\ Exists(made \cup {x})
              /\ proc' = [proc EXCEPT ![p].pc = next, ![p].mine = @ \cup {x}]
              /\ UNCHANGED <<holder, faults>>
           \/ x \in made /\ Exists(made) /\ Fail(p) /\ UNCHANGED faults
           \/ Fault /\ (Exists(made) \/ Exists(made \cup {x})) /\ Fail(p)
        /\ UNCHANGED <<vaultVars, bundle, staged, sent, restored, business, stops>>

\* remove_container.
DockerRemove(p, kind, next) ==
    /\ \/ /\ made' = made \ {Own(p, kind)}
          /\ proc' = [proc EXCEPT ![p].pc = next, ![p].mine = @ \ {Own(p, kind)}]
          /\ UNCHANGED <<holder, faults>>
       \/ Fault /\ Fail(p) /\ UNCHANGED made
    /\ UNCHANGED <<vaultVars, bundle, staged, sent, data, restored, business, stops>>

\* What is gone after removals of S are tried in order and the calls F fail.
Removed(S, F) == {x \in S \ F : Users(x) \cap made \subseteq S \ F}

FailedCalls(S) == {F \in SUBSET S : Cardinality(F) <= MaxFaults - faults}

\* A step that only reads, or fails.
Check(p, ok, next) ==
    /\ \/ (IF ok THEN Go(p, next) ELSE Fail(p)) /\ UNCHANGED faults
       \/ Fault /\ Fail(p)
    /\ UNCHANGED <<vaultVars, bundle, staged, sent, made, data, restored, business, stops>>

\* lifecycle_lock.
Lock(p) ==
    /\ At(p, "lock") /\ holder = None /\ lifecycle = "free"
    /\ holder' = p
    /\ proc' = [proc EXCEPT ![p].pc = IF proc[p].tool = "restore" THEN "bundle" ELSE "checks"]
    /\ UNCHANGED <<vaultVars, bundle, staged, sent, made, data, restored, business,
                   faults, stops>>

\* An id belongs to one run: no two shells use the same one at a time.
Start(p, tool, r, from) ==
    /\ proc[p] = NoTool /\ \A q \in Proc : proc[q].id # r
    /\ proc' = [proc EXCEPT ![p] = [NoTool EXCEPT !.tool = tool, !.id = r, !.pc = "lock",
                                                  !.from = from]]
    /\ UNCHANGED <<vaultVars, bundle, staged, sent, made, data, holder, restored, business,
                   faults, stops>>

----------------------------------------------------------------------------
(* run_isolated_restore.                                                      *)

RestoreStart(p, r) == restored[r] = None /\ Start(p, "restore", r, None)

\* inspect_volume, ensure_target_absent.
TargetAbsent(p) == Own(p, "volume") \notin made

\* validate_bundle, the staged copy, offline_rdb_check and the absent target.
RestoreBundle(p) ==
    /\ At(p, "bundle")
    /\ LET r == proc[p].id
           ok == /\ staged[r] # None
                 /\ StagedFilesBind(staged[r]) /\ StagedDocumentsBind(staged[r], r)
                 /\ TargetAbsent(p)
       IN  \/ /\ ok
              /\ proc' = [proc EXCEPT ![p].pc = "baseline", ![p].from = staged[r]]
              /\ UNCHANGED <<holder, faults>>
           \/ ~ok /\ Fail(p) /\ UNCHANGED faults
           \/ Fault /\ Fail(p)
    /\ UNCHANGED <<vaultVars, bundle, staged, sent, made, data, restored, business, stops>>

RestoreBaseline(p) == At(p, "baseline") /\ DockerCreate(p, "baseline", "read")

\* canonical_keyspace of the baseline, with the required leaderboard keys.
RestoreRead(p) ==
    /\ At(p, "read")
    /\ \/ /\ proc' = [proc EXCEPT ![p].pc = "unbaseline", ![p].seed = proc[p].from.payload]
          /\ UNCHANGED <<holder, faults>>
       \/ Fault /\ Fail(p)
    /\ UNCHANGED <<vaultVars, bundle, staged, sent, made, data, restored, business, stops>>

RestoreUnbaseline(p) == At(p, "unbaseline") /\ DockerRemove(p, "baseline", "volume")
RestoreVolume(p) == At(p, "volume") /\ DockerCreate(p, "volume", "seed")

\* seed_volume; a failed copy leaves the volume as it was.
RestoreSeed(p) ==
    /\ At(p, "seed")
    /\ \/ /\ data' = [data EXCEPT ![Own(p, "volume")] = proc[p].from.payload]
          /\ Go(p, "target") /\ UNCHANGED faults
       \/ Fault /\ Fail(p) /\ UNCHANGED data
    /\ UNCHANGED <<vaultVars, bundle, staged, sent, made, restored, business, stops>>

RestoreTarget(p) == At(p, "target") /\ DockerCreate(p, "target", "compare")

\* The keyspace of the fresh volume equals that of the baseline.
RestoreCompare(p) ==
    At(p, "compare") /\ Check(p, data[Own(p, "volume")] = proc[p].seed, "untarget")

RestoreUntarget(p) == At(p, "untarget") /\ DockerRemove(p, "target", "finish")

\* The identity of the active volume and the time budget decide; then the lock
\* is released.
Finish(p) ==
    /\ At(p, "finish")
    /\ \/ /\ proc' = [proc EXCEPT ![p].pc = "report", ![p].pass = TRUE]
          /\ holder' = None /\ UNCHANGED faults
       \/ Fault /\ Fail(p)
    /\ UNCHANGED <<vaultVars, bundle, staged, sent, made, data, restored, business, stops>>

\* The removals that the failure path tries, when the calls F fail: containers
\* that were started, and the volume only if none of them is left.
RestoreTried(p, F) ==
    LET containers == {x \in proc[p].mine : x[1] # "volume"}
    IN  IF containers \cap F = {} THEN proc[p].mine ELSE containers

RestoreCleanup(p) ==
    /\ At(p, "cleanup") /\ proc[p].tool = "restore"
    /\ \E F \in FailedCalls(proc[p].mine) :
         LET tried == RestoreTried(p, F)
             gone == Removed(tried, F)
         IN  /\ F \subseteq tried
             /\ made' = made \ gone
             /\ data' = [v \in Volume |-> IF v \in gone THEN None ELSE data[v]]
             /\ proc' = [proc EXCEPT ![p].pc = "report", ![p].leftovers = tried \ gone,
                                     ![p].mine = @ \ gone]
             /\ faults' = faults + Cardinality(F)
    /\ UNCHANGED <<vaultVars, bundle, staged, sent, holder, restored, business, stops>>

Report(p) ==
    [pass |-> proc[p].pass,
     backup |-> IF proc[p].from = None THEN 0 ELSE proc[p].from.backup,
     manifest |-> IF proc[p].from = None THEN None ELSE proc[p].from.manifest,
     leftovers |-> proc[p].leftovers]

\* The create-only summary; if another run of this id wrote one first, the write
\* fails and nothing is reported.
RestoreReport(p) ==
    /\ At(p, "report") /\ proc[p].tool = "restore"
    /\ restored' = IF restored[proc[p].id] = None
                   THEN [restored EXCEPT ![proc[p].id] = Report(p)] ELSE restored
    /\ proc' = [proc EXCEPT ![p] = NoTool]
    /\ UNCHANGED <<vaultVars, bundle, staged, sent, made, data, holder, business,
                   faults, stops>>

----------------------------------------------------------------------------
(* run_business_validation.                                                   *)

\* load_release_context: the restore passed, and the deployment that is current
\* now is the one it restored.
ReleaseContext(r) ==
    restored[r] # None /\ restored[r].pass /\ restored[r].manifest = deployment

\* The context is loaded before the lock is asked for.
BusinessStart(p, r) ==
    /\ business[r] = None
    /\ ReleaseContext(r)
    /\ Start(p, "business", r, [backup |-> restored[r].backup,
                                manifest |-> restored[r].manifest,
                                payload |-> restored[r].backup, restore |-> r])

\* ensure_unused_volume and ensure_absent for every name of this run.
VolumeUnused(p) ==
    /\ Own(p, "volume") \in made
    /\ Users(Own(p, "volume")) \cap made = {}
NamesFree(p) == made \cap {Own(p, k) : k \in {"audit", "work", "network", "redis", "app"}} = {}

\* assert_local_docker, assert_image_ids, identities and labels, and the names.
BusinessChecks(p) == At(p, "checks") /\ Check(p, VolumeUnused(p) /\ NamesFree(p), "audit")

BusinessAudit(p) == At(p, "audit") /\ DockerCreate(p, "audit", "audited")

\* audit_retained_seed: the keyspace is read and the container removed, both of
\* which may fail.
BusinessAudited(p, pc, next) ==
    /\ At(p, pc)
    /\ \/ /\ made' = made \ {Own(p, "audit")}
          /\ IF data[Own(p, "volume")] = proc[p].from.payload THEN Go(p, next) ELSE Fail(p)
          /\ UNCHANGED faults
       \/ Fault /\ (made' = made \/ made' = made \ {Own(p, "audit")}) /\ Fail(p)
    /\ UNCHANGED <<vaultVars, bundle, staged, sent, data, restored, business, stops>>

BusinessWork(p) == At(p, "work") /\ DockerCreate(p, "work", "clone")

\* clone_retained_volume reads the retained volume read-only.
BusinessClone(p) ==
    /\ At(p, "clone")
    /\ \/ /\ data' = [data EXCEPT ![Own(p, "work")] = data[Own(p, "volume")]]
          /\ Go(p, "network") /\ UNCHANGED faults
       \/ Fault /\ Fail(p) /\ UNCHANGED data
    /\ UNCHANGED <<vaultVars, bundle, staged, sent, made, restored, business, stops>>

BusinessNetwork(p) == At(p, "network") /\ DockerCreate(p, "network", "redis")
BusinessRedis(p) == At(p, "redis") /\ DockerCreate(p, "redis", "app")
BusinessApp(p) == At(p, "app") /\ DockerCreate(p, "app", "healthy")

\* wait_healthy, and the members of the network.
BusinessHealthy(p) ==
    At(p, "healthy") /\ Check(p, {Own(p, "redis"), Own(p, "app")} \subseteq made, "sdk")

\* The volume that the work Redis serves.
ServedVolume(p) == Own(p, "work")

\* run_sdk and verify_leaderboard_effects: the flow writes to the served volume.
BusinessSdk(p) ==
    /\ At(p, "sdk")
    /\ data' = [data EXCEPT ![ServedVolume(p)] = Mutated]
    /\ \/ Go(p, "teardown") /\ UNCHANGED faults
       \/ Fault /\ Fail(p)
    /\ UNCHANGED <<vaultVars, bundle, staged, sent, made, restored, business, stops>>

\* Mutant: a container that cannot be removed is not a failure.
TeardownFailuresIgnored(tried, gone) == {}

TeardownFailures(tried, gone) == tried \ gone

\* Containers in reverse order, network and work volume.  What could not be
\* removed fails the run; of that, containers are not tried again.
BusinessTeardown(p) ==
    /\ At(p, "teardown")
    /\ LET tried == proc[p].mine \ {Own(p, "audit")}
       IN  \E F \in FailedCalls(tried) :
             LET gone == Removed(tried, F)
                 failures == TeardownFailures(tried, gone)
             IN  /\ made' = made \ gone
                 /\ data' = [v \in Volume |-> IF v \in gone THEN None ELSE data[v]]
                 /\ proc' = [proc EXCEPT ![p].pc = IF failures = {} THEN "audit2" ELSE "cleanup",
                         ![p].leftovers = failures,
                         ![p].mine = {x \in tried \ gone : x[1] \in {"network", "work"}}]
                 /\ holder' = IF failures = {} THEN holder ELSE None
                 /\ faults' = faults + Cardinality(F)
    /\ UNCHANGED <<vaultVars, bundle, staged, sent, restored, business, stops>>

BusinessAuditAgain(p) == At(p, "audit2") /\ DockerCreate(p, "audit", "audited2")

\* The failure path: what is remembered, and the audit container whose removal
\* nobody checks.
BusinessCleanup(p) ==
    /\ At(p, "cleanup") /\ proc[p].tool = "business"
    /\ LET audit == Own(p, "audit")
           tried == (proc[p].mine \cup {audit}) \cap made
       IN  \E F \in FailedCalls(tried) :
             LET gone == Removed(tried, F)
             IN  /\ made' = made \ gone
                 /\ data' = [v \in Volume |-> IF v \in gone THEN None ELSE data[v]]
                 /\ proc' = [proc EXCEPT ![p].pc = "report", ![p].mine = {},
                                         ![p].leftovers = @ \cup ((tried \ gone) \ {audit})]
                 /\ faults' = faults + Cardinality(F)
    /\ UNCHANGED <<vaultVars, bundle, staged, sent, holder, restored, business, stops>>

BusinessReport(p) ==
    /\ At(p, "report") /\ proc[p].tool = "business"
    /\ business' = IF business[proc[p].id] = None
                   THEN [business EXCEPT ![proc[p].id] = Report(p)] ELSE business
    /\ proc' = [proc EXCEPT ![p] = NoTool]
    /\ UNCHANGED <<vaultVars, bundle, staged, sent, made, data, holder, restored,
                   faults, stops>>

----------------------------------------------------------------------------

\* The tool is killed: its lock is free, what it made stays, nothing is written.
Kill(p) ==
    /\ proc[p] # NoTool /\ stops < MaxStops
    /\ stops' = stops + 1
    /\ proc' = [proc EXCEPT ![p] = NoTool]
    /\ holder' = IF holder = p THEN None ELSE holder
    /\ UNCHANGED <<vaultVars, bundle, staged, sent, made, data, restored, business, faults>>

RestoreStep(p) ==
    RestoreBundle(p) \/ RestoreBaseline(p) \/ RestoreRead(p) \/ RestoreUnbaseline(p)
    \/ RestoreVolume(p) \/ RestoreSeed(p) \/ RestoreTarget(p) \/ RestoreCompare(p)
    \/ RestoreUntarget(p) \/ RestoreCleanup(p) \/ RestoreReport(p)

BusinessStep(p) ==
    BusinessChecks(p) \/ BusinessAudit(p) \/ BusinessAudited(p, "audited", "work")
    \/ BusinessWork(p) \/ BusinessClone(p) \/ BusinessNetwork(p) \/ BusinessRedis(p)
    \/ BusinessApp(p) \/ BusinessHealthy(p) \/ BusinessSdk(p) \/ BusinessTeardown(p)
    \/ BusinessAuditAgain(p)
    \/ BusinessAudited(p, "audited2", "finish") \/ BusinessCleanup(p) \/ BusinessReport(p)

ToolStep(p) == Lock(p) \/ RestoreStep(p) \/ BusinessStep(p) \/ Finish(p)
=============================================================================

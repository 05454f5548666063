# A verification project for boost_gateway

TLA+ specifications of the parts of `boost_gateway` where threads, processes,
messages, crashes and operators' tools meet, the TLC configurations that check them
on small instances, and TLAPS proofs that do not depend on those sizes. Paths are
relative to the repository's root; `PROJECT.json` maps every definition to its lines.

## 1. The system

Clients talk to the **gateway** over TCP. Its network threads put packets into a
queue; one *gateway worker* owns the runtime's state and handles them in turn. In
bridge mode it calls the **Login, Room, Battle, Matchmaking and Leaderboard
backends**, one blocking request at a time, through `GatewayServiceBridge`, which
sends a request a second time when no reply came. Battle inputs are the exception:
they are handed to a pool of *route workers* that make the call and post a
completion back to the packet queue. The Matchmaking and Leaderboard backends can
replicate their state with a **Raft** node of their own. Below this are the actor
system with one event loop per core and a lock-free **mailbox** between cores, and
two **write-behind** queues for persistence.

Around this runs the **release tooling**, Python programs that leave evidence on disk
which other programs judge. The *deployment manager* switches the host from one
release to another in transactions that a killed command leaves half done, and with it
Redis from one persistence mode to another. *Scheduled backups* go to an off-host
*vault*; a *restore drill* brings one back, restores it into a fresh volume and runs the
business flow on it, and only then may the backup be attested as known good. An
*external canary* exercises the gateway every minute and a *dead-man heartbeat* watches
the canary; *immutable windows* turn its samples into a verdict. A *long-soak and
capacity run* starts a tree of gates, soaks and collectors under nested deadlines, and a
last gate reads what they left.

| Part | State | Operations | What is hard |
|---|---|---|---|
| Raft node | term, vote, log, indices, state file, latch | elections, heartbeats, `append_command`, RPC handlers, delivery | two threads per node; calls made without the mutex; crash between save and reply; failed saves; late requests |
| Raft state files | v0/v1 files, backup and record | migrate, downgrade, save | crash between two writes |
| Write-behind store | queue, files, `worker_idle_` | save, flush, stop | one condition variable for everybody |
| Write-behind engine | queue with delays, counters | push, try_push, flush, drain, retry, destructor | delays, limits, timeouts, shutdown |
| Mailbox | ring of cells, positions, closed bit | enqueue, drain, close | no locks |
| Room backend | rooms, members, active battle | 11 handlers, 8 of which change state; cleanup timer | order of legal calls |
| Gateway runtime | room/battle maps, completed and settled sets | commands, completions, settlement | calls that fail half way; two reports of one end |
| Battle backend | instances, frames, results | create, input, state, finish | executed twice or late |
| Leaderboard | applied keys, scores | idempotent submit; Raft mode | key kept when the append fails |
| Route workers | bounded task queue, threads | enqueue, route, complete, stop | reordering, shutdown |
| Matchmaking, Login, JWT keys | queues, sessions, key cache | join/leave/match, bind/close, refresh | takeover, stale state |
| Circuit breaker, connections, registry, router | breaker state, sockets, ring | allow/succeed/fail, failover | concurrent callers, late replies |
| Actor system, IO engine | cells, cores | send, dispatch, stop | refused messages, stop order |
| Process supervisor | processes, monitors | restart, stop | restart racing stop |
| Deployment manager | transaction log, links, Compose topology, Redis files | install, deploy, upgrade, rollback, verify, reconcile | killed between two durable writes; a call that fails while undoing another |
| Backup vault | backups, trash, receipts, attestations | backup, receive, attest, retain | kill on either side of an upload; limits that two writers share |
| Restore drill | bundles, Docker objects, lifecycle lock, summaries | export, send, restore, validate | Docker calls that fail with or without effect; two shells |
| Canary, heartbeat, windows | samples, incidents, provider, window directories | run, watchdog, report, drill, declare, finalize | timers, late services, lost alerts, replaced inputs |
| Soak and capacity | process tree, summaries, ports | run, cancel, expire, judge | nested graces; what an earlier run left behind |
| Redis client, caches, sessions, SDK, gRPC, AOI, ECS, other tooling | - | - | see section 7 |

What should be true of it, most important first: a term has one leader and what a
Raft node answers from is on disk; committed and acknowledged entries stay; the
rooms, the gateway and the Battle backend agree on which battle is played; a
finished battle is paid out once, and is paid out; an accepted input, message,
write or task is handled exactly once or accounted for; every blocking call
(`append_command`, `flush`, `drain`, `close`, the stops) returns; and a summary, link,
attestation or verdict that says "passed" stands for something that happened.

## 2. Modules

| Module | Models | Correspondence |
|---|---|---|
| `Raft` | `src/src/v3/cluster/raft.cpp` | `node[i]` is the object and its state file, `call[i][th]` the local state of the run thread and of the client thread. One action per critical section: start an election, send, handle, take a reply, finish, crash, restart |
| `RaftInvariant`, `RaftLogInvariant` | - | the inductive invariants of the votes and of the logs |
| `RaftVoteProofs`, `RaftProofs` | - | the proofs about votes, and those about logs with the theorems |
| `WriteBehindStore` | `src/src/v2/data/write_behind_store.cpp` | `pc` per thread; a critical section is one action |
| `MpscQueue` | `src/include/v2/io/mailbox.h` | one step per atomic operation |
| `Channel` | - | what the mailbox promises: a bounded FIFO channel that can be shut; `MpscQueue` implements it |
| `RoomBackend` | `src/src/v2/room/room_backend_service.cpp` | the handlers as operators from a state to a state and a reply |
| `BattleFlow` | gateway, bridge, Room, Battle and Leaderboard together | composes `RoomBackend`; `call` is the gateway worker's blocking request, `late` what may still be executed |
| `WriteBehindProofs`, `MpscQueueProofs`, `FlowProofs` | - | inductive invariants and proofs of the three modules above; the last also has what more holds while every call is answered |
| `RedisPersistence` | `src/scripts/tools/prepare_redis_persistence_transition.py` | the Compose topology, the Redis process and its two files, which are external, and the transition's steps |
| `ReleaseLifecycle` | `src/scripts/lib/release_deployment_*.py` | a command is a list of steps, each one durable write or one external call; the next command reconciles |
| `BackupVault` | `src/scripts/lib/backup_recovery.py`, `backup_vault.py` and their tools | `job` is the source host's run, `op` the vault command under `.vault.lock` |
| `BackupVaultProofs` | - | its inductive invariant and proofs |
| `RestoreTools` | `src/scripts/tools/restore_backup_isolated.py`, `verify_restored_business_isolated.py` | `proc[p]` is the tool in an operator's shell; one action per Docker call or check |
| `RestoreDrill` | export and transfer around them | composes the tools with `BackupVault` and implements it: a drill is two passed summaries |
| `RestoreProofs` | - | the invariant of the tools, and of their composition with the vault |
| `ExternalCanary` | `src/scripts/tools/external_business_canary.py`, `manage_external_deadman.py` | two timers, two services, the reporter, the provider (external) |
| `ImmutableWindow` | `src/scripts/tools/manage_immutable_window.py` | a window is the set of create-only documents in its directory |
| `WindowProofs` | - | the invariant of the canary, the heartbeat and the windows together, and its theorems |
| `CancellableProcess` | `src/scripts/lib/cancellable_process.py` | supervisors, their children, signals and graces counted in polls |
| `StabilitySoak`, `PerfCollector` | the soak and its baseline passes; the release baseline and the perf collector | one control state per process, one variable per summary file |
| `LongSoak` | `run_long_soak_capacity.py`, the resilience gate, the R4 capacity gate | composes the two; `Found` says what an earlier run left: summaries of this commit or of the one before, and services on the ports |
| `MC...` | - | constants and symmetry for TLC |

Grain and abstractions:

- *Raft.* Delivery of committed entries is one step with the critical section before
  it, because `apply_pipeline_mutex_` keeps other deliveries out. Votes and late
  requests are sets. `Rank` gives the order in which peers are called: any, or a
  fixed one in the larger runs. `MaxLost` counts only failures of calls the
  destination could have answered. A single-node cluster starts as leader, as in the
  code. Liveness of `append_command` uses an explicit weak-fairness formula over
  the client threads (`ClientReady`, `ClientMoves`). `MCRaftRestart` starts from state
  files with diverged logs, which a run of the system can leave behind.
- *Write-behind.* Documents are version numbers. Wake-ups nobody asked for are
  allowed.
- *Mailbox.* Interleavings are sequentially consistent: every hand-over of a cell is
  an acquire/release pair on its sequence. Positions are natural numbers; the code's
  63-bit positions do not wrap in practice.
- *Room.* A handler holds `room_manager_.mutex_`, so it is one step. The version
  counter, the unused closed status and the handlers that only read are left out;
  the inactivity limit may pass at any time while a room waits.
- *BattleFlow.* Battle handlers are atomic per battle (`battle_input_mutexes_`). Game
  rules are abstracted to the choice of ending a battle at a frame, forced at
  `MaxFrames`. `MaxInstances` is the Battle backend's limit: a creation beyond it is refused
  (`battle_capacity_reached`), and the room, which already plays, is not told. One session per user. A call is tried at most twice; an attempt without
  a reply was not executed, was executed, or will be executed later. Of the two
  attempts of a call that fails for good at most one is still under way. `MaxChurn`
  bounds departures, hand-overs, expiries and queries, `MaxLost` what fails.
- *Backup vault.* The vault has its `.vault.lock`, (section 7 on one without it): stores,
  attestations and retention exclude each other. A run whose result does not
  validate ends in the state of one that timed out, and is not an action of its own.
- *Canary.* Instants are half minutes. Two history marks are kept: of a sample, whether the
  heartbeat was active when it was begun, and of a receipt, whether its watchdog had been
  told to require a sample.
- *Soak.* Processes take no time between two polls of their supervisors; what takes time
  are children, signals and graces. A baseline pass fails by its deviation or by any
  other of its checks; which other check it is makes no difference to the code that reads it.
  A service remembers the commit it was started from, so that a measurement can be
  traced to whoever answered it.
## 3. What the runs check

Every passing run is exhaustive for its bounds.

| Run | Configuration | Properties | What it shows |
|---|---|---|---|
| `raft_fail_stop` | `MCRaftFailStop.cfg` | `HealthyIsDurable`, `AppendReturns` | Two nodes that both stand for election and append, with one failed save or rejected apply, one crash and one late request: what a healthy node answers from is on disk, and append_command returns even when two leaders of different terms wait for each other's apply pipeline. |
| `raft_replication` | `MCRaftReplication.cfg` | `LogMatching`, `ElectionSafety`, `KnownLeaderWasElected`, `LeaderAppendOnly` | Three nodes restarted with diverged logs, two of them candidates in two further terms, and new entries: at most one leader per term, every known leader was elected, logs keep matching, and leaders keep what they logged. |
| `store` | `MCWriteBehindStore.cfg` | `WritesAccountedFor`, `FlushCovers`, `WorkerNeverOversleeps`, `DocumentsNeverGoBack`, `CallsReturn` | Two saving and flushing threads, the worker and the destructor share one condition variable: no write is lost or reordered, flush() covers what was queued before it, the worker never sleeps through work or the stop, and every flush() and the destructor return when every thread is scheduled. |
| `mailbox` | `MCMpscQueue.cfg` | `ExactlyOnceInOrder`, `IsChannel`, `LastDrainIsComplete`, `CloseReturns` | Two producers, the draining core and close() interleave at every atomic operation of a ring that wraps: each accepted message is delivered once, in order, the ring is a bounded FIFO channel to its callers, nothing is left behind by a drain after close(), and close() returns when every producer finishes the call it is in. |
| `flow` | `MCBattleFlow.cfg` | `SettledOnce`, `CompletedHasEnded`, `RoomBattleIsRouted`, `SettledWhole`, `OwnedByAMember`, `BattleHoldsTheRoom` | Two battles in a row in one room, from creation to settlement, with every client command, inputs routed by another thread, one departure, hand-over, expiry or query, and one attempt or call anywhere that fails and may still be executed later: nothing is settled twice or before its battle has ended, rooms keep an owner and their battle, and while every call is answered the gateway, the rooms, the battles and the leaderboard agree between commands; only a battle the full Battle backend refused is played by its room and routed by nobody. |
| `lifecycle` | `MCReleaseLifecycle.cfg` | `OnlyNewestUnsettled`, `SettledIsServed`, `ManagerKeepsWrites`, `InterruptedIsSettled` | Deploy, upgrade, rollback, verify, status, install and reconcile-recovery over a running Redis, with failing calls, a killed manager and a host restart at every step: no transaction is opened over an unsettled one, a settled one is what the host serves, no command loses an acknowledged write, and what was cut off is settled. |
| `backup` | `MCBackupVault.cfg` | `PassedIsAccountedFor`, `WithinLimit`, `RemovalKeepsRestorable` | Scheduled backups, uploads, attestations and retention over one vault, with kills on either side, decaying copies and timeouts at every step: a passed run is accounted for, retention removes only verified copies and keeps enough restorable ones, and the vault keeps its limit. |
| `restore` | `MCRestoreDrill.cfg` | `PassedBusinessIsClean`, `KnownGoodIsProven`, `VaultSpec`, `LockIsReleased` | Export, transfer, isolated restore and business validation of stored backups by two shells beside a redeployment and the vault, with failing Docker calls and killed tools: passed summaries mean what they say, attestations rest on them, the lifecycle lock is given up, and the whole implements BackupVault. |
| `window` | `MCImmutableWindow.cfg` | `HeartbeatIsEarned`, `AttestedDrillWasReal`, `FinalIsEarned`, `FailureIsHeard` | The external canary, its watchdog, the dead-man heartbeat with a missing-heartbeat drill, and the immutable observation windows built on their samples, with one crash, kill, lost call, slow service, hand-made sample or replaced record at any point: heartbeats, attestations and closed windows stand for flows the gateway really served, and a failed sample is heard of before the next is due, even if all its alerts are lost. |
| `soak` | `MCLongSoak.cfg` | `PassWasEarned`, `OrphansWereSignalled`, `SoakVerdictIsDeserved`, `AttestedServicesAreOwn` | A long-soak/capacity run with its whole process tree (orchestrator, resilience gate, soak, baseline passes, release baseline, perf collector and its services) under one fault: a signal, a kill, an expired deadline, a raising step or a lost collector; summaries an earlier run left are never taken for this run's, nested graces suffice, and where R4 passes on a business collection of its run, no gateway or leaderboard of another commit was measured, whatever services an earlier collection left on the ports. |

### Where the code departs from what is written about it

These runs check one property each, and TLC finds it violated; `findings` in
`PROJECT.json` quotes the text the property is taken from.

| Run | Property | What TLC reaches | Code |
|---|---|---|---|
| `raft_committed_agree` | `CommittedEntriesAgree` | The leader's own match_index_ entry counts it twice: a heartbeat reply commits an entry no other node holds, and two nodes commit different entries at one index. | `src/src/v3/cluster/raft.cpp:775` |
| `flow_finish_race` | `CompletedIsSettled` | No failures: the input that ends a battle is routed by a worker while the gateway handles a finish request; the finish is answered without scores and the completion with the scores is then ignored. | `src/src/v2/gateway/runtime.cpp:2557` |


## 4. Bounds, and why they are enough

- *Raft*: three nodes are the smallest cluster in which a quorum leaves one node
  out; two for the mutual wait of two leaders. `MaxTerm` 2 or 3 allows a second
  leader, and an entry of an older term in a newer log. One crash, one lost call, one
  late request, one failed save: one of each is what separates the handlers'
  orderings; the proofs of section 6 do not depend on these bounds.
- *Write-behind*: two calling threads, so that one notification can wake the wrong
  one.
- *Mailbox*: two producers and two cells, and three messages in all, so that the
  ring wraps. A ring of one cell, which `mailbox.h:113` would build, is excluded by
  `CapacityAssumption`: there a published and a free cell have the same sequence. The
  program itself only builds rings of the default 1024.
- *BattleFlow*: one room and two players, the least with which a battle starts; two
  battles in a row where an old end meets a newer battle; one unanswered attempt,
  since one is enough for a repeated or late request. `MaxPending` bounds the inputs
  under way, `MaxChurn` the departures, expiries and queries. `MaxInstances` is 1, so that an
  instance nobody has ended makes the next creation a refused one.
- *ReleaseLifecycle*: three deployments, so that an upgrade has a deployment to return
  to that is not the legacy one; two transactions, the least for one opened over
  another; two failing calls, so that undoing a failed step can itself fail; one kill
  or restart; one write.
- *BackupVault*: three runs, of which the first is in the vault at the start (`Before`),
  one of them weekly; one kill, one decayed copy, one retention; a minimum of two
  known-good copies, which is the least the code allows.
- *RestoreDrill*: two ids and two shells, so that two tools meet; one failing Docker call
  and one killed tool; one redeployment beside them.
- *ImmutableWindow*: nine instants hold a window of two minutes with its declaration
  and its finalizer, a missing-heartbeat drill and its recovery; one disturbance of any
  kind. A failing sample is the disturbance of its behaviour; alerts may in addition be lost
  any number of times, so that the sample's alert and all its retries may fail and the
  heartbeat is what is left.
- *LongSoak*: one fault of any kind over one run on top of what an earlier run left, which
  is one of three: summaries of this commit, those with a whole topology of the commit
  before, and what a collector of that commit killed between two restarts leaves;
  two passes fill the minimum duration, and two confirmations follow a failed one.

`CHECK_DEADLOCK FALSE` stands where the system may stop: bounded commands are used
up, a process has shut down, or a cluster has crashed or latched for good.

## 5. Fairness

- *Write-behind*: weak fairness of the worker, of the owner and of each calling
  thread inside a call: they are operating-system threads, and a mutex is held
  only for a bounded time. Delays run out. Nobody has to make another call.
- *Mailbox*: a producer that reserved a position moves and publishes it; `close` goes
  on scanning.
- *Raft*: a client thread inside `append_command` goes on when it can; a call ends
  with a reply or by its timeout.
- *ReleaseLifecycle*: a command that runs goes on, and an operator asks for the status
  again when nothing runs, which is how an interrupted transaction is found.
- *RestoreDrill*: some tool that can go on does: a tool waits only for the lifecycle
  lock, and its own calls have timeouts.

## 6. What is proved

Every theorem holds for all values of the constants that satisfy the named
assumptions of the modules: any number of nodes, threads, producers, cells, users,
rooms, battles, restores and shells, and any number of crashes, losses and failures.

| Module | Theorem | Property |
|---|---|---|
| `RaftProofs` | `Invariance`, `TypeCorrect` | the inductive invariant; `TypeOK` |
| | `Durability` | `HealthyIsDurable`: a healthy node's state file is its memory |
| | `LeadersHaveQuorum` | `LeadersBacked`: a quorum of durable votes stands behind every leader |
| | `OneLeaderPerTerm` | `ElectionSafety` |
| | `RedirectsToElected` | `KnownLeaderWasElected` |
| | `TermsAdvance`, `LatchHolds` | `TermNeverDecreases`, `UnhealthyIsFrozen` |
| | `LogsInOrder`, `LogsMatch` | the invariant of the logs; `LogMatching` |
| | `LeadersOnlyAppend` | `LeaderAppendOnly` |
| `MpscQueueProofs` | `InOrderOnce` | `ExactlyOnceInOrder` |
| | `NothingLeftBehind` | `LastDrainIsComplete` |
| | `ImplementsChannel` | `IsChannel`: the ring implements `Channel` |
| `WriteBehindProofs` | `NothingIsLost` | `WritesAccountedFor` |
| | `FlushWaits` | `FlushCovers` |
| | `WorkerIsWoken` | `WorkerNeverOversleeps` |
| | `SavesInOrder` | `DocumentsNeverGoBack` |
| `FlowProofs` | `AppliedOnce` | `SettledOnce` |
| | `OverIsOver` | `CompletedHasEnded` |
| | `RoomsAreOwned` | `OwnedByAMember` |
| | `RoomIsHeld` | `BattleHoldsTheRoom` |
| | `AnsweredThroughout` | the invariant while every call is answered |
| | `BattlesAreRouted` | `RoomBattleIsRouted` |
| | `SettledWholly` | `SettledWhole` |
| `BackupVaultProofs` | `VaultInvariance` | the inductive invariant of the vault |
| | `PassedAccounted` | `PassedIsAccountedFor` |
| | `RemovalRestorable` | `RemovalKeepsRestorable` |
| `RestoreProofs` | `BusinessIsClean` | `PassedBusinessIsClean` |
| | `AttestedIsProven` | `KnownGoodIsProven` |
| | `ImplementsVault` | `VaultSpec`: the drill with its tools implements `BackupVault` |
| `WindowProofs` | `WindowInvariant` | the invariant of canary, heartbeat and windows |
| | `HeartbeatsAreEarned` | `HeartbeatIsEarned` |
| | `FinalsAreEarned` | `FinalIsEarned` |
| | `AttestedDrillsAreSilent` | `DrillIsSilent`: nothing reached the provider from the stop of the heartbeat to its recovery |

*Raft.* That a term has one leader follows from two quorums having a node in
common, which voted once. The second half is what needs the strengthening. A node
forgets its vote when it steps down as a candidate in its own term
(`become_follower` clears `voted_for_`), so "a node votes once per term" cannot be read
off `voted_for_`. `Backs` says what does hold: once a vote is granted, the voter's
*durable* term is past that term, or its durable vote is that vote and it does not
campaign. Crashes keep it because it speaks of the file; failed saves because the
reply is sent only after the save (`HealthyIsDurable`, part of `Sound`) and a node that
failed one is latched; the step-down because a candidate has granted nobody a vote in
its term (`CandidatesHonest`). `CallsOK` and `LateOK` carry the same facts over the time
in which a reply is on its way with no mutex held. `RaftVoteProofs` proves what each
operation does to one node, lifts this to the steps of an election and of AppendEntries,
and has one step per action.

*The logs.* `LogMatching` speaks of the logs in memory, and a log is made from others:
from the entries a request carries, also one that arrives long after it was sent, and
after a crash from the state file. `LogInv` therefore speaks of *pieces*: the logs, the
state files and the entries of all requests in flight with the index and term of the
entry before them. Any two pieces agree up to the last index at which they hold entries of
one term; every entry's term had an elected leader; and a leader's own log reaches as far
as any piece holds entries of its term. Almost every step only *derives* pieces: a
part of one, or a prefix of a log continued by a request whose previous entry was
found in it (`Merged`), and both keep agreement. The exception is `AppendCommand`, whose
entry nobody can hold already because its term has one leader (`OneLeader`) and that leader's
log is the longest in the term. The same argument shows that a leader is never
sent entries of its own term, so that it only appends. A cluster of one leads again in its
old term after a restart; it has nobody to disagree with and is treated apart.

*Mailbox.* The ring is described by a window of `Capacity` positions from the oldest
one not handed on. `CellsOK` says what the sequence number of each cell of the window
can be; two positions of one window never share a cell, which is the arithmetic of
`%` (`DivMod` and its consequences) and the reason why a stale compare-and-swap fails.
`ProducersOK` gives a producer its cell from the exchange to the publication,
`ItemsOK` the published cells their message, `ConsumerOK` ties the histories to head
and tail, `CloserOK` follows the scan of `close`. The refinement maps acceptance to the
exchange of the tail and delivery to the consumer's take.

*Write-behind store.* Commands are numbered, so that "nothing is lost" becomes an
equation (`NumbersOK`): what was queued is what was saved or failed, what is in the
worker's hands and what is queued. `SleepersOK` is the condition variable's part: who
sleeps is either not needed or about to be notified.

*Battle flow.* Requests live on after the call that made them, in `late` and in the
workers' hands, so the invariant says of every request under way what was true when
it was made and stays true: a settlement is of a battle that has ended, an end is of a
battle that was created (`Fits`). Ended battles stay ended, which makes these facts
stable. Each handler is shown to keep the backends well formed (`BackendsOK`) and never
to take a room from its battle; each gateway action is then a choice of requests.

*While every call is answered* (`lost = 0`) more holds, and `AnsweredInv` states it on top
of that invariant. Starting a battle takes two calls and settling it one per player,
so in the middle the parts disagree; the invariant says how far. `RoutesOK`: a room's
battle is the one the gateway routes, or the one whose creation is under way, or one that
never got an instance.
`NamesOK`: a battle is created only under a number the Room backend has given out,
and once; a second creation would bring an ended battle to life. `PayOK`: the keys the
gateway has marked are those on the leaderboard and the one under way, and of a battle
that is over all players are paid, none is, or the rest is in the call's scores. For this
the scores of an input's completion, which waits in a queue while other commands run,
must still be those of the battle it ended. One lost reply breaks both theorems, as it does
in the code, which is why the properties are stated for `lost = 0`.

*Backup vault.* A run may time out while the vault still stores its upload, so that a
backup turns up after its run has failed; `UploadsOK` says that a run's backup is
uploaded at most once and that until it is published the vault has never held it
(`Unseen`), which is what keeps a late copy from replacing one that was quarantined or
deleted. `ReportsOK` carries "accounted for" (`Accounted`) from the publication over the
answer and the run's memory to its summary, and every step that moves or deletes copies
keeps it: a move changes the place, and a destruction is on record (`DestroysOK`).
Retention plans once and then moves copy by copy; `MovesOK` says that the plan stays
right meanwhile, because the lock keeps everybody else out. That the plan is right to begin
with (`RetentionSpares`) is counting: the newest copy is among the newest daily ones,
and of the known-good copies that count no two have the same restore target, so that
keeping `MinimumKnownGood` of them keeps as many targets. By `ImplementsVault` both theorems
hold of the restore drill's composition as well.

*Restore drill.* The evidence is followed from the validated copy over the bundle, the
staged files and the tool's memory to the two summaries (`DrillOK`), together with the
Docker objects of each run: what exists of a business run's flow is remembered by
the run until the teardown, and nothing of it exists after. A tool touches only
what carries its own id, so a step is split into its own run and the others, which do not
change. `AttestOK` adds that an attestation, also one being written, rests on a drill;
drills never go away, because summaries are create-only. With that, every step of the
tools is a stutter of the vault or its drill step.

*Canary and windows.* Evidence passes through many hands: the sample a run writes, the
watchdog that judges it, the heartbeat made of the watchdog's result, the window's inputs,
aggregate, receipt and final. `CanaryInv` says of each hand, also while a service is in the
middle, that a passing sample is of a flow the gateway served and that a success made of it
is for that minute. The watchdog that runs while the heartbeat is activated is the
exception, and there is one (`LoneOK`): a watchdog started before the activation is the only one
under way, and after it all are told to require a sample. `DirectoryOK` follows a
window's documents: an aggregate that passes counts only minutes that were served,
whichever attempt of the finalizer wrote it, and a final stands on one that passed.
For the drill, a heartbeat on its way when the timer is stopped is what could break the
silence; `DrillOK` has none under way (`Quiet`) once the stop is recorded.

*Only model-checked.* The properties of the lifecycle and soak runs, `FailureIsHeard`, the
rest of `AttestedDrillWasReal`, and `WithinLimit`, which compares a sum over all copies and
records with the limit and would need induction over data.
Out of the prover's reach, and so with TLC in any case: liveness under fairness
(`AppendReturns`, `CallsReturn`, `CloseReturns`, `InterruptedIsSettled`, `LockIsReleased`)
and `ENABLED`, induction over data (what a recursive definition computes for every input), and modules with `RECURSIVE` operators.
`UnhealthyIsFrozen`, `TermNeverDecreases`, `LeadersBacked`, `StatusTracksBattle` and the
type invariants of the proved modules are proved, and no run repeats them.

## 7. What is not modelled

`components` in `PROJECT.json` lists every part with its status. Of the modelled parts,
these are left out: capability negotiation, the memory-only mode and malformed
replies of Raft; login takeover, matchmaking pushes, replay and the bridge-less mode of
the gateway; the locking inside the Battle backend's instances; a vault
without `.vault.lock`, which `remote_store` and `create_known_good_attestation` still serve
without a lock and without a limit (`backup_recovery.py:896` and `:1500`): there nothing keeps
two commands apart, and the vault's properties are not claimed; restarts of backends;
encryption, archives and measured numbers of the tooling, which are data.
Not modelled because there is no protocol in them: byte formats, game arithmetic,
configuration, diagnostics, file, SQL and HTTP access, and text checks over the
repository.

Things met on the way that are not stated as properties:

- Acknowledged Raft entries do not always survive a change of leader, because a follower
  reports its whole log as matching (`raft.cpp:650`) and the quorum counts the leader twice
  (`raft.cpp:775`); the second is what `raft_committed_agree` shows.
- `docs/deployment/external-business-canary-runbook.md:56` has the watchdog retry an
  undelivered failure "until one delivery succeeds". The code looks at the newest sample
  only: once the next sample passes, the alert is not sent again
  (`external_business_canary.py:1101-1130`). What then remains is the heartbeat: the watchdog that
  judged the failed sample fails, and its reporter tells the provider. `FailureIsHeard` says
  that this happens before the next sample is due, for samples of the timer once the heartbeat is active. It does not cover
  samples made by hand or before the activation, nor a failure whose one watchdog is killed
  or whose ping is lost as well.
- A room whose battle the full Battle backend refused to create stays in that battle: the
  gateway answers with an error and tells the Room backend nothing (`runtime.cpp:1132`).
- A service can be left behind without having been told to stop. The release baseline's
  timeout kills the collector and not its services, and a service whose start raises is in
  no list of the collector's (`OrphansWereSignalled` names both exceptions).
- Such a service answers for a later run, because `wait_tcp_port` accepts any listener. R4
  notices a gateway or a leaderboard of another commit by the comparisons of the business
  collection, which find that nothing was restarted behind the port. It does not notice a
  battle backend, whose check compares the ids of the processes that were started and not of
  the one that answers. And R4 runs even when the collectors failed
  (`long-soak-capacity.yml:331`): a business summary that an earlier run of the same commit
  left is accepted, and then the capacity may have been measured on services of another
  commit. `AttestedServicesAreOwn` is stated for business summaries of R4's own run for
  this reason.

## 8. Next

| Part | What to model | What to prove |
|---|---|---|
| Raft | state-file migration and downgrade; the replicated Leaderboard and Matchmaking | what committed entries keep once the quorum counts each node once |
| Battle flow | login takeover; restarts of backends | what one lost reply can leave behind |
| Release tooling | the recovery drill and the evidence gates that judge it | the pointers and journals of the lifecycle |
| Transport, processes | circuit breaker, connection pool, supervisor | the pool's bound |

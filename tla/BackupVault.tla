---------------------------- MODULE BackupVault ----------------------------
(* Scheduled backups of the source host and the off-host vault that keeps     *)
(* them (scripts/lib/backup_recovery.py, backup_vault.py and the tools around *)
(* them).  One job at a time encrypts a snapshot and uploads it; on the vault *)
(* the receiver, the attestation writer and the retention runner take turns   *)
(* under .vault.lock.  Either side may be killed between any two steps, and a *)
(* copy may decay.  A digest is the value it is the digest of, so a binding   *)
(* between documents is an equality of fields; bytes are counted in units.    *)
EXTENDS Integers, FiniteSets, FiniteSetsExt, Sequences

CONSTANTS
    N,                  \* bound on scheduled runs; run i makes backup i
    Before,             \* the first runs, whose backups are in the vault at the start
    Weekly,             \* the runs that fall on the weekly day
    Deployment,         \* deployments the current link may name
    Restore,            \* restore ids an operator may use
    SourceEntries,      \* kinds of entries the policy sources may hold
    DailyCopies, WeeklyCopies, MinimumKnownGood,
    MaxVault,           \* DEFAULT_MAX_VAULT_BYTES
    MaxKills, MaxDecay, \* bounds on kills and on copies that decay
    MaxRedeploys,       \* bound on lifecycle commands that switch current
    MaxDrills,          \* bound on drills per backup
    MaxRetentions,      \* bound on retention runs that reach their intent
    None, Refused

ASSUME RetentionCounts ==
    DailyCopies \in Nat \ {0} /\ WeeklyCopies \in Nat \ {0}
    /\ MinimumKnownGood \in Nat /\ MinimumKnownGood >= 2

ASSUME RunsAssumption == N \in Nat /\ Before \in 0 .. N

ASSUME DeploymentAssumption == Deployment # {}

Ids == 0 .. N           \* newer is larger; 0 is left from another vault
Damaged == N + 1        \* the digest of an archive that decayed

\* A directory of backups/: what its archive is, what its manifest binds, and
\* the identity of the vault its receipt names.
Dir == [archive : 0 .. N + 1, manifest : Deployment, vault : {"this", "other"}]

ASSUME MarksAssumption ==
    None \notin Dir /\ Refused \notin Dir /\ None # Refused

\* Units of a stored backup and of a known-good attestation.
CandidateBytes == 3     \* archive, manifest and the receipt reservation
AttestationBytes == 3   \* copied summaries, attestation and its marker

VARIABLES
    deployment,         \* the record that current/record.json resolves to
    lifecycle,          \* who holds the lifecycle lock of the source host
    job,                \* the scheduled run and the manifest it wrote
    summary,            \* [Ids -> the create-only summary of that run]
    frame,              \* upload the vault has not begun to read
    answer,             \* what the SSH session returned
    op,                 \* the operation that holds .vault.lock
    backups, trash,     \* [Ids -> directory or None]
    incoming,           \* bytes under .incoming
    knownGood,          \* [Ids -> attestation directory or None]
    deletions,          \* deletion records, oldest first
    validated,          \* backups with a passed vault validation summary
    drills,             \* [Ids -> restore ids with passed drill summaries]
    kills, decay, redeploys

hostVars == <<deployment, lifecycle, job, summary, redeploys>>
wireVars == <<frame, answer>>
vaultVars == <<backups, trash, incoming, knownGood, deletions>>
evidenceVars == <<validated, drills>>
faultVars == <<kills, decay>>
vars == <<hostVars, wireVars, op, vaultVars, evidenceVars, faultVars>>

NoJob == [pc |-> "idle", id |-> 0, manifest |-> None]
NoSummary == [status |-> "none", manifest |-> None]
NoOp ==
    [kind |-> "none", id |-> 0, pc |-> "idle", manifest |-> None, restore |-> None,
     doomed |-> {}]

TypeOK ==
    /\ deployment \in Deployment
    /\ lifecycle \in {"free", "backup"}
    /\ job \in [pc : {"idle", "locked", "encrypted", "bound", "waiting", "received"},
                id : Ids, manifest : Deployment \cup {None}]
    /\ summary \in [Ids -> [status : {"none", "passed", "failed"},
                            manifest : Deployment \cup {None}]]
    /\ frame \in [id : Ids, manifest : Deployment] \cup {None}
    /\ answer \in Dir \cup {None, Refused}
    /\ op \in [kind : {"none", "store", "attest", "retention"}, id : Ids,
               pc : {"idle", "archive", "manifest", "receipt", "publish",
                     "copy", "write", "finish", "move", "destroy"},
               manifest : Deployment \cup {None},
               restore : Restore \cup {None}, doomed : SUBSET Ids]
    /\ backups \in [Ids -> Dir \cup {None}]
    /\ trash \in [Ids -> Dir \cup {None}]
    /\ incoming \in 0 .. CandidateBytes * (MaxKills + 1)
    /\ knownGood \in [Ids -> [restore : Restore, files : 0 .. 2,
                              marker : BOOLEAN] \cup {None}]
    /\ \A k \in DOMAIN deletions :
          deletions[k] \in [ids : SUBSET Ids, retained : SUBSET Ids, done : BOOLEAN]
    /\ validated \subseteq Ids
    /\ drills \in [Ids -> SUBSET Restore]
    /\ kills \in 0 .. MaxKills /\ decay \in 0 .. MaxDecay

----------------------------------------------------------------------------
(* What the code checks.                                                      *)

Held(area) == {i \in Ids : area[i] # None}

\* validated_symbolic_link: a link has to lead into a policy source.
LinkAccepted(entry) == entry = "link_into_source"

\* collect_source_entries, add_link_free_tar_entry: files and directories are
\* archived, accepted links are recorded as metadata, anything else stops it.
SourcesAccepted(tree) ==
    \A e \in tree : e \in {"file", "directory"} \/ LinkAccepted(e)

\* stage_redis_snapshot, policy_sources: the staged snapshot and whatever the
\* policy's paths hold at that moment.
PolicyTree(entries) == {"file", "directory"} \cup entries

\* retention_classes.
Classes(i) == {"daily"} \cup (IF i \in Weekly THEN {"weekly"} ELSE {})

\* validate_manifest_binding, with the archive digest of the header.
ManifestBinds(i, dir) == dir.archive = i

\* verify_remote_receipt: the receipt repeats what the host uploaded, from the
\* vault whose identity the host attests.
VerifyRemoteReceipt(i, receipt) ==
    /\ ManifestBinds(i, receipt)
    /\ receipt.manifest = job.manifest
    /\ receipt.vault = "this"

\* verified_vault_records: complete, undamaged, with a receipt of this vault.
VaultRecords ==
    {i \in Held(backups) : ManifestBinds(i, backups[i]) /\ backups[i].vault = "this"}

\* logical_regular_file_bytes of the vault.
KnownGoodBytes(kg) ==
    IF kg = None THEN 0 ELSE kg.files + (IF kg.marker THEN 1 ELSE 0)

VaultBytes ==
    CandidateBytes * (Cardinality(Held(backups)) + Cardinality(Held(trash)))
    + incoming
    + MapThenSumSet(LAMBDA i : KnownGoodBytes(knownGood[i]), Ids)
    + MapThenSumSet(LAMBDA k : IF deletions[k].done THEN 2 ELSE 1, DOMAIN deletions)

\* Mutant: the limit is compared with what is stored, without the candidate.
CapacityWithoutReservation(reservation) == VaultBytes <= MaxVault

\* _known_good_capacity_snapshot and the reservation of _remote_store_locked.
CapacityFor(reservation) == VaultBytes + reservation <= MaxVault


\* The newest n of a set of backups.
NewestOf(S, n) == {i \in S : Cardinality({j \in S : j > i}) < n}

\* load_known_good_attestation: the exact inventory, still bound to its backup.
Attested ==
    {i \in VaultRecords :
        knownGood[i] # None /\ knownGood[i].files = 2 /\ ~knownGood[i].marker}

\* Mutant: every attestation counts, also two of one restore target.
KnownGoodWithRepeats == Attested

\* plan_remote_retention: an attestation whose restore target a newer one
\* already proved does not count.
KnownGoodCounted ==
    {i \in Attested :
        \A j \in Attested : j > i => knownGood[j].restore # knownGood[i].restore}

Retained ==
    NewestOf(KnownGoodCounted, MinimumKnownGood)
    \cup NewestOf({i \in VaultRecords : "daily" \in Classes(i)}, DailyCopies)
    \cup NewestOf({i \in VaultRecords : "weekly" \in Classes(i)}, WeeklyCopies)

\* latest_verified_anchor: retention runs only over a verified newest copy.
AnchorExists == VaultRecords # {}

\* run_retention: enough known-good copies, and what is kept with the evidence
\* of the deletion fits the limit.
RetentionAllowed ==
    /\ AnchorExists
    /\ Cardinality(KnownGoodCounted) >= MinimumKnownGood
    /\ VaultBytes - CandidateBytes * Cardinality(VaultRecords \ Retained) + 2
         <= MaxVault

\* Mutant: nobody asks for the drill summaries.
KnownGoodWithoutDrill(i, r) == i \in VaultRecords /\ i \in validated

\* validate_known_good_sources: the copy is verified, its vault validation
\* passed, and the drill summaries name this backup and its restore.
KnownGoodSources(i, r) == i \in VaultRecords /\ i \in validated /\ r \in drills[i]

----------------------------------------------------------------------------
(* The scheduled run on the source host.                                      *)

Init ==
    /\ deployment = CHOOSE d \in Deployment : TRUE
    /\ lifecycle = "free"
    /\ job = [NoJob EXCEPT !.id = Before]
    /\ summary = [i \in Ids |-> IF i \in 1 .. Before
           THEN [status |-> "passed", manifest |-> deployment] ELSE NoSummary]
    /\ frame = None /\ answer = None
    /\ op = NoOp
    /\ backups = [i \in Ids |-> IF i <= Before
           THEN [archive |-> i, manifest |-> deployment,
                 vault |-> IF i = 0 THEN "other" ELSE "this"]
           ELSE None]
    /\ trash = [i \in Ids |-> None]
    /\ incoming = 0
    /\ knownGood = [i \in Ids |-> None]
    /\ deletions = <<>>
    /\ validated = {} /\ drills = [i \in Ids |-> {}]
    /\ kills = 0 /\ decay = 0 /\ redeploys = 0

\* A lifecycle command switches current while the lock is its own.
Redeploy ==
    /\ lifecycle = "free" /\ redeploys < MaxRedeploys
    /\ deployment' \in Deployment \ {deployment}
    /\ redeploys' = redeploys + 1
    /\ UNCHANGED <<lifecycle, job, summary, wireVars, op, vaultVars, evidenceVars, faultVars>>

\* The end of a run: its create-only summary, and the lock if it was held.
EndRun(report) ==
    /\ summary' = [summary EXCEPT ![job.id] = report]
    /\ job' = [NoJob EXCEPT !.id = job.id]
    /\ lifecycle' = IF job.pc = "locked" THEN "free" ELSE lifecycle
    /\ frame' = None /\ answer' = None

FailRun == EndRun([NoSummary EXCEPT !.status = "failed"])

\* run_scheduled_backup, create_encrypted_backup up to the lifecycle lock.
StartBackup ==
    /\ job.pc = "idle" /\ job.id < N
    /\ lifecycle = "free"
    /\ lifecycle' = "backup"
    /\ job' = [NoJob EXCEPT !.pc = "locked", !.id = job.id + 1]
    /\ UNCHANGED <<deployment, redeploys, summary, wireVars, op, vaultVars, evidenceVars, faultVars>>

\* Under the lock: stage_redis_snapshot, policy_sources, build_plain_archive and
\* encrypt_archive; the archive appears complete, and the lock is released.
CreateArchive ==
    /\ job.pc = "locked"
    /\ \E entries \in SUBSET SourceEntries :
         \/ /\ SourcesAccepted(PolicyTree(entries))
            /\ job' = [job EXCEPT !.pc = "encrypted"]
            /\ lifecycle' = "free"
            /\ UNCHANGED <<summary, wireVars>>
         \/ FailRun
    /\ UNCHANGED <<deployment, redeploys, op, vaultVars, evidenceVars, faultVars>>

\* After the lock: the manifest binds whatever deployment is current by now, or
\* the identity, the deployment record or the write fails the run.
BindManifest ==
    /\ job.pc = "encrypted"
    /\ \/ /\ job' = [job EXCEPT !.pc = "bound", !.manifest = deployment]
          /\ UNCHANGED <<lifecycle, summary, wireVars>>
       \/ FailRun
    /\ UNCHANGED <<deployment, redeploys, op, vaultVars, evidenceVars, faultVars>>

\* upload_remote: the frame goes out on one SSH session.
SendFrame ==
    /\ job.pc = "bound"
    /\ job' = [job EXCEPT !.pc = "waiting"]
    /\ frame' = [id |-> job.id, manifest |-> job.manifest]
    /\ UNCHANGED <<deployment, redeploys, lifecycle, summary, answer, op, vaultVars,
                   evidenceVars, faultVars>>

\* The session returned: the receipt is verified and written create-only.
TakeReceipt ==
    /\ job.pc = "waiting" /\ answer # None
    /\ IF answer # Refused /\ VerifyRemoteReceipt(job.id, answer)
       THEN /\ job' = [job EXCEPT !.pc = "received"]
            /\ UNCHANGED <<lifecycle, summary, wireVars>>
       ELSE FailRun
    /\ UNCHANGED <<deployment, redeploys, op, vaultVars, evidenceVars, faultVars>>

\* The scheduler validates the result and writes the passed summary.
ReportBackup ==
    /\ job.pc = "received"
    /\ EndRun([status |-> "passed", manifest |-> job.manifest])
    /\ UNCHANGED <<deployment, redeploys, op, vaultVars, evidenceVars, faultVars>>

\* The timeouts of the SSH session and of the scheduler: the engine is killed
\* and the run fails, whatever the vault has made of the upload.
TimeoutBackup ==
    /\ job.pc \in {"locked", "waiting"}
    /\ FailRun
    /\ UNCHANGED <<deployment, redeploys, op, vaultVars, evidenceVars, faultVars>>

\* The source host goes down: no summary, artefacts stay, locks are released.
KillBackup ==
    /\ job.pc # "idle" /\ kills < MaxKills
    /\ job' = [NoJob EXCEPT !.id = job.id]
    /\ lifecycle' = IF job.pc = "locked" THEN "free" ELSE lifecycle
    /\ frame' = None /\ answer' = None
    /\ kills' = kills + 1
    /\ UNCHANGED <<deployment, redeploys, summary, op, vaultVars, evidenceVars, decay>>

----------------------------------------------------------------------------
(* The vault: one operation at a time under .vault.lock.                      *)

\* The session's answer reaches the run only while that run waits for it.
Reply(i, reply) ==
    answer' = IF job.pc = "waiting" /\ job.id = i THEN reply ELSE answer

\* remote_store: the header, the capacity reservation and the create-only check,
\* with the free-space floor of the file system as the environment's choice.
StoreBegin ==
    /\ op = NoOp /\ frame # None
    /\ frame' = None
    /\ \/ /\ CapacityFor(CandidateBytes) /\ backups[frame.id] = None
          /\ op' = [NoOp EXCEPT !.kind = "store", !.id = frame.id, !.pc = "archive",
                                !.manifest = frame.manifest]
          /\ UNCHANGED answer
       \/ Reply(frame.id, Refused) /\ UNCHANGED op
    /\ UNCHANGED <<hostVars, vaultVars, evidenceVars, faultVars>>

\* Bytes of the temporary directory that the running store has written.
StoreWritten ==
    CASE op.pc = "archive" -> 0 [] op.pc = "manifest" -> 1
      [] op.pc = "receipt" -> 2 [] op.pc = "publish" -> 3

\* copy_exact of the archive and of the manifest, then the readback digests,
\* validate_manifest_binding and the receipt: each file adds its bytes.
StoreWrite ==
    /\ op.kind = "store" /\ op.pc # "publish"
    /\ incoming' = incoming + 1
    /\ op' = [op EXCEPT !.pc = CASE op.pc = "archive" -> "manifest"
                                 [] op.pc = "manifest" -> "receipt"
                                 [] op.pc = "receipt" -> "publish"]
    /\ UNCHANGED <<hostVars, wireVars, backups, trash, knownGood, deletions,
                   evidenceVars, faultVars>>

\* A truncated, altered or overlong stream, the store timeout, a full disk: the
\* temporary directory is removed and the session fails.
StoreFails ==
    /\ op.kind = "store"
    /\ incoming' = incoming - StoreWritten
    /\ Reply(op.id, Refused)
    /\ op' = NoOp
    /\ UNCHANGED <<hostVars, frame, backups, trash, knownGood, deletions,
                   evidenceVars, faultVars>>

\* The completed candidate is measured again and renamed into backups/.
StorePublish ==
    /\ op.kind = "store" /\ op.pc = "publish"
    /\ CapacityFor(0)
    /\ LET dir == [archive |-> op.id, manifest |-> op.manifest, vault |-> "this"]
       IN  backups' = [backups EXCEPT ![op.id] = dir] /\ Reply(op.id, dir)
    /\ incoming' = incoming - CandidateBytes
    /\ op' = NoOp
    /\ UNCHANGED <<hostVars, frame, trash, knownGood, deletions, evidenceVars, faultVars>>

\* verify_backup decrypts and checks a copy without the lock and writes a
\* create-only summary.
ValidateBackup(i) ==
    /\ i \in VaultRecords \ validated
    /\ validated' = validated \cup {i}
    /\ UNCHANGED <<hostVars, wireVars, op, vaultVars, drills, faultVars>>

\* A restore of validated backup i under restore id r, and the business check on
\* the restored volume, both passed.
Drill(i, r) ==
    /\ i \in validated /\ r \notin drills[i]
    /\ Cardinality(drills[i]) < MaxDrills
    /\ drills' = [drills EXCEPT ![i] = @ \cup {r}]
    /\ UNCHANGED <<hostVars, wireVars, op, vaultVars, validated, faultVars>>

\* create_known_good_attestation: sources, reservation, and the create-only
\* directory with its marker.
AttestBegin(i, r) ==
    /\ op = NoOp
    /\ KnownGoodSources(i, r) /\ CapacityFor(AttestationBytes)
    /\ knownGood[i] = None
    /\ knownGood' = [knownGood EXCEPT ![i] = [restore |-> r, files |-> 0, marker |-> TRUE]]
    /\ op' = [NoOp EXCEPT !.kind = "attest", !.id = i, !.pc = "copy", !.restore = r]
    /\ UNCHANGED <<hostVars, wireVars, backups, trash, incoming, deletions,
                   evidenceVars, faultVars>>

\* The copied summaries are validated again; then attestation.json is written.
AttestWrite ==
    /\ op.kind = "attest" /\ op.pc \in {"copy", "write"}
    /\ op.pc = "write" => KnownGoodSources(op.id, op.restore)
    /\ knownGood' = [knownGood EXCEPT ![op.id].files = @ + 1]
    /\ op' = [op EXCEPT !.pc = IF op.pc = "copy" THEN "write" ELSE "finish"]
    /\ UNCHANGED <<hostVars, wireVars, backups, trash, incoming, deletions,
                   evidenceVars, faultVars>>

\* Within the limit at the peak, the marker goes and the attestation is complete.
AttestFinish ==
    /\ op.kind = "attest" /\ op.pc = "finish" /\ CapacityFor(0)
    /\ IF knownGood[op.id].marker
       THEN knownGood' = [knownGood EXCEPT ![op.id].marker = FALSE] /\ UNCHANGED op
       ELSE UNCHANGED knownGood /\ op' = NoOp
    /\ UNCHANGED <<hostVars, wireVars, backups, trash, incoming, deletions,
                   evidenceVars, faultVars>>

\* Any failure, the free-space floor after completion included, removes it all.
AttestFails ==
    /\ op.kind = "attest"
    /\ knownGood' = [knownGood EXCEPT ![op.id] = None]
    /\ op' = NoOp
    /\ UNCHANGED <<hostVars, wireVars, backups, trash, incoming, deletions,
                   evidenceVars, faultVars>>

\* run_retention up to prune_remote's quarantine directory.
RetentionBegin ==
    /\ op = NoOp /\ Len(deletions) < MaxRetentions
    /\ RetentionAllowed
    /\ op' = [NoOp EXCEPT !.kind = "retention", !.pc = "move",
                          !.doomed = VaultRecords \ Retained]
    /\ UNCHANGED <<hostVars, wireVars, vaultVars, evidenceVars, faultVars>>

ToMove == op.doomed \cap Held(backups)

\* prune_remote: the doomed directories are renamed into the quarantine, newest
\* first.
RetentionMove ==
    /\ op.kind = "retention" /\ op.pc = "move" /\ ToMove # {}
    /\ LET i == Max(ToMove)
       IN  /\ trash' = [trash EXCEPT ![i] = backups[i]]
           /\ backups' = [backups EXCEPT ![i] = None]
    /\ UNCHANGED <<hostVars, wireVars, op, incoming, knownGood, deletions,
                   evidenceVars, faultVars>>

\* A rename or the write of the intent fails: what was moved is moved back.
RetentionUndo ==
    /\ op.kind = "retention" /\ op.pc = "move"
    /\ backups' = [i \in Ids |-> IF i \in op.doomed \ ToMove THEN trash[i] ELSE backups[i]]
    /\ trash' = [i \in Ids |-> IF i \in op.doomed THEN None ELSE trash[i]]
    /\ op' = NoOp
    /\ UNCHANGED <<hostVars, wireVars, incoming, knownGood, deletions,
                   evidenceVars, faultVars>>

\* The create-only intent names what is quarantined and what is retained.
RetentionIntent ==
    /\ op.kind = "retention" /\ op.pc = "move" /\ ToMove = {}
    /\ deletions' = Append(deletions, [ids |-> op.doomed, retained |-> Retained,
                                       done |-> FALSE])
    /\ op' = [op EXCEPT !.pc = "destroy"]
    /\ UNCHANGED <<hostVars, wireVars, backups, trash, incoming, knownGood,
                   evidenceVars, faultVars>>

\* rmtree of the quarantine, one backup at a time.
RetentionDestroy ==
    /\ op.kind = "retention" /\ op.pc = "destroy"
    /\ \E i \in op.doomed \cap Held(trash) : trash' = [trash EXCEPT ![i] = None]
    /\ UNCHANGED <<hostVars, wireVars, op, backups, incoming, knownGood, deletions,
                   evidenceVars, faultVars>>

\* rmtree fails: the quarantine stays for manual recovery, without completion.
RetentionStops ==
    /\ op.kind = "retention" /\ op.pc = "destroy"
    /\ op.doomed \cap Held(trash) # {}
    /\ op' = NoOp
    /\ UNCHANGED <<hostVars, wireVars, vaultVars, evidenceVars, faultVars>>

\* Mutant: the completion does not wait until the quarantine is gone.
CompleteEarly ==
    /\ op.kind = "retention" /\ op.pc = "destroy"
    /\ deletions' = [deletions EXCEPT ![Len(deletions)].done = TRUE]
    /\ op' = NoOp
    /\ UNCHANGED <<hostVars, wireVars, backups, trash, incoming, knownGood,
                   evidenceVars, faultVars>>

\* The completion record, and the capacity after it, which can only fail the
\* command.
RetentionComplete ==
    /\ op.kind = "retention" /\ op.pc = "destroy"
    /\ op.doomed \cap Held(trash) = {}
    /\ deletions' = [deletions EXCEPT ![Len(deletions)].done = TRUE]
    /\ op' = NoOp
    /\ UNCHANGED <<hostVars, wireVars, backups, trash, incoming, knownGood,
                   evidenceVars, faultVars>>

\* The holder of .vault.lock is killed: the lock is free, its files stay.
KillVault ==
    /\ op # NoOp /\ kills < MaxKills
    /\ op' = NoOp
    /\ kills' = kills + 1
    /\ UNCHANGED <<hostVars, wireVars, vaultVars, evidenceVars, decay>>

\* A stored archive decays between two operations.
Decay(i) ==
    /\ op = NoOp /\ decay < MaxDecay
    /\ i \in VaultRecords
    /\ backups' = [backups EXCEPT ![i].archive = Damaged]
    /\ decay' = decay + 1
    /\ UNCHANGED <<hostVars, wireVars, op, trash, incoming, knownGood, deletions,
                   evidenceVars, kills>>

JobStep ==
    CreateArchive \/ BindManifest \/ SendFrame \/ TakeReceipt \/ ReportBackup
    \/ TimeoutBackup

StoreStep == StoreWrite \/ StoreFails \/ StorePublish
AttestStep == AttestWrite \/ AttestFinish \/ AttestFails
RetentionStep ==
    RetentionMove \/ RetentionUndo \/ RetentionIntent \/ RetentionDestroy
    \/ RetentionStops \/ RetentionComplete

\* What takes the lifecycle lock of the source host, and everything else but
\* the drills.
LockStep == Redeploy \/ StartBackup
OtherStep ==
    \/ JobStep \/ KillBackup \/ StoreBegin \/ StoreStep
    \/ \E i \in Ids : ValidateBackup(i) \/ Decay(i)
    \/ \E i \in Ids, r \in Restore : AttestBegin(i, r)
    \/ AttestStep \/ RetentionBegin \/ RetentionStep \/ KillVault

Next == LockStep \/ OtherStep \/ \E i \in Ids, r \in Restore : Drill(i, r)

Spec == Init /\ [][Next]_vars

----------------------------------------------------------------------------
(* Properties.                                                                *)

Gone(i) == backups[i] # None /\ backups'[i] = None

\* A step that takes a copy out of backups/ takes only a copy it could verify, of
\* this vault, and leaves the newest verified copy, and enough known-good copies
\* restored into different targets, where they are.
RemovalKeepsRestorable ==
    [][\A i \in Ids : Gone(i) =>
          /\ backups[i].archive = i /\ backups[i].vault = "this"
          /\ backups'[Max(VaultRecords)] # None
          /\ Cardinality({knownGood[j].restore :
                 j \in {k \in Attested : backups'[k] # None}}) >= MinimumKnownGood]_vars

\* A copy that a passed summary vouches for is in the vault with the manifest of
\* that run, is in quarantine, or a deletion record names it; a completion
\* record is never written over a copy that still exists.
PassedIsAccountedFor ==
    /\ \A i \in Ids : summary[i].status = "passed" =>
          \/ backups[i] # None /\ backups[i].manifest = summary[i].manifest
          \/ trash[i] # None
          \/ \E k \in DOMAIN deletions : i \in deletions[k].ids
    /\ \A k \in DOMAIN deletions : deletions[k].done =>
          \A i \in deletions[k].ids : backups[i] = None /\ trash[i] = None

\* The vault stays within its limit; only the intent of a deletion that has not
\* completed may exceed it.
WithinLimit ==
    VaultBytes <= MaxVault
                  + Cardinality({k \in DOMAIN deletions : ~deletions[k].done})
============================================================================

------------------------- MODULE BackupVaultProofs --------------------------
(***************************************************************************)
(* Backups and the vault, for any number of runs, deployments, restores,   *)
(* kills and decayed copies: a backup that a passed summary vouches for is  *)
(* accounted for, and retention leaves what a restore needs.               *)
(***************************************************************************)
EXTENDS BackupVault, FiniteSetTheorems, TLAPS

\* Zenon is tried before the SMT solver, which is given more time than by default.
USE ZenonT(5), SMTT(30)

-----------------------------------------------------------------------------
(* The inductive invariant.                                                *)

Jobs == [pc : {"idle", "locked", "encrypted", "bound", "waiting", "received"},
         id : Ids, manifest : Deployment \cup {None}]
Summaries == [status : {"none", "passed", "failed"}, manifest : Deployment \cup {None}]
Frames == [id : Ids, manifest : Deployment]
Ops == [kind : {"none", "store", "attest", "retention"}, id : Ids,
        pc : {"idle", "archive", "manifest", "receipt", "publish",
              "copy", "write", "finish", "move", "destroy"},
        manifest : Deployment \cup {None},
        restore : Restore \cup {None}, doomed : SUBSET Ids]
Deletions == [ids : SUBSET Ids, retained : SUBSET Ids, done : BOOLEAN]

HostTypes ==
    /\ deployment \in Deployment /\ job \in Jobs
    /\ job.pc \in {"bound", "waiting", "received"} => job.manifest \in Deployment
    /\ summary \in [Ids -> Summaries]
    /\ frame \in Frames \cup {None}
VaultTypes ==
    /\ op \in Ops
    /\ op.kind = "store" =>
          op.manifest \in Deployment /\ op.pc \in {"archive", "manifest", "receipt", "publish"}
    /\ backups \in [Ids -> Dir \cup {None}] /\ trash \in [Ids -> Dir \cup {None}]
    /\ deletions \in Seq(Deletions)

\* In a vault with backups b, quarantine t and deletion records d: backup i with
\* manifest m is stored, is in quarantine, or was deleted on record.
Accounted(b, t, d, i, m) ==
    \/ b[i] # None /\ b[i].manifest = m
    \/ t[i] # None /\ t[i].manifest = m
    \/ \E k \in DOMAIN d : i \in d[k].ids

\* Such a vault has never held backup i.
Unseen(b, t, d, i) ==
    /\ b[i] = None /\ t[i] = None
    /\ \A k \in DOMAIN d : i \notin d[k].ids

\* A backup is in one place, and in none once its deletion is complete.
CopiesOK ==
    /\ \A i \in Ids : backups[i] # None => trash[i] = None
    /\ \A k \in DOMAIN deletions : deletions[k].done =>
          \A i \in deletions[k].ids : backups[i] = None /\ trash[i] = None

\* Every run uploads its backup at most once, however late the vault stores it.
Early == {"locked", "encrypted", "bound"}
UploadsOK ==
    /\ \A i \in Ids : i > job.id => Unseen(backups, trash, deletions, i)
    /\ job.pc \in Early => Unseen(backups, trash, deletions, job.id)
    /\ frame # None =>
          /\ job.pc = "waiting" /\ frame.id = job.id
          /\ Unseen(backups, trash, deletions, job.id)
    /\ op.kind = "store" =>
          /\ op.id <= job.id /\ Unseen(backups, trash, deletions, op.id)
          /\ frame # None \/ job.pc \in Early => op.id # job.id

\* What a run was told, and reports, is of a backup that is accounted for.
ReportsOK ==
    /\ \A i \in Ids : summary[i].status = "passed" =>
          Accounted(backups, trash, deletions, i, summary[i].manifest)
    /\ answer # None => job.pc \in {"waiting", "received"} /\ frame = None
    /\ answer # None /\ answer # Refused =>
          Accounted(backups, trash, deletions, job.id, answer.manifest)
    /\ job.pc = "received" =>
          Accounted(backups, trash, deletions, job.id, job.manifest)

\* Without the backups of S the newest verified copy is still there, and so are
\* enough known-good ones.
Restorable(S) ==
    /\ \E m \in VaultRecords \ S : \A j \in VaultRecords : j <= m
    /\ Cardinality({knownGood[j].restore : j \in Attested \ S}) >= MinimumKnownGood

\* Retention under way: what it moves was verified and can be spared, and what it
\* destroys is on record.
MovesOK ==
    op.kind = "retention" /\ op.pc # "destroy" =>
        /\ \A i \in op.doomed :
              /\ backups[i] # None \/ trash[i] # None
              /\ backups[i] # None => i \in VaultRecords
        /\ Restorable(op.doomed)
DestroysOK ==
    op.kind = "retention" /\ op.pc = "destroy" =>
        /\ Len(deletions) > 0 /\ deletions[Len(deletions)].ids = op.doomed
        /\ \A i \in op.doomed : backups[i] = None

VaultInv ==
    /\ HostTypes /\ VaultTypes
    /\ CopiesOK /\ UploadsOK /\ ReportsOK /\ MovesOK /\ DestroysOK

-----------------------------------------------------------------------------
(* The newest backups.                                                     *)

\* Sets of backups are finite.
LEMMA FiniteIds ==
    ASSUME NEW S \in SUBSET Ids
    PROVE  IsFiniteSet(S) /\ Cardinality(S) \in Nat
<1>1. IsFiniteSet(Ids)
  BY RunsAssumption, FS_Interval DEF Ids
<1>2. IsFiniteSet(S)
  BY <1>1, FS_Subset
<1> QED BY <1>2, FS_CardinalityType

\* A set of backups has a newest one.
LEMMA NewestExists ==
    ASSUME NEW S \in SUBSET Ids, S # {}
    PROVE  \E m \in S : \A j \in S : j <= m
<1> DEFINE Above(m) == {j \in S : j > m}
           T == {Above(m) : m \in S}
<1>1. T \subseteq FiniteSubsetsOf(Ids)
  <2> SUFFICES ASSUME NEW m \in S PROVE Above(m) \in FiniteSubsetsOf(Ids)
    OBVIOUS
  <2>1. Above(m) \in SUBSET Ids
    OBVIOUS
  <2> QED BY <2>1, FiniteIds DEF FiniteSubsetsOf
<1>2. T # {}
  OBVIOUS
<1>3. IsWellFoundedOn(StrictSubsetOrdering(Ids), FiniteSubsetsOf(Ids))
  BY FS_StrictSubsetOrderingWellFounded
<1> HIDE DEF T
<1>4. PICK x \in T : \A y \in T : <<y, x>> \notin StrictSubsetOrdering(Ids)
  BY <1>1, <1>2, <1>3, WFMin
<1>5. PICK m \in S : x = Above(m)
  BY DEF T
<1>6. ASSUME NEW j \in S, ~(j <= m) PROVE FALSE
  <2>1. j \in Nat /\ m \in Nat /\ S \subseteq Nat
    BY RunsAssumption DEF Ids
  <2>2. Above(j) \subseteq Above(m) /\ j \in Above(m) /\ j \notin Above(j)
    <3>1. j > m /\ ~(j > j) /\ \A k \in S : k > j => k > m
      BY <1>6, <2>1
    <3> QED BY <3>1
  <2>3. Above(j) \in T /\ Above(j) \in SUBSET Ids /\ x \in SUBSET Ids
    <3>1. Above(j) \in T
      BY DEF T
    <3>2. Above(j) \in SUBSET Ids /\ x \in SUBSET Ids
      BY <1>5
    <3> QED BY <3>1, <3>2
  <2>4. Above(j) \subseteq x /\ Above(j) # x
    BY <1>5, <2>2
  <2> HIDE DEF Above
  <2>5. <<Above(j), x>> \in StrictSubsetOrdering(Ids)
    BY <2>3, <2>4 DEF StrictSubsetOrdering
  <2> QED BY <1>4, <2>3, <2>5
<1> QED BY <1>6

\* Max is that one.
LEMMA MaxIsNewest ==
    ASSUME NEW S \in SUBSET Ids, S # {}
    PROVE  Max(S) \in S /\ \A j \in S : j <= Max(S)
<1>1. S \subseteq Nat
  BY RunsAssumption DEF Ids
<1>2. PICK m \in S : \A j \in S : j <= m
  BY NewestExists
<1>3. \A y \in S : m >= y
  BY <1>1, <1>2
<1>4. Max(S) \in S /\ \A y \in S : Max(S) >= y
  BY <1>3 DEF Max
<1> QED BY <1>1, <1>4

\* Of at least n backups there are n newest ones.
LEMMA NewestAreMany ==
    ASSUME NEW S \in SUBSET Ids, NEW n \in Nat, Cardinality(S) >= n
    PROVE  Cardinality(NewestOf(S, n)) >= n
<1> DEFINE T == NewestOf(S, n)
<1>0. T \subseteq S /\ S \subseteq Nat
  BY RunsAssumption DEF NewestOf, Ids
<1>1. /\ Cardinality(S) \in Nat /\ IsFiniteSet(T) /\ Cardinality(T) \in Nat
      /\ \A A \in SUBSET S : IsFiniteSet(A) /\ Cardinality(A) \in Nat
  BY <1>0, FiniteIds
<1>2. SUFFICES ASSUME Cardinality(T) < n PROVE FALSE
  BY <1>1
<1>3. S \ T # {}
  BY <1>0, <1>1, <1>2
<1>4. PICK x \in S \ T : \A j \in S \ T : j <= x
  BY <1>3, NewestExists
<1>5. {j \in S : j > x} \subseteq T
  <2> HIDE DEF T
  <2>1. ASSUME NEW j \in S, j > x, j \notin T PROVE FALSE
    BY <1>0, <1>4, <2>1
  <2> QED BY <2>1
<1>6. Cardinality({j \in S : j > x}) <= Cardinality(T)
  BY <1>1, <1>5, FS_Subset
<1>7. Cardinality({j \in S : j > x}) < n
  BY <1>1, <1>2, <1>6
<1>8. x \in S
  BY <1>4
<1>9. x \in T
  BY <1>7, <1>8, Zenon DEF NewestOf
<1> QED BY <1>4, <1>9

\* The sets of backups that retention works with.
LEMMA RecordSets ==
    /\ VaultRecords \in SUBSET Ids /\ Attested \subseteq VaultRecords
    /\ KnownGoodCounted \subseteq Attested /\ Retained \subseteq VaultRecords
<1>1. VaultRecords \in SUBSET Ids
  BY DEF VaultRecords, Held
<1>2. Attested \subseteq VaultRecords /\ KnownGoodCounted \subseteq Attested
  BY DEF Attested, KnownGoodCounted
<1>3. \A S, n : NewestOf(S, n) \subseteq S
  BY DEF NewestOf
<1>4. Retained \subseteq VaultRecords
  BY <1>2, <1>3 DEF Retained
<1> QED BY <1>1, <1>2, <1>4

\* plan_remote_retention: what a retention run dooms can be spared.
LEMMA RetentionSpares ==
    ASSUME RetentionAllowed
    PROVE  Restorable(VaultRecords \ Retained)
<1> DEFINE S == VaultRecords \ Retained
           K == NewestOf(KnownGoodCounted, MinimumKnownGood)
           A == Attested \ S
           R == {knownGood[j].restore : j \in A}
<1>1. \E m \in VaultRecords \ S : \A j \in VaultRecords : j <= m
  <2>1. PICK m \in VaultRecords : \A j \in VaultRecords : j <= m
    BY RecordSets, NewestExists DEF RetentionAllowed, AnchorExists
  <2>2. {i \in VaultRecords : "daily" \in Classes(i)} = VaultRecords
    BY DEF Classes
  <2>3. VaultRecords \subseteq Nat
    BY RecordSets, RunsAssumption DEF Ids
  <2>4. {j \in VaultRecords : j > m} = {}
    <3> SUFFICES ASSUME NEW j \in VaultRecords, j > m PROVE FALSE
      OBVIOUS
    <3> QED BY <2>1, <2>3
  <2>5. Cardinality({j \in VaultRecords : j > m}) < DailyCopies
    BY <2>4, FS_EmptySet, RetentionCounts
  <2>6. m \in NewestOf(VaultRecords, DailyCopies)
    BY <2>5 DEF NewestOf
  <2>7. m \in Retained
    BY <2>2, <2>6 DEF Retained
  <2> QED BY <2>1, <2>7
<1>2. K \subseteq A
  <2>1. K \subseteq KnownGoodCounted /\ K \subseteq Retained
    BY DEF NewestOf, Retained
  <2> QED BY <2>1, RecordSets
<1>3. Cardinality(K) >= MinimumKnownGood
  BY RecordSets, RetentionCounts, NewestAreMany DEF RetentionAllowed
<1>4. K \in SUBSET Ids /\ A \in SUBSET Ids
  BY <1>2, RecordSets
<1>5. ASSUME NEW i \in K, NEW j \in K, i # j PROVE knownGood[i].restore # knownGood[j].restore
  <2>1. i \in KnownGoodCounted /\ j \in KnownGoodCounted
    BY DEF NewestOf
  <2>2. i > j \/ j > i
    BY <1>4, <1>5, RunsAssumption DEF Ids
  <2> QED BY <2>1, <2>2 DEF KnownGoodCounted
<1> DEFINE f == [j \in K |-> knownGood[j].restore]
           g == [j \in A |-> knownGood[j].restore]
<1> HIDE DEF K, A
<1>6. g \in Surjection(A, R)
  BY DEF Surjection
<1>7. f \in Injection(K, R)
  <2>1. f \in [K -> R]
    BY <1>2
  <2>2. ASSUME NEW i \in K, NEW j \in K, f[i] = f[j] PROVE i = j
    <3>1. knownGood[i].restore = knownGood[j].restore
      BY <2>2
    <3> QED BY <1>5, <3>1
  <2>3. DOMAIN f = K
    OBVIOUS
  <2> HIDE DEF f, R
  <2>4. IsInjective(f)
    BY <2>2, <2>3 DEF IsInjective
  <2> QED BY <2>1, <2>4 DEF Injection
<1>8. IsFiniteSet(R)
  BY <1>4, <1>6, FiniteIds, FS_Surjection
<1>9. Cardinality(K) <= Cardinality(R)
  BY <1>7, <1>8, FS_Injection
<1>10. Cardinality(K) \in Nat /\ Cardinality(R) \in Nat
  BY <1>4, <1>8, FiniteIds, FS_CardinalityType
<1>11. Cardinality(R) >= MinimumKnownGood
  BY <1>3, <1>9, <1>10, RetentionCounts
<1> QED BY <1>1, <1>11 DEF Restorable, A

-----------------------------------------------------------------------------
(* Steps that leave the vault alone.                                       *)

\* Retention is not disturbed by what leaves the vault alone.
LEMMA SameVault ==
    ASSUME VaultInv, UNCHANGED <<op, backups, trash, knownGood, deletions>>
    PROVE  VaultTypes' /\ CopiesOK' /\ MovesOK' /\ DestroysOK'
<1>1. VaultRecords' = VaultRecords /\ Attested' = Attested
  BY DEF VaultRecords, Attested, Held, ManifestBinds
<1>2. MovesOK'
  BY <1>1 DEF VaultInv, MovesOK, Restorable
<1> QED BY <1>2 DEF VaultInv, VaultTypes, CopiesOK, DestroysOK

\* A step of the source host.
LEMMA HostStep ==
    ASSUME VaultInv, UNCHANGED <<op, vaultVars>>, HostTypes', UploadsOK', ReportsOK'
    PROVE  VaultInv'
<1>1. UNCHANGED <<op, backups, trash, knownGood, deletions>>
  BY DEF vaultVars
<1> QED BY <1>1, SameVault DEF VaultInv

\* EndRun: a run that reports success has its backup accounted for.
LEMMA EndRunKeeps ==
    ASSUME VaultInv, NEW report \in Summaries, EndRun(report),
           report.status = "passed" =>
              Accounted(backups, trash, deletions, job.id, report.manifest),
           UNCHANGED <<deployment, op, vaultVars>>
    PROVE  VaultInv'
<1>1. /\ job \in Jobs /\ job.id \in Ids /\ UNCHANGED <<op, backups, trash, deletions>>
      /\ frame' = None /\ answer' = None
  BY DEF VaultInv, HostTypes, Jobs, EndRun, vaultVars
<1>2. job' \in Jobs /\ job'.id = job.id /\ job'.pc = "idle"
  BY <1>1 DEF EndRun, NoJob, Jobs
<1>3. /\ summary' \in [Ids -> Summaries]
      /\ \A i \in Ids : summary'[i] = IF i = job.id THEN report ELSE summary[i]
  BY <1>1 DEF EndRun, VaultInv, HostTypes
<1>4. HostTypes'
  BY <1>1, <1>2, <1>3 DEF VaultInv, HostTypes
<1>5. UploadsOK'
  BY <1>1, <1>2 DEF VaultInv, UploadsOK, Early
<1>6. ReportsOK'
  BY <1>1, <1>2, <1>3 DEF VaultInv, ReportsOK
<1> QED BY <1>4, <1>5, <1>6, HostStep

\* A run that fails.
LEMMA FailRunKeeps ==
    ASSUME VaultInv, FailRun, UNCHANGED <<deployment, op, vaultVars>>
    PROVE  VaultInv'
<1> DEFINE report == [NoSummary EXCEPT !.status = "failed"]
<1>1. report \in Summaries /\ report.status = "failed"
  BY DEF NoSummary, Summaries
<1>2. EndRun(report)
  BY DEF FailRun
<1> HIDE DEF report
<1> QED BY <1>1, <1>2, EndRunKeeps

\* A run moves on without being told anything.
LEMMA JobMoves ==
    ASSUME VaultInv, job' \in Jobs, job'.id = job.id, job.pc \in Early, job'.pc \in Early,
           job'.pc = "bound" => job'.manifest \in Deployment,
           UNCHANGED <<deployment, summary, wireVars, op, vaultVars>>
    PROVE  VaultInv'
<1>1. /\ job \in Jobs /\ UNCHANGED <<op, backups, trash, deletions, frame, answer, summary>>
  BY DEF VaultInv, HostTypes, vaultVars, wireVars
<1>3. HostTypes'
  BY <1>1 DEF VaultInv, HostTypes, Early
<1>4. UploadsOK'
  BY <1>1 DEF VaultInv, UploadsOK, Early
<1>5. ReportsOK'
  BY <1>1 DEF VaultInv, ReportsOK, Early
<1> QED BY <1>3, <1>4, <1>5, HostStep

\* Every step of the source host but the start of a run.
LEMMA JobStepKeeps ==
    ASSUME VaultInv, JobStep
    PROVE  VaultInv'
<1>0. job \in Jobs /\ job.id \in Ids /\ deployment \in Deployment
  BY DEF VaultInv, HostTypes, Jobs
<1>1. CASE CreateArchive
  <2>1. UNCHANGED <<deployment, op, vaultVars>> /\ job.pc = "locked"
    BY <1>1 DEF CreateArchive
  <2>2. CASE FailRun
    BY <2>1, <2>2, FailRunKeeps
  <2>3. CASE job' = [job EXCEPT !.pc = "encrypted"] /\ UNCHANGED <<summary, wireVars>>
    <3>1. job' \in Jobs /\ job'.id = job.id /\ job'.pc = "encrypted"
      BY <1>0, <2>3 DEF Jobs
    <3>2. job.pc \in Early /\ job'.pc \in Early
      BY <2>1, <3>1 DEF Early
    <3>3. UNCHANGED <<deployment, summary, wireVars, op, vaultVars>>
      BY <2>1, <2>3
    <3> QED BY <3>1, <3>2, <3>3, JobMoves
  <2> QED BY <1>1, <2>2, <2>3 DEF CreateArchive
<1>2. CASE BindManifest
  <2>1. UNCHANGED <<deployment, op, vaultVars>> /\ job.pc = "encrypted"
    BY <1>2 DEF BindManifest
  <2>2. CASE FailRun
    BY <2>1, <2>2, FailRunKeeps
  <2>3. CASE /\ job' = [job EXCEPT !.pc = "bound", !.manifest = deployment]
             /\ UNCHANGED <<summary, wireVars>>
    <3>1. job' \in Jobs /\ job'.id = job.id /\ job'.pc = "bound" /\ job'.manifest = deployment
      BY <1>0, <2>3 DEF Jobs
    <3>2. job.pc \in Early /\ job'.pc \in Early
      BY <2>1, <3>1 DEF Early
    <3>3. UNCHANGED <<deployment, summary, wireVars, op, vaultVars>>
      BY <2>1, <2>3
    <3> QED BY <1>0, <3>1, <3>2, <3>3, JobMoves
  <2> QED BY <1>2, <2>2, <2>3 DEF BindManifest
<1>3. CASE SendFrame
  <2>1. /\ job.pc = "bound" /\ job' = [job EXCEPT !.pc = "waiting"]
        /\ frame' = [id |-> job.id, manifest |-> job.manifest]
        /\ UNCHANGED <<deployment, summary, answer, op, vaultVars, backups, trash, deletions>>
    BY <1>3 DEF SendFrame, vaultVars
  <2>2. job' \in Jobs /\ job'.id = job.id /\ job'.pc = "waiting"
    BY <1>0, <2>1 DEF Jobs
  <2>3. job.manifest \in Deployment /\ job'.manifest = job.manifest
    BY <1>0, <2>1 DEF VaultInv, HostTypes, Jobs
  <2>4. frame' \in Frames /\ frame'.id = job.id
    BY <1>0, <2>1, <2>3 DEF Frames
  <2>5. HostTypes'
    BY <2>1, <2>2, <2>3, <2>4 DEF VaultInv, HostTypes
  <2>6. UploadsOK'
    BY <2>1, <2>2, <2>4 DEF VaultInv, UploadsOK, Early
  <2>7. ReportsOK'
    BY <2>1, <2>2, <2>3 DEF VaultInv, ReportsOK
  <2> QED BY <2>1, <2>5, <2>6, <2>7, HostStep
<1>4. CASE TakeReceipt
  <2>1. UNCHANGED <<deployment, op, vaultVars>> /\ job.pc = "waiting" /\ answer # None
    BY <1>4 DEF TakeReceipt
  <2>2. CASE FailRun
    BY <2>1, <2>2, FailRunKeeps
  <2>3. CASE /\ answer # Refused /\ answer.manifest = job.manifest
             /\ job' = [job EXCEPT !.pc = "received"] /\ UNCHANGED <<summary, wireVars>>
    <3>1. job' \in Jobs /\ job'.id = job.id /\ job'.pc = "received" /\ job'.manifest = job.manifest
      BY <1>0, <2>3 DEF Jobs
    <3>2. UNCHANGED <<frame, answer, summary, backups, trash, deletions>>
      BY <2>1, <2>3 DEF wireVars, vaultVars
    <3>3. frame = None /\ Accounted(backups, trash, deletions, job.id, job.manifest)
      BY <2>1, <2>3 DEF VaultInv, ReportsOK
    <3>4. HostTypes'
      BY <2>1, <3>1, <3>2 DEF VaultInv, HostTypes
    <3>5. UploadsOK'
      BY <2>1, <3>1, <3>2, <3>3 DEF VaultInv, UploadsOK, Early
    <3>6. ReportsOK'
      BY <2>1, <3>1, <3>2, <3>3 DEF VaultInv, ReportsOK
    <3> QED BY <2>1, <3>4, <3>5, <3>6, HostStep
  <2> QED BY <1>4, <2>2, <2>3 DEF TakeReceipt, VerifyRemoteReceipt
<1>5. CASE ReportBackup
  <2> DEFINE report == [status |-> "passed", manifest |-> job.manifest]
  <2>1. /\ UNCHANGED <<deployment, op, vaultVars>> /\ job.pc = "received" /\ EndRun(report)
    BY <1>5 DEF ReportBackup
  <2>2. report \in Summaries /\ report.manifest = job.manifest
    BY <1>0 DEF Summaries, Jobs
  <2>3. Accounted(backups, trash, deletions, job.id, job.manifest)
    BY <2>1 DEF VaultInv, ReportsOK
  <2> HIDE DEF report
  <2> QED BY <2>1, <2>2, <2>3, EndRunKeeps
<1>6. CASE TimeoutBackup
  BY <1>6, FailRunKeeps DEF TimeoutBackup
<1> QED BY <1>1, <1>2, <1>3, <1>4, <1>5, <1>6 DEF JobStep

\* What the lifecycle lock admits: a redeployment, or the start of the next run,
\* whose backup the vault has never seen.
LEMMA LockStepKeeps ==
    ASSUME VaultInv, LockStep
    PROVE  VaultInv'
<1>0. job \in Jobs /\ job.id \in Ids /\ N \in Nat
  BY RunsAssumption DEF VaultInv, HostTypes, Jobs
<1>1. CASE Redeploy
  <2>1. /\ deployment' \in Deployment /\ UNCHANGED <<op, vaultVars>>
        /\ UNCHANGED <<job, summary, frame, answer, backups, trash, deletions>>
    BY <1>1 DEF Redeploy, wireVars, vaultVars
  <2>2. HostTypes' /\ UploadsOK' /\ ReportsOK'
    BY <2>1 DEF VaultInv, HostTypes, UploadsOK, ReportsOK
  <2> QED BY <2>1, <2>2, HostStep
<1>2. CASE StartBackup
  <2>1. /\ job.pc = "idle" /\ job.id < N
        /\ job' = [NoJob EXCEPT !.pc = "locked", !.id = job.id + 1]
        /\ UNCHANGED <<op, vaultVars, deployment, summary, frame, answer, backups, trash, deletions>>
    BY <1>2 DEF StartBackup, wireVars, vaultVars
  <2>2. job.id + 1 \in Ids /\ job.id + 1 > job.id
    BY <1>0, <2>1 DEF Ids
  <2>3. job' \in Jobs /\ job'.id = job.id + 1 /\ job'.pc = "locked"
    BY <2>1, <2>2 DEF NoJob, Jobs
  <2>4. frame = None /\ answer = None
    BY <2>1 DEF VaultInv, UploadsOK, ReportsOK
  <2>5. HostTypes'
    BY <2>1, <2>3 DEF VaultInv, HostTypes
  <2>6. \A i \in Ids : i > job.id + 1 => i > job.id
    BY <1>0 DEF Ids
  <2>7. op.kind = "store" => op.id <= job.id + 1 /\ op.id # job.id + 1
    <3>1. op.id \in Ids
      BY DEF VaultInv, VaultTypes, Ops
    <3> QED BY <1>0, <3>1 DEF VaultInv, UploadsOK, Ids
  <2>8. UploadsOK'
    BY <2>1, <2>2, <2>3, <2>4, <2>6, <2>7 DEF VaultInv, UploadsOK
  <2>9. ReportsOK'
    BY <2>1, <2>3, <2>4 DEF VaultInv, ReportsOK
  <2> QED BY <2>1, <2>5, <2>8, <2>9, HostStep
<1> QED BY <1>1, <1>2 DEF LockStep

\* The source host goes down.
LEMMA KillBackupKeeps ==
    ASSUME VaultInv, KillBackup
    PROVE  VaultInv'
<1>1. /\ job \in Jobs /\ job.id \in Ids /\ UNCHANGED <<op, vaultVars>>
      /\ job' = [NoJob EXCEPT !.id = job.id] /\ frame' = None /\ answer' = None
      /\ UNCHANGED <<deployment, summary, backups, trash, deletions>>
  BY DEF VaultInv, HostTypes, Jobs, KillBackup, vaultVars
<1>2. job' \in Jobs /\ job'.id = job.id /\ job'.pc = "idle"
  BY <1>1 DEF NoJob, Jobs
<1>3. HostTypes'
  BY <1>1, <1>2 DEF VaultInv, HostTypes
<1>4. UploadsOK'
  BY <1>1, <1>2 DEF VaultInv, UploadsOK, Early
<1>5. ReportsOK'
  BY <1>1, <1>2 DEF VaultInv, ReportsOK
<1> QED BY <1>1, <1>3, <1>4, <1>5, HostStep

-----------------------------------------------------------------------------
(* Steps under the lock of the vault.                                      *)

\* An answer reaches the run that waits for it.
LEMMA ReplyReaches ==
    ASSUME VaultInv, NEW i, NEW reply, Reply(i, reply),
           frame' = None \/ (op.kind = "store" /\ op.id = i /\ frame' = frame)
    PROVE  /\ answer' # None => job.pc \in {"waiting", "received"} /\ frame' = None
           /\ answer' # answer => answer' = reply /\ job.id = i
<1>1. CASE job.pc = "waiting" /\ job.id = i
  <2>1. answer' = reply
    BY <1>1 DEF Reply
  <2>2. frame' = None
    BY <1>1 DEF VaultInv, UploadsOK
  <2> QED BY <1>1, <2>1, <2>2
<1>2. CASE ~(job.pc = "waiting" /\ job.id = i)
  <2>1. answer' = answer
    BY <1>2 DEF Reply
  <2> QED BY <2>1 DEF VaultInv, ReportsOK
<1> QED BY <1>1, <1>2

\* The vault's lock changes hands, or its holder goes on, and nothing is stored,
\* moved or deleted.
LEMMA QuietStep ==
    ASSUME VaultInv, op' \in Ops, op'.kind # "retention",
           op'.kind = "store" =>
              /\ op'.manifest \in Deployment /\ op'.id <= job.id
              /\ op'.pc \in {"archive", "manifest", "receipt", "publish"}
              /\ Unseen(backups, trash, deletions, op'.id)
              /\ frame' # None \/ job.pc \in Early => op'.id # job.id,
           frame' = None \/ frame' = frame,
           answer' # None => job.pc \in {"waiting", "received"} /\ frame' = None,
           answer' # None /\ answer' # Refused => answer' = answer,
           UNCHANGED <<deployment, job, summary, backups, trash, deletions>>
    PROVE  VaultInv'
<1>1. HostTypes' /\ VaultTypes'
  BY DEF VaultInv, HostTypes, VaultTypes
<1>2. CopiesOK' /\ MovesOK' /\ DestroysOK'
  BY DEF VaultInv, CopiesOK, MovesOK, DestroysOK
<1>3. UploadsOK'
  BY DEF VaultInv, UploadsOK
<1>4. ReportsOK'
  BY DEF VaultInv, ReportsOK
<1> QED BY <1>1, <1>2, <1>3, <1>4 DEF VaultInv

\* Nobody holds the lock.
LEMMA NoOpType == NoOp \in Ops /\ NoOp.kind = "none"
BY RunsAssumption DEF NoOp, Ops, Ids

\* remote_store: the candidate is one the vault has never held.
LEMMA StoreBeginKeeps ==
    ASSUME VaultInv, StoreBegin
    PROVE  VaultInv'
<1>1. /\ op = NoOp /\ frame # None /\ frame' = None
      /\ UNCHANGED <<deployment, job, summary, backups, trash, deletions>>
  BY DEF StoreBegin, hostVars, vaultVars
<1>2. /\ frame \in Frames /\ frame.id \in Ids /\ frame.manifest \in Deployment
      /\ job.pc = "waiting" /\ frame.id = job.id /\ job.id \in Ids /\ job.id <= job.id
      /\ Unseen(backups, trash, deletions, job.id)
  BY <1>1, RunsAssumption DEF VaultInv, HostTypes, UploadsOK, Frames, Ids
<1>3. CASE Reply(frame.id, Refused) /\ UNCHANGED op
  <2>1. answer' # None => job.pc \in {"waiting", "received"} /\ frame' = None
    BY <1>1, <1>3, ReplyReaches
  <2>2. answer' # None /\ answer' # Refused => answer' = answer
    BY <1>3 DEF Reply
  <2>3. op' \in Ops /\ op'.kind = "none"
    BY <1>1, <1>3, NoOpType
  <2> QED BY <1>1, <2>1, <2>2, <2>3, QuietStep
<1>4. CASE /\ op' = [NoOp EXCEPT !.kind = "store", !.id = frame.id, !.pc = "archive",
                                !.manifest = frame.manifest]
           /\ UNCHANGED answer
  <2>1. /\ op' \in Ops /\ op'.kind = "store" /\ op'.id = job.id /\ op'.pc = "archive"
        /\ op'.manifest \in Deployment
    BY <1>2, <1>4 DEF NoOp, Ops
  <2>2. answer' # None => job.pc \in {"waiting", "received"} /\ frame' = None
    BY <1>1, <1>4 DEF VaultInv, ReportsOK
  <2>3. ~(frame' # None \/ job.pc \in Early)
    BY <1>1, <1>2 DEF Early
  <2> QED BY <1>1, <1>2, <1>4, <2>1, <2>2, <2>3, QuietStep
<1> QED BY <1>3, <1>4 DEF StoreBegin

\* The candidate is written, or given up.
LEMMA StoreWritesKeep ==
    ASSUME VaultInv, StoreWrite \/ StoreFails
    PROVE  VaultInv'
<1>1. /\ op.kind = "store" /\ op \in Ops /\ frame' = frame
      /\ UNCHANGED <<deployment, job, summary, backups, trash, deletions>>
  BY DEF StoreWrite, StoreFails, hostVars, wireVars, VaultInv, VaultTypes
<1>2. CASE StoreFails
  <2>1. Reply(op.id, Refused) /\ op' = NoOp
    BY <1>2 DEF StoreFails
  <2>2. answer' # None => job.pc \in {"waiting", "received"} /\ frame' = None
    BY <1>1, <2>1, ReplyReaches
  <2>3. answer' # None /\ answer' # Refused => answer' = answer
    BY <2>1 DEF Reply
  <2> QED BY <1>1, <2>1, <2>2, <2>3, NoOpType, QuietStep
<1>3. CASE StoreWrite
  <2>1. PICK pc \in {"manifest", "receipt", "publish"} : op' = [op EXCEPT !.pc = pc]
    <3>1. op.pc \in {"archive", "manifest", "receipt"}
      BY <1>1, <1>3 DEF StoreWrite, VaultInv, VaultTypes
    <3> QED BY <1>3, <3>1 DEF StoreWrite
  <2>2. /\ op' \in Ops /\ op'.kind = "store" /\ op'.id = op.id /\ op'.manifest = op.manifest
        /\ op'.pc = pc
    BY <1>1, <2>1 DEF Ops
  <2>3. answer' = answer
    BY <1>3 DEF StoreWrite, wireVars
  <2>4. answer' # None => job.pc \in {"waiting", "received"} /\ frame' = None
    BY <1>1, <2>3 DEF VaultInv, ReportsOK
  <2>5. /\ op.manifest \in Deployment /\ op.id <= job.id
        /\ Unseen(backups, trash, deletions, op.id)
        /\ frame' # None \/ job.pc \in Early => op.id # job.id
    BY <1>1 DEF VaultInv, VaultTypes, UploadsOK
  <2> QED BY <1>1, <2>2, <2>3, <2>4, <2>5, QuietStep
<1> QED BY <1>2, <1>3

-----------------------------------------------------------------------------
(* Steps that store, move or delete.                                       *)

\* remote_store publishes a backup that the vault has never held, and only now
\* tells the run that waits for it.
LEMMA StorePublishKeeps ==
    ASSUME VaultInv, StorePublish
    PROVE  VaultInv'
<1> DEFINE dir == [archive |-> op.id, manifest |-> op.manifest, vault |-> "this"]
<1>1. /\ op.kind = "store" /\ op' = NoOp /\ backups' = [backups EXCEPT ![op.id] = dir]
      /\ Reply(op.id, dir)
      /\ UNCHANGED <<deployment, job, summary, frame, trash, deletions>>
  BY DEF StorePublish, hostVars
<1>2. /\ op.id \in Ids /\ op.manifest \in Deployment /\ op.id <= job.id
      /\ Unseen(backups, trash, deletions, op.id)
      /\ frame # None \/ job.pc \in Early => op.id # job.id
      /\ backups \in [Ids -> Dir \cup {None}] /\ job.id \in Ids
  BY <1>1 DEF VaultInv, VaultTypes, HostTypes, Jobs, Ops, UploadsOK
<1>3. dir \in Dir /\ dir.manifest = op.manifest
  BY <1>2, RunsAssumption DEF Dir, Ids
<1>4. dir # None /\ dir # Refused
  BY <1>3, MarksAssumption
<1> HIDE DEF dir
<1>5. /\ backups' \in [Ids -> Dir \cup {None}]
      /\ \A i \in Ids : backups'[i] = IF i = op.id THEN dir ELSE backups[i]
  BY <1>1, <1>2, <1>3
<1>6. \A i \in Ids : Unseen(backups, trash, deletions, i) /\ i # op.id =>
                     Unseen(backups', trash', deletions', i)
  BY <1>1, <1>5 DEF Unseen
<1>7. ASSUME NEW i \in Ids, NEW m, Accounted(backups, trash, deletions, i, m)
      PROVE  Accounted(backups', trash', deletions', i, m)
  <2>1. i # op.id
    BY <1>2, <1>7 DEF Unseen, Accounted
  <2> QED BY <1>1, <1>5, <1>7, <2>1 DEF Accounted
<1>8. Accounted(backups', trash', deletions', op.id, dir.manifest)
  BY <1>2, <1>4, <1>5 DEF Accounted
<1>9. /\ answer' # None => job.pc \in {"waiting", "received"} /\ frame' = None
      /\ answer' # answer => answer' = dir /\ job.id = op.id
  BY <1>1, ReplyReaches
<1>10. HostTypes' /\ VaultTypes'
  BY <1>1, <1>5, NoOpType DEF VaultInv, HostTypes, VaultTypes
<1>11. CopiesOK'
  BY <1>1, <1>2, <1>5 DEF VaultInv, CopiesOK, Unseen
<1>12. UploadsOK'
  <2>1. \A i \in Ids : i > job.id => i # op.id
    BY <1>2, RunsAssumption DEF Ids
  <2> QED BY <1>1, <1>2, <1>6, <2>1, NoOpType DEF VaultInv, UploadsOK
<1>13. ReportsOK'
  BY <1>1, <1>2, <1>7, <1>8, <1>9 DEF VaultInv, ReportsOK
<1>14. MovesOK' /\ DestroysOK'
  BY <1>1, NoOpType DEF MovesOK, DestroysOK
<1> QED BY <1>10, <1>11, <1>12, <1>13, <1>14 DEF VaultInv

\* Whatever moves, decays or is deleted: no backup turns up that was not there,
\* and every one that was accounted for still is.
LEMMA VaultStepKeeps ==
    ASSUME VaultInv, op' \in Ops, op'.kind # "store",
           UNCHANGED <<deployment, job, summary, frame, answer>>,
           backups' \in [Ids -> Dir \cup {None}], trash' \in [Ids -> Dir \cup {None}],
           deletions' \in Seq(Deletions), CopiesOK', MovesOK', DestroysOK',
           \A i \in Ids : Unseen(backups, trash, deletions, i) =>
                          Unseen(backups', trash', deletions', i),
           \A i \in Ids : \A m : Accounted(backups, trash, deletions, i, m) =>
                                 Accounted(backups', trash', deletions', i, m)
    PROVE  VaultInv'
<1>1. job.id \in Ids
  BY DEF VaultInv, HostTypes, Jobs
<1>2. HostTypes' /\ VaultTypes'
  BY DEF VaultInv, HostTypes, VaultTypes
<1>3. UploadsOK'
  BY <1>1 DEF VaultInv, UploadsOK
<1>4. ReportsOK'
  BY <1>1 DEF VaultInv, ReportsOK
<1> QED BY <1>2, <1>3, <1>4 DEF VaultInv

\* The lock of the vault changes hands, or its holder goes on, without a word to
\* the source host.
LEMMA LockMoves ==
    ASSUME VaultInv, op' \in Ops, op'.kind \in {"none", "attest"},
           UNCHANGED <<deployment, job, summary, frame, answer, backups, trash, deletions>>
    PROVE  VaultInv'
<1>1. answer' # None => job.pc \in {"waiting", "received"} /\ frame' = None
  BY DEF VaultInv, ReportsOK
<1> QED BY <1>1, QuietStep

\* create_known_good_attestation, to its end or its failure.
LEMMA AttestKeeps ==
    ASSUME VaultInv,
           AttestStep \/ \E i \in Ids, r \in Restore : AttestBegin(i, r)
    PROVE  VaultInv'
<1>0. op \in Ops
  BY DEF VaultInv, VaultTypes
<1>1. UNCHANGED <<deployment, job, summary, frame, answer, backups, trash, deletions>>
  BY DEF AttestStep, AttestWrite, AttestFinish, AttestFails, AttestBegin, hostVars, wireVars
<1>2. op' \in Ops /\ op'.kind \in {"none", "attest"}
  <2>1. ASSUME NEW i \in Ids, NEW r \in Restore, AttestBegin(i, r)
        PROVE  op' \in Ops /\ op'.kind = "attest"
    <3>1. op' = [NoOp EXCEPT !.kind = "attest", !.id = i, !.pc = "copy", !.restore = r]
      BY <2>1 DEF AttestBegin
    <3> QED BY <3>1 DEF NoOp, Ops
  <2>2. ASSUME AttestWrite PROVE op' \in Ops /\ op'.kind = "attest"
    <3>1. PICK pc \in {"write", "finish"} : op' = [op EXCEPT !.pc = pc]
      BY <2>2 DEF AttestWrite
    <3>2. op.kind = "attest"
      BY <2>2 DEF AttestWrite
    <3> QED BY <1>0, <3>1, <3>2 DEF Ops
  <2>3. ASSUME AttestFinish \/ AttestFails PROVE op' = NoOp \/ (op' = op /\ op.kind = "attest")
    BY <2>3 DEF AttestFinish, AttestFails
  <2> QED BY <1>0, <2>1, <2>2, <2>3, NoOpType DEF AttestStep
<1> QED BY <1>1, <1>2, LockMoves

\* What the deletion records hold.
LEMMA DeletionTypes ==
    ASSUME NEW d \in Seq(Deletions)
    PROVE  /\ DOMAIN d = 1 .. Len(d) /\ Len(d) \in Nat
           /\ \A k \in DOMAIN d : d[k] \in Deletions /\ d[k].ids \in SUBSET Ids
<1>1. DOMAIN d = 1 .. Len(d) /\ Len(d) \in Nat /\ \A k \in 1 .. Len(d) : d[k] \in Deletions
  OBVIOUS
<1>2. \A x \in Deletions : x.ids \in SUBSET Ids
  BY DEF Deletions
<1> QED BY <1>1, <1>2

\* run_retention plans under the lock: everything it dooms is verified and can be
\* spared.
LEMMA RetentionBeginKeeps ==
    ASSUME VaultInv, RetentionBegin
    PROVE  VaultInv'
<1> DEFINE S == VaultRecords \ Retained
<1>1. /\ RetentionAllowed /\ op' = [NoOp EXCEPT !.kind = "retention", !.pc = "move", !.doomed = S]
      /\ UNCHANGED <<deployment, job, summary, frame, answer, backups, trash, knownGood, deletions>>
  BY DEF RetentionBegin, hostVars, wireVars, vaultVars
<1>2. S \subseteq VaultRecords /\ VaultRecords \in SUBSET Ids /\ Restorable(S)
  BY <1>1, RecordSets, RetentionSpares
<1> HIDE DEF S
<1>3. op' \in Ops /\ op'.kind = "retention" /\ op'.pc = "move" /\ op'.doomed = S
  <2>1. S \in SUBSET Ids
    BY <1>2
  <2>2. 0 \in Ids
    BY RunsAssumption DEF Ids
  <2> QED BY <1>1, <2>1, <2>2 DEF NoOp, Ops
<1>4. VaultRecords' = VaultRecords /\ Attested' = Attested
  BY <1>1 DEF VaultRecords, Attested, Held, ManifestBinds
<1>5. \A i \in S : backups'[i] # None /\ i \in VaultRecords'
  BY <1>1, <1>2, <1>4 DEF VaultRecords, Held
<1>6. Restorable(op.doomed)'
  BY <1>1, <1>2, <1>3, <1>4 DEF Restorable
<1>7. MovesOK' /\ DestroysOK'
  BY <1>3, <1>5, <1>6 DEF MovesOK, DestroysOK
<1> QED BY <1>1, <1>3, <1>7, VaultStepKeeps DEF VaultInv, VaultTypes, CopiesOK

\* What a step of prune_remote moves into the quarantine.
LEMMA MovedBackup ==
    ASSUME VaultInv, RetentionMove
    PROVE  \E i \in op.doomed :
              /\ i \in VaultRecords /\ op.doomed \in SUBSET Ids
              /\ trash' = [trash EXCEPT ![i] = backups[i]]
              /\ backups' = [backups EXCEPT ![i] = None]
              /\ Restorable(op.doomed)
<1>1. /\ op.kind = "retention" /\ op.pc = "move" /\ ToMove # {} /\ op \in Ops
      /\ trash' = [trash EXCEPT ![Max(ToMove)] = backups[Max(ToMove)]]
      /\ backups' = [backups EXCEPT ![Max(ToMove)] = None]
  BY DEF RetentionMove, VaultInv, VaultTypes
<1>2. ToMove \in SUBSET Ids /\ op.doomed \in SUBSET Ids
  BY <1>1 DEF ToMove, Ops
<1>3. Max(ToMove) \in ToMove
  BY <1>1, <1>2, MaxIsNewest
<1>4. Max(ToMove) \in op.doomed /\ backups[Max(ToMove)] # None
  BY <1>3 DEF ToMove, Held
<1>5. Max(ToMove) \in VaultRecords /\ Restorable(op.doomed)
  BY <1>1, <1>4 DEF VaultInv, MovesOK
<1> QED BY <1>1, <1>2, <1>4, <1>5

\* Without a backup that retention may move, the others are what they were.
LEMMA RecordsWithout ==
    ASSUME NEW i \in VaultRecords, backups \in [Ids -> Dir \cup {None}],
           backups' = [backups EXCEPT ![i] = None], UNCHANGED knownGood
    PROVE  VaultRecords' = VaultRecords \ {i} /\ Attested' = Attested \ {i}
<1>1. i \in Ids /\ \A j \in Ids : backups'[j] = IF j = i THEN None ELSE backups[j]
  BY DEF VaultRecords, Held
<1>2. VaultRecords' = VaultRecords \ {i}
  BY <1>1 DEF VaultRecords, Held, ManifestBinds
<1>3. Attested' = Attested \ {i}
  BY <1>2 DEF Attested
<1> QED BY <1>2, <1>3

\* prune_remote moves one backup.
LEMMA RetentionMoveKeeps ==
    ASSUME VaultInv, RetentionMove
    PROVE  VaultInv'
<1>1. PICK i \in op.doomed :
              /\ i \in VaultRecords /\ op.doomed \in SUBSET Ids
              /\ trash' = [trash EXCEPT ![i] = backups[i]]
              /\ backups' = [backups EXCEPT ![i] = None]
              /\ Restorable(op.doomed)
  BY MovedBackup
<1>2. /\ op.kind = "retention" /\ op.pc = "move" /\ op \in Ops
      /\ UNCHANGED <<deployment, job, summary, frame, answer, op, knownGood, deletions>>
      /\ backups \in [Ids -> Dir \cup {None}] /\ trash \in [Ids -> Dir \cup {None}]
      /\ deletions \in Seq(Deletions)
  BY DEF RetentionMove, hostVars, wireVars, VaultInv, VaultTypes
<1>3. i \in Ids /\ backups[i] # None
  BY <1>1 DEF VaultRecords, Held
<1>4. /\ \A j \in Ids : backups'[j] = IF j = i THEN None ELSE backups[j]
      /\ \A j \in Ids : trash'[j] = IF j = i THEN backups[i] ELSE trash[j]
      /\ backups' \in [Ids -> Dir \cup {None}] /\ trash' \in [Ids -> Dir \cup {None}]
  BY <1>1, <1>2, <1>3
<1>5. \A j \in Ids : Unseen(backups, trash, deletions, j) =>
                     Unseen(backups', trash', deletions', j)
  BY <1>2, <1>3, <1>4 DEF Unseen
<1>6. \A j \in Ids : \A m : Accounted(backups, trash, deletions, j, m) =>
                            Accounted(backups', trash', deletions', j, m)
  <2> SUFFICES ASSUME NEW j \in Ids, NEW m, Accounted(backups, trash, deletions, j, m)
               PROVE  Accounted(backups', trash', deletions', j, m)
    OBVIOUS
  <2>1. trash[i] = None
    BY <1>3 DEF VaultInv, CopiesOK
  <2> QED BY <1>2, <1>3, <1>4, <2>1 DEF Accounted
<1>7. CopiesOK'
  <2>1. \A k \in DOMAIN deletions : deletions[k].done => i \notin deletions[k].ids
    BY <1>3 DEF VaultInv, CopiesOK
  <2>2. \A k \in DOMAIN deletions : deletions[k].ids \in SUBSET Ids
    BY <1>2, DeletionTypes
  <2> QED BY <1>2, <1>4, <2>1, <2>2 DEF VaultInv, CopiesOK
<1>8. VaultRecords' = VaultRecords \ {i} /\ Attested' = Attested \ {i}
  BY <1>1, <1>2, RecordsWithout
<1>9. Restorable(op.doomed)'
  <2>1. Attested' \ op.doomed = Attested \ op.doomed
    BY <1>1, <1>8
  <2>2. PICK m \in VaultRecords \ op.doomed : \A j \in VaultRecords : j <= m
    BY <1>1 DEF Restorable
  <2>3. m \in VaultRecords' \ op.doomed /\ \A j \in VaultRecords' : j <= m
    BY <1>1, <1>8, <2>2
  <2> QED BY <1>1, <1>2, <2>1, <2>3 DEF Restorable
<1>10. \A j \in op.doomed : /\ backups'[j] # None \/ trash'[j] # None
                            /\ backups'[j] # None => j \in VaultRecords'
  BY <1>1, <1>2, <1>3, <1>4, <1>8 DEF VaultInv, MovesOK
<1>11. MovesOK' /\ DestroysOK'
  BY <1>2, <1>9, <1>10 DEF MovesOK, DestroysOK
<1> QED BY <1>2, <1>4, <1>5, <1>6, <1>7, <1>11, VaultStepKeeps

\* prune_remote failed and moves everything back.
LEMMA RetentionUndoKeeps ==
    ASSUME VaultInv, RetentionUndo
    PROVE  VaultInv'
<1>1. /\ op' = NoOp /\ op \in Ops /\ op.doomed \in SUBSET Ids
      /\ backups' = [i \in Ids |-> IF i \in op.doomed \ ToMove THEN trash[i] ELSE backups[i]]
      /\ trash' = [i \in Ids |-> IF i \in op.doomed THEN None ELSE trash[i]]
      /\ UNCHANGED <<deployment, job, summary, frame, answer, knownGood, deletions>>
      /\ backups \in [Ids -> Dir \cup {None}] /\ trash \in [Ids -> Dir \cup {None}]
      /\ deletions \in Seq(Deletions)
  BY DEF RetentionUndo, hostVars, wireVars, VaultInv, VaultTypes, Ops
<1>2. /\ backups' \in [Ids -> Dir \cup {None}] /\ trash' \in [Ids -> Dir \cup {None}]
  BY <1>1
<1>3. ASSUME NEW i \in Ids
      PROVE  \/ backups'[i] = trash[i] /\ trash'[i] = None /\ backups[i] = None
             \/ backups'[i] = backups[i] /\ trash'[i] = trash[i]
  BY <1>1 DEF ToMove, Held, VaultInv, CopiesOK
<1>4. \A i \in Ids : Unseen(backups, trash, deletions, i) =>
                     Unseen(backups', trash', deletions', i)
  BY <1>1, <1>3 DEF Unseen
<1>5. \A i \in Ids : \A m : Accounted(backups, trash, deletions, i, m) =>
                            Accounted(backups', trash', deletions', i, m)
  <2> SUFFICES ASSUME NEW i \in Ids, NEW m, Accounted(backups, trash, deletions, i, m)
               PROVE  Accounted(backups', trash', deletions', i, m)
    OBVIOUS
  <2> QED BY <1>1, <1>3 DEF Accounted
<1>6. CopiesOK'
  <2>1. \A k \in DOMAIN deletions : deletions[k].ids \in SUBSET Ids
    BY <1>1, DeletionTypes
  <2>2. \A i \in Ids : backups'[i] # None => trash'[i] = None
    BY <1>3 DEF VaultInv, CopiesOK
  <2>3. \A i \in Ids : backups[i] = None /\ trash[i] = None => backups'[i] = None /\ trash'[i] = None
    BY <1>3
  <2> QED BY <1>1, <2>1, <2>2, <2>3 DEF VaultInv, CopiesOK
<1>7. MovesOK' /\ DestroysOK'
  BY <1>1, NoOpType DEF MovesOK, DestroysOK
<1> QED BY <1>1, <1>2, <1>4, <1>5, <1>6, <1>7, NoOpType, VaultStepKeeps

\* The create-only intent of a deletion, over what is in quarantine.
LEMMA RetentionIntentKeeps ==
    ASSUME VaultInv, RetentionIntent
    PROVE  VaultInv'
<1> DEFINE rec == [ids |-> op.doomed, retained |-> Retained, done |-> FALSE]
<1>1. /\ op.kind = "retention" /\ op.pc = "move" /\ ToMove = {} /\ op \in Ops
      /\ deletions' = Append(deletions, rec) /\ op' = [op EXCEPT !.pc = "destroy"]
      /\ UNCHANGED <<deployment, job, summary, frame, answer, backups, trash, knownGood>>
      /\ backups \in [Ids -> Dir \cup {None}] /\ trash \in [Ids -> Dir \cup {None}]
      /\ deletions \in Seq(Deletions)
  BY DEF RetentionIntent, hostVars, wireVars, VaultInv, VaultTypes
<1>2. op.doomed \in SUBSET Ids
  BY <1>1 DEF Ops
<1>3. rec \in Deletions /\ rec.ids = op.doomed /\ rec.done = FALSE
  <2>1. Retained \in SUBSET Ids
    BY RecordSets
  <2> QED BY <1>2, <2>1 DEF Deletions
<1> HIDE DEF rec
<1>4. op' \in Ops /\ op'.kind = "retention" /\ op'.pc = "destroy" /\ op'.doomed = op.doomed
  BY <1>1 DEF Ops
<1>5. /\ deletions' \in Seq(Deletions) /\ Len(deletions') = Len(deletions) + 1
      /\ Len(deletions) \in Nat /\ DOMAIN deletions = 1 .. Len(deletions)
      /\ DOMAIN deletions' = 1 .. (Len(deletions) + 1)
      /\ \A k \in 1 .. Len(deletions) : deletions'[k] = deletions[k]
      /\ deletions'[Len(deletions) + 1] = rec
  BY <1>1, <1>3
<1>6. \A k \in DOMAIN deletions' : (k \in DOMAIN deletions /\ deletions'[k] = deletions[k])
                                   \/ deletions'[k] = rec
  BY <1>5
<1>7. \A k \in DOMAIN deletions : k \in DOMAIN deletions' /\ deletions'[k] = deletions[k]
  BY <1>5
<1>8. \A i \in op.doomed : backups[i] = None /\ trash[i] # None
  BY <1>1, <1>2 DEF VaultInv, MovesOK, ToMove, Held
<1>9. \A i \in Ids : Unseen(backups, trash, deletions, i) =>
                     Unseen(backups', trash', deletions', i)
  BY <1>1, <1>3, <1>6, <1>8 DEF Unseen
<1>10. \A i \in Ids : \A m : Accounted(backups, trash, deletions, i, m) =>
                             Accounted(backups', trash', deletions', i, m)
  BY <1>1, <1>7 DEF Accounted
<1>11. CopiesOK'
  BY <1>1, <1>3, <1>6 DEF VaultInv, CopiesOK
<1>12. DestroysOK'
  <2>1. Len(deletions') > 0 /\ deletions'[Len(deletions')] = rec
    BY <1>5
  <2> QED BY <1>1, <1>3, <1>4, <1>8, <2>1 DEF DestroysOK
<1>13. MovesOK'
  BY <1>4 DEF MovesOK
<1> QED BY <1>1, <1>4, <1>5, <1>9, <1>10, <1>11, <1>12, <1>13, VaultStepKeeps

\* rmtree of one backup in quarantine, whose deletion is on record.
LEMMA RetentionDestroyKeeps ==
    ASSUME VaultInv, RetentionDestroy
    PROVE  VaultInv'
<1>1. /\ op.kind = "retention" /\ op.pc = "destroy" /\ op \in Ops
      /\ UNCHANGED <<deployment, job, summary, frame, answer, op, backups, knownGood, deletions>>
      /\ backups \in [Ids -> Dir \cup {None}] /\ trash \in [Ids -> Dir \cup {None}]
      /\ deletions \in Seq(Deletions)
  BY DEF RetentionDestroy, hostVars, wireVars, VaultInv, VaultTypes
<1>2. PICK i \in op.doomed \cap Held(trash) : trash' = [trash EXCEPT ![i] = None]
  BY DEF RetentionDestroy
<1>3. /\ i \in Ids /\ trash' \in [Ids -> Dir \cup {None}]
      /\ \A j \in Ids : trash'[j] = IF j = i THEN None ELSE trash[j]
  BY <1>1, <1>2 DEF Held
<1>4. \E k \in DOMAIN deletions : i \in deletions[k].ids
  <2>1. Len(deletions) > 0 /\ i \in deletions[Len(deletions)].ids
    BY <1>1, <1>2 DEF VaultInv, DestroysOK
  <2>2. Len(deletions) \in DOMAIN deletions
    BY <1>1, <2>1, DeletionTypes
  <2> QED BY <2>1, <2>2
<1>5. \A j \in Ids : Unseen(backups, trash, deletions, j) =>
                     Unseen(backups', trash', deletions', j)
  BY <1>1, <1>3 DEF Unseen
<1>6. \A j \in Ids : \A m : Accounted(backups, trash, deletions, j, m) =>
                            Accounted(backups', trash', deletions', j, m)
  <2> SUFFICES ASSUME NEW j \in Ids, NEW m, Accounted(backups, trash, deletions, j, m)
               PROVE  Accounted(backups', trash', deletions', j, m)
    OBVIOUS
  <2>1. CASE j = i
    BY <1>1, <1>4, <2>1 DEF Accounted
  <2>2. CASE j # i
    BY <1>1, <1>3, <2>2 DEF Accounted
  <2> QED BY <2>1, <2>2
<1>7. CopiesOK'
  <2>1. \A k \in DOMAIN deletions : deletions[k].ids \in SUBSET Ids
    BY <1>1, DeletionTypes
  <2> QED BY <1>1, <1>3, <2>1 DEF VaultInv, CopiesOK
<1>8. MovesOK' /\ DestroysOK'
  BY <1>1 DEF VaultInv, MovesOK, DestroysOK
<1> QED BY <1>1, <1>3, <1>5, <1>6, <1>7, <1>8, VaultStepKeeps

\* The completion record, once the quarantine is gone.
LEMMA RetentionCompleteKeeps ==
    ASSUME VaultInv, RetentionComplete
    PROVE  VaultInv'
<1>1. /\ op.kind = "retention" /\ op.pc = "destroy" /\ op \in Ops /\ op' = NoOp
      /\ op.doomed \cap Held(trash) = {}
      /\ deletions' = [deletions EXCEPT ![Len(deletions)].done = TRUE]
      /\ UNCHANGED <<deployment, job, summary, frame, answer, backups, trash, knownGood>>
      /\ backups \in [Ids -> Dir \cup {None}] /\ trash \in [Ids -> Dir \cup {None}]
      /\ deletions \in Seq(Deletions)
  BY DEF RetentionComplete, hostVars, wireVars, VaultInv, VaultTypes
<1> DEFINE n == Len(deletions)
           rec == [deletions[n] EXCEPT !.done = TRUE]
<1>2. /\ DOMAIN deletions = 1 .. n /\ n \in Nat /\ n \in 1 .. n
      /\ \A k \in DOMAIN deletions : deletions[k] \in Deletions
  <2>1. n > 0
    BY <1>1 DEF VaultInv, DestroysOK
  <2> QED BY <1>1, <2>1, DeletionTypes
<1>3. rec \in Deletions /\ rec.ids = deletions[n].ids
  <2>1. deletions[n] \in Deletions
    BY <1>2
  <2> QED BY <2>1 DEF Deletions
<1>4. \A i \in deletions[n].ids : backups[i] = None /\ trash[i] = None
  <2>1. deletions[n].ids = op.doomed /\ op.doomed \in SUBSET Ids
    BY <1>1 DEF VaultInv, DestroysOK, Ops
  <2>2. \A i \in op.doomed : backups[i] = None
    BY <1>1 DEF VaultInv, DestroysOK
  <2> QED BY <1>1, <2>1, <2>2 DEF Held
<1>5. /\ DOMAIN deletions' = DOMAIN deletions
      /\ \A k \in DOMAIN deletions : deletions'[k] = IF k = n THEN rec ELSE deletions[k]
  <2>1. deletions = [k \in DOMAIN deletions |-> deletions[k]]
    BY <1>1
  <2> QED BY <1>1, <1>2, <2>1
<1> HIDE DEF rec
<1>6. deletions' \in Seq(Deletions)
  <2>1. deletions' = [k \in 1 .. n |-> deletions'[k]]
    BY <1>1, <1>2, <1>5
  <2>2. \A k \in 1 .. n : deletions'[k] \in Deletions
    BY <1>2, <1>3, <1>5
  <2>3. deletions' \in [1 .. n -> Deletions]
    BY <2>1, <2>2
  <2> QED BY <1>2, <2>3
<1>7. \A k \in DOMAIN deletions : deletions'[k].ids = deletions[k].ids
  BY <1>3, <1>5
<1>8. \A i \in Ids : Unseen(backups, trash, deletions, i) =>
                     Unseen(backups', trash', deletions', i)
  BY <1>1, <1>5, <1>7 DEF Unseen
<1>9. \A i \in Ids : \A m : Accounted(backups, trash, deletions, i, m) =>
                            Accounted(backups', trash', deletions', i, m)
  BY <1>1, <1>5, <1>7 DEF Accounted
<1>10. CopiesOK'
  BY <1>1, <1>4, <1>5, <1>7 DEF VaultInv, CopiesOK
<1>11. MovesOK' /\ DestroysOK'
  BY <1>1, NoOpType DEF MovesOK, DestroysOK
<1> QED BY <1>1, <1>6, <1>8, <1>9, <1>10, <1>11, NoOpType, VaultStepKeeps

\* The holder of the lock stops or is killed.
LEMMA LockFreedKeeps ==
    ASSUME VaultInv, RetentionStops \/ KillVault
    PROVE  VaultInv'
<1>1. op' = NoOp
      /\ UNCHANGED <<deployment, job, summary, frame, answer, backups, trash, deletions>>
  BY DEF RetentionStops, KillVault, hostVars, wireVars, vaultVars
<1> QED BY <1>1, NoOpType, LockMoves

\* An archive decays while nobody holds the lock; its manifest still names it.
LEMMA DecayKeeps ==
    ASSUME VaultInv, NEW i \in Ids, Decay(i)
    PROVE  VaultInv'
<1>1. /\ op = NoOp /\ i \in VaultRecords /\ backups' = [backups EXCEPT ![i].archive = Damaged]
      /\ UNCHANGED <<deployment, job, summary, frame, answer, op, trash, knownGood, deletions>>
      /\ backups \in [Ids -> Dir \cup {None}] /\ trash \in [Ids -> Dir \cup {None}]
      /\ deletions \in Seq(Deletions)
  BY DEF Decay, hostVars, wireVars, VaultInv, VaultTypes
<1> DEFINE dir == [backups[i] EXCEPT !.archive = Damaged]
<1>2. backups[i] \in Dir /\ backups[i] # None
  BY <1>1 DEF VaultRecords, Held
<1>3. dir \in Dir /\ dir.manifest = backups[i].manifest
  BY <1>2, RunsAssumption DEF Dir, Damaged
<1>4. dir # None
  BY <1>3, MarksAssumption
<1>5. \A j \in Ids : backups'[j] = IF j = i THEN dir ELSE backups[j]
  BY <1>1
<1>6. backups' \in [Ids -> Dir \cup {None}]
  BY <1>1, <1>3
<1> HIDE DEF dir
<1>7. \A j \in Ids : Unseen(backups, trash, deletions, j) =>
                     Unseen(backups', trash', deletions', j)
  BY <1>1, <1>2, <1>5 DEF Unseen
<1>8. \A j \in Ids : \A m : Accounted(backups, trash, deletions, j, m) =>
                            Accounted(backups', trash', deletions', j, m)
  BY <1>1, <1>3, <1>4, <1>5 DEF Accounted
<1>9. CopiesOK'
  <2>1. \A k \in DOMAIN deletions : deletions[k].ids \in SUBSET Ids
    BY <1>1, DeletionTypes
  <2>2. \A j \in Ids : backups'[j] = None <=> backups[j] = None
    BY <1>2, <1>4, <1>5
  <2> QED BY <1>1, <2>1, <2>2 DEF VaultInv, CopiesOK
<1>10. MovesOK' /\ DestroysOK'
  BY <1>1, NoOpType DEF MovesOK, DestroysOK
<1> QED BY <1>1, <1>6, <1>7, <1>8, <1>9, <1>10, NoOpType, VaultStepKeeps

\* Evidence of validations and drills is kept elsewhere.
LEMMA EvidenceKeeps ==
    ASSUME VaultInv,
           UNCHANGED <<deployment, job, summary, wireVars, op, vaultVars>>
    PROVE  VaultInv'
<1>1. UNCHANGED <<deployment, job, summary, frame, answer, op, backups, trash, deletions>>
  BY DEF wireVars, vaultVars
<1>2. HostTypes' /\ UploadsOK' /\ ReportsOK'
  BY <1>1 DEF VaultInv, HostTypes, UploadsOK, ReportsOK
<1> QED BY <1>2, HostStep

-----------------------------------------------------------------------------
(* The theorems.                                                           *)

\* The vault with the backups of the first runs.
LEMMA InitKeeps ==
    ASSUME Init
    PROVE  VaultInv
<1> DEFINE dir(i) == [archive |-> i, manifest |-> deployment,
                      vault |-> IF i = 0 THEN "other" ELSE "this"]
<1>1. deployment \in Deployment
  BY DeploymentAssumption DEF Init
<1>2. /\ job \in Jobs /\ job.id = Before /\ job.pc = "idle" /\ Before \in Nat
  BY RunsAssumption DEF Init, NoJob, Jobs, Ids
<1>3. frame = None /\ answer = None /\ op = NoOp /\ deletions = <<>> /\ trash = [i \in Ids |-> None]
  BY DEF Init
<1>4. \A i \in Ids : dir(i) \in Dir /\ dir(i).manifest = deployment
  BY <1>1, RunsAssumption DEF Dir, Ids
<1>5. \A i \in Ids : dir(i) # None
  BY <1>4, MarksAssumption
<1>6. backups = [i \in Ids |-> IF i <= Before THEN dir(i) ELSE None]
  BY DEF Init
<1> HIDE DEF dir
<1>7. backups \in [Ids -> Dir \cup {None}] /\ trash \in [Ids -> Dir \cup {None}]
  BY <1>3, <1>4, <1>6
<1>8. summary \in [Ids -> Summaries]
  <2>1. [status |-> "passed", manifest |-> deployment] \in Summaries /\ NoSummary \in Summaries
    BY <1>1 DEF Summaries, NoSummary
  <2> QED BY <2>1 DEF Init
<1>9. HostTypes /\ VaultTypes
  BY <1>1, <1>2, <1>3, <1>7, <1>8, NoOpType DEF HostTypes, VaultTypes
<1>10. DOMAIN deletions = {}
  BY <1>3
<1>11. CopiesOK
  BY <1>3, <1>10 DEF CopiesOK
<1>12. UploadsOK
  <2>1. \A i \in Ids : i > Before => ~(i <= Before)
    BY <1>2, RunsAssumption DEF Ids
  <2>2. \A i \in Ids : i > job.id => Unseen(backups, trash, deletions, i)
    BY <1>2, <1>3, <1>6, <1>10, <2>1 DEF Unseen
  <2> QED BY <1>2, <1>3, <2>2, NoOpType DEF UploadsOK, Early
<1>13. ReportsOK
  <2>1. ASSUME NEW i \in Ids, summary[i].status = "passed"
        PROVE  i <= Before /\ summary[i].manifest = deployment
    <3>1. i \in 1 .. Before
      BY <2>1 DEF Init, NoSummary
    <3> QED BY <1>2, <3>1 DEF Init
  <2>2. ASSUME NEW i \in Ids, summary[i].status = "passed"
        PROVE  Accounted(backups, trash, deletions, i, summary[i].manifest)
    BY <1>4, <1>5, <1>6, <2>1, <2>2 DEF Accounted
  <2> QED BY <1>2, <1>3, <2>2 DEF ReportsOK
<1>14. MovesOK /\ DestroysOK
  BY <1>3, NoOpType DEF MovesOK, DestroysOK
<1> QED BY <1>9, <1>11, <1>12, <1>13, <1>14 DEF VaultInv

\* Every step keeps the invariant.
LEMMA NextKeeps ==
    ASSUME VaultInv, [Next]_vars
    PROVE  VaultInv'
<1>1. CASE UNCHANGED vars
  <2>1. UNCHANGED <<deployment, job, summary, wireVars, op, vaultVars>>
    BY <1>1 DEF vars, hostVars
  <2> QED BY <2>1, EvidenceKeeps
<1>2. ASSUME NEW i \in Ids, ValidateBackup(i) PROVE VaultInv'
  <2>1. UNCHANGED <<deployment, job, summary, wireVars, op, vaultVars>>
    BY <1>2 DEF ValidateBackup, hostVars
  <2> QED BY <2>1, EvidenceKeeps
<1>3. ASSUME NEW i \in Ids, NEW r \in Restore, Drill(i, r) PROVE VaultInv'
  <2>1. UNCHANGED <<deployment, job, summary, wireVars, op, vaultVars>>
    BY <1>3 DEF Drill, hostVars
  <2> QED BY <2>1, EvidenceKeeps
<1>4. CASE StoreStep
  BY <1>4, StoreWritesKeep, StorePublishKeeps DEF StoreStep
<1>5. CASE RetentionStep
  BY <1>5, RetentionMoveKeeps, RetentionUndoKeeps, RetentionIntentKeeps, RetentionDestroyKeeps,
     LockFreedKeeps, RetentionCompleteKeeps DEF RetentionStep
<1>6. CASE OtherStep
  BY <1>2, <1>4, <1>5, <1>6, JobStepKeeps, KillBackupKeeps, StoreBeginKeeps, DecayKeeps,
     AttestKeeps, RetentionBeginKeeps, LockFreedKeeps DEF OtherStep
<1> QED BY <1>1, <1>3, <1>6, LockStepKeeps DEF Next

\* VaultInv holds in every reachable state.
THEOREM VaultInvariance == Spec => []VaultInv
<1>1. Init => VaultInv
  BY InitKeeps
<1>2. VaultInv /\ [Next]_vars => VaultInv'
  BY NextKeeps
<1> QED BY <1>1, <1>2, PTL DEF Spec

\* However runs, uploads, retention, kills and decay interleave, a backup that a
\* passed summary vouches for is stored with that run's manifest, is in
\* quarantine, or is named by a deletion record, and no completion record is
\* written over a copy that still exists.
THEOREM PassedAccounted == Spec => []PassedIsAccountedFor
<1>1. VaultInv => PassedIsAccountedFor
  BY DEF VaultInv, ReportsOK, CopiesOK, Accounted, PassedIsAccountedFor
<1> QED BY <1>1, VaultInvariance, PTL

\* The action of RemovalKeepsRestorable.
Removal ==
    \A i \in Ids : Gone(i) =>
       /\ backups[i].archive = i /\ backups[i].vault = "this"
       /\ backups'[Max(VaultRecords)] # None
       /\ Cardinality({knownGood[j].restore :
              j \in {k \in Attested : backups'[k] # None}}) >= MinimumKnownGood

\* What prune_remote moves is verified, and what a restore needs stays.
LEMMA MoveSpares ==
    ASSUME VaultInv, RetentionMove
    PROVE  Removal
<1>1. PICK i \in op.doomed :
              /\ i \in VaultRecords /\ op.doomed \in SUBSET Ids
              /\ trash' = [trash EXCEPT ![i] = backups[i]]
              /\ backups' = [backups EXCEPT ![i] = None]
              /\ Restorable(op.doomed)
  BY MovedBackup
<1>2. \A j \in Ids : backups'[j] = IF j = i THEN None ELSE backups[j]
  BY <1>1 DEF VaultInv, VaultTypes
<1>3. /\ VaultRecords \in SUBSET Ids /\ Attested \subseteq VaultRecords
      /\ \A j \in VaultRecords : backups[j] # None
  BY RecordSets DEF VaultRecords, Held
<1>4. \A j \in Ids : Gone(j) => backups[j].archive = j /\ backups[j].vault = "this"
  BY <1>1, <1>2 DEF Gone, VaultRecords, ManifestBinds
<1>5. backups'[Max(VaultRecords)] # None
  <2>1. PICK m \in VaultRecords \ op.doomed : \A j \in VaultRecords : j <= m
    BY <1>1 DEF Restorable
  <2>2. Max(VaultRecords) \in VaultRecords /\ \A j \in VaultRecords : j <= Max(VaultRecords)
    BY <1>3, <2>1, MaxIsNewest
  <2>3. Max(VaultRecords) = m
    <3>1. m <= Max(VaultRecords) /\ Max(VaultRecords) <= m
      BY <2>1, <2>2
    <3>2. m \in Ids /\ Max(VaultRecords) \in Ids
      BY <1>3, <2>1, <2>2
    <3>3. m \in Nat /\ Max(VaultRecords) \in Nat
      BY <3>2, RunsAssumption DEF Ids
    <3> QED BY <3>1, <3>3
  <2> QED BY <1>1, <1>2, <1>3, <2>1, <2>3
<1> DEFINE A == {k \in Attested : backups'[k] # None}
           R == {knownGood[j].restore : j \in A}
           P == {knownGood[j].restore : j \in Attested \ op.doomed}
<1>6. Cardinality(R) >= MinimumKnownGood
  <2>1. Attested \ op.doomed \subseteq A
    BY <1>1, <1>2, <1>3
  <2>2. P \subseteq R
    BY <2>1
  <2>3. A \in SUBSET Ids
    BY <1>3
  <2> DEFINE g == [j \in A |-> knownGood[j].restore]
  <2> HIDE DEF A
  <2>4. g \in Surjection(A, R)
    BY DEF Surjection
  <2>5. IsFiniteSet(R)
    BY <2>3, <2>4, FiniteIds, FS_Surjection
  <2>6. Cardinality(P) >= MinimumKnownGood
    BY <1>1 DEF Restorable
  <2> HIDE DEF R, P
  <2>7. Cardinality(P) <= Cardinality(R) /\ Cardinality(P) \in Nat /\ Cardinality(R) \in Nat
    BY <2>2, <2>5, FS_Subset, FS_CardinalityType
  <2> QED BY <2>6, <2>7, RetentionCounts
<1> QED BY <1>4, <1>5, <1>6 DEF Removal

\* Nothing else takes a copy out of backups/.
LEMMA OthersRemoveNothing ==
    ASSUME VaultInv, [Next]_vars, ~RetentionMove, NEW i \in Ids
    PROVE  ~Gone(i)
<1>0. backups \in [Ids -> Dir \cup {None}] /\ op \in Ops
  BY DEF VaultInv, VaultTypes
<1>1. CASE UNCHANGED backups
  BY <1>1 DEF Gone
<1>2. CASE StorePublish
  <2> DEFINE dir == [archive |-> op.id, manifest |-> op.manifest, vault |-> "this"]
  <2>1. op.id \in Ids /\ op.manifest \in Deployment /\ backups' = [backups EXCEPT ![op.id] = dir]
    BY <1>0, <1>2 DEF StorePublish, VaultInv, VaultTypes, Ops
  <2>2. dir \in Dir
    BY <2>1, RunsAssumption DEF Dir, Ids
  <2>3. dir # None
    BY <2>2, MarksAssumption
  <2> HIDE DEF dir
  <2> QED BY <1>0, <2>1, <2>3 DEF Gone
<1>3. CASE RetentionUndo
  <2>1. backups'[i] = IF i \in op.doomed \ ToMove THEN trash[i] ELSE backups[i]
    BY <1>3 DEF RetentionUndo
  <2> QED BY <2>1 DEF Gone, ToMove, Held
<1>4. ASSUME NEW k \in Ids, Decay(k) PROVE ~Gone(i)
  <2> DEFINE dir == [backups[k] EXCEPT !.archive = Damaged]
  <2>1. k \in VaultRecords /\ backups' = [backups EXCEPT ![k] = dir]
    BY <1>4 DEF Decay
  <2>2. backups[k] \in Dir
    BY <1>0, <2>1 DEF VaultRecords, Held
  <2>3. dir \in Dir
    BY <2>2, RunsAssumption DEF Dir, Damaged
  <2>4. dir # None
    BY <2>3, MarksAssumption
  <2> HIDE DEF dir
  <2> QED BY <1>0, <2>1, <2>4 DEF Gone
<1>5. ASSUME JobStep \/ LockStep \/ KillBackup PROVE UNCHANGED backups
  BY <1>5 DEF JobStep, LockStep, CreateArchive, BindManifest, SendFrame, TakeReceipt, ReportBackup,
     TimeoutBackup, Redeploy, StartBackup, KillBackup, vaultVars
<1>6. ASSUME StoreBegin \/ StoreWrite \/ StoreFails PROVE UNCHANGED backups
  BY <1>6 DEF StoreBegin, StoreWrite, StoreFails, vaultVars
<1>7. ASSUME NEW k \in Ids, NEW r \in Restore, ValidateBackup(k) \/ Drill(k, r) \/ AttestBegin(k, r)
      PROVE  UNCHANGED backups
  BY <1>7 DEF ValidateBackup, Drill, AttestBegin, vaultVars
<1>8. ASSUME AttestStep \/ KillVault \/ RetentionBegin PROVE UNCHANGED backups
  BY <1>8 DEF AttestStep, AttestWrite, AttestFinish, AttestFails, KillVault, RetentionBegin, vaultVars
<1>9. ASSUME RetentionIntent \/ RetentionDestroy \/ RetentionStops \/ RetentionComplete
      PROVE  UNCHANGED backups
  BY <1>9 DEF RetentionIntent, RetentionDestroy, RetentionStops, RetentionComplete, vaultVars
<1>10. ASSUME NEW k \in Ids, ValidateBackup(k) PROVE UNCHANGED backups
  BY <1>10 DEF ValidateBackup, vaultVars
<1>11. CASE OtherStep
  BY <1>1, <1>2, <1>3, <1>4, <1>5, <1>6, <1>7, <1>8, <1>9, <1>10, <1>11
     DEF OtherStep, StoreStep, RetentionStep
<1>12. CASE UNCHANGED vars
  BY <1>1, <1>12 DEF vars, vaultVars
<1> QED BY <1>1, <1>5, <1>7, <1>11, <1>12 DEF Next

\* Only retention takes copies out of backups/, each of them a copy it verified,
\* and at every such step the newest verified copy and enough known-good ones,
\* restored into different targets, stay.
THEOREM RemovalRestorable == Spec => RemovalKeepsRestorable
<1>1. VaultInv /\ [Next]_vars => [Removal]_vars
  <2> SUFFICES ASSUME VaultInv, [Next]_vars PROVE Removal
    OBVIOUS
  <2>1. CASE RetentionMove
    BY <2>1, MoveSpares
  <2>2. CASE ~RetentionMove
    BY <2>2, OthersRemoveNothing DEF Removal
  <2> QED BY <2>1, <2>2
<1>2. Spec => [][Removal]_vars
  BY <1>1, VaultInvariance, PTL DEF Spec
<1> QED BY <1>2, PTL DEF RemovalKeepsRestorable, Removal
=============================================================================

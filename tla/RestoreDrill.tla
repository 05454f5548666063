---------------------------- MODULE RestoreDrill ----------------------------
(* A restore drill over the vault of BackupVault: a validated backup is       *)
(* exported, sent back to the source host, restored into a fresh volume and   *)
(* exercised by the release's business flow, and the two summaries allow an   *)
(* attestation.  RestoreTools has the steps of the two tools.  The drills     *)
(* that the vault counts are those whose summaries both passed: with that     *)
(* reading this module implements BackupVault.                                *)
EXTENDS RestoreTools

CONSTANTS
    Before, Weekly, SourceEntries, DailyCopies, WeeklyCopies, MinimumKnownGood, MaxVault,
    MaxKills, MaxDecay, MaxRedeploys, MaxDrills, MaxRetentions, Refused

\* Every restore id may be a drill of one backup: the tools set no bound.
ASSUME DrillAssumption ==
    MaxDrills \in Nat /\ IsFiniteSet(Restore) /\ Cardinality(Restore) <= MaxDrills

\* require_passed_rto and validate_known_good_sources: the restore summary passed
\* for this backup and left nothing behind.
RestoreEligible(i, r) ==
    /\ restored[r] # None /\ restored[r].pass
    /\ restored[r].backup = i /\ restored[r].leftovers = {}

\* The business summary passed on the volume of that restore, for its deployment.
BusinessEligible(i, r) ==
    /\ business[r] # None /\ business[r].pass
    /\ business[r].backup = i /\ business[r].manifest = restored[r].manifest
    /\ business[r].leftovers = {}

Drills == [i \in Ids |-> {r \in Restore : RestoreEligible(i, r) /\ BusinessEligible(i, r)}]

V == INSTANCE BackupVault WITH drills <- Drills

Init == DrillInit /\ V!Init

\* The host's one lifecycle lock: a drill holds it, or the backup job does, or a
\* lifecycle command.
VaultStep ==
    /\ UNCHANGED drillVars
    /\ \/ holder = None /\ V!LockStep
       \/ V!OtherStep

----------------------------------------------------------------------------
(* From the vault to the staging directory of the source host.                *)

\* Mutant: an export that finds no validation summary writes one, for any copy.
ExportValidates(i, r) ==
    /\ bundle[r] = None
    /\ i \in V!Held(backups)
    /\ bundle' = [bundle EXCEPT ![r] = [backup |-> i, manifest |-> backups[i].manifest,
                                        complete |-> FALSE]]
    /\ validated' = validated \cup {i}
    /\ UNCHANGED <<deployment, lifecycle, job, summary, frame, answer, op, backups, trash,
                   incoming, knownGood, deletions, kills, decay, redeploys,
                   staged, sent, made, data, proc, holder, restored, business,
                   faults, stops>>

\* export_restore_bundle: metadata and validation summary of a stored copy, then
\* the create-only directory with its marker.
ExportBegin(i, r) ==
    /\ bundle[r] = None
    /\ i \in V!VaultRecords /\ i \in validated
    /\ bundle' = [bundle EXCEPT ![r] = [backup |-> i, manifest |-> backups[i].manifest,
                                        complete |-> FALSE]]
    /\ UNCHANGED <<vaultVars, staged, sent, made, data, proc, holder, restored, business,
                   faults, stops>>

\* The copies and the decrypted snapshot are in place: the bundle is complete if
\* the vault still holds what was copied, and is removed otherwise.  An export
\* that is killed never gets here and leaves its marker.
ExportEnd(r) ==
    /\ bundle[r] # None /\ ~bundle[r].complete
    /\ \/ /\ bundle[r].backup \in V!VaultRecords
          /\ bundle' = [bundle EXCEPT ![r].complete = TRUE]
       \/ bundle' = [bundle EXCEPT ![r] = None]
    /\ UNCHANGED <<vaultVars, staged, sent, made, data, proc, holder, restored, business,
                   faults, stops>>

\* validate_bundle_binding: the manifest, the receipt, the validation summary and
\* the snapshot of a bundle are those of one backup.
BundleBinds(b) == b.payload = b.backup

\* parse_header, store_bundle: the received bytes have the digests of the frame's
\* header, and make a bundle.
FrameAccepted(b, received) == received = b /\ BundleBinds(received)

\* send_restore_bundle: what arrives, undamaged or not, becomes the create-only
\* staging directory with its receipt if it is accepted.  The answer may be lost
\* after that, and then every retry is refused.
SendBundle(r) ==
    /\ bundle[r] # None /\ bundle[r].complete
    /\ staged[r] = None
    /\ LET b == [backup |-> bundle[r].backup, manifest |-> bundle[r].manifest,
                 payload |-> bundle[r].backup, restore |-> r]
       IN  \/ /\ FrameAccepted(b, b)
              /\ staged' = [staged EXCEPT ![r] = b] /\ sent' = sent \cup {r}
              /\ UNCHANGED faults
           \/ Fault /\ staged' = [staged EXCEPT ![r] = b] /\ UNCHANGED sent
           \/ /\ Fault
              /\ \E x \in Ids \ {b.payload} :
                    LET received == [b EXCEPT !.payload = x]
                    IN  staged' = [staged EXCEPT ![r] = IF FrameAccepted(b, received)
                                                       THEN received ELSE None]
              /\ UNCHANGED sent
    /\ UNCHANGED <<vaultVars, bundle, made, data, proc, holder, restored, business, stops>>

----------------------------------------------------------------------------

Next ==
    \/ VaultStep
    \/ \E i \in Ids, r \in Restore : ExportBegin(i, r)
    \/ \E r \in Restore : ExportEnd(r) \/ SendBundle(r)
    \/ \E p \in Proc, r \in Restore : RestoreStart(p, r) \/ BusinessStart(p, r)
    \/ \E p \in Proc : ToolStep(p) \/ Kill(p)

Spec == Init /\ [][Next]_vars

\* A tool runs on unless it is killed: while one can take a step, one does.
FairSpec == Spec /\ WF_vars(\E p \in Proc : ToolStep(p))

----------------------------------------------------------------------------
(* Properties.                                                                *)

\* The vault, with the drills read off the summaries, behaves as BackupVault: in
\* particular a drill counts only for a backup whose validation passed.
VaultSpec == V!Spec

\* A passed business run leaves neither its work volume nor its network nor the containers
\* of its flow on the host.  (The audit's container is removed by the audit itself.)
PassedBusinessIsClean ==
    \A r \in Restore : business[r] # None /\ business[r].pass =>
        \A k \in {"work", "network", "redis", "app"} : Of(k, r) \notin made

\* A complete attestation names a restore that passed on this very backup, whose
\* retained volume still holds the attested snapshot and whose business run left
\* it untouched.
KnownGoodIsProven ==
    \A i \in Ids : knownGood[i] # None /\ ~knownGood[i].marker =>
        LET r == knownGood[i].restore
        IN  r \in Drills[i] /\ i \in validated /\ data[Of("volume", r)] = i

\* The lifecycle lock never stays with a drill: whatever fails or is killed, the
\* tool that took it gives it up.
LockIsReleased == holder # None ~> holder = None

============================================================================

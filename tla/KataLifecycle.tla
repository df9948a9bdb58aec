---------------------------- MODULE KataLifecycle ----------------------------
(***************************************************************************)
(* The coordinator of a Kata operation: a cycle that sets up, works and    *)
(* cleans up in one process, and recoveries by later processes that only   *)
(* clean up.  A process may crash between any two steps; what it held in   *)
(* memory is then gone, its children and the host are not.                 *)
(***************************************************************************)
EXTENDS KataRuntime

CONSTANT Routes  \* the routes a cycle may take

ASSUME RoutesAssumption == Routes \subseteq {"none", "full", "readiness"} /\ Routes # {}

Init == j = Blank /\ w = Host0 /\ p = Idle /\ run = Off /\ faults = 0

(***************************************************************************)
(* Entries, crash.                                                         *)
(***************************************************************************)
StartCycle == /\ run.mode = "off" /\ run.out = "none"
              /\ \E r \in Routes, m \in BOOLEAN :
                   /\ r = "none" => m
                   /\ Know([Off EXCEPT !.mode = "cycle", !.at = "static", !.route = r, !.mint = m])
StartRecovery == /\ run.mode = "off" /\ run.out # "none"
                 /\ Know([Off EXCEPT !.mode = "recovery", !.at = "recoverStatic"])

\* The kernel keeps the children; the daemon, once retained, is no command.  A
\* crash in the middle of an append leaves half a line.
Appending == /\ JournalExists(j) /\ j.phase # "RETIRED"
             /\ run.at \notin {"static", "recoverStatic", "openExisting", "residue", "settle"}
Crash == /\ run.mode # "off" /\ Faulty /\ UNCHANGED j
         /\ \/ UNCHANGED w
            \/ Appending /\ w' = [w EXCEPT !.tail = "torn"]
         /\ run' = [Off EXCEPT !.out = "crashed"]
         /\ p' = IF /\ p.child \in {"gated", "running"}
                    /\ ~(p.id = "CONTAINERD_START" /\ j.daemon = "retained")
                 THEN [p EXCEPT !.at = "lost", !.res = "none"] ELSE Idle

(***************************************************************************)
(* The setup around the inputs, the network and the runtime.               *)
(***************************************************************************)
ClaimStatic == /\ Here("static") \/ Here("recoverStatic")
               /\ Know(Advance([run EXCEPT !.custody = TRUE]))
AcquireRootfs == /\ Here("rootfs") /\ w.rootfs = "absent"
                 /\ w' = [w EXCEPT !.rootfs = "leased"]
                 /\ run' = Advance([run EXCEPT !.lease = TRUE]) /\ UNCHANGED <<j, p, faults>>

OpenOperation ==
  /\ At("open")
  /\ \/ ~StoreReady /\ Touch([w EXCEPT !.store = StoreAfter(w)])
     \/ StoreReady /\ \E k \in Acquisition : AcquireLegal(j, k) /\ Log(To(j, k))
     \/ AdmitLegal(j, "LIFECYCLE_DEADLINE_V1") /\ Log(Admit(j, "LIFECYCLE_DEADLINE_V1"))
     \/ /\ j.deadline /\ AdmitLegal(j, "PRODUCTION_ADMISSION_V2")
        /\ Close(Admit(j, "PRODUCTION_ADMISSION_V2"), [run EXCEPT !.op = TRUE])
BindRoute == At("route") /\ RouteLegal(j) /\ Close(Route(j, run.route), run)
OpenFails == \E step \in {"static", "recoverStatic", "rootfs", "open", "route", "openExisting"} :
               Raises(step, j, w)

\* An unbegun lease is given up; once a begin was attempted all is preserved.
AbandonRootfs == /\ Here("abandon") /\ run' = Advance(run) /\ UNCHANGED <<j, p, faults>>
                 /\ \/ j.phase = "NONE" /\ w' = [w EXCEPT !.rootfs = "absent"]
                    \/ UNCHANGED w

(***************************************************************************)
(* Recovery before its cleanup.                                            *)
(***************************************************************************)
\* An admitted operation with a deadline is cleaned up with this process as its
\* owner; one that was never admitted only gives its prestaged lease back.
CleanupClaimable == Probe = "journal" /\ j.admitted
OpenExisting ==
  /\ Here("openExisting")
  /\ IF Probe = "preserve" THEN Refuse
     ELSE Know(Advance([run EXCEPT !.op = CleanupClaimable]))

\* A step whose journal does not read raises, and does nothing else.
JournalSteps == StepNames \ {"static", "recoverStatic", "rootfs", "openExisting", "residue",
                             "abandon", "settle", "off"}
JournalRefuses == \E step \in JournalSteps :
  Here(step) /\ ~Readable /\ ~TreeUnrecorded /\ Refuse

RecoverCommand ==
  /\ At("recoverPending")
  /\ \/ RecoverPending /\ run' = Advance(run) /\ UNCHANGED faults
     \/ j.cmd = NoCommand /\ IF DaemonCut(j) THEN Close(Resume(j), run) ELSE Skip
RecoverFails == Raises("recoverPending", j, w)

\* Which owners are rebuilt, by phase.
Provenance == j.prepared \/ j.staged # "none" \/ j.own # NoOwner
Reconstructible == j.phase \notin Retiring \cup {"FS_OBSERVED", "FS_ABSENT"}
NeedsLease == j.phase \notin Released
NeedsNft   == j.phase \notin Released \cup {"ROOTFS_ACQUIRE_INTENT", "ROOTFS_LEASED",
                                           "FS_INTENT", "INPUT_REMOVED"}
NeedsNet   == /\ LastSnap(j) \in {"ready", "discovered", "runtime"}
              /\ j.phase # "RUNTIME_CLEANUP_ONLY" /\ ~j.released
RuntimePhases == {LIFECYCLE[i] : i \in 2..13} \cup {"RUNTIME_CLEANUP_ONLY"}
StagePhases   == {"FIREWALL_ABSENT", "RUNTIME_CLEANUP_ONLY"}
NeedsRuntime  == /\ j.phase \in RuntimePhases /\ Provenance
                 /\ j.phase \in StagePhases => w.stage # "absent"
Unprovenanced == /\ j.phase \in {"NETWORK_ABSENT", "FIREWALL_ABSENT"} /\ ~NeedsRuntime
                 /\ w.stage # "absent"

\* The lease is reopened only as the one that the journal acquired.
LeaseReopens == NeedsLease => w.rootfs = "leased"

\* Every owner that the phase needs is rebuilt, or nothing is cleaned.
Reconstruct ==
  /\ At("reconstruct")
  /\ LET leased == [run EXCEPT !.lease = NeedsLease]
         owned  == [leased EXCEPT !.nft = NeedsNft /\ w.nft = "ACTIVE", !.net = NeedsNet]
     IN IF j.phase = "UNCERTAIN" \/ ~LeaseReopens THEN Refuse
        ELSE IF ~Reconstructible THEN Know(Advance(leased))
        ELSE IF (NeedsNft /\ ~NftReopens) \/ (NeedsNet /\ ~w.ns) THEN Refuse
        ELSE IF NeedsRuntime
        THEN IF j.cmd = NoCommand /\ Ensurable(owned)
             THEN Know(Advance([owned EXCEPT !.rt = TRUE])) ELSE Unensurable(owned)
        ELSE IF Unprovenanced THEN Refuse ELSE Know(Advance(owned))
ReconstructFails == Raises("reconstruct", j, w)

\* An operation that was never admitted: its release is authorized in the
\* rootfs ledger, its journal removed, and only then the tree.
Unlink == Log(To(j, "UNLINKED"))
Preproduction ==
  /\ At("preproduction")
  /\ IF w.rootfs = "leased" THEN Touch([w EXCEPT !.rootfs = "prestage"])
     ELSE IF j.phase \notin {"NONE", "UNLINKED"} THEN Unlink
     ELSE IF w.rootfs = "prestage" THEN Touch([w EXCEPT !.rootfs = "absent"])
     ELSE Skip
PreproductionFails == Raises("preproduction", j, w)

(***************************************************************************)
(* The cleanup around the runtime, the network and the inputs.             *)
(***************************************************************************)
Readiness == {"BASELINES_CAPTURED", "NETWORK_READY", "RUNTIME_READY", "SSH_READY"}
RevokeReadiness ==
  /\ At("revoke")
  /\ IF j.phase = "UNCERTAIN" THEN Refuse
     ELSE IF j.phase \in Readiness
     THEN IF Enter("READINESS_REVOKED") THEN Close(Entered("READINESS_REVOKED"), run) ELSE Refuse
     ELSE Skip
RevokeFails == Raises("revoke", j, w)

\* Faulty variant: the journal is ahead of the rootfs ledger.
AuthorizeReleaseFirst ==
  /\ At("authorizeRelease")
  /\ IF j.phase # "ROOTFS_RELEASE_READY" THEN Skip
     ELSE Close(Entered("ROOTFS_RELEASE_AUTHORIZED"), run)

\* The rootfs ledger is authorized before the journal says so, and the tree
\* goes before the journal calls it absent.
PrepareRelease == /\ At("prepareRelease")
                  /\ IF Enter("ROOTFS_RELEASE_READY") /\ j.phase = "INPUT_REMOVED"
                     THEN Close(Entered("ROOTFS_RELEASE_READY"), run) ELSE Skip
AuthorizeRelease ==
  /\ At("authorizeRelease")
  /\ IF j.phase # "ROOTFS_RELEASE_READY" THEN Skip
     ELSE IF w.rootfs = "leased" THEN Touch([w EXCEPT !.rootfs = "authorized"])
     ELSE Close(Entered("ROOTFS_RELEASE_AUTHORIZED"), run)
RemoveRootfs ==
  /\ At("removeRootfs")
  /\ IF j.phase # "ROOTFS_RELEASE_AUTHORIZED" THEN Skip
     ELSE IF w.rootfs = "authorized" THEN Touch([w EXCEPT !.rootfs = "absent"])
     ELSE Close(Entered("ROOTFS_ABSENT"), run)

\* The last look at the host: a snapshot if there ever was one.
FinalBaselines ==
  /\ At("finalBaselines")
  /\ IF j.phase = "ROOTFS_ABSENT" /\ ~NetworkUntouched(j) /\ LastSnap(j) # "final-absent"
     THEN IF SnapshotLegal(j, "final-absent") /\ RulesRestored THEN Log(Snapshot(j, "final-absent")) ELSE Refuse
     ELSE IF j.phase \in Retiring /\ LastSnap(j) # "final-absent" THEN Refuse ELSE Skip

\* The final baselines, the intent to retire, and the retirement: a later
\* process goes on from whichever record is the last.
RetireRecord == \E k \in Retiring : Enter(k) /\ Log(Entered(k))
Retire ==
  /\ At("retire")
  /\ IF \E k \in Retiring : Enter(k) THEN RetireRecord
     ELSE IF j.phase = "RETIRED" THEN Know(Advance([run EXCEPT !.retired = TRUE]))
     ELSE IF j.phase = "ROOTFS_ABSENT" THEN Refuse ELSE Skip
RemoveOperation == /\ At("removeOperation")
                   /\ IF j.phase # "RETIRED" THEN Skip
                      ELSE IF run.retired THEN Close(To(j, "UNLINKED"), run) ELSE Refuse

\* The independent residue sensors find nothing of the operation.
Clean(h) == h = [Host0 EXCEPT !.stage = "absent", !.store = h.store]
Residue == /\ Here("residue")
           /\ IF run.retired /\ j.phase = "UNLINKED" /\ Clean(w) THEN Skip ELSE Refuse
ReleaseFails == \E step \in {"prepareRelease", "authorizeRelease", "removeRootfs",
                             "finalBaselines", "retire", "removeOperation", "residue"} :
                  Raises(step, j, w)

(***************************************************************************)
(* The end of a process: its static custody is closed in every case, and a *)
(* receipt is minted only by a cycle whose cleanup had no error.           *)
(***************************************************************************)
\* Faulty variant: a cycle with collected errors mints all the same.
OutcomeForgiving ==
  CASE run.mode = "recovery" -> IF run.fail \/ run.errs THEN "failed" ELSE "recovered"
    [] ~run.custody -> "blocked"
    [] ~run.op -> "terminal"
    [] run.route # "none" /\ run.fail -> "failed"
    [] run.fail -> "failure-receipt"
    [] OTHER -> IF run.mint THEN "receipt" ELSE "discarded"

Outcome ==
  CASE run.mode = "recovery" -> IF run.fail \/ run.errs THEN "failed"
                                ELSE IF run.op THEN "recovered" ELSE "no-operation"
    [] run.mode = "cycle" /\ ~run.custody -> "blocked"
    [] run.mode = "cycle" /\ ~run.op -> "terminal"
    [] run.mode = "cycle" /\ run.errs -> "failed"
    [] run.mode = "cycle" /\ run.route # "none" /\ run.fail -> "failed"
    [] run.mode = "cycle" /\ run.fail -> "failure-receipt"
    [] OTHER -> IF run.mint THEN "receipt" ELSE "discarded"
Finish == Here("settle") /\ Know([Off EXCEPT !.out = Outcome])

Next == \/ StartCycle \/ StartRecovery \/ Crash \/ ClaimStatic \/ AcquireRootfs \/ OpenOperation
        \/ BindRoute \/ OpenFails \/ AbandonRootfs \/ OpenExisting \/ JournalRefuses \/ RecoverCommand
        \/ RecoverFails \/ Reconstruct \/ ReconstructFails \/ Preproduction
        \/ PreproductionFails \/ RevokeReadiness \/ RevokeFails \/ PrepareRelease
        \/ AuthorizeRelease \/ RemoveRootfs \/ FinalBaselines \/ Retire \/ RemoveOperation
        \/ Residue \/ ReleaseFails \/ Finish \/ TakeResult
        \/ ProcessNext \/ InputsNext \/ NetworkNext \/ RuntimeNext
Spec == Init /\ [][Next]_vars
FairSpec == Spec /\ WF_vars(Next)

(***************************************************************************)
(* Properties.                                                             *)
(***************************************************************************)
\* A retired journal is the only witness of its operation, so it is retired and
\* unlinked only when the host holds nothing of it any more: no lease, keys,
\* inputs, writer, namespace, table, daemon, container, VM or child, after any
\* crash and any number of recoveries (coordinator _cleanup_operation).
RetiredIsClean ==
  j.admitted /\ j.phase \in {"RETIRED", "UNLINKED"} =>
    /\ [w EXCEPT !.stage = "prepared", !.store = "absent"] = Host0 /\ w.stage # "active"
    /\ p.child \notin {"gated", "running"}

\* The VM never outlives the namespace and the firewall table that confine it,
\* whichever process cleans up and whatever failed before: the teardown order is
\* enforced by the journal, not by the coordinator (completion_kata_operation
\* _legal, NETWORK_ABSENT and FIREWALL_ABSENT).
VmFenced == w.task = "running" \/ w.roles => w.ns /\ w.table

\* Only a cycle whose whole work was proved and whose cleanup left nothing
\* returns a receipt; a local failure receipt still means a clean host
\* (coordinator _finish, cycle_evidence _issue_cycle_receipt).
ReceiptMeansWhole ==
  /\ run.out \in {"receipt", "discarded"} =>
       /\ j.plat = "platform-pass" /\ j.ssh \in {"result", "settled"} /\ ~j.ever
       /\ j.route # "readiness" => j.causal
  /\ run.out \in {"receipt", "discarded", "failure-receipt"} => j.phase = "UNLINKED" /\ Clean(w)

\* A child that may still act without a supervisor is named by the pending
\* command of the journal, so that the next recovery finds and kills its cgroup,
\* or the operation is poisoned (process _transact_fixed, _recover_pending_fixed).
OrphansAreNamed ==
  p.child \in {"gated", "running"} /\ p.at = "lost" => j.cmd.id = p.id \/ j.phase = "UNCERTAIN"

\* What the code leaves to an operator instead of cleaning it up.
Preserved ==
  \/ j.phase = "UNCERTAIN" /\ ~DaemonCut(j) /\ ~run.cut
  \/ j.phase = "FS_OBSERVED"
  \/ w.nft = "RELEASING"
  \/ j.phase = "READINESS_REVOKED" /\ LastSnap(j) = "baseline"  \* a half-built network
  \/ j.daemon = "retained" /\ ~run.mine                         \* a daemon of a dead process
  \/ j.phase = "NETWORK_ABSENT" /\ j.daemon = "none"             \* a runtime never started
  \/ j.phase \in {"SHARE_ABSENT", "CONTAINERD_ABSENT"} /\ w.nft = "FREE"  \* freed ahead of the journal
  \/ j.phase = "RUNTIME_CLEANUP_ONLY" /\ j.ever
  \/ w.tail = "torn"                                            \* half a record
  \/ j.phase = "NETWORK_READY" /\ j.staged # "none" /\ w.stage = "absent"  \* a purged activation
  \/ j.phase \in RUNTIME_ABSENT_PHASES /\ w.stage # "absent"    \* released without it
  \/ InputRequired(j) /\ ~w.inputs                              \* inputs gone ahead of the journal
  \/ w.keys \/ w.store = "torn"                                 \* what the probe does not know

\* Recovery repeated until nothing changes either removes the operation for good
\* or stops at one of the situations that are left to an operator; it neither
\* oscillates nor stops half way anywhere else (coordinator _recover,
\* execution_bridge reconstruct).
OperationSettles ==
  <>[]((j.phase \in {"NONE", "UNLINKED"} /\ w.rootfs = "absent") \/ Preserved)

==============================================================================

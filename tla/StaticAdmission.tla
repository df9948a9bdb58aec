---------------------------- MODULE StaticAdmission ----------------------------
(***************************************************************************)
(* Custody of the reviewed control, the source, the installed inputs and   *)
(* the executables by the process of one operation                         *)
(* (completion_kata_admission.py, completion_kata_preparation_bridge.py,   *)
(* completion_kata_prestage_runtime.py and the executable owner of         *)
(* completion_kata_process.py).  What is admitted is opened, verified      *)
(* through its descriptor and kept open, because the names may change      *)
(* afterwards: the host is upgraded, the staged runtime is removed by the  *)
(* operation's own cleanup, or a recovery of the preparation that asked    *)
(* before the operation was active takes everything back: nothing locks    *)
(* one out while the other runs.  The process may die at any point; a      *)
(* recovery claims what is left of the custody from the names alone.       *)
(***************************************************************************)
EXTENDS StaticControl

VARIABLES
    adm,      \* the process of the operation
    recorded, \* the prepared runtime the operation's journal names: none, this
              \* one, or a past one, which is removed
    exposed   \* history: inputs were being prepared or taken back when the
              \* operation claimed them, or before it was active

vars == <<prepVars, controlVars, adm, recorded, exposed>>
outside == <<disk, prep, tar, control, package, external, ready, faults, controlVars, exposed>>

HostRoles == {"ssh", "ip"}
Roles == HostRoles \cup {"containerd"}
None == MaxUpgrades + 1                \* no generation

NoRoles == [r \in Roles |-> None]

\* kind: none, forward, recovery; contract: the generation of the contracts it
\* read; fds: what the custody keeps open; ver: the generation of the objects
\* of a claimed role; dup: that of the duplicates an owner, or the issue of
\* one, keeps open; failed: no more forward work.
NoAdm == [kind |-> "none", contract |-> None, fds |-> {}, ver |-> NoRoles, dup |-> NoRoles, owner |-> "none",
          lease |-> "none", mapped |-> FALSE, prepared |-> "none", retired |-> FALSE, failed |-> FALSE]

Forward == adm.kind = "forward" /\ ~adm.failed
Dups == {r \in Roles : adm.dup[r] # None}
Now(a) == adm' = a /\ UNCHANGED <<outside, busy, mutable, recorded>>

-----------------------------------------------------------------------------
(* Static custody. *)

\* Everything that stays open from the claim on.
StaticFds == {"control", "source", "rootfs", "config"}

\* The control and every member it lists, formal or diagnostic.
ControlRead == control # "none" /\ PackageExact(package)

\* The rootfs package and the base configuration.
RootfsRead == disk["blob"] = "whole" /\ disk["kata"] = "whole"

\* The whole source tree is walked; its security sources stay open.
SourceRead == SourceExact(package)

Admissible == ControlRead /\ SourceRead /\ RootfsRead

\* Both configurations are kept open and one is derived from the other.
LiveConfiguration == ConfigurationExact /\ disk["staged"] # "none"

\* Cleanup may have removed the derivative: then its directory must be gone.
RetiredConfiguration == disk["active"] = "none" /\ disk["staged"] = "none"

Custody(kind) == [NoAdm EXCEPT !.kind = kind, !.contract = package["contract"], !.fds = StaticFds]

\* Nothing asks whether the inputs are just being prepared or taken back.
ClaimStatic ==
    /\ adm.kind = "none" /\ ~busy /\ Admissible /\ LiveConfiguration
    /\ adm' = Custody("forward") /\ exposed' = (prep.act \in {"prepare", "rollback"})
    /\ UNCHANGED <<prepVars, controlVars, recorded>>

RecoveryAdmissible == Admissible /\ (LiveConfiguration \/ RetiredConfiguration)

ClaimRecovery ==
    /\ adm.kind = "none" /\ busy /\ RecoveryAdmissible
    /\ Now(Custody("recovery"))

\* The package is read again through the descriptor of the claim.
AcquireRootfs ==
    /\ Forward /\ adm.lease = "none"
    /\ adm' = [adm EXCEPT !.lease = "held"] /\ busy' = TRUE
    /\ UNCHANGED <<outside, mutable, recorded>>

\* Every object of the static closure is opened below the leased root.
ClaimMapping ==
    /\ Forward /\ adm.lease = "held" /\ ~adm.mapped
    /\ Now([adm EXCEPT !.mapped = TRUE, !.fds = @ \cup {"mapping"}])

-----------------------------------------------------------------------------
(* Executable roles. *)

\* The generation a role's pathname yields, if the contract accepts it.
RoleOpens(r, contract) == {g \in IF r \in HostRoles THEN {host}
                                 ELSE IF disk["staged"] = "whole" THEN {package["contract"]} ELSE {} :
                           ContractMet(contract, g)}

\* Both configurations are read again through their descriptors.
ConfigurationHeld == "config" \in adm.fds

\* The custody keeps the objects of a role open; it issues each role once.
Claimed(r, g) == [adm EXCEPT !.ver[r] = g, !.fds = @ \cup {"role"}]

\* One role after the other is claimed, consumed and duplicated.
ClaimRole ==
    /\ Forward /\ adm.mapped /\ adm.owner = "none" /\ ~adm.retired /\ ConfigurationHeld
    /\ \A q \in Roles : adm.ver[q] = adm.dup[q]
    /\ \E r \in Roles : \E g \in RoleOpens(r, adm.contract) :
          /\ adm.ver[r] = None
          /\ Now(Claimed(r, g))

\* Faulty variant: the pathname is opened again.
DuplicateOfPath(r) == IF r \in HostRoles THEN host ELSE adm.ver[r]

\* The descriptor that was verified is duplicated, never its pathname.
DuplicateOf(r) == adm.ver[r]

\* The first role of a recovery is released as soon as it is duplicated.
DuplicateRole ==
    /\ (Forward /\ adm.owner = "none") \/ adm.owner = "lazy"
    /\ \E r \in Roles :
          /\ adm.ver[r] # None /\ adm.dup[r] = None /\ (adm.owner = "lazy" => r # "ssh")
          /\ Now([adm EXCEPT !.dup[r] = DuplicateOf(r)])

\* The owner takes the duplicates of all the roles or of none, and reads each
\* of them again.
IssueOwner ==
    /\ Forward /\ adm.owner = "none" /\ \A r \in Roles : adm.dup[r] = adm.contract
    /\ Now([adm EXCEPT !.owner = "issued"])

\* Faulty variant: the duplicates made so far stay open.
FailedWithDuplicates == [adm EXCEPT !.failed = TRUE]

\* An issue that fails closes the duplicates made so far; the claims stay
\* with the custody, so that no second owner can be issued.
FailedState == [adm EXCEPT !.failed = TRUE, !.dup = IF adm.owner = "none" THEN NoRoles ELSE @]

RoleRefused ==
    /\ Forward /\ adm.mapped /\ adm.owner = "none"
    /\ \E r \in Roles : adm.ver[r] = None /\ RoleOpens(r, adm.contract) = {}
    /\ Now(FailedState)

AdmissionFails ==
    /\ Forward /\ faults < MaxFaults
    /\ adm' = FailedState /\ faults' = faults + 1
    /\ UNCHANGED <<disk, prep, tar, control, package, external, ready, busy, mutable, controlVars, recorded, exposed>>

\* Recovery installs the command policy before it reads the journal: the
\* roles it needs are claimed and their duplicates released at once.
RecoveryOwner ==
    /\ adm.kind = "recovery" /\ adm.owner = "none" /\ ~adm.retired /\ ~adm.failed
    /\ \E g \in RoleOpens("ssh", adm.contract) :
          Now([Claimed("ssh", g) EXCEPT !.owner = "lazy"])

\* Without its tools a recovery has no authority: it cleans nothing.
RecoveryRefused ==
    /\ adm.kind = "recovery" /\ adm.owner = "none" /\ ~adm.retired /\ RoleOpens("ssh", adm.contract) = {}
    /\ Now(NoAdm)

\* A further role is claimed when a cleanup phase needs it.
LazyRole ==
    /\ adm.owner = "lazy"
    /\ \E r \in Roles : \E g \in RoleOpens(r, adm.contract) :
          /\ adm.ver[r] = None
          /\ Now(Claimed(r, g))

-----------------------------------------------------------------------------
(* The prepared runtime. *)

PreparedExact == disk["staged"] = "whole" /\ disk["active"] = "whole"

\* The operation's own inputs and private directories.
CreateInputs ==
    /\ Forward /\ adm.owner = "issued" /\ adm.prepared = "none" /\ ~mutable
    /\ mutable' = TRUE
    /\ UNCHANGED <<outside, adm, busy, recorded>>

ClaimPrepared ==
    /\ Forward /\ adm.owner = "issued" /\ mutable /\ adm.prepared = "none" /\ PreparedExact
    /\ Now([adm EXCEPT !.prepared = "claimed", !.fds = @ \cup {"prepared"}])

\* The journal names it once it is verified again; then again after that.
ConsumePrepared ==
    /\ Forward /\ adm.prepared = "claimed" /\ PreparedExact
    /\ adm' = [adm EXCEPT !.prepared = "consumed"] /\ recorded' = "this"
    /\ UNCHANGED <<outside, busy, mutable>>

VerifyPrepared ==
    /\ Forward /\ adm.prepared = "consumed" /\ PreparedExact
    /\ Now([adm EXCEPT !.prepared = "verified"])

\* A tree that is not the exact one any more is refused at each of the three.
PreparedRefused ==
    /\ Forward /\ adm.owner = "issued" /\ adm.prepared # "verified" /\ ~PreparedExact
    /\ Now(FailedState)

\* One that is not there any more is not found by the cleanup.
StillRecorded == recorded' = IF recorded = "this" /\ disk'["staged"] = "none" THEN "past" ELSE recorded

\* The tree goes in one order: executables, then configuration, then the
\* directory.  Each is recognised by the generation that the journal names.
MayClean == recorded = "this" /\ ~adm.retired /\ (adm.prepared = "verified" \/ adm.owner = "lazy")

CleanPrepared ==
    /\ MayClean
    /\ disk' = IF disk["staged"] = "whole" THEN [disk EXCEPT !["staged"] = "some"]
               ELSE IF disk["active"] = "whole" THEN [disk EXCEPT !["active"] = "none"]
               ELSE [disk EXCEPT !["staged"] = "none"]
    /\ ready' = FALSE
    /\ adm' = [adm EXCEPT !.failed = TRUE]
    /\ StillRecorded
    /\ UNCHANGED <<prep, tar, control, package, external, busy, mutable, faults, controlVars, exposed>>

-----------------------------------------------------------------------------
(* The end of custody. *)

\* A forward owner has something to clean up only if it was recorded; what it
\* recorded and did not verify is left to a recovery.
RuntimeGone == recorded # "none" => disk["staged"] = "none"

RemoveInputs ==
    /\ (adm.kind = "forward" /\ adm.failed) \/ adm.owner = "lazy"
    /\ mutable /\ RuntimeGone
    /\ mutable' = FALSE
    /\ UNCHANGED <<outside, adm, busy, recorded>>

Cleaned == RuntimeGone /\ ~mutable

\* Normal work ends as a failure does: the same cleanup follows.
WorkEnds == Forward /\ adm.prepared = "verified" /\ Now([adm EXCEPT !.failed = TRUE])

\* A lease without an operation is abandoned, one with an operation is
\* released by its cleanup.
ReleaseLease ==
    /\ adm.kind = "forward" /\ adm.failed /\ adm.lease = "held" /\ Cleaned
    /\ Now([adm EXCEPT !.lease = "settled"])

LeaseSettled == adm.kind = "recovery" \/ adm.lease # "held"

\* The owner gives up every duplicate it did not release.
OwnerAborted == [adm EXCEPT !.owner = "none", !.dup = NoRoles]

\* The owner closes its duplicates; then the claims are closed if every role
\* was consumed and the prepared runtime was verified (in a recovery, what
\* was claimed at all).
Retirable == adm.kind = "recovery" \/ (adm.prepared = "verified" /\ \A r \in Roles : adm.ver[r] # None)

RetireOwner ==
    /\ adm.owner # "none" /\ (adm.kind = "recovery" \/ adm.failed) /\ Cleaned /\ LeaseSettled
    /\ Now([OwnerAborted EXCEPT !.retired = TRUE, !.failed = TRUE,
                                !.fds = IF Retirable THEN @ \ {"role", "prepared", "source", "config"} ELSE @])

\* The journal and the ledger are gone: nothing is active any more.
RetireOperation ==
    /\ busy /\ adm.kind # "none" /\ adm.failed /\ adm.owner = "none" /\ LeaseSettled /\ Cleaned
    /\ adm.kind = "recovery" => adm.retired
    /\ busy' = FALSE /\ recorded' = "none"
    /\ UNCHANGED <<outside, mutable, adm>>

AbortCustody ==
    /\ adm.kind # "none" /\ adm.failed /\ LeaseSettled /\ ~busy
    /\ Now(NoAdm)

\* The process dies, or gives up with an error; its descriptors go with it.
AdmissionDies ==
    /\ adm.kind # "none" /\ faults < MaxFaults
    /\ adm' = NoAdm /\ faults' = faults + 1
    /\ UNCHANGED <<disk, prep, tar, control, package, external, ready, busy, mutable, controlVars, recorded, exposed>>

\* An error in the cleanup (a runtime recorded and not verified, or another
\* one in its place) ends the process with everything as it is.
CleanupRefused ==
    /\ adm.failed \/ adm.owner = "lazy"
    /\ ~RuntimeGone /\ ~MayClean
    /\ Now(NoAdm)

AdmissionNext ==
    \/ ClaimStatic \/ ClaimRecovery \/ AcquireRootfs \/ ClaimMapping
    \/ ClaimRole \/ DuplicateRole \/ IssueOwner \/ RoleRefused \/ AdmissionFails
    \/ RecoveryOwner \/ RecoveryRefused \/ LazyRole
    \/ CreateInputs \/ RemoveInputs \/ ClaimPrepared \/ ConsumePrepared \/ VerifyPrepared \/ PreparedRefused \/ CleanPrepared
    \/ WorkEnds \/ ReleaseLease \/ RetireOwner \/ RetireOperation \/ AbortCustody
    \/ AdmissionDies \/ CleanupRefused

-----------------------------------------------------------------------------
\* With a staged control the entry runs the coordinator's recovery first: it
\* claims the custody and its tools, finds no operation and closes them again.
\* A preparation that is half made is refused here, before its own recovery.
RecoveryClaims ==
    /\ prep.act = "none" /\ control # "none" /\ ~busy
    /\ RecoveryAdmissible /\ RoleOpens("ssh", package["contract"]) # {}
    /\ prep' = [Idle EXCEPT !.act = "claimed"]
    /\ UNCHANGED <<disk, tar, control, package, external, ready, busy, mutable, faults>>

\* A step of the preparation.  What it begins to take back while an operation
\* holds its claim and is not active yet was checked too early.
PrepStep(A) ==
    /\ A /\ StillRecorded
    /\ exposed' = (exposed \/ (adm.kind = "forward" /\ ~busy /\ prep'.act = "rollback"))
    /\ UNCHANGED <<controlVars, adm>>
ControlStep(A) == A /\ UNCHANGED <<adm, recorded, exposed>>

Next ==
    \/ PrepStep(Prepare) \/ PrepStep(Advance) \/ PrepStep(StartTar) \/ PrepStep(TarWrites) \/ PrepStep(TarEnds)
    \/ PrepStep(Prepared) \/ PrepStep(InstalledDiffers) \/ PrepStep(RegistryRefuses) \/ PrepStep(DownloadRefuses) \/ PrepStep(PrepareFails) \/ PrepStep(PrepareDies)
    \/ PrepStep(UnwindRuntime) \/ PrepStep(UnwindKata) \/ PrepStep(UnwindMark) \/ PrepStep(UnwindTree)
    \/ PrepStep(UnwindTreeRefused) \/ PrepStep(UnwindExtracted) \/ PrepStep(UnwindCache)
    \/ PrepStep(UnwindReceipt) \/ PrepStep(UnwindInput) \/ PrepStep(UnwindRoot)
    \/ PrepStep(RecoveryClaims) \/ PrepStep(RecoverPreparation)
    \/ ControlStep(Collect) \/ ControlStep(PublishStarts) \/ ControlStep(PublishEnds)
    \/ ControlStep(CollectorStops) \/ ControlStep(StageCustody) \/ ControlStep(StageControl)
    \/ ControlStep(Upgrade)
    \/ AdmissionNext

Init == PrepInit /\ ControlInit /\ adm = NoAdm /\ recorded = "none" /\ exposed = FALSE
Spec == Init /\ [][Next]_vars

\* The job runs the recovery of whatever failed; an operation that was
\* recovered or has ended leaves the installed inputs to the same recovery.
Recover == PrepStep(~ready /\ prep.act = "none" /\ (RecoveryClaims \/ RecoverPreparation))

\* Repeated, it does not lose the race against new work every time.
RecoverWins == PrepStep(prep.act = "claimed" /\ ~busy /\ RecoverPreparation)

Progress == PrepStep(Advance \/ StartTar \/ Prepared \/ InstalledDiffers \/ UnwindNext \/ (prep.act = "claimed" /\ RecoverPreparation))

Extracts == PrepStep(TarWrites \/ TarEnds)
OrphanEnds == PrepStep(prep.act # "prepare" /\ TarEnds)

Serves ==
    \/ ClaimRecovery \/ RecoveryOwner \/ RecoveryRefused \/ CleanPrepared \/ RetireOwner \/ RetireOperation
    \/ AbortCustody \/ CleanupRefused \/ ReleaseLease \/ RoleRefused \/ WorkEnds
    \/ AcquireRootfs \/ ClaimMapping \/ ClaimRole \/ DuplicateRole \/ IssueOwner \/ CreateInputs \/ RemoveInputs
    \/ ClaimPrepared \/ ConsumePrepared \/ VerifyPrepared \/ PreparedRefused

FairSpec ==
    /\ Spec
    /\ SF_vars(Recover) /\ SF_vars(RecoverWins) /\ WF_vars(Progress) /\ WF_vars(Extracts) /\ WF_vars(OrphanEnds) /\ WF_vars(Serves)

-----------------------------------------------------------------------------
(* Properties. *)

\* Whatever a dead process leaves can be recognised: an installed tree is
\* covered by a durable receipt, and a derived configuration by the base it
\* was derived from (`_publish_runtime' after the receipt, `_rollback_...'
\* in the opposite order).
InstalledIsProvable ==
    /\ disk["staging"] # "none" \/ disk["staged"] # "none" \/ disk["kata"] # "none" => disk["receipt"] = "whole"
    /\ disk["active"] # "none" => BaseAt(disk)
    /\ \A n \in Names : disk[n] # "none" => disk["root"] # "none"

\* An operation that is active keeps its inputs, whenever a recovery of the
\* preparation is tried: the only way to lose them is a preparation or a
\* rollback already under way when they were claimed, or begun before the
\* operation was active (`recover_failed_preparation' asks once, and without a
\* lock).
WorkKeepsInputs ==
    busy /\ ~exposed => /\ prep.act \notin {"prepare", "rollback"}
                        /\ disk["kata"] = "whole" /\ disk["blob"] = "whole"
                        /\ Forward /\ adm.owner = "issued" => disk["staged"] = "whole" /\ disk["active"] = "whole"

\* Whatever is done to the pathnames between a claim, a duplication and a use,
\* the tools handed to an owner are of one generation, the reviewed one
\* (`_duplicate_role' and `admitted_role' copy the verified descriptor).
ToolsAreReviewed ==
    \A r \in Roles : adm.dup[r] # None => adm.dup[r] = package["contract"] /\ PackageExact(package)

\* Duplicates are open only in an owner or in the issue of one, and an owner
\* lives inside its custody: the configuration and the source stay open as
\* long as a tool can run (`_issue_fixed_executable_owner').
DuplicatesAreOwned ==
    /\ Dups # {} => adm.owner # "none" \/ Forward
    /\ adm.owner # "none" => StaticFds \cup {"role"} \subseteq adm.fds

\* What stops a recovery for good: states it refuses rather than interpret.
\* With a staged control the first refusal is the claim's, of everything but a
\* whole preparation; so is that of an operation that lost its inputs.
Preserved ==
    \/ control # "none" /\ ~(RecoveryAdmissible /\ RoleOpens("ssh", package["contract"]) # {})
    \/ recorded = "past" /\ disk["staged"] # "none"
    \/ disk["kata"] = "open"
    \/ \E r \in {"kata", "containerd"} : \/ disk[Arch[r]] = "sealed"
                                         \/ disk[Tree[r]] = "cut" /\ disk[Mark[r]] # "whole"
    \/ disk["receipt"] = "whole" /\ (disk["tree-kata"] = "none") # (disk["tree-containerd"] = "none")
    \/ control = "none" /\ disk["receipt"] # "whole" /\ ~TreesGone
    \/ InputRefused

AtRest == prep.act = "none" /\ adm.kind = "none" /\ tar = "none"

\* Work is admitted on inputs that are being prepared or taken back.
Overlaps == ClaimStatic /\ exposed'

\* A failed preparation is taken back and an abandoned operation is settled,
\* unless every process has ended in one of the states that are preserved, or
\* work is admitted again and again under a preparation that runs
\* (`_rollback_preparation', `_recover').
PreparationSettles ==
    []<><<Overlaps>>_vars \/ []<>((~busy /\ (ready \/ \A n \in Names : disk[n] = "none")) \/ (AtRest /\ Preserved))
=============================================================================

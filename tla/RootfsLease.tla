----------------------------- MODULE RootfsLease -----------------------------
(***************************************************************************)
(* The lease of a materialised rootfs to a Kata operation, and the two     *)
(* ways it ends (completion_rootfs_lease.py): the release the finished     *)
(* operation authorises, and the prestage recovery of an operation that    *)
(* was never admitted.  Both move two ledgers, the rootfs one here and the *)
(* operation's own, one record at a time; a death between any two records  *)
(* must be taken up by the next attempt.                                   *)
(***************************************************************************)
EXTENDS RootfsPublish

\* The operation's journal, as the lease sees it (KataJournal models it):
\* absent, begun, admitted, ready (asks for the release), authorized, settled.
VARIABLE kata

leaseVars == <<builderVars, pubVars, kata>>

-----------------------------------------------------------------------------
(* Acquisition. *)

MarkLeased ==
    /\ proc.job = "work" /\ route = "prebuilt" /\ proc.i > Len(Plan)
    /\ Postwalk /\ led.imported
    /\ led' = [led EXCEPT !.phase = "leased", !.leased = TRUE]
    /\ proc' = [Nobody EXCEPT !.job = "held"]
    /\ UNCHANGED <<disk, safe, boot, route, built, faults, pubVars, kata>>

\* Once the lease record is being written nothing is removed on failure.
MarkLeasedFails ==
    /\ Fails("work") /\ route = "prebuilt" /\ proc.i > Len(Plan)
    /\ proc' = Nobody
    /\ UNCHANGED <<treeVars, boot, route, built, pubVars, kata>>

\* The lease is verified against the disk before every use.
HeldVerifies == Status(led, disk) = "leased"

KataBegin ==
    /\ proc.job = "held" /\ kata = "absent" /\ HeldVerifies
    /\ kata' = "begun"
    /\ UNCHANGED <<builderVars, pubVars>>

KataAdmit ==
    /\ proc.job = "held" /\ kata = "begun" /\ HeldVerifies
    /\ kata' = "admitted"
    /\ UNCHANGED <<builderVars, pubVars>>

\* Custody ends without touching the tree: abandoned, or handed to the runtime.
Abandon ==
    /\ proc.job = "held"
    /\ proc' = Nobody
    /\ UNCHANGED <<treeVars, boot, route, built, faults, pubVars, kata>>

\* The runtime has been torn down and its journal asks for the release.
KataReady ==
    /\ kata = "admitted" /\ LockFree
    /\ kata' = "ready"
    /\ UNCHANGED <<builderVars, pubVars>>

-----------------------------------------------------------------------------
(* The release. *)

\* The lock is taken again; the tree must be exactly as it was leased.
ReopenLease ==
    /\ LockFree /\ kata = "ready"
    /\ Status(led, disk) \in {"leased", "release-authorized"}
    /\ proc' = [Nobody EXCEPT !.job = "authorize"]
    /\ UNCHANGED <<treeVars, boot, route, built, faults, pubVars, kata>>

AuthorizeRelease ==
    /\ proc.job = "authorize" /\ Status(led, disk) = "leased"
    /\ led' = [led EXCEPT !.phase = "release-authorized", !.auth = "release"]
    /\ UNCHANGED <<disk, safe, procVars, pubVars, kata>>

SettleRelease ==
    /\ proc.job = "authorize" /\ Status(led, disk) = "release-authorized"
    /\ kata' = "authorized"
    /\ proc' = [Nobody EXCEPT !.job = "open"]
    /\ UNCHANGED <<treeVars, boot, route, built, faults, pubVars>>

ReleaseFails ==
    /\ proc.job \in {"authorize", "prestage"} /\ Fails(proc.job)
    /\ proc' = Nobody
    /\ UNCHANGED <<treeVars, boot, route, built, pubVars, kata>>

\* The next attempt of an authorised release goes straight to the removal.
ResumeRelease ==
    /\ LockFree /\ kata = "authorized" /\ led.phase # "absent"
    /\ OpensFor("none")
    /\ proc' = Session(RecoveryOrigin(led))
    /\ UNCHANGED <<treeVars, boot, route, built, faults, pubVars, kata>>

\* The state directory holds nothing but its sentinel and its lock file.
ProveAbsence ==
    /\ LockFree /\ kata = "authorized" /\ Idle
    /\ kata' = "settled"
    /\ UNCHANGED <<builderVars, pubVars>>

-----------------------------------------------------------------------------
(* Prestage recovery: the operation never got as far as its admission. *)

\* Faulty variant: an admitted operation's lease is taken for an unused one.
PrestageOpenAdmitted ==
    /\ LockFree /\ kata \in {"absent", "begun", "admitted"} /\ boot = 3
    /\ Status(led, disk) = "leased" \/ (CleanupOrigin(led) = "prestage-authorized" /\ CleanupAllowed(led, disk))
    /\ proc' = [Nobody EXCEPT !.job = "prestage"]
    /\ UNCHANGED <<treeVars, boot, route, built, faults, pubVars, kata>>

PrestageOpen ==
    /\ LockFree /\ kata \in {"absent", "begun"} /\ boot = 3
    /\ Status(led, disk) = "leased" \/ (CleanupOrigin(led) = "prestage-authorized" /\ CleanupAllowed(led, disk))
    /\ proc' = [Nobody EXCEPT !.job = "prestage"]
    /\ UNCHANGED <<treeVars, boot, route, built, faults, pubVars, kata>>

AuthorizePrestage ==
    /\ proc.job = "prestage" /\ Status(led, disk) = "leased"
    /\ led' = [led EXCEPT !.phase = "prestage-release-authorized", !.auth = "prestage"]
    /\ UNCHANGED <<disk, safe, procVars, pubVars, kata>>

\* Faulty variant: the tree goes first and the operation's journal stays.
SettlePrestageLater ==
    /\ proc.job = "prestage" /\ led.auth = "prestage"
    /\ proc' = IF OpensFor("prestage") THEN Session(RecoveryOrigin(led)) ELSE Nobody
    /\ UNCHANGED <<treeVars, boot, route, built, faults, pubVars, kata>>

\* The operation's journal is removed, then the tree, with the prestage key.
SettlePrestage ==
    /\ proc.job = "prestage" /\ led.auth = "prestage"
    /\ kata' = "absent"
    /\ proc' = IF OpensFor("prestage") THEN Session(RecoveryOrigin(led)) ELSE Nobody
    /\ UNCHANGED <<treeVars, boot, route, built, faults, pubVars>>

-----------------------------------------------------------------------------
LeaseNext ==
    \/ MarkLeased \/ MarkLeasedFails \/ KataBegin \/ KataAdmit \/ Abandon \/ KataReady
    \/ ReopenLease \/ AuthorizeRelease \/ SettleRelease \/ ReleaseFails \/ ResumeRelease \/ ProveAbsence
    \/ PrestageOpen \/ AuthorizePrestage \/ SettlePrestage

Init == BuilderInit /\ PublishInit /\ kata = "absent"

Next ==
    \/ BuilderNext /\ UNCHANGED <<pubVars, kata>>
    \/ PublishNext /\ UNCHANGED kata
    \/ LeaseNext

Spec == Init /\ [][Next]_leaseVars

\* What a live process does without anybody's help, and the attempts that an
\* operator or the campaign repeats: recover-owned, the release, the
\* prestage recovery.  Failures, new builds and the runtime's end are not
\* assumed.
Proceeds ==
    \/ /\ \/ BootstrapStep \/ (Begin /\ proc.job = "boot") \/ WriteGenesis \/ SettleGenesis
          \/ Note \/ Intend \/ Mutate \/ Sync \/ Observe \/ Settle \/ BuildDone
          \/ UndoName \/ UndoAbort \/ Undone \/ OpenSession
          \/ CleanAbort \/ CleanObserve \/ CleanSettle \/ CleanIntend \/ CleanRemove
          \/ CleanAbsent \/ CleanRetire \/ UnlinkLedger
       /\ UNCHANGED <<pubVars, kata>>
    \/ MarkLeased \/ Abandon \/ AuthorizeRelease \/ SettleRelease \/ AuthorizePrestage \/ SettlePrestage

Retries ==
    \/ RecoverOwned /\ UNCHANGED <<pubVars, kata>>
    \/ ReopenLease \/ ResumeRelease \/ ProveAbsence \/ PrestageOpen

FairSpec == Spec /\ WF_leaseVars(Proceeds) /\ WF_leaseVars(Retries)

-----------------------------------------------------------------------------
(* What is checked. *)

\* The fold of the ledger stays in a state that its own rules allow, and
\* every name on the disk is one the ledger owns or has announced, and every
\* owned name is on the disk unless its removal is announced or its creation
\* was lost before it was fsynced: a crash, a failed undo or a half-done
\* removal never leaves a name nobody answers for (_create_ledger_entry,
\* _finish_remove, _retire).
NamesAreOwned ==
    /\ LegalState(led)
    /\ \A p \in Paths \cup {"op"} :
          /\ disk[p] # 0 => led.own[p] # 0 \/ (led.pend.op # "none" /\ led.pend.path = p)
          /\ led.own[p] # 0 => disk[p] # 0 \/ (led.pend.op \in {"remove", "operation-remove"} /\ led.pend.path = p)

\* While an operation may still use the rootfs (its journal says begun or
\* admitted, or it asks for the release and has not got it), the whole
\* planned tree is on the disk, generation for generation as it was leased:
\* no recovery, run at any time by anybody, takes a name of it away
\* (_open_cleanup_session, _recover_unadmitted_kata_operation).
LeaseIsKept ==
    kata \in {"begun", "admitted"} \/ (kata = "ready" /\ led.phase # "absent" /\ led.auth = "none") =>
        /\ led.leased
        /\ disk = led.own
        /\ \A p \in Paths \cup {"op"} : disk[p] # 0

\* The two ledgers agree about the release: the rootfs one authorises it only
\* after the operation asked, the operation is told only of an authorisation
\* that is durable, it records the absence only of a tree that is gone, and
\* an unused lease is taken back only from an operation that was never
\* admitted (_authorize_kata_release, _kata_authorized_absence).
LedgersAgree ==
    /\ led.auth = "release" => kata \in {"ready", "authorized"}
    /\ led.auth = "prestage" => kata \in {"absent", "begun"}
    /\ kata = "authorized" => led.auth = "release" \/ led.phase = "absent"
    /\ kata = "settled" => \A p \in Paths \cup {"op"} : disk[p] = 0

\* What is accepted is whole: the directory has that name only with every
\* file linked and the transaction past its rename record, and the snapshot
\* of the transaction is never missing once it was there (_publish).
AcceptedIsWhole ==
    /\ cand.at = "accepted" => /\ cand.n = PubFiles
                               /\ txn.main # <<>> /\ Tip.phase \in {"rename", "accepted"}
    /\ cand.at # "none" => txn.main # <<>> /\ cand.n \in {Tip.n, Tip.n + 1}

\* The states that the code keeps for a person to look at.
Preserved ==
    \/ led.torn \/ led.phase = "empty" \/ boot \in 1..2
    \/ /\ led.phase = "intent"
       /\ \/ led.pend.op = "metadata"
          \/ disk # led.own /\ led.pend.op \in {"operation", "create", "hardlink-create"}
    \/ led.phase = "observed" /\ disk # Settled(led.own, led.pend)
    \/ led.auth # "none" /\ led.phase \in {"operation-absent", "retired"}

\* Recovery comes to an end: again and again the state directory is idle, or
\* in one of the preserved states, or leased to an operation that was
\* admitted.  No failure or crash leaves the tree in a state that every later
\* attempt starts on and none finishes (_recover_locked, _recover_kata_release).
RootfsSettles ==
    []<>(proc.job # "publish" => Idle \/ boot = 0 \/ Preserved \/ kata = "admitted")

\* An authorised removal is always finished: "Every namespace cut under the
\* distinct prestage origin remains restartable".
RetirementFinishes == led.auth # "none" ~> led.phase = "absent"
=============================================================================

--------------------------- MODULE RootfsBuilder ----------------------------
(***************************************************************************)
(* The process that builds the owned rootfs tree under its ledger, undoes  *)
(* a step that fails, and removes the tree again, in the same process or   *)
(* in a later one (completion_rootfs_builder.py, _materializer.py,         *)
(* _candidate.py, _build.py).  One process at a time holds the lock of the *)
(* state directory; it may fail at any step, or die, and a death may lose  *)
(* what was not yet fsynced or leave half a record in the ledger.          *)
(***************************************************************************)
EXTENDS RootfsLedger

CONSTANT TornAppends   \* may a death leave half a record in the ledger?

VARIABLES
    boot,    \* the state directory: 0 absent, 1 made, 2 has its sentinel, 3 has its lock file
    proc,    \* the process that holds the lock
    route,   \* what is built: "prebuilt" (imported and leased) or "build" (twice, then published)
    built,   \* builds finished on the build route
    faults

treeVars == <<disk, safe, led>>
procVars == <<boot, proc, route, built, faults>>
builderVars == <<treeVars, procVars>>

Nobody == [job |-> "none", i |-> 0, made |-> FALSE, origin |-> "none"]
Working == [job |-> "work", i |-> 1, made |-> FALSE, origin |-> "none"]

-----------------------------------------------------------------------------
(* The plan of a build: what is done to the tree, in order. *)

Step(op, p) == [op |-> op, path |-> p]
Each(op, s) == [k \in DOMAIN s |-> Step(op, s[k])]
\* Every entry is made and then given its metadata.
WithMetadata(op, s) ==
    [k \in 1..2 * Len(s) |-> IF k % 2 = 1 THEN Step(op, s[(k + 1) \div 2]) ELSE Step("metadata", s[k \div 2])]

BeginPlan == <<Step("create", "sentinel"), Step("create", "rootfs")>>

MaterialPlan ==
    Each("create", Dirs)
    \o WithMetadata("create", Files)
    \o (IF Aliases = <<>> THEN <<>> ELSE <<Step("group", LinkTarget)>> \o Each("hardlink-create", Aliases))
    \o WithMetadata("create", Symlinks)
    \o Each("metadata", Reverse(Dirs))
    \o <<Step("metadata", "rootfs")>>

PrebuiltPlan ==
    BeginPlan \o <<Step("import", "rootfs")>> \o MaterialPlan
    \o <<Step("create", "manifest"), Step("create", "tar")>>

BuildPlan ==
    BeginPlan \o MaterialPlan \o <<Step("create", "manifest"), Step("candidate-tar", "tar")>>

Plan == IF route = "prebuilt" THEN PrebuiltPlan ELSE BuildPlan

\* What the working process does next: the operation directory comes first.
Now == IF led.phase = "ready" THEN Step("operation", "op") ELSE Plan[proc.i]

-----------------------------------------------------------------------------
(* The state directory. *)

\* The lock is asked for without waiting: a second process is refused.
LockFree == proc.job = "none"

Bootstrap ==
    /\ LockFree /\ boot = 0
    /\ proc' = [Nobody EXCEPT !.job = "boot"]
    /\ boot' = 1
    /\ UNCHANGED <<treeVars, route, built, faults>>

BootstrapStep ==
    /\ proc.job = "boot" /\ boot < 3
    /\ boot' = boot + 1
    /\ UNCHANGED <<treeVars, proc, route, built, faults>>

Idle == boot = 3 /\ led.phase = "absent"

-----------------------------------------------------------------------------
(* The forward direction. *)

\* _begin_operation: the lock is taken and the state directory holds nothing else.
Begin ==
    /\ Idle
    /\ \/ proc.job = "boot"
       \/ LockFree /\ route = "build" /\ built < 2
    /\ proc' = Working
    /\ led' = [Absent EXCEPT !.phase = "empty"]
    /\ disk' = [disk EXCEPT !["state"] = @ + 1]
    /\ UNCHANGED <<safe, boot, route, built, faults>>

WriteGenesis ==
    /\ proc.job = "work" /\ led.phase = "empty"
    /\ led' = [led EXCEPT !.phase = "genesis", !.own = disk]
    /\ safe' = disk
    /\ UNCHANGED <<disk, procVars>>

SettleGenesis ==
    /\ proc.job \in {"work", "clean"} /\ led.phase = "genesis"
    /\ led' = [led EXCEPT !.phase = "ready"]
    /\ UNCHANGED <<disk, safe, procVars>>

\* Records that change no name: the import's provenance, a group of hardlinks.
Note ==
    /\ proc.job = "work" /\ led.phase = "active" /\ proc.i <= Len(Plan)
    /\ Now.op \in {"import", "group"}
    /\ led' = IF Now.op = "import" THEN [led EXCEPT !.imported = TRUE] ELSE [led EXCEPT !.grouped = TRUE]
    /\ proc' = [proc EXCEPT !.i = @ + 1]
    /\ UNCHANGED <<disk, safe, boot, route, built, faults>>

Intend ==
    /\ proc.job = "work" /\ led.phase \in {"ready", "active"} /\ proc.i <= Len(Plan)
    /\ Now.op \notin {"import", "group"}
    /\ Acceptable(led, Now.op, Now.path, disk)
    /\ led' = Intended(led, Now.op, Now.path, disk)
    /\ proc' = [proc EXCEPT !.made = FALSE]
    /\ UNCHANGED <<disk, safe, boot, route, built, faults>>

Mutate ==
    /\ proc.job = "work" /\ led.phase = "intent" /\ ~proc.made
    /\ Possible(disk, led.pend.op, led.pend.path)
    /\ disk' = Applied(disk, led.pend.op, led.pend.path)
    /\ proc' = [proc EXCEPT !.made = TRUE]
    /\ UNCHANGED <<safe, led, boot, route, built, faults>>

\* Metadata and the linked archive are fsynced before they are observed, a
\* created name or link only after.
SyncsFirst(op) == op \in {"metadata", "candidate-tar"}

Sync ==
    /\ proc.job = "work" /\ safe # disk
    /\ \/ led.phase = "intent" /\ proc.made /\ SyncsFirst(led.pend.op)
       \/ led.phase = "observed"
    /\ safe' = disk
    /\ UNCHANGED <<disk, led, procVars>>

Observe ==
    /\ proc.job = "work" /\ led.phase = "intent" /\ proc.made
    /\ SyncsFirst(led.pend.op) => safe = disk
    /\ led' = Observed(led, disk)
    /\ UNCHANGED <<disk, safe, procVars>>

Settle ==
    /\ proc.job = "work" /\ led.phase = "observed" /\ safe = disk
    /\ led' = Settlement(led)
    /\ proc' = [proc EXCEPT !.made = FALSE, !.i = IF led.pend.op = "operation" THEN @ ELSE @ + 1]
    /\ UNCHANGED <<disk, safe, boot, route, built, faults>>

\* The walk of the finished tree finds what the ledger owns and nothing else.
Postwalk == Status(led, disk) = "active"

\* The first and the second build are not retained: each is removed at once,
\* and a failure of either loses both (_two_build_outputs).
BuildDone ==
    /\ proc.job = "work" /\ route = "build" /\ proc.i > Len(Plan)
    /\ Postwalk
    /\ proc' = [Nobody EXCEPT !.job = "clean", !.origin = "prelease"]
    /\ built' = built + 1
    /\ UNCHANGED <<treeVars, boot, route, faults>>

-----------------------------------------------------------------------------
(* Failure of a forward step: the step is undone, then the tree removed. *)

Fails(job) == proc.job = job /\ faults < MaxFaults /\ faults' = faults + 1

Fail ==
    /\ Fails("work")
    /\ proc' = [proc EXCEPT !.job = "undo"]
    /\ built' = 0
    /\ UNCHANGED <<treeVars, boot, route>>

BootstrapFails ==
    /\ Fails("boot")
    /\ proc' = Nobody
    /\ UNCHANGED <<treeVars, boot, route, built>>

\* What the failed step itself takes back before its caller cleans up.
Undoable ==
    \/ led.phase = "empty"
    \/ /\ led.phase = "intent" /\ led.pend.op \in {"operation", "create", "hardlink-create"}
       /\ proc.made /\ disk[led.pend.path] # 0

UndoName ==
    /\ proc.job = "undo" /\ Undoable
    /\ IF led.phase = "empty"
       THEN led' = Absent /\ disk' = [disk EXCEPT !["state"] = 1]
       ELSE disk' = Unlinked(disk, led.pend.path) /\ UNCHANGED led
    /\ safe' = disk'
    /\ UNCHANGED procVars

\* Faulty variant: the abort is recorded whether the name is gone or not.
AbortsInPlaceBlind == led.phase = "intent" /\ led.pend.op \in {"create", "hardlink-create"}

\* The abort is recorded for an entry; the operation directory has none.
AbortsInPlace ==
    /\ led.phase = "intent" /\ disk[led.pend.path] = 0
    /\ \/ led.pend.op = "create"
       \/ led.pend.op = "hardlink-create" /\ proc.made

UndoAbort ==
    /\ proc.job = "undo" /\ AbortsInPlace
    /\ led' = Aborted(led, disk)
    /\ UNCHANGED <<disk, safe, procVars>>

Undone ==
    /\ proc.job = "undo" /\ ~Undoable /\ ~AbortsInPlace
    /\ proc' = [Nobody EXCEPT !.job = "open"]
    /\ UNCHANGED <<treeVars, boot, route, built, faults>>

UndoFails ==
    /\ Fails("undo")
    /\ proc' = [Nobody EXCEPT !.job = "open"]
    /\ UNCHANGED <<treeVars, boot, route, built>>

-----------------------------------------------------------------------------
(* Recovery: the ledger says what may be removed, and the disk must agree. *)

\* The authority a recovery claims, from the phase the ledger is in.
RecoveryOrigin(l) ==
    CASE "prestage-release-authorized" \in {l.phase, l.ret} -> "prestage-authorized"
      [] "release-authorized" \in {l.phase, l.ret} -> "release-authorized"
      [] OTHER -> "prelease"

OpensFor(key) ==
    /\ CleanupAllowed(led, disk)
    /\ CleanupOrigin(led) = RecoveryOrigin(led)
    /\ RecoveryOrigin(led) = "prestage-authorized" => key = "prestage"

Session(origin) == [Nobody EXCEPT !.job = "clean", !.origin = origin]

\* The session a failed build opens on its own tree.
OpenSession ==
    /\ proc.job = "open"
    /\ proc' = IF OpensFor("none") THEN Session(RecoveryOrigin(led)) ELSE Nobody
    /\ UNCHANGED <<treeVars, boot, route, built, faults>>

\* recover-owned, run by hand.
RecoverOwned ==
    /\ LockFree /\ boot = 3 /\ led.phase # "absent" /\ OpensFor("none")
    /\ proc' = Session(RecoveryOrigin(led))
    /\ UNCHANGED <<treeVars, boot, route, built, faults>>

CleanAbort ==
    /\ proc.job = "clean"
    /\ \/ led.phase = "ready" /\ led' = [led EXCEPT !.phase = "aborted"]
       \/ /\ led.phase = "intent" /\ IntentStatus(led, disk) \in {"entry-absent", "abortable"}
          /\ led' = Aborted(led, disk)
    /\ UNCHANGED <<disk, safe, procVars>>

\* A change that was made but not settled is fsynced and settled, to be
\* removed like any other name.
CleanObserve ==
    /\ proc.job = "clean" /\ led.phase = "intent"
    /\ IntentStatus(led, disk) = "observeable"
    /\ safe' = disk
    /\ led' = Observed(led, disk)
    /\ UNCHANGED <<disk, procVars>>

CleanSettle ==
    /\ proc.job = "clean" /\ led.phase = "observed"
    /\ safe' = disk
    /\ led' = Settlement(led)
    /\ UNCHANGED <<disk, procVars>>

Owned == {p \in Paths : led.own[p] # 0}

\* Faulty variant: the tree is removed from the top.
NextRemovalTop ==
    IF led.links > 0 THEN Aliases[led.links]
    ELSE CHOOSE p \in Owned : \A q \in Owned : Depth[p] <= Depth[q]

\* The links in the reverse order of their making, then the deepest names.
NextRemoval ==
    IF led.links > 0 THEN Aliases[led.links]
    ELSE CHOOSE p \in Owned : \A q \in Owned : Depth[p] >= Depth[q]

CleanIntend ==
    /\ proc.job = "clean" /\ led.phase \in Grown
    /\ \E s \in {IF Owned # {} THEN Step("remove", NextRemoval) ELSE Step("operation-remove", "op")} :
          /\ Acceptable(led, s.op, s.path, disk)
          /\ led' = Intended(led, s.op, s.path, disk)
    /\ UNCHANGED <<disk, safe, procVars>>

CleanRemove ==
    /\ proc.job = "clean" /\ led.phase = "intent" /\ IntentStatus(led, disk) = "retry"
    /\ Isdir(led.pend.path) => Empty(disk, led.pend.path)
    /\ disk' = Unlinked(disk, led.pend.path)
    /\ UNCHANGED <<safe, led, procVars>>

CleanAbsent ==
    /\ proc.job = "clean" /\ led.phase = "intent" /\ IntentStatus(led, disk) = "absence-settleable"
    /\ safe' = disk
    /\ led' = IF led.pend.op = "remove" THEN Observed(led, disk) ELSE OperationAbsent(led, disk)
    /\ UNCHANGED <<disk, procVars>>

CleanRetire ==
    /\ proc.job = "clean" /\ Status(led, disk) = "retirable"
    /\ led' = [led EXCEPT !.phase = "retired"]
    /\ UNCHANGED <<disk, safe, procVars>>

\* Nothing refers to the state directory's generation any more.
UnlinkLedger ==
    /\ proc.job = "clean" /\ Status(led, disk) = "retired"
    /\ led' = Absent
    /\ disk' = [disk EXCEPT !["state"] = 1]
    /\ safe' = disk'
    /\ proc' = Nobody
    /\ UNCHANGED <<boot, route, built, faults>>

\* A poisoned session leaves everything where it is.
CleanFails ==
    /\ Fails("clean")
    /\ proc' = Nobody
    /\ built' = 0
    /\ UNCHANGED <<treeVars, boot, route>>

-----------------------------------------------------------------------------
(* Death of the process. *)

Crash ==
    /\ proc.job # "none" /\ faults < MaxFaults
    /\ faults' = faults + 1
    /\ proc' = Nobody
    /\ \/ UNCHANGED <<disk, safe, led>>
       \/ \* what was not fsynced is lost, a ledger without a record with it
          /\ safe # disk
          /\ disk' = safe
          /\ led' = IF led.phase = "empty" THEN Absent ELSE led
          /\ UNCHANGED safe
       \/ \* the record being written is cut short
          /\ TornAppends /\ led.phase \notin {"absent", "empty"}
          /\ proc.job \in {"work", "undo", "clean", "authorize", "prestage"}
          /\ led' = [led EXCEPT !.torn = TRUE]
          /\ UNCHANGED <<disk, safe>>
    /\ built' = 0
    /\ UNCHANGED <<boot, route>>

BuilderInit ==
    /\ disk = [n \in Nodes |-> IF n = "state" THEN 1 ELSE 0]
    /\ safe = disk
    /\ led = Absent
    /\ boot = 0 /\ proc = Nobody /\ built = 0 /\ faults = 0
    /\ route \in {"prebuilt", "build"}

BuilderNext ==
    \/ Bootstrap \/ BootstrapStep \/ BootstrapFails
    \/ Begin \/ WriteGenesis \/ SettleGenesis
    \/ Note \/ Intend \/ Mutate \/ Sync \/ Observe \/ Settle \/ BuildDone
    \/ Fail \/ UndoName \/ UndoAbort \/ Undone \/ UndoFails
    \/ OpenSession \/ RecoverOwned
    \/ CleanAbort \/ CleanObserve \/ CleanSettle \/ CleanIntend \/ CleanRemove
    \/ CleanAbsent \/ CleanRetire \/ UnlinkLedger \/ CleanFails
    \/ Crash
=============================================================================

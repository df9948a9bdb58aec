------------------------- MODULE ImmutablePreparation -------------------------
(***************************************************************************)
(* The fixed public inputs of a Kata operation are acquired, extracted,    *)
(* published and, when anything fails, taken back again                    *)
(* (completion_kata_immutable_preparation.py and                           *)
(* completion_rootfs_prebuilt_acquisition.py).  The transaction lives in   *)
(* one private directory and touches three places outside it: the prebuilt *)
(* rootfs input, the staged runtime and /opt/kata.  Its process may fail   *)
(* or die between any two changes of the disk; what is left is settled by  *)
(* the same rollback, run by the failing process or by a later recovery.   *)
(* No lock is shared with the operations that use the inputs.              *)
(*                                                                         *)
(* `disk' gives each name of the transaction the state its bytes are in:   *)
(* none, or one of the words listed below.  A process death keeps the disk.*)
(***************************************************************************)
EXTENDS Naturals, Sequences

CONSTANTS
    MaxFaults,                         \* failures and deaths in a behaviour
    MaxUpgrades                        \* upgrades of the host's tools

ASSUME MaxFaultsNat == MaxFaults \in Nat
ASSUME MaxUpgradesNat == MaxUpgrades \in Nat

VARIABLES
    disk,     \* name -> state of its bytes
    prep,     \* the process that prepares, rolls back or recovers
    tar,      \* the extractor: "none" or the archive it is extracting
    control,  \* reviewed control staged on the host: none, formal, diagnostic
    package,  \* member of the staged control -> the generation it was collected in
    external, \* the descriptor's directory: none, descriptor only, six members
    ready,    \* the preparation returned its summary
    busy,     \* an operation's journal or a rootfs ledger is active
    mutable,  \* an operation's inputs and its directories below /run are there
    faults

Arch == [kata |-> "arch-kata", containerd |-> "arch-containerd"]
Tree == [kata |-> "tree-kata", containerd |-> "tree-containerd"]
Mark == [kata |-> "mark-kata", containerd |-> "mark-containerd"]

Names == {"root", "cache", "ext", "input", "intent", "blob", "sentinel", "settle", "receipt",
          "staging", "staged", "active", "kata"}
         \cup {Arch[r] : r \in {"kata", "containerd"}}
         \cup {Tree[r] : r \in {"kata", "containerd"}}
         \cup {Mark[r] : r \in {"kata", "containerd"}}

\* The words: torn: bytes missing; loose: whole, mode not yet set; sealed: whole, under
\* its partial name; linked: two names; cut: a tree with a truncated file;
\* some: a subset of a tree; rest: what a moved tree leaves behind; open: a
\* tree whose top was made writable; empty, whole: as they say.
Nowhere == [n \in Names |-> "none"]
Idle == [act |-> "none", pc |-> 0, checked |-> FALSE, cut |-> FALSE, moved |-> FALSE, seen |-> FALSE,
         known |-> FALSE]

prepVars == <<disk, prep, tar, control, package, external, ready, busy, mutable, faults>>
Gone(names) == \A n \in names : disk[n] = "none"

-----------------------------------------------------------------------------
(* The forward script.  A step writes one name, or gives a tree its final   *)
(* name and leaves something, or nothing, under the former one.             *)

Write(n, word) == [name |-> n, word |-> word, from |-> "nothing", left |-> "none"]
Rename(n, m, left) == [name |-> m, word |-> "whole", from |-> n, left |-> left]

Written(step) == [n \in Names |-> IF n = step.name THEN step.word
                                  ELSE IF n = step.from THEN step.left ELSE disk[n]]

\* One shot: the directory must be new; every record is written under the
\* name it keeps.
IntentSteps == << Write("input", "empty"), Write("intent", "torn"), Write("intent", "loose"), Write("intent", "whole") >>

\* The blob is linked to its final name before the partial one goes.
BlobSteps == << Write("blob", "torn"), Write("blob", "sealed"), Write("blob", "linked"), Write("blob", "whole") >>

\* The settlement binds the blob to its inode.
SettleSteps == << Write("sentinel", "torn"), Write("sentinel", "whole"), Write("settle", "torn"), Write("settle", "whole") >>

DownloadSteps(r) == << Write(Arch[r], "torn"), Write(Arch[r], "sealed"), Write(Arch[r], "whole") >>

\* The extraction is announced in its directory; the tree itself is the work
\* of the extractor.
ExtractSteps(r) == << Write(Tree[r], "empty"), Write(Mark[r], "torn"), Write(Mark[r], "whole"),
                      Write(Tree[r], "whole"), Write(Mark[r], "none") >>

ReceiptSteps == << Write("receipt", "torn"), Write("receipt", "whole") >>

\* The staged runtime and the Kata tree get their names by rename, after every
\* file of them is written and the receipt is durable.
PublishSteps ==
    << Write("staging", "empty"), Write("staging", "torn"), Write("staging", "some"),
       Write("active", "torn"), Write("active", "whole"),
       Rename("staging", "staged", "none"),
       Rename("tree-kata", "kata", "rest") >>

Script ==
    << Write("root", "whole"), Write("cache", "whole"), Write("ext", "whole") >> \o IntentSteps \o BlobSteps \o SettleSteps
    \o DownloadSteps("kata") \o DownloadSteps("containerd")
    \o ExtractSteps("kata") \o ExtractSteps("containerd")
    \o ReceiptSteps \o PublishSteps

\* The step in which the extractor runs.
Extracting(r) == prep.act = "prepare" /\ prep.pc <= Len(Script) /\ Script[prep.pc] = Write(Tree[r], "whole")

-----------------------------------------------------------------------------
(* Validation of a staged package.  Each validator recomputes what its      *)
(* member names and compares; equal digests are equal generations.          *)

Generations == 0 .. MaxUpgrades
Members == {"control", "envelope", "runtime", "contract", "source"}

\* The control lists every member with its digest and size.
ControlExact(p) == \A m \in Members : p[m] = p["control"]

\* The envelope names the runtime manifest, its archives, launch artifacts
\* and executables, the programs and the implementation.
EnvelopeExact(p) == p["envelope"] = p["runtime"]

\* The runtime manifest names the contract of every executable role.
RuntimeExact(p) == p["runtime"] = p["contract"]

\* The source manifest is the one the envelope was made for.
SourceExact(p) == p["source"] = p["envelope"]

PackageExact(p) == ControlExact(p) /\ EnvelopeExact(p) /\ RuntimeExact(p) /\ SourceExact(p)

-----------------------------------------------------------------------------
(* Preparation. *)

\* The descriptor comes from the reviewed control, whose members are all
\* validated, or from its directory when there is none; both at once compete
\* and neither is taken.
DescriptorChosen ==
    \/ control = "formal" /\ external = "none" /\ PackageExact(package)
    \/ control = "none" /\ external = "descriptor"

Prepare ==
    /\ prep.act = "none"
    /\ Gone({"root", "input", "staging", "staged", "kata"})
    /\ DescriptorChosen
    /\ prep' = [Idle EXCEPT !.act = "prepare", !.pc = 1, !.known = control # "none"]
    /\ UNCHANGED <<disk, tar, control, package, external, ready, busy, mutable, faults>>

\* The receipt describes trees that were walked and compared with the list of
\* their archive.
ArchiveValues == \A r \in {"kata", "containerd"} : disk[Tree[r]] = "whole"

Advance ==
    /\ prep.act = "prepare" /\ prep.pc <= Len(Script)
    /\ Script[prep.pc] = ReceiptSteps[1] => ArchiveValues
    /\ \A r \in {"kata", "containerd"} : ~Extracting(r)
    /\ disk' = Written(Script[prep.pc])
    /\ prep' = [prep EXCEPT !.pc = @ + 1]
    /\ UNCHANGED <<tar, control, package, external, ready, busy, mutable, faults>>

StartTar ==
    /\ tar = "none"
    /\ \E r \in {"kata", "containerd"} :
          /\ Extracting(r) /\ disk[Tree[r]] = "empty"
          /\ tar' = r
    /\ UNCHANGED <<disk, prep, control, package, external, ready, busy, mutable, faults>>

\* The extractor writes, file after file; it goes on when its parent is
\* killed, and then writes into what a recovery has begun to remove.
TarWrites ==
    /\ tar # "none"
    /\ \E v \in CASE disk[Tree[tar]] = "empty" -> {"cut", "some"}
                   [] disk[Tree[tar]] = "cut" -> {"some", "whole"}
                   [] disk[Tree[tar]] = "some" -> IF prep.act = "prepare" THEN {"whole"} ELSE {"cut", "whole"}
                   [] OTHER -> {} :
          disk' = [disk EXCEPT ![Tree[tar]] = v]
    /\ UNCHANGED <<prep, tar, control, package, external, ready, busy, mutable, faults>>

TarEnds ==
    /\ tar # "none"
    /\ disk[Tree[tar]] = "whole" \/ prep.act # "prepare"
    /\ tar' = "none"
    /\ prep' = IF prep.act = "prepare" THEN [prep EXCEPT !.pc = @ + 1] ELSE prep
    /\ UNCHANGED <<disk, control, package, external, ready, busy, mutable, faults>>

\* What was installed is read once more, the rootfs package included.
Installed ==
    /\ disk["staged"] = "whole" /\ disk["active"] = "whole"
    /\ disk["kata"] = "whole" /\ disk["blob"] = "whole"

Prepared ==
    /\ prep.act = "prepare" /\ prep.pc > Len(Script) /\ Installed
    /\ ready' = TRUE /\ prep' = Idle
    /\ UNCHANGED <<disk, tar, control, package, external, busy, mutable, faults>>

\* The rollback reads the receipt and the place of the Kata tree once; the
\* control, if there is one, was read before.
Rollback(d, known) ==
    [Idle EXCEPT !.act = "rollback", !.pc = 1, !.moved = d["kata"] # "none", !.seen = d["receipt"] = "whole",
                 !.known = known]

\* An interrupted download removes its own partial; the extractor is killed
\* with its parent's exception; then everything is rolled back.
RollsBack ==
    /\ disk' = [n \in Names |-> IF n \in {Arch["kata"], Arch["containerd"]} /\ disk[n] \in {"torn", "sealed"}
                                THEN "none" ELSE disk[n]]
    /\ prep' = IF prep.pc = 1 THEN Idle ELSE Rollback(disk', prep.known)
    /\ tar' = "none"
    /\ UNCHANGED <<control, package, external, ready, busy, mutable>>

\* An operation that was admitted meanwhile has taken the runtime away.
InstalledDiffers ==
    /\ prep.act = "prepare" /\ prep.pc > Len(Script) /\ ~Installed
    /\ RollsBack /\ UNCHANGED faults

Fails == faults < MaxFaults /\ faults' = faults + 1 /\ RollsBack

At(steps) == prep.act = "prepare" /\ prep.pc <= Len(Script) /\ \E i \in 1 .. Len(steps) : Script[prep.pc] = steps[i]

\* The registry's token, manifest, redirect or body is not the exact one.
RegistryRefuses == At(BlobSteps) /\ Fails

\* The archive's server answers something else than the pinned bytes.
DownloadRefuses == (\E r \in {"kata", "containerd"} : At(DownloadSteps(r))) /\ Fails

\* Any other call fails.
PrepareFails ==
    /\ prep.act = "prepare" /\ ~At(BlobSteps) /\ \A r \in {"kata", "containerd"} : ~At(DownloadSteps(r))
    /\ Fails

\* The process dies, or a failed call ends the rollback with an error.
PrepareDies ==
    /\ prep.act # "none" /\ faults < MaxFaults
    /\ prep' = Idle /\ faults' = faults + 1
    /\ UNCHANGED <<disk, tar, control, package, external, ready, busy, mutable>>

-----------------------------------------------------------------------------
(* The rollback: one class of names after the other, none after an error.   *)

\* Faulty variant: the order in which they were published.
ClassesForward == <<"kata", "staged", "staging", "ext", "cache", "receipt", "input", "root">>

Classes == <<"staged", "staging", "kata", "ext", "cache", "receipt", "input", "root">>
Class == Classes[prep.pc]
Unwinding(c) == prep.act = "rollback" /\ prep.pc <= Len(Classes) /\ Class = c

\* The manifest by which trees are recognised: the receipt's, else control's.
ManifestKnown == prep.seen \/ prep.known

\* The derivative is recognised by the base it was derived from.
BaseAt(d) == d["kata"] = "whole" \/ d["tree-kata"] = "whole"

Changed(d) == disk' = d /\ UNCHANGED <<prep, tar, control, package, external, ready, busy, mutable, faults>>
Marked(q) == prep' = q /\ UNCHANGED <<disk, tar, control, package, external, ready, busy, mutable, faults>>
NextClass == Marked([prep EXCEPT !.pc = @ + 1, !.checked = FALSE, !.cut = FALSE])

\* An error ends the inspection: the later classes are left alone.  (The two
\* first are inspected in any case; the second has nothing when the first is
\* there.)
Uncertain == Marked(Idle)

UnwindRuntime ==
    /\ Unwinding("staged") \/ Unwinding("staging")
    /\ IF disk[Class] = "none" THEN NextClass
       ELSE IF disk["active"] # "none" /\ ~BaseAt(disk) THEN Uncertain
       ELSE Changed(IF disk[Class] = "torn" \/ (disk[Class] = "whole" /\ disk["active"] # "torn")
                    THEN [disk EXCEPT ![Class] = "some"]
                    ELSE IF disk["active"] # "none" THEN [disk EXCEPT !["active"] = "none"]
                    ELSE [disk EXCEPT ![Class] = "none"])

\* The top of the tree must have the mode the manifest gives it; the removal
\* changes that mode first.
UnwindKata ==
    /\ Unwinding("kata")
    /\ IF ~prep.moved \/ disk["kata"] = "none" THEN NextClass
       ELSE IF ~prep.checked
            THEN IF ManifestKnown /\ disk["kata"] # "open"
                 THEN Marked([prep EXCEPT !.checked = TRUE]) ELSE Uncertain
       ELSE Changed([disk EXCEPT !["kata"] = IF @ = "open" THEN "none" ELSE "open"])

\* The archive whose tree is the next to go.
NextTree == IF disk["tree-kata"] # "none" THEN "kata" ELSE "containerd"
TreesGone == Gone({"tree-kata", "tree-containerd"})

\* Before the first tree: with a receipt both must be there.
TreesExpected == prep.checked \/ (ManifestKnown /\ (prep.seen => disk["tree-kata"] # "none" /\ disk["tree-containerd"] # "none"))

\* Every entry is one of the manifest's, whole unless the extraction was
\* interrupted.
TreeRecognised == disk[Tree[NextTree]] = "cut" => prep.cut

\* The mark goes first and is remembered: only an interrupted extraction may
\* have a truncated file.
UnwindMark ==
    /\ Unwinding("ext") /\ ~TreesGone /\ TreesExpected /\ disk[Mark[NextTree]] # "none"
    /\ disk' = [disk EXCEPT ![Mark[NextTree]] = "none"]
    /\ prep' = [prep EXCEPT !.checked = TRUE, !.cut = disk[Mark[NextTree]] = "whole"]
    /\ UNCHANGED <<tar, control, package, external, ready, busy, mutable, faults>>

\* A verified tree is emptied; once its top is gone nothing can be written.
UnwindTree ==
    /\ Unwinding("ext") /\ ~TreesGone /\ TreesExpected /\ disk[Mark[NextTree]] = "none" /\ TreeRecognised
    /\ \E v \in {"some", "none"} \ {disk[Tree[NextTree]]} :
          /\ disk' = [disk EXCEPT ![Tree[NextTree]] = v]
          /\ prep' = [prep EXCEPT !.checked = TRUE, !.cut = v # "none" /\ prep.cut]
          /\ tar' = IF v = "none" /\ tar = NextTree THEN "none" ELSE tar
    /\ UNCHANGED <<control, package, external, ready, busy, mutable, faults>>

\* An extractor that still writes makes the walk or the last rmdir fail.
UnwindTreeRefused ==
    /\ Unwinding("ext") /\ ~TreesGone
    /\ \/ ~TreesExpected
       \/ disk[Mark[NextTree]] = "none" /\ (tar = NextTree \/ ~TreeRecognised)
    /\ Uncertain

UnwindExtracted ==
    /\ Unwinding("ext") /\ TreesGone
    /\ IF disk["ext"] = "none" THEN NextClass ELSE Changed([disk EXCEPT !["ext"] = "none"])

\* A partial is renamed to its .removing name first and unlinked under that one.
RemovePartial(word) == IF word = "torn" THEN "removing" ELSE "none"

\* Faulty variant: what a former rollback set aside is a foreign name.
UnwindCacheForeign ==
    /\ Unwinding("cache")
    /\ IF disk["cache"] = "none" THEN NextClass
       ELSE IF \E r \in {"kata", "containerd"} : disk[Arch[r]] \in {"sealed", "removing"} THEN Uncertain
       ELSE IF Gone({Arch["kata"], Arch["containerd"]}) THEN Changed([disk EXCEPT !["cache"] = "none"])
       ELSE \E r \in {"kata", "containerd"} :
               /\ disk[Arch[r]] # "none"
               /\ Changed([disk EXCEPT ![Arch[r]] = RemovePartial(@)])

\* A partial is set aside before it is removed, unless it was already sealed.
UnwindCache ==
    /\ Unwinding("cache")
    /\ IF disk["cache"] = "none" THEN NextClass
       ELSE IF \E r \in {"kata", "containerd"} : disk[Arch[r]] = "sealed" THEN Uncertain
       ELSE IF Gone({Arch["kata"], Arch["containerd"]}) THEN Changed([disk EXCEPT !["cache"] = "none"])
       ELSE \E r \in {"kata", "containerd"} :
               /\ disk[Arch[r]] # "none"
               /\ disk[Arch[r]] = "whole" => \A q \in {"kata", "containerd"} : disk[Arch[q]] \in {"none", "whole"}
               /\ Changed([disk EXCEPT ![Arch[r]] = RemovePartial(@)])

UnwindReceipt ==
    /\ Unwinding("receipt")
    /\ IF disk["receipt"] = "none" THEN NextClass ELSE Changed([disk EXCEPT !["receipt"] = "none"])

\* Each name is recognised by its mode, its one link and its bytes; the
\* intent binds the directory and goes last.
InputRefused ==
    \/ disk["intent"] = "none" /\ ~Gone({"blob", "sentinel", "settle"})
    \/ disk["settle"] = "torn" \/ disk["sentinel"] = "torn" \/ disk["blob"] \in {"linked", "sealed"}
    \/ disk["intent"] = "loose"

NextInput == IF disk["settle"] # "none" THEN "settle" ELSE IF disk["sentinel"] # "none" THEN "sentinel"
             ELSE IF disk["blob"] # "none" THEN "blob" ELSE IF disk["intent"] # "none" THEN "intent" ELSE "input"

UnwindInput ==
    /\ Unwinding("input")
    /\ IF disk["input"] = "none" THEN NextClass
       ELSE IF InputRefused THEN Uncertain
       ELSE Changed([disk EXCEPT ![NextInput] = "none"])

\* The private directory is the last to go.
UnwindRoot ==
    /\ Unwinding("root")
    /\ disk' = [disk EXCEPT !["root"] = "none"]
    /\ prep' = Idle
    /\ UNCHANGED <<tar, control, package, external, ready, busy, mutable, faults>>

\* The descriptor a recovery goes by: the diagnostic control's, checked
\* against the six members; else the formal control's; else the directory's.
\* The members of a control are validated before anything of them is used.
DescriptorFound ==
    /\ control # "none" => PackageExact(package)
    /\ control = "diagnostic" => external = "custody"
    /\ control = "none" => external # "none"

\* The entry calls it at once when no control is staged, else when the
\* coordinator's recovery has found no operation.
RecoveryEntered == prep.act = "claimed" \/ (prep.act = "none" /\ control = "none")

\* Faulty variant: admitted whatever is active.
RecoverPreparationAnyTime ==
    /\ RecoveryEntered
    /\ IF DescriptorFound /\ disk["root"] # "none"
       THEN prep' = Rollback(disk, control # "none") /\ ready' = FALSE
       ELSE prep' = Idle /\ UNCHANGED ready
    /\ UNCHANGED <<disk, tar, control, package, external, busy, mutable, faults>>

\* Recovery asks once whether mutable paths, an operation or a rootfs are
\* there, and refuses; without the private directory there is nothing to
\* recover.
RecoverPreparation ==
    /\ RecoveryEntered
    /\ IF ~mutable /\ ~busy /\ DescriptorFound /\ disk["root"] # "none"
       THEN prep' = Rollback(disk, control # "none") /\ ready' = FALSE
       ELSE prep' = Idle /\ UNCHANGED ready
    /\ UNCHANGED <<disk, tar, control, package, external, busy, mutable, faults>>

UnwindNext ==
    \/ UnwindRuntime \/ UnwindKata \/ UnwindMark \/ UnwindTree \/ UnwindTreeRefused \/ UnwindExtracted
    \/ UnwindCache \/ UnwindReceipt \/ UnwindInput \/ UnwindRoot

PrepInit ==
    /\ disk = Nowhere /\ prep = Idle /\ tar = "none" /\ ready = FALSE /\ busy = FALSE /\ mutable = FALSE /\ faults = 0
    /\ package = [m \in Members |-> 0]
    /\ \/ control = "none" /\ external = "descriptor"
       \/ control = "formal" /\ external = "none"
=============================================================================

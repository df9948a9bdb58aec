------------------------------ MODULE KataInputs ------------------------------
(***************************************************************************)
(* The private inputs of a Kata operation: a stage for the SSH keys and    *)
(* the tree that the VM mounts.  The stage exists only while the keys are  *)
(* made; the tree stays until the runtime is gone.                         *)
(***************************************************************************)
EXTENDS KataSteps

KeysMade == j.keys = KeyCommands

\* _ProductionInputs.create, record by record; the journal is its position.
GrantKeyStage  == /\ At("inputs") /\ GrantLegal(j, "intent")
                  /\ j' = Grant(j, "intent") /\ run' = [run EXCEPT !.inputs = TRUE]
                  /\ UNCHANGED <<w, p, faults>>
MakeKeyStage   == At("inputs") /\ j.grant = "intent" /\ ~w.keys /\ Touch([w EXCEPT !.keys = TRUE])
SettleKeyStage == At("inputs") /\ w.keys /\ GrantLegal(j, "settled") /\ Log(Grant(j, "settled"))
MakeKeys       == Call("inputs", KEYS)

\* The keys and their stage are unlinked; the journal keeps no record of it.
RemoveKeyStage == Touch([w EXCEPT !.keys = FALSE])

\* The recorded tree is made, checked and only then recorded as created.
CreateTree == \/ j.tree = "intent" /\ ~w.inputs /\ Touch([w EXCEPT !.inputs = TRUE])
              \/ w.inputs /\ StepLegal(j, "created") /\ Log(InputStep(j, "created"))

CreateInputs ==
  /\ At("inputs") /\ KeysMade
  /\ \/ j.phase = "ROOTFS_LEASED" /\ FsLegal(j, "FS_INTENT") /\ Log(To(j, "FS_INTENT"))
     \/ /\ j.phase = "FS_INTENT"
        /\ \/ StepLegal(j, "intent") /\ Log(InputStep(j, "intent"))
           \/ CreateTree
           \/ j.tree = "created" /\ w.keys /\ RemoveKeyStage
           \/ j.tree = "created" /\ ~w.keys /\ Log(To(j, "FS_OBSERVED"))
     \/ j.phase = "FS_OBSERVED" /\ FsLegal(j, "FS_SETTLED") /\ Close(To(j, "FS_SETTLED"), run)

\* Whatever fails, the keys go and the operation is poisoned.
CreateFails == Raises("inputs", Poisoned(j), [w EXCEPT !.keys = FALSE])

\* The executables were claimed and the inputs are still to be composed: a
\* failure here leaves no owner and no poison.
LiveFails == /\ run.at = "inputs" /\ ~run.inputs /\ ~Supervised /\ p.at # "done" /\ Faulty
             /\ run' = Raised(run) /\ UNCHANGED <<j, w, p>>

InputsSettled == j.phase \in Released \cup {"INPUT_REMOVED"}

\* The tree goes between two records.  The second is appended to the records
\* already read: a reload in between would not find the tree it demands.
RemoveTree ==
  \/ At("removeInputs") /\ StepLegal(j, "removing") /\ Log(InputStep(j, "removing"))
  \/ At("removeInputs") /\ j.tree = "removing" /\ w.inputs /\ Touch([w EXCEPT !.inputs = FALSE])
  \/ Here("removeInputs") /\ ~w.inputs /\ StepLegal(j, "absent") /\ Log(InputStep(j, "absent"))
TreeUnrecorded == run.at = "removeInputs" /\ ~w.inputs /\ StepLegal(j, "absent")

\* The owner that made the tree removes it at CONTAINERD_ABSENT and at no other
\* phase; before that it only refuses.
RemoveOwned ==
  /\ ~InputsSettled /\ run.inputs
  /\ \/ j.phase # "CONTAINERD_ABSENT" /\ At("removeInputs") /\ Refuse
     \/ j.phase = "CONTAINERD_ABSENT" /\ RemoveTree
     \/ /\ At("removeInputs") /\ j.tree = "absent" /\ PhaseLegal(j, "INPUT_REMOVED", NoOwner)
        /\ Close(Phase(j, "INPUT_REMOVED", NoOwner), run)

\* Without that owner the durable records are continued, in more phases, after
\* a command left pending is recovered.
CleanupPhases == InputPhases
ContinueCleanup ==
  /\ ~InputsSettled /\ ~run.inputs
  /\ \/ At("removeInputs") /\ RecoverPending /\ UNCHANGED <<run, faults>>
     \/ /\ j.cmd = NoCommand /\ At("removeInputs")
        /\ \/ j.phase \notin CleanupPhases
           \/ ~w.keys /\ ~InputsGone(j) /\ ~NoCleanup(j)
        /\ Refuse
     \/ j.phase \in CleanupPhases /\ ~w.keys /\ RemoveTree
     \/ /\ j.cmd = NoCommand /\ j.phase \in CleanupPhases /\ At("removeInputs")
        /\ IF w.keys THEN RemoveKeyStage
           ELSE /\ InputsGone(j)
                /\ CASE j.phase = "FS_INTENT" -> Close(Uncertain(j), run)
                     [] j.phase \in {"ROOTFS_LEASED", "FS_SETTLED", "CONTAINERD_ABSENT"} ->
                          IF run.mode = "cycle" /\ j.phase # "CONTAINERD_ABSENT"
                          THEN Close(Uncertain(j), run)
                          ELSE IF PhaseLegal(j, "INPUT_REMOVED", NoOwner)
                          THEN Close(Phase(j, "INPUT_REMOVED", NoOwner), run)
                          ELSE Close(Poisoned(j), [run EXCEPT !.errs = TRUE])
                     [] OTHER -> Skip

KeepInputs == At("removeInputs") /\ InputsSettled /\ Skip
RemoveInputsFails ==
  /\ ~InputsSettled
  /\ Raises("removeInputs", IF run.inputs /\ j.phase # "CONTAINERD_ABSENT" THEN j ELSE Poisoned(j), w)

InputsNext == \/ GrantKeyStage \/ MakeKeyStage \/ SettleKeyStage \/ MakeKeys \/ CreateInputs
              \/ (run.inputs /\ CreateFails) \/ LiveFails \/ RemoveOwned
              \/ ContinueCleanup \/ KeepInputs \/ RemoveInputsFails
==============================================================================

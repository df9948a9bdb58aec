------------------------------ MODULE KataRuntime ------------------------------
(***************************************************************************)
(* The runtime of a Kata operation: the prepared stage is activated, the   *)
(* private containerd is started and retained, one container is launched,  *)
(* observed and reached over SSH; and the way back, from the observation   *)
(* of what is owned to the end of the daemon.  The read-only listings of a *)
(* step are taken with the record that they feed.                          *)
(***************************************************************************)
EXTENDS KataNetwork

Enter(ph) == PhaseLegal(j, ph, NoOwner)
Entered(ph) == Phase(j, ph, NoOwner)
Record(step, k) == At(step) /\ RuntimeLegal(j, k) /\ Log(RuntimeRecord(j, k))

(***************************************************************************)
(* What the listings of containerd, /proc, the monitor socket and the      *)
(* share directory say, once parsed and bound to the recorded identities.  *)
(***************************************************************************)
TaskSeen      == w.task # "absent"
ContainerSeen == w.ctr
RolesSeen     == w.roles   \* exactly one shim, qemu and virtiofsd
ShareSeen     == w.share
MonitorAnswers == RolesSeen /\ w.task = "running"

(***************************************************************************)
(* Setup.                                                                  *)
(***************************************************************************)
\* _activate_prepared_containerd: the records around the activation, then the
\* start command of the daemon.
Stage ==
  \/ /\ At("stage") /\ ~j.prepared /\ Record("stage", "RUNTIME_PREPARED_V1")
  \/ /\ At("stage") /\ j.prepared /\ Record("stage", "RUNTIME_STAGE_INTENT_V4")
  \/ /\ At("stage") /\ j.staged = "intent" /\ w.stage = "prepared"
     /\ Touch([w EXCEPT !.stage = "active"])
  \/ w.stage = "active" /\ Record("stage", "RUNTIME_STAGED_V3")
  \/ j.staged = "staged" /\ Call("stage", "CONTAINERD_START")
  \/ /\ Took("stage", "CONTAINERD_START")
     /\ run' = Advance([run EXCEPT !.rt = TRUE]) /\ UNCHANGED <<j, w, faults>>

\* A failed activation purges the stage, or poisons when it cannot tell whose
\* it is; after the retention the daemon is stopped again, which leaves the
\* operation to a cleanup-only recovery.
StageFails ==
  LET purged == [w EXCEPT !.stage = "absent"] IN
  \/ p.at # "done" /\ j.staged = "none" /\ Raises("stage", j, w)
  \/ p.at # "done" /\ j.staged # "none" /\ Raises("stage", j, purged)
  \/ p.at # "done" /\ j.staged = "intent" /\ Raises("stage", Poisoned(j), w)
  \/ p.at = "done" /\ p.res # "ok" /\ Raises("stage", j, w)
  \/ /\ p.at = "done" /\ p.res = "ok" /\ DaemonOutcomeLegal(j) /\ DaemonUsable
     /\ \/ Raises("stage", DaemonOutcome(j, "certain"), [purged EXCEPT !.daemon = FALSE])
        \/ Raises("stage", DaemonOutcome(j, "uncertain"), [w EXCEPT !.daemon = FALSE])

BindMapping == /\ At("mapping") /\ RuntimeLegal(j, "RUNTIME_MOUNT_V2")
               /\ Close(RuntimeRecord(j, "RUNTIME_MOUNT_V2"), run)

\* CTR_RUN at most once; a certain failure revokes the readiness at once, an
\* uncertain one is preserved.
Launch == \/ DaemonUsable /\ Call("launch", "CTR_RUN")
          \/ /\ Took("launch", "CTR_RUN") /\ w.daemon /\ Enter("RUNTIME_READY")
             /\ j' = Entered("RUNTIME_READY") /\ run' = Advance(run) /\ UNCHANGED <<w, faults>>
LaunchFails ==
  LET revoked == Returned("CTR_RUN", "failed") /\ Enter("READINESS_REVOKED") IN
  Raises("launch", IF revoked THEN Entered("READINESS_REVOKED") ELSE j, w)

ObserveRuntimeNetwork ==
  /\ At("runtimeNetwork") /\ RuntimeSeen
  /\ \/ SnapshotLegal(j, "discovered") /\ Log(Snapshot(j, "discovered"))
     \/ SnapshotLegal(j, "runtime") /\ Close(Snapshot(j, "runtime"), run)

ProveRuntime ==
  /\ At("platform") /\ DaemonUsable
  /\ \/ PlatformLegal(j, "qmp-intent") /\ Log(Platform(j, "qmp-intent"))
     \/ PlatformLegal(j, "qmp-pass") /\ MonitorAnswers /\ Log(Platform(j, "qmp-pass"))
     \/ PlatformLegal(j, "platform-pass") /\ Close(Platform(j, "platform-pass"), run)

ObserveCausality == /\ At("causality") /\ SensorLegal(j) /\ Close(Sensor(j), run)

\* The authenticated session: its command, the second sensor and the causal
\* proof where the route has them, its result, its settlement, SSH_READY.
Authenticate ==
  LET step == "ssh" IN
  \/ At(step) /\ ~run.ssh /\ Know([run EXCEPT !.ssh = TRUE])
  \/ run.ssh /\ \E id \in SshIds : Call(step, id)
  \/ /\ At(step) /\ j.ssh = "exited" /\ run.route # "readiness"
     /\ \/ SensorLegal(j) /\ Log(Sensor(j))
        \/ CausalLegal(j) /\ Log(Causal(j))
  \/ /\ At(step)
     /\ \/ \E k \in {"result", "settled"} : SshLegal(j, k) /\ Log(Ssh(j, k))
        \/ Enter("SSH_READY") /\ Close(Entered("SSH_READY"), run)

\* A setup step that finds its daemon gone raises.
DaemonLost == /\ run.at \in {"launch", "platform"} /\ ~DaemonUsable
              /\ \/ p.at \in {"idle", "lost"} /\ Refuse
                 \/ Took("launch", "CTR_RUN") /\ run' = Raised(run) /\ UNCHANGED <<j, w, faults>>

ObserveFails == \E step \in {"mapping", "runtimeNetwork", "platform", "causality", "ssh"} :
                  Raises(step, j, w)

(***************************************************************************)
(* Cleanup.                                                                *)
(***************************************************************************)
\* The phase in which a step has work; in every other phase it returns.
HasWork(step) ==
  CASE step = "ownership"       -> j.phase = "READINESS_REVOKED"
    [] step = "stopTask"        -> j.phase = "OWNERSHIP_OBSERVED" /\ j.own.task # "absent"
    [] step = "removeTask"      -> j.phase = "TASK_STOPPED"
    [] step = "removeRuntime"   -> j.phase \in {"OWNERSHIP_OBSERVED", "TASK_ABSENT"}
    [] step = "releaseNetwork"  -> j.phase = "RUNTIME_ABSENT"
    [] step = "removeContainer" -> j.phase = "NETWORK_ABSENT" /\ j.own # NoOwner
    [] step = "removeShare"     -> \/ j.phase = "CONTAINER_ABSENT"
                                   \/ j.phase = "NETWORK_ABSENT" /\ j.prepared
    [] OTHER -> FALSE
RuntimeSteps == {"ownership", "stopTask", "removeTask", "removeRuntime",
                 "releaseNetwork", "removeContainer", "removeShare"}
Busy(step) == run.at = step /\ HasWork(step) /\ run.rt
CleanupCalls == RuntimeSteps \ {"ownership", "releaseNetwork"}  \* they call cleanup(owner)
KeepRuntime == \E step \in RuntimeSteps :
                 /\ At(step) /\ ~HasWork(step) /\ ~run.cut /\ Skip
                 /\ ~(step = "removeShare" /\ j.phase = "NETWORK_ABSENT")

\* An operation that never staged anything leaves its prepared tree alone; what
\* it cannot identify it does not touch.
StageResidue == j.daemon = "none" /\ j.staged = "intent" /\ w.stage # "absent"
Composable(r) == \/ r.net \/ j.released
                 \/ j.phase \in {"NETWORK_ABSENT", "CONTAINER_ABSENT", "SHARE_ABSENT",
                                 "FIREWALL_ABSENT", "RUNTIME_CLEANUP_ONLY"}
Ensurable(r) == /\ r.lease /\ w.inputs /\ Composable(r) /\ ~StageResidue
                /\ j.daemon = "retained" => w.daemon
                /\ j.prepared \/ w.stage = "prepared"

\* The runtime owner is rebuilt from durable records when this process has
\* none.  A pending command is recovered first, a daemon that is gone is
\* recorded as such, and both end the step.
Unensurable(r) ==
  \/ j.cmd # NoCommand /\ RecoverPending /\ run' = Raised(r) /\ UNCHANGED faults
  \/ /\ j.cmd = NoCommand /\ ~Ensurable(r) /\ run' = Raised(r) /\ UNCHANGED <<w, p, faults>>
     /\ IF ~(r.lease /\ w.inputs) THEN UNCHANGED j
        ELSE IF j.daemon = "retained" /\ ~w.daemon THEN DaemonMissing
        ELSE j' = IF StageResidue THEN Poisoned(j) ELSE j
EnsureRuntime == \E step \in RuntimeSteps :
  /\ At(step) /\ HasWork(step) /\ ~run.rt
  /\ \/ Unensurable(run)
     \/ j.cmd = NoCommand /\ Ensurable(run) /\ Know([run EXCEPT !.rt = TRUE])

\* A pending command of an owner that is still there is recovered by the next
\* step that cleans the runtime up: removeRuntime after stopTask, removeShare
\* after removeContainer.
RuntimePending == \E step \in CleanupCalls :
  /\ At(step) /\ Busy(step) /\ RecoverPending
  /\ run' = [run EXCEPT !.cut = TRUE] /\ UNCHANGED faults

\* A signal to the task is then resumed and the step goes on in the phase of the
\* signal.  After any other command the daemon is stopped, but its outcome is no
\* legal record any more, so that the step raises with the journal as it was.
ResumeCleanup == \E step \in CleanupCalls :
  /\ At(step) /\ run.cut
  /\ \/ /\ ResumeLegal(j) /\ j' = Resume(j) /\ run' = [run EXCEPT !.cut = FALSE]
        /\ UNCHANGED <<w, p, faults>>
     \/ /\ ~ResumeLegal(j) /\ run' = Raised([run EXCEPT !.rt = FALSE])
        /\ w' = IF DaemonUsable THEN [w EXCEPT !.daemon = FALSE] ELSE w
        /\ UNCHANGED <<j, p, faults>>

\* A listing of the daemon fails: certainly, which leaves the phase stuck, with
\* an uncertain outcome, or with its child still there and no outcome at all.
Listed == \/ j.phase \in {"NETWORK_READY", "RUNTIME_READY", "READINESS_REVOKED",
                         "TASK_STOPPED", "NETWORK_ABSENT"}
          \/ j.phase = "OWNERSHIP_OBSERVED" /\ j.own.task # "absent"
Listing == [j EXCEPT !.cmd = [id |-> OBSERVE, at |-> "preexec"], !.tip = "COMMAND_PREEXEC"]
ListingFails == \E step \in {"launch", "platform"} \cup (RuntimeSteps \ {"releaseNetwork"}) :
  /\ At(step) /\ (step \in RuntimeSteps => Busy(step)) /\ DaemonUsable
  /\ Listed /\ CommandLegal(j, OBSERVE) /\ ~j.stuck /\ j.daemon = "retained" /\ Faulty
  /\ \/ j' = [j EXCEPT !.stuck = TRUE, !.tip = "COMMAND_OUTCOME"] /\ UNCHANGED p
     \/ j' = CommandUncertain(Listing) /\ UNCHANGED p
     \/ j' = Listing /\ p' = [Idle EXCEPT !.id = OBSERVE, !.at = "lost", !.child = "running",
                                          !.cg = TRUE]
  /\ run' = Raised(run) /\ UNCHANGED w

\* The daemon belongs to another process, or died: its listings are refused.
DaemonRefuses == \E step \in RuntimeSteps \ {"releaseNetwork"} :
  /\ At(step) /\ Busy(step) /\ j.cmd = NoCommand
  /\ \/ /\ j.daemon = "retained" /\ ~DaemonUsable
        /\ j.phase \notin {"TASK_ABSENT", "CONTAINER_ABSENT"}
        /\ ~(j.phase = "OWNERSHIP_OBSERVED" /\ j.own.task = "absent")
     \/ j.daemon # "retained" /\ j.phase = "NETWORK_ABSENT"
  /\ Refuse

\* What is there is exactly the operation's, identity by identity, or absent.
OwnershipFact == [task |-> IF TaskSeen THEN "exact-owned" ELSE "absent",
                  container |-> IF ContainerSeen THEN "exact-owned" ELSE "absent",
                  runtime |-> IF RolesSeen THEN "exact-owned" ELSE "absent",
                  share |-> IF ShareSeen THEN "exact-owned" ELSE "absent"]
Ownership ==
  /\ At("ownership") /\ Busy("ownership") /\ j.cmd = NoCommand
  /\ j.daemon = "retained" => DaemonUsable
  /\ \E own \in {OwnershipFact} :
       \/ own.runtime = "exact-owned" /\ Record("ownership", "RUNTIME_ROLE_IDENTITIES_V1")
       \/ own.share = "exact-owned" /\ Record("ownership", "RUNTIME_SHARE_IDENTITY_V1")
       \/ /\ PhaseLegal(j, "OWNERSHIP_OBSERVED", own)
          /\ j' = Phase(j, "OWNERSHIP_OBSERVED", own)
          /\ run' = IF run.mode = "cycle" /\ j.plat # "platform-pass"
                    THEN Raised(run) ELSE Advance(run)
          /\ UNCHANGED <<w, p, faults>>

\* TERM once, then KILL once if the task is still there; a signal that failed
\* ends it.  removeRuntime retries a task that could not be stopped and then
\* raises, being a step too late.
StopTask == \E step \in {"stopTask", "removeRuntime"} :
  /\ Busy(step) /\ j.phase = "OWNERSHIP_OBSERVED" /\ j.own.task # "absent" /\ DaemonUsable
  /\ \/ Call(step, "CTR_TASK_TERM")
     \/ /\ "CTR_TASK_TERM" \in j.ran /\ w.task = "running" /\ Call(step, "CTR_TASK_KILL")
     \/ /\ At(step) /\ "CTR_TASK_TERM" \in j.ran /\ w.task # "running" /\ Enter("TASK_STOPPED")
        /\ j' = Entered("TASK_STOPPED") /\ UNCHANGED <<w, p, faults>>
        /\ run' = IF step = "stopTask" THEN Advance(run) ELSE Raised(run)
     \/ /\ At(step) /\ j.cmd = NoCommand /\ Refuse
        /\ j.stuck \/ ("CTR_TASK_KILL" \in j.ran /\ w.task = "running")

RemoveTask ==
  LET step == "removeTask" IN
  /\ Busy(step) /\ DaemonUsable
  /\ \/ Call(step, "CTR_TASK_REMOVE")
     \/ /\ At(step) /\ "CTR_TASK_REMOVE" \in j.ran /\ j.cmd = NoCommand
        /\ IF ~TaskSeen /\ Enter("TASK_ABSENT")
           THEN Close(Entered("TASK_ABSENT"), run) ELSE Refuse

\* Faulty variant: the end of the task is taken for the end of the VM.
RemoveRuntimeHasty ==
  /\ At("removeRuntime") /\ Busy("removeRuntime") /\ j.cmd = NoCommand
  /\ \/ Record("removeRuntime", "RUNTIME_ROLE_ABSENCE_V1")
     \/ Enter("RUNTIME_ABSENT") /\ Close(Entered("RUNTIME_ABSENT"), run)

\* The roles recorded with the ownership must be seen to leave.
RemoveRuntime ==
  /\ At("removeRuntime") /\ Busy("removeRuntime") /\ j.cmd = NoCommand
  /\ \/ ~RolesSeen /\ Record("removeRuntime", "RUNTIME_ROLE_ABSENCE_V1")
     \/ Enter("RUNTIME_ABSENT") /\ Close(Entered("RUNTIME_ABSENT"), run)

ReleaseNetwork ==
  /\ At("releaseNetwork") /\ Busy("releaseNetwork")
  /\ IF j.released THEN Skip
     ELSE IF run.net /\ RuntimeLegal(j, "RUNTIME_NETWORK_RELEASED_V1")
     THEN Close(RuntimeRecord(j, "RUNTIME_NETWORK_RELEASED_V1"), [run EXCEPT !.net = FALSE])
     ELSE Refuse

\* removeShare retries a container that could not be removed, and raises.
RemoveContainer == \E step \in {"removeContainer", "removeShare"} :
  /\ Busy(step) /\ j.phase = "NETWORK_ABSENT" /\ DaemonUsable
  /\ \/ j.own.container # "absent" /\ Call(step, "CTR_CONTAINER_REMOVE")
     \/ /\ At(step) /\ ~ContainerSeen /\ Enter("CONTAINER_ABSENT")
        /\ j' = Entered("CONTAINER_ABSENT") /\ UNCHANGED <<w, p, faults>>
        /\ run' = IF step = "removeContainer" THEN Advance(run) ELSE Raised(run)
     \/ /\ At(step) /\ j.cmd = NoCommand /\ Refuse
        /\ j.stuck \/ (ContainerSeen /\ "CTR_CONTAINER_REMOVE" \in j.ran)

RemoveShare ==
  /\ At("removeShare")
  /\ \/ /\ Busy("removeShare") /\ j.phase = "CONTAINER_ABSENT" /\ j.cmd = NoCommand
        /\ IF ShareSeen THEN Touch([w EXCEPT !.share = FALSE])
           ELSE Close(Entered("SHARE_ABSENT"), run)
     \/ /\ j.phase = "NETWORK_ABSENT" /\ ~j.prepared
        /\ IF j.own = NoOwner /\ ~ShareSeen /\ Enter("SHARE_ABSENT")
           THEN Close(Entered("SHARE_ABSENT"), run) ELSE Refuse

\* shutdown_daemon: the daemon first, then its tree, then the record.
StopContainerd ==
  LET step == "stopContainerd" IN
  /\ At(step) /\ j.phase = "FIREWALL_ABSENT"
  /\ \/ /\ run.rt /\ j.daemon = "retained"
        /\ IF DaemonUsable THEN StopDaemon("certain") /\ UNCHANGED <<p, run, faults>>
           ELSE Refuse
     \/ /\ j.daemon # "retained"
        /\ IF w.stage = "absent"
           THEN Close(Entered("CONTAINERD_ABSENT"), [run EXCEPT !.rt = FALSE])
           ELSE IF run.rt \/ j.prepared THEN Touch([w EXCEPT !.stage = "absent"]) ELSE Refuse
KeepContainerd == At("stopContainerd") /\ j.phase # "FIREWALL_ABSENT" /\ Skip

\* A cleanup-only operation: its daemon is certainly gone, or nothing is done.
CleanupOnlyRuntime ==
  /\ At("removeNetwork") /\ j.phase = "RUNTIME_CLEANUP_ONLY" /\ w.stage # "absent"
  /\ IF run.rt /\ ~j.ever THEN Touch([w EXCEPT !.stage = "absent"]) ELSE Refuse

RuntimeFails == \/ \E step \in RuntimeSteps :
                     (HasWork(step) \/ p.at = "done") /\ Raises(step, j, w)
                \/ j.phase = "FIREWALL_ABSENT" /\ Raises("stopContainerd", j, w)
                \/ /\ At("stopContainerd") /\ run.rt /\ StopDaemon("uncertain") /\ Faulty
                   /\ run' = Raised(run) /\ UNCHANGED p

RuntimeNext == \/ Stage \/ StageFails \/ BindMapping \/ Launch \/ LaunchFails
               \/ ObserveRuntimeNetwork \/ ProveRuntime \/ ObserveCausality \/ Authenticate
               \/ DaemonLost \/ ObserveFails \/ KeepRuntime \/ EnsureRuntime \/ RuntimePending
               \/ ResumeCleanup \/ ListingFails
               \/ DaemonRefuses \/ Ownership \/ StopTask \/ RemoveTask \/ RemoveRuntime
               \/ ReleaseNetwork \/ RemoveContainer \/ RemoveShare \/ StopContainerd
               \/ KeepContainerd \/ CleanupOnlyRuntime \/ RuntimeFails
==============================================================================

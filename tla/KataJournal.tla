----------------------------- MODULE KataJournal -----------------------------
(***************************************************************************)
(* The durable journal of one Kata operation: which record may follow      *)
(* which, and what a replay of the journal knows after it.  The code keeps *)
(* the records and replays them on every read (completion_kata_operation   *)
(* _legal, completion_kata_network_journal advance); the model keeps the   *)
(* replayed state and gives, for each family of records, the guard that    *)
(* admits a record and the state after it.  Digests, generations and       *)
(* timestamps inside the bodies are left out: a body that does not match   *)
(* its predecessor is refused like an illegal kind.                        *)
(***************************************************************************)
EXTENDS Naturals, Sequences, FiniteSets

CONSTANTS TailEffects,  \* how many of the seven address and link effects are kept
          KeyCommands   \* how many of the four key commands are kept

ASSUME JournalAssumption == TailEffects \in 0..7 /\ KeyCommands \in 1..4

(***************************************************************************)
(* The fixed vocabularies.                                                 *)
(***************************************************************************)
LIFECYCLE == <<"BASELINES_CAPTURED", "NETWORK_READY", "RUNTIME_READY",
  "SSH_READY", "READINESS_REVOKED", "OWNERSHIP_OBSERVED", "TASK_STOPPED",
  "TASK_ABSENT", "RUNTIME_ABSENT", "NETWORK_ABSENT", "CONTAINER_ABSENT",
  "SHARE_ABSENT", "FIREWALL_ABSENT", "CONTAINERD_ABSENT", "INPUT_REMOVED",
  "ROOTFS_RELEASE_READY", "ROOTFS_RELEASE_AUTHORIZED", "ROOTFS_ABSENT">>

Acquisition == {"NONE", "GENESIS", "GENESIS_SETTLED", "ROOTFS_ACQUIRE_INTENT",
                "ROOTFS_LEASED"}
Staging     == {"FS_INTENT", "FS_OBSERVED", "FS_ABSENT", "FS_SETTLED"}
Retiring    == {"FINAL_BASELINES", "RETIRE_INTENT", "RETIRED"}
Released    == {"ROOTFS_RELEASE_READY", "ROOTFS_RELEASE_AUTHORIZED",
                "ROOTFS_ABSENT"} \cup Retiring
Lifecycle   == {LIFECYCLE[i] : i \in 1..Len(LIFECYCLE)}
Phases      == Acquisition \cup Staging \cup Lifecycle \cup Retiring
               \cup {"UNCERTAIN", "RUNTIME_CLEANUP_ONLY", "UNLINKED"}

SETUP == <<"IP_NETNS_ADD", "IP_VETH_ADD_ATOMIC", "NFT_INSTALL_OWNED",
  "IP_HOST_ADDRESS_ADD", "IP_HOST_ADDRGEN_NONE", "IP_PEER_ADDRGEN_NONE",
  "IP_LOOPBACK_UP", "IP_GUEST_ADDRESS_ADD", "IP_HOST_LINK_UP",
  "IP_GUEST_LINK_UP">>
Setup    == SubSeq(SETUP, 1, 3 + TailEffects)
SetupSet == {Setup[i] : i \in 1..Len(Setup)}
LocalEffects == {"IP_NETNS_ADD", "IP_NETNS_REMOVE"}  \* done by descriptor, no command
SNAPSHOTS == <<"baseline", "ready", "discovered", "runtime", "network-absent",
               "firewall-restored", "final-absent">>

\* Ten journaled steps dismantle the support of a detached namespace.
DETACHED == <<"original-placeholder", "quarantine-placeholder",
              "preserved-directory", "parent-mount", "parent-stage-directory">>
DetachedSteps == 2 * Len(DETACHED)

CLEANUP_STARTS == [network  |-> {"BASELINES_CAPTURED", "TASK_STOPPED",
                                 "RUNTIME_ABSENT", "RUNTIME_CLEANUP_ONLY"},
                   firewall |-> {"SHARE_ABSENT"}]
CLEANUP_ENDS   == [network |-> "NETWORK_ABSENT", firewall |-> "FIREWALL_ABSENT"]

KEYS         == "SSH_KEYGEN"      \* the client and server key commands
OBSERVE      == "OBSERVE"         \* any read-only ip, nft, tc or ctr listing
RuntimeIds   == {"CONTAINERD_START", "CTR_RUN", "CTR_TASK_TERM", "CTR_TASK_KILL",
                 "CTR_TASK_REMOVE", "CTR_CONTAINER_REMOVE"}
SshIds       == {"SSH_READY", "SSH_READINESS"}
NetworkIds   == (SetupSet \cup {"NFT_REMOVE_ATOMIC"}) \ LocalEffects
CommandIds   == {KEYS, OBSERVE} \cup RuntimeIds \cup SshIds \cup NetworkIds
RUNTIME_PHASES ==
  [CONTAINERD_START |-> "NETWORK_READY", CTR_RUN |-> "NETWORK_READY",
   CTR_TASK_TERM |-> "OWNERSHIP_OBSERVED", CTR_TASK_KILL |-> "OWNERSHIP_OBSERVED",
   CTR_TASK_REMOVE |-> "TASK_STOPPED", CTR_CONTAINER_REMOVE |-> "NETWORK_ABSENT"]

NoCommand == [id |-> "none", at |-> "none"]
NoEffect  == [act |-> "none", at |-> "none", ran |-> FALSE]
NoOwner   == [task |-> "unseen", container |-> "unseen", runtime |-> "unseen",
              share |-> "unseen"]

\* The replayed state before the first record.
Blank == [phase |-> "NONE", ever |-> FALSE, cmd |-> NoCommand, ran |-> {}, stuck |-> FALSE,
  tip |-> "none", deadline |-> FALSE, admitted |-> FALSE, route |-> "none",
  grant |-> "none", keys |-> 0, tree |-> "none", snapfree |-> FALSE,
  snaps |-> <<>>, done |-> <<>>, pend |-> NoEffect, quar |-> 0,
  support |-> FALSE, detach |-> 0, sensors |-> 0, causal |-> FALSE,
  clean |-> "none", prepared |-> FALSE, staged |-> "none", daemon |-> "none",
  mount |-> FALSE, launch |-> FALSE, plat |-> "none", ssh |-> "none",
  own |-> NoOwner, roles |-> FALSE, share |-> FALSE, rolesGone |-> FALSE,
  released |-> FALSE, cleanOnly |-> FALSE]

LastSnap(s) == IF s.snaps = <<>> THEN "none" ELSE s.snaps[Len(s.snaps)]
NetworkUntouched(s) == s.snaps = <<>> /\ s.done = <<>> /\ s.pend = NoEffect

\* An active network or firewall cleanup admits only its own records
\* (cleanup_step): commands, network records, UNCERTAIN and its completion.
NoCleanup(s) == s.clean = "none"

\* How many setup effects lead the settled ones.
SetupCount(s) == Cardinality({i \in 1..Len(s.done) : i <= Len(Setup) /\ s.done[i] = Setup[i]})

\* setup_abort_complete: the effects are a prefix of the setup followed by its
\* removals, or nothing was set up and only the baseline was taken.
SetupAbortComplete(s) ==
  LET n == SetupCount(s) IN
  IF n = 0 THEN /\ s.snaps \in {<<"baseline">>, <<"baseline", "network-absent">>}
                /\ s.done = <<>> /\ s.pend = NoEffect
  ELSE /\ s.done = SubSeq(Setup, 1, n) \o <<"IP_NETNS_REMOVE">>
                   \o (IF n >= 3 THEN <<"NFT_REMOVE_ATOMIC">> ELSE <<>>)
       /\ s.pend = NoEffect /\ s.quar = 6
SetupAbort(s) == /\ s.staged # "staged" \/ s.cleanOnly
                 /\ s.snaps # <<>> /\ SetupAbortComplete(s)

To(s, ph) == [s EXCEPT !.phase = ph, !.tip = ph, !.ran = {}, !.stuck = FALSE]

(***************************************************************************)
(* Acquisition, admission and route records.                               *)
(***************************************************************************)
AcquireLegal(s, k) ==
  /\ s.cmd = NoCommand
  /\ \/ k = "GENESIS" /\ s.phase = "NONE"
     \/ k = "GENESIS_SETTLED" /\ s.phase = "GENESIS"
     \/ k = "ROOTFS_ACQUIRE_INTENT" /\ s.phase = "GENESIS_SETTLED"
     \/ k = "ROOTFS_LEASED" /\ s.phase = "ROOTFS_ACQUIRE_INTENT"

AdmitLegal(s, k) ==
  /\ s.cmd = NoCommand /\ s.phase = "ROOTFS_LEASED" /\ ~s.admitted
  /\ \/ k = "LIFECYCLE_DEADLINE_V1" /\ ~s.deadline
     \/ k = "PRODUCTION_ADMISSION_V2"
Admit(s, k) == [s EXCEPT !.deadline = @ \/ k = "LIFECYCLE_DEADLINE_V1",
                         !.admitted = k = "PRODUCTION_ADMISSION_V2", !.tip = k]

\* CYCLE_ROUTE_V1 once, after the admission and before any CTR_RUN.
RouteLegal(s) ==
  /\ s.admitted /\ s.route = "none" /\ s.cmd = NoCommand
  /\ s.phase \in {"ROOTFS_LEASED", "FS_SETTLED"} /\ "CTR_RUN" \notin s.ran
Route(s, r) == [s EXCEPT !.route = r, !.tip = "CYCLE_ROUTE_V1"]

(***************************************************************************)
(* Input records: the key stage grant, the key files, the input tree.      *)
(***************************************************************************)
InputPhases == {"ROOTFS_LEASED", "FS_INTENT", "FS_SETTLED", "RUNTIME_READY",
                "SSH_READY", "READINESS_REVOKED", "CONTAINERD_ABSENT", "UNCERTAIN"}

GrantLegal(s, a) ==
  /\ s.cmd = NoCommand /\ NoCleanup(s) /\ s.phase \in InputPhases
  /\ IF a = "intent" THEN s.grant = "none" ELSE s.grant = "intent"
Grant(s, a) == [s EXCEPT !.grant = a, !.tip = "INPUT_GRANT"]

\* The tree goes create-intent, create, remove-intent, absent; a creation that
\* was only intended may be removed too.
StepLegal(s, a) ==
  /\ s.cmd = NoCommand /\ NoCleanup(s) /\ s.phase \in InputPhases \ {"ROOTFS_LEASED"}
  /\ CASE a = "intent"   -> s.tree = "none"
       [] a = "created"  -> s.tree = "intent"
       [] a = "removing" -> s.tree \in {"intent", "created"}
       [] a = "absent"   -> s.tree = "removing"
InputStep(s, a) == [s EXCEPT !.tree = a, !.tip = "INPUT_STEP"]

\* FS_INTENT waits for every key command; FS_OBSERVED or FS_ABSENT settle it.
FsLegal(s, k) ==
  /\ s.cmd = NoCommand /\ NoCleanup(s)
  /\ \/ /\ k = "FS_INTENT" /\ s.phase \in {"ROOTFS_LEASED", "FS_SETTLED"}
        /\ s.admitted /\ s.phase = "ROOTFS_LEASED" => s.keys = KeyCommands
     \/ k \in {"FS_OBSERVED", "FS_ABSENT"} /\ s.phase = "FS_INTENT"
     \/ k = "FS_SETTLED" /\ s.phase \in {"FS_OBSERVED", "FS_ABSENT"}

\* A settlement that needs no network cleanup, because nothing but read-only
\* baseline observers ever ran.
SnapshotFreeLegal(s) ==
  /\ s.admitted /\ s.cmd = NoCommand /\ NoCleanup(s) /\ s.phase = "FS_SETTLED"
  /\ ~s.snapfree /\ s.staged # "staged" /\ NetworkUntouched(s)
SnapshotFree(s) == [s EXCEPT !.snapfree = TRUE, !.tip = "SNAPSHOT_FREE_CLEANUP_V1"]

(***************************************************************************)
(* Runtime records.                                                        *)
(***************************************************************************)
RuntimeLegal(s, k) ==
  /\ s.cmd = NoCommand /\ NoCleanup(s)
  /\ \/ /\ s.phase = "NETWORK_READY"
        /\ \/ k = "RUNTIME_PREPARED_V1" /\ ~s.prepared /\ s.staged = "none"
           \/ k = "RUNTIME_STAGE_INTENT_V4" /\ s.staged = "none"
           \/ k = "RUNTIME_STAGED_V3" /\ s.staged = "intent"
           \/ /\ k = "RUNTIME_MOUNT_V2" /\ s.admitted /\ ~s.mount
              /\ s.staged = "staged" => s.daemon = "retained"
              /\ s.tree = "created"
           \/ /\ k = "CTR_LAUNCH_ISSUED_V1" /\ s.route # "none" /\ ~s.launch
              /\ s.tip = "CTR_RUN"
     \/ k = "RUNTIME_ROLE_IDENTITIES_V1" /\ s.phase = "READINESS_REVOKED" /\ ~s.roles
     \/ k = "RUNTIME_SHARE_IDENTITY_V1" /\ s.phase = "READINESS_REVOKED" /\ ~s.share
     \/ k = "RUNTIME_ROLE_ABSENCE_V1" /\ s.phase = "TASK_ABSENT" /\ s.roles /\ ~s.rolesGone
     \/ /\ k = "RUNTIME_NETWORK_RELEASED_V1" /\ s.phase = "RUNTIME_ABSENT" /\ ~s.released
        /\ s.rolesGone \/ s.own.runtime = "absent"
RuntimeRecord(s, k) ==
  [s EXCEPT !.prepared = @ \/ k = "RUNTIME_PREPARED_V1",
            !.staged = IF k = "RUNTIME_STAGE_INTENT_V4" THEN "intent"
                       ELSE IF k = "RUNTIME_STAGED_V3" THEN "staged" ELSE @,
            !.mount = @ \/ k = "RUNTIME_MOUNT_V2",
            !.launch = @ \/ k = "CTR_LAUNCH_ISSUED_V1",
            !.roles = @ \/ k = "RUNTIME_ROLE_IDENTITIES_V1",
            !.share = @ \/ k = "RUNTIME_SHARE_IDENTITY_V1",
            !.rolesGone = @ \/ k = "RUNTIME_ROLE_ABSENCE_V1",
            !.released = @ \/ k = "RUNTIME_NETWORK_RELEASED_V1", !.tip = k]

\* The monitor handshake: intent, answer, and the platform fact derived from it.
PlatformLegal(s, o) ==
  /\ s.admitted /\ s.phase = "RUNTIME_READY" /\ s.cmd = NoCommand
  /\ CASE o = "qmp-intent" -> s.plat = "none"
       [] o = "qmp-pass" -> s.plat = "qmp-intent"
       [] o = "platform-pass" -> s.plat = "qmp-pass"
Platform(s, o) == [s EXCEPT !.plat = o, !.tip = "PLATFORM_OBSERVATION_V1"]

\* The marker is seen while the SSH command runs; its result, the settlement of
\* the route and the ready record follow in this order.
SshLegal(s, k) ==
  \/ /\ k = "marker" /\ s.ssh = "none" /\ s.launch /\ s.route # "none"
     /\ s.cmd.at = "preexec" /\ s.cmd.id \in SshIds
  \/ /\ s.cmd = NoCommand /\ s.phase = "RUNTIME_READY"
     /\ \/ /\ k = "result" /\ s.ssh = "exited" /\ s.mount
           /\ s.route # "readiness" => s.causal
        \/ k = "settled" /\ s.ssh = "result" /\ s.route # "none"
Ssh(s, k) == [s EXCEPT !.ssh = k, !.tip = "SSH_" \o k]

(***************************************************************************)
(* Network records.                                                        *)
(***************************************************************************)
SnapPhases == [baseline |-> {"FS_SETTLED"}, ready |-> {"BASELINES_CAPTURED"},
  discovered |-> {"NETWORK_READY", "RUNTIME_READY"},
  runtime |-> {"NETWORK_READY", "RUNTIME_READY"}]
AbsentPhases == [n \in {"network-absent", "firewall-restored", "final-absent"} |->
  CASE n = "network-absent" -> {"BASELINES_CAPTURED", "RUNTIME_ABSENT", "RUNTIME_CLEANUP_ONLY"}
    [] n = "firewall-restored" -> {"SHARE_ABSENT"}
    [] n = "final-absent" -> {"ROOTFS_ABSENT"}]

\* The snapshots come in one order; an absence may follow as soon as nothing
\* later can have been observed.
SnapshotLegal(s, n) ==
  /\ s.cmd = NoCommand
  /\ IF n \in DOMAIN SnapPhases THEN NoCleanup(s) /\ s.phase \in SnapPhases[n]
                                ELSE s.phase \in AbsentPhases[n]
  /\ \/ n = SNAPSHOTS[Len(s.snaps) + 1] /\ Len(s.snaps) < 4
     \/ /\ n = "network-absent"
        /\ \/ LastSnap(s) \in {"ready", "discovered", "runtime"}
           \/ LastSnap(s) = "baseline" /\ SetupAbortComplete(s)
     \/ n = "firewall-restored" /\ LastSnap(s) = "network-absent"
     \/ n = "final-absent" /\ LastSnap(s) = "firewall-restored"
  /\ n = "ready" => s.done = Setup
Snapshot(s, n) == [s EXCEPT !.snaps = Append(@, n), !.tip = "NETWORK_SNAPSHOT_V2"]

\* An effect is intended, observed and settled; setup effects follow the fixed
\* order, none is ever intended twice.
EffectLegal(s, a, k) ==
  /\ s.cmd = NoCommand
  /\ CASE k = "intent" ->
            /\ s.pend = NoEffect /\ \A i \in 1..Len(s.done) : s.done[i] # a
            /\ a \in SetupSet => /\ NoCleanup(s) /\ s.phase = "BASELINES_CAPTURED"
                                 /\ Len(s.done) < Len(Setup) /\ a = Setup[Len(s.done) + 1]
                                 /\ s.done = SubSeq(Setup, 1, Len(s.done))
            /\ a = "IP_NETNS_REMOVE" =>
                 s.phase \in {"BASELINES_CAPTURED", "RUNTIME_ABSENT", "RUNTIME_CLEANUP_ONLY"}
            /\ a = "NFT_REMOVE_ATOMIC" =>
                 s.phase \in {"BASELINES_CAPTURED", "RUNTIME_CLEANUP_ONLY", "SHARE_ABSENT"}
       [] k = "observed" -> /\ s.pend.act = a /\ s.pend.at = "intent"
                            /\ a \notin LocalEffects => s.pend.ran
       [] k = "settled"  -> s.pend.act = a /\ s.pend.at = "observed"
NetEffect(s, a, k) ==
  CASE k = "intent"   -> [s EXCEPT !.pend = [act |-> a, at |-> "intent", ran |-> FALSE],
                                   !.tip = "NETWORK_EFFECT"]
    [] k = "observed" -> [s EXCEPT !.pend.at = "observed", !.tip = "NETWORK_EFFECT"]
    [] k = "settled"  -> [s EXCEPT !.pend = NoEffect, !.done = Append(@, a),
                                   !.tip = "NETWORK_EFFECT"]

\* The namespace is moved aside and detached in six records, then its support
\* is dismantled in ten.
QuarantineLegal(s, n) == s.cmd = NoCommand /\ s.quar = n - 1 /\ n \in 1..6
Quarantine(s) == [s EXCEPT !.quar = @ + 1, !.tip = "NETWORK_QUARANTINE"]
DetachLegal(s) == s.cmd = NoCommand /\ s.quar = 6 /\ s.support /\ s.detach <= DetachedSteps
Detach(s) == [s EXCEPT !.detach = @ + 1, !.tip = "NETWORK_DETACHED_CLEANUP"]
SupportLegal(s) == s.cmd = NoCommand /\ ~s.support /\ s.snaps = <<>>
Support(s) == [s EXCEPT !.support = TRUE, !.tip = "NETWORK_CLEANUP_SUPPORT_V3"]

\* The neighbour table is sampled before and after the session, and the proof
\* compares the two samples.
SensorLegal(s) == /\ s.cmd = NoCommand /\ s.phase = "RUNTIME_READY" /\ NoCleanup(s)
                  /\ LastSnap(s) = "runtime" /\ ~s.causal /\ s.sensors < 2
Sensor(s) == [s EXCEPT !.sensors = @ + 1, !.tip = "NETWORK_CAUSAL_SENSOR_V1"]
CausalLegal(s) == s.cmd = NoCommand /\ s.sensors = 2 /\ ~s.causal /\ s.phase = "RUNTIME_READY"
Causal(s) == [s EXCEPT !.causal = TRUE, !.tip = "NETWORK_CAUSAL_PROOF_V1"]

\* A cleanup is opened by its intent in a phase that allows it, and closed by
\* an acknowledgement after its completion phase.
CleanupIntentLegal(s, t) ==
  /\ NoCleanup(s) /\ s.phase \in CLEANUP_STARTS[t]
  /\ t = "network" /\ s.staged = "staged" =>
       \/ s.phase = "BASELINES_CAPTURED"
       \/ s.phase = "RUNTIME_ABSENT" /\ s.released
CleanupIntent(s, t) == [s EXCEPT !.clean = t, !.tip = "CLEANUP_INTENT"]
CleanupSettledLegal(s, t) == s.clean = t /\ s.phase = CLEANUP_ENDS[t]
CleanupSettled(s) == [s EXCEPT !.clean = "none", !.tip = "CLEANUP_SETTLED"]

(***************************************************************************)
(* Command records.                                                        *)
(***************************************************************************)
IntentPhases == {"ROOTFS_LEASED", "FS_SETTLED", "ROOTFS_ABSENT"} \cup {LIFECYCLE[i] : i \in 1..14}

\* _runtime_trace: the runtime commands of a phase follow one fixed order, each
\* of them once, and only after all before it succeeded or, for TERM and KILL,
\* were resumed; one that certainly failed leaves the phase stuck.
RuntimePrefix(s, id) ==
  /\ ~s.stuck /\ id \notin s.ran
  /\ id = "CTR_RUN" => "CONTAINERD_START" \in s.ran
  /\ id = "CTR_TASK_KILL" => "CTR_TASK_TERM" \in s.ran

\* The same order once it is complete, which the phase's successor demands.
RuntimeTrace(s) == s.staged = "staged" =>
  /\ ~s.stuck
  /\ s.phase = "NETWORK_READY" => "CTR_RUN" \in s.ran
  /\ s.phase = "OWNERSHIP_OBSERVED" => "CTR_TASK_TERM" \in s.ran
  /\ s.phase = "TASK_STOPPED" => "CTR_TASK_REMOVE" \in s.ran
  /\ s.phase = "NETWORK_ABSENT" => "CTR_CONTAINER_REMOVE" \in s.ran \/ s.own.container = "absent"

\* A command is intended while none is pending, in its phase, with what it
\* needs recorded and what goes before it settled.
CommandLegal(s, id) ==
  /\ id \in CommandIds
  /\ s.cmd = NoCommand /\ s.phase \in IntentPhases
  /\ id = KEYS => s.phase = "ROOTFS_LEASED" /\ s.grant = "settled" /\ s.keys < KeyCommands
  /\ id \in RuntimeIds => /\ s.staged = "staged" /\ NoCleanup(s)
                          /\ s.phase = RUNTIME_PHASES[id] /\ RuntimePrefix(s, id)
  /\ id \in SshIds => /\ s.phase = "RUNTIME_READY" /\ id \notin s.ran
                      /\ s.route # "none" => s.launch
                      /\ id = (IF s.route = "readiness" THEN "SSH_READINESS" ELSE "SSH_READY")
  /\ id \in NetworkIds => s.pend.act = id /\ s.pend.at = "intent" /\ ~s.pend.ran
CommandIntent(s, id) == [s EXCEPT !.cmd = [id |-> id, at |-> "intent"], !.tip = "COMMAND_INTENT",
                                  !.ran = IF id = OBSERVE THEN @ ELSE @ \cup {id}]
Resumable == {"CTR_RUN", "CTR_TASK_TERM", "CTR_TASK_KILL"}
PreexecLegal(s) == s.cmd.at = "intent"
CommandPreexec(s) == [s EXCEPT !.cmd.at = "preexec", !.tip = "COMMAND_PREEXEC"]

\* A certain success, a certain failure, and an uncertain outcome: the last
\* ends the phase, is remembered for good, and only the commands of a resumable
\* one may be taken up again.
CommandExited(s) ==
  [s EXCEPT !.cmd = NoCommand, !.tip = s.cmd.id,
            !.keys = IF s.cmd.id = KEYS THEN @ + 1 ELSE @,
            !.ssh = IF s.cmd.id \in SshIds THEN "exited" ELSE @,
            !.pend.ran = @ \/ s.cmd.id \in NetworkIds]
CommandFailed(s) == [s EXCEPT !.cmd = NoCommand, !.tip = "COMMAND_OUTCOME",
                              !.stuck = @ \/ s.cmd.id \in RuntimeIds]
CommandUncertain(s) ==
  [To(s, "UNCERTAIN") EXCEPT !.cmd = NoCommand, !.ever = TRUE, !.tip = s.cmd.id,
                             !.ran = IF s.cmd.id \in Resumable THEN s.ran ELSE @]
\* Recovery may settle a read-only observer of the baseline prefix without
\* uncertainty: it cannot have had an effect.
NoEffectLegal(s) == /\ s.cmd.id = OBSERVE /\ s.admitted /\ s.phase = "FS_SETTLED"
                    /\ NetworkUntouched(s) /\ ~s.launch

\* The daemon's start command ends in its retention; its own outcome comes when
\* it is stopped: certain, uncertain, or missing when nobody stopped it.
\* Anywhere but after the firewall this leaves a phase that only an explicit
\* cleanup-only resume may leave, and only if all its processes are gone.
RetainLegal(s) == /\ s.cmd = [id |-> "CONTAINERD_START", at |-> "preexec"]
                  /\ s.daemon = "none"
Retain(s) == [s EXCEPT !.cmd = NoCommand, !.daemon = "retained", !.tip = "DAEMON_RETAINED_V2"]
DaemonOutcomeLegal(s) == s.cmd = NoCommand /\ s.daemon = "retained"
DaemonOutcome(s, how) ==
  [s EXCEPT !.daemon = IF how = "uncertain" THEN @ ELSE "closed",
            !.ever = @ \/ how # "certain",
            !.phase = IF how # "certain" \/ @ # "FIREWALL_ABSENT" THEN "UNCERTAIN" ELSE @,
            !.tip = IF how = "uncertain" THEN "UNCERTAIN_OUTCOME" ELSE "DAEMON_OUTCOME_V2"]

\* RUNTIME_RESUME_V4 leaves UNCERTAIN right after the outcome of a daemon that is
\* certainly gone, for good, or after the uncertain outcome of a launch or of a
\* signal to the task, which the later observation of the task settles.
DaemonCut(s)   == s.phase = "UNCERTAIN" /\ s.tip = "DAEMON_OUTCOME_V2" /\ s.daemon = "closed"
ResumeLegal(s) == DaemonCut(s) \/ (s.phase = "UNCERTAIN" /\ s.tip \in Resumable)
Resume(s) ==
  CASE DaemonCut(s) -> [To(s, "RUNTIME_CLEANUP_ONLY") EXCEPT !.cleanOnly = TRUE,
                                                             !.tip = "RUNTIME_RESUME_V4"]
    [] s.tip = "CTR_RUN" -> [To(s, "READINESS_REVOKED") EXCEPT !.tip = "RUNTIME_RESUME_V4"]
    [] OTHER -> [s EXCEPT !.phase = RUNTIME_PHASES[s.tip], !.tip = "RUNTIME_RESUME_V4"]

\* Poison: UNCERTAIN may be appended in every phase but the terminal ones.
UncertainLegal(s) == s.phase \notin {"NONE", "UNCERTAIN", "RETIRED", "UNLINKED"}
Uncertain(s) == [To(s, "UNCERTAIN") EXCEPT !.ever = TRUE, !.cmd = NoCommand,
                                           !.tip = "UNCERTAIN"]

(***************************************************************************)
(* Lifecycle phases.                                                       *)
(***************************************************************************)
SetupPhaseLegal(s, k) ==
  \/ /\ k = "BASELINES_CAPTURED" /\ s.phase = "FS_SETTLED"
     /\ s.snaps = <<"baseline">>
  \/ /\ k = "NETWORK_READY" /\ s.phase = "BASELINES_CAPTURED"
     /\ s.snaps = <<"baseline", "ready">> /\ s.pend = NoEffect /\ s.done = Setup
  \/ /\ k = "RUNTIME_READY" /\ s.phase = "NETWORK_READY" /\ (s.route # "none" => s.launch)
     /\ RuntimeTrace(s)
  \/ /\ k = "SSH_READY" /\ s.phase = "RUNTIME_READY"
     /\ s.ssh = (IF s.route = "none" THEN "result" ELSE "settled")

OwnershipLegal(s, k, own) ==
  \/ /\ k = "READINESS_REVOKED"
     /\ s.phase \in {"BASELINES_CAPTURED", "NETWORK_READY", "RUNTIME_READY", "SSH_READY"}
  \/ /\ k = "OWNERSHIP_OBSERVED" /\ s.phase = "READINESS_REVOKED" /\ s.own = NoOwner
     /\ RuntimeTrace(s)
     /\ own.runtime = "exact-owned" => s.staged # "staged" \/ s.roles
     /\ own.share = "exact-owned" => s.staged # "staged" \/ s.share

TeardownLegal(s, k) ==
  \/ /\ k = "TASK_STOPPED" /\ s.phase = "OWNERSHIP_OBSERVED" /\ s.own.task = "exact-owned"
     /\ RuntimeTrace(s)
  \/ /\ k = "TASK_ABSENT"
     /\ \/ s.phase = "TASK_STOPPED" /\ RuntimeTrace(s)
        \/ s.phase = "OWNERSHIP_OBSERVED" /\ s.own.task = "absent"
  \/ /\ k = "RUNTIME_ABSENT"
     /\ \/ s.phase = "TASK_ABSENT"
        \/ s.phase = "OWNERSHIP_OBSERVED" /\ s.own.task = "absent" /\ s.own.runtime = "absent"
     /\ s.staged # "staged" \/ s.own.runtime = "absent" \/ s.rolesGone
  \/ /\ k = "NETWORK_ABSENT" /\ LastSnap(s) = "network-absent"
     /\ \/ SetupAbort(s)
        \/ s.phase = "RUNTIME_ABSENT" /\ (s.staged # "staged" \/ s.released)
  \/ k = "CONTAINER_ABSENT" /\ s.phase = "NETWORK_ABSENT" /\ s.own # NoOwner /\ RuntimeTrace(s)
  \/ /\ k = "SHARE_ABSENT"
     /\ \/ s.phase = "CONTAINER_ABSENT"
        \/ SetupAbort(s) /\ s.phase = "NETWORK_ABSENT"
  \/ /\ k = "FIREWALL_ABSENT" /\ s.phase = "SHARE_ABSENT"
     /\ LastSnap(s) = "firewall-restored"
  \/ k = "CONTAINERD_ABSENT" /\ s.phase = "FIREWALL_ABSENT" /\ s.daemon # "retained"

InputsGone(s) == s.tree \in {"none", "absent"}
ReleaseLegal(s, k) ==
  /\ s.daemon # "retained"
  /\ \/ /\ k = "INPUT_REMOVED"
        /\ \/ s.phase = "CONTAINERD_ABSENT"
           \/ s.staged # "staged" /\ s.phase = "FIREWALL_ABSENT"
           \/ /\ \/ s.phase = "ROOTFS_LEASED"
                 \/ s.phase = "FS_SETTLED" /\ s.snapfree
              /\ NetworkUntouched(s) /\ s.staged # "staged" /\ InputsGone(s)
     \/ k = "ROOTFS_RELEASE_READY" /\ s.phase = "INPUT_REMOVED"
     \/ k = "ROOTFS_RELEASE_AUTHORIZED" /\ s.phase = "ROOTFS_RELEASE_READY"
     \/ k = "ROOTFS_ABSENT" /\ s.phase = "ROOTFS_RELEASE_AUTHORIZED"

\* An operation whose network was never touched got here without snapshots.
RetireLegal(s, k) ==
  /\ s.daemon # "retained"
  /\ \/ /\ k = "FINAL_BASELINES" /\ s.phase = "ROOTFS_ABSENT" /\ ~s.ever
        /\ LastSnap(s) = "final-absent" \/ NetworkUntouched(s)
     \/ k = "RETIRE_INTENT" /\ s.phase = "FINAL_BASELINES"
     \/ k = "RETIRED" /\ s.phase = "RETIRE_INTENT"

\* A phase record needs a settled command line and, inside a cleanup, must be
\* the completion that cleanup announced.
PhaseLegal(s, k, own) ==
  /\ s.cmd = NoCommand
  /\ ~NoCleanup(s) => k = CLEANUP_ENDS[s.clean]
  /\ \/ SetupPhaseLegal(s, k) \/ OwnershipLegal(s, k, own) \/ TeardownLegal(s, k)
     \/ ReleaseLegal(s, k) \/ RetireLegal(s, k)
Phase(s, k, own) == [To(s, k) EXCEPT !.own = IF k = "OWNERSHIP_OBSERVED" THEN own ELSE @]
==============================================================================

----------------------------- MODULE KataProcess -----------------------------
(***************************************************************************)
(* One fixed command of a Kata operation, from its journaled intent to its *)
(* journaled outcome, and the retained containerd daemon.                  *)
(*                                                                         *)
(* A command is a child that waits, in a cgroup of its own, for one byte   *)
(* on a pipe.  The supervisor records the intent before it makes the       *)
(* cgroup, and the child's identity before it writes the byte: a crash     *)
(* leaves at worst a cgroup that the journal names.  The tools themselves  *)
(* (ip, nft, ctr, ssh, containerd) are outside the code: Effect says what  *)
(* a released child does to the host, at an instant the code cannot see.   *)
(***************************************************************************)
EXTENDS KataJournal

CONSTANT MaxFaults  \* how many exceptions, deadlines and crashes may happen

ASSUME FaultsAssumption == MaxFaults \in Nat

VARIABLES j,      \* the journal, replayed
          w,      \* what is on the host
          p,      \* the command in flight and its child
          run,    \* the coordinator's lifecycle
          faults  \* how many faults have happened

vars == <<j, w, p, run, faults>>

\* The host: the rootfs lease and its tree, the key stage, the input tree, the
\* nft owner's durable state, the namespace's support directories, the
\* namespace, the veth pair, the nft table, the runtime stage (prepared before
\* any operation, activated by one), the daemon, the container, its task,
\* the VM's roles (shim, qemu, virtiofsd), the shared directory, the journal's
\* state directory and the last line of the journal.
Host0 == [rootfs |-> "absent", keys |-> FALSE, inputs |-> FALSE, nft |-> "FREE",
          support |-> FALSE, ns |-> FALSE, veth |-> FALSE, table |-> FALSE,
          stage |-> "prepared", daemon |-> FALSE, ctr |-> FALSE, task |-> "absent",
          roles |-> FALSE, share |-> FALSE, store |-> "absent", tail |-> "whole"]
\* What the fixed tools do to the host.
Effect(id, h) ==
  CASE id = "IP_VETH_ADD_ATOMIC"   -> [h EXCEPT !.veth = TRUE]
    [] id = "NFT_INSTALL_OWNED"    -> [h EXCEPT !.table = TRUE]
    [] id = "NFT_REMOVE_ATOMIC"    -> [h EXCEPT !.table = FALSE]
    [] id = "CONTAINERD_START"     -> [h EXCEPT !.daemon = TRUE]
    [] id = "CTR_RUN"              -> [h EXCEPT !.ctr = TRUE, !.task = "running",
                                                !.roles = TRUE, !.share = TRUE]
    [] id \in {"CTR_TASK_TERM", "CTR_TASK_KILL"} ->
         [h EXCEPT !.task = IF @ = "running" THEN "stopped" ELSE @]
    [] id = "CTR_TASK_REMOVE"      -> [h EXCEPT !.task = IF @ = "stopped" THEN "absent" ELSE @]
    [] id = "CTR_CONTAINER_REMOVE" -> [h EXCEPT !.ctr = FALSE]
    [] OTHER                       -> h

(***************************************************************************)
(* The command in flight: how far its supervisor is (at), its child, its   *)
(* cgroup, whether the child has acted, and what the caller is told (res). *)
(***************************************************************************)
Idle == [id |-> "none", at |-> "idle", child |-> "none", cg |-> FALSE,
         acted |-> FALSE, res |-> "none"]
Supervised == p.at \notin {"idle", "done", "lost"}
Faulty == faults < MaxFaults /\ faults' = faults + 1

\* A command is one of the fixed ones, its place in the history is the next
\* one, and no other command is in flight.
Issuable(id) == CommandLegal(j, id) /\ p.at \in {"idle", "lost"}

\* A step hands a command to the supervisor: its intent is durable first.
Issue(id) == /\ Issuable(id)
             /\ j' = CommandIntent(j, id)
             /\ p' = [Idle EXCEPT !.id = id, !.at = "intent"]

\* The step takes the result of the command it issued.
Returned(id, res) == p.at = "done" /\ p.id = id /\ p.res = res

PrepareCgroup == /\ p.at = "intent" /\ p' = [p EXCEPT !.at = "prepared", !.cg = TRUE]
                 /\ UNCHANGED <<j, w, run, faults>>

\* The child waits for its release before it executes anything.
Fork == /\ p.at = "prepared" /\ p' = [p EXCEPT !.at = "forked", !.child = "gated"]
        /\ UNCHANGED <<j, w, run, faults>>

\* The child's identity is durable while it still waits.
RecordPreexec ==
  /\ p.at = "forked" /\ PreexecLegal(j)
  /\ j' = CommandPreexec(j) /\ p' = [p EXCEPT !.at = "recorded"]
  /\ UNCHANGED <<w, run, faults>>

Release == /\ p.at = "recorded" /\ p.child = "gated"
           /\ p' = [p EXCEPT !.at = "released", !.child = "running"]
           /\ UNCHANGED <<j, w, run, faults>>

\* The released child acts whenever it likes, with or without its supervisor,
\* and exits: successfully only after it acted.  A task may ignore TERM.
ChildActs == /\ p.child = "running" /\ ~p.acted
             /\ w' \in {Effect(p.id, w)} \cup (IF p.id = "CTR_TASK_TERM" THEN {w} ELSE {})
             /\ p' = [p EXCEPT !.acted = TRUE] /\ UNCHANGED <<j, run, faults>>
ChildExits ==
  /\ p.child = "running" /\ p.id # "CONTAINERD_START"
  /\ \/ p.acted /\ p' = [p EXCEPT !.child = "exit0"] /\ UNCHANGED faults
     \/ Faulty /\ p' = [p EXCEPT !.child = "exit1"]
  /\ UNCHANGED <<j, w, run>>

\* The marker line of an SSH command is recorded while the command runs.
ObserveMarker ==
  /\ p.at = "released" /\ p.id \in SshIds /\ p.acted /\ SshLegal(j, "marker")
  /\ j' = Ssh(j, "marker") /\ UNCHANGED <<w, p, run, faults>>

\* A child left by a crash reads the end of the pipe and exits without effect.
GatedExits == /\ p.at = "lost" /\ p.child = "gated"
              /\ p' = [p EXCEPT !.child = "exit1"] /\ UNCHANGED <<j, w, run, faults>>

\* The output ends, the cgroup is killed, reaped and removed, and only then is
\* the outcome recorded; a launch is recorded with it.
Settle ==
  /\ p.at = "released" /\ p.child \in {"exit0", "exit1"}
  /\ p.id \in SshIds /\ p.child = "exit0" /\ j.route # "none" => j.ssh = "marker"
  /\ LET s == IF p.child = "exit0" THEN CommandExited(j) ELSE CommandFailed(j)
         l == p.id = "CTR_RUN" /\ p.child = "exit0" /\ j.route # "none"
     IN j' = IF l THEN RuntimeRecord(s, "CTR_LAUNCH_ISSUED_V1") ELSE s
  /\ p' = [p EXCEPT !.at = "done", !.cg = FALSE,
                    !.res = IF p.child = "exit0" THEN "ok" ELSE "failed"]
  /\ UNCHANGED <<w, run, faults>>

\* The work cutoff passes: TERM, KILL, and an outcome that proves nothing.
Deadline ==
  /\ p.at = "released" /\ p.child = "running" /\ p.id # "CONTAINERD_START" /\ Faulty
  /\ j' = CommandUncertain(j)
  /\ p' = [p EXCEPT !.at = "done", !.child = "killed", !.cg = FALSE, !.res = "raised"]
  /\ UNCHANGED <<w, run>>

\* An exception in the supervisor.  Before the fork nothing can have happened;
\* after it the child is killed and the boundary is uncertain.  The daemon's
\* starter settles through recovery instead, where even the time before the
\* fork is uncertain.
TransactFails ==
  /\ Supervised /\ Faulty
  /\ j' = IF p.child = "none" /\ p.id # "CONTAINERD_START" THEN CommandFailed(j)
                                                          ELSE CommandUncertain(j)
  /\ w' = IF p.id = "CONTAINERD_START" THEN [w EXCEPT !.daemon = FALSE] ELSE w
  /\ p' = [p EXCEPT !.at = "done", !.cg = FALSE, !.res = "raised",
                    !.child = IF @ = "none" THEN @ ELSE "killed"]
  /\ UNCHANGED run

\* The cgroup does not empty in time: no outcome is recorded, the command stays
\* pending and its child may live on.
SettlementFails ==
  /\ Supervised /\ p.child # "none" /\ p.id # "CONTAINERD_START" /\ Faulty
  /\ p' = [p EXCEPT !.at = "done", !.res = "raised"]
  /\ UNCHANGED <<j, w, run>>

(***************************************************************************)
(* The daemon stays when its start command ends.                           *)
(***************************************************************************)
DaemonRetained ==
  /\ p.at = "released" /\ p.id = "CONTAINERD_START" /\ w.daemon /\ RetainLegal(j)
  /\ j' = Retain(j) /\ p' = [p EXCEPT !.at = "done", !.res = "ok"]
  /\ run' = [run EXCEPT !.mine = TRUE] /\ UNCHANGED <<w, faults>>

\* Only the process that forked the daemon may use or stop it
\* (transaction_profile compares its parent with this process).
DaemonUsable == w.daemon /\ run.mine

\* TERM, KILL, the cgroup, and an outcome that is certain only if all is gone.
StopDaemon(how) == /\ DaemonOutcomeLegal(j) /\ DaemonUsable
                   /\ j' = DaemonOutcome(j, how) /\ w' = [w EXCEPT !.daemon = FALSE]

\* The daemon may die by itself; a process that reopens it finds it missing.
DaemonDies == /\ w.daemon /\ j.daemon = "retained" /\ ~Supervised /\ Faulty
              /\ w' = [w EXCEPT !.daemon = FALSE] /\ UNCHANGED <<j, p, run>>
DaemonMissing == /\ j.daemon = "retained" /\ ~w.daemon /\ DaemonOutcomeLegal(j)
                 /\ j' = DaemonOutcome(j, "missing")

\* Faulty variant: the journal is settled and the cgroup left alone.
RecoverPendingAlive ==
  /\ j.cmd # NoCommand
  /\ j' = IF NoEffectLegal(j) THEN CommandFailed(j) ELSE CommandUncertain(j)
  /\ p' = [p EXCEPT !.at = "idle"] /\ UNCHANGED w

\* The cgroup that the journal names is killed until it is empty, and removed.
RecoverCgroup == [p EXCEPT !.at = "idle", !.cg = FALSE,
                           !.child = IF @ \in {"gated", "running"} THEN "killed" ELSE @]

(***************************************************************************)
(* Recovery of a command that was pending at a crash: its cgroup is killed *)
(* and removed, and what it did stays unknown unless it was a read-only    *)
(* probe of the baseline.                                                  *)
(***************************************************************************)
RecoverPending ==
  /\ j.cmd # NoCommand
  /\ j' = IF NoEffectLegal(j) THEN CommandFailed(j) ELSE CommandUncertain(j)
  /\ p' = RecoverCgroup
  /\ w' = IF p.id = "CONTAINERD_START" THEN [w EXCEPT !.daemon = FALSE] ELSE w

\* Once the task is stopped the VM's processes leave on their own, and with them
\* what they hold open.
RolesExit == /\ w.roles /\ w.task # "running" /\ w' = [w EXCEPT !.roles = FALSE]
             /\ UNCHANGED <<j, p, run, faults>>

ProcessNext == \/ PrepareCgroup \/ Fork \/ RecordPreexec \/ Release \/ ChildActs
               \/ ChildExits \/ ObserveMarker \/ GatedExits \/ Settle \/ Deadline
               \/ TransactFails \/ SettlementFails \/ DaemonRetained \/ DaemonDies
               \/ RolesExit
==============================================================================

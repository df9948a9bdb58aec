---------------------------- MODULE TrustedLauncher ----------------------------
(***************************************************************************)
(* A launch: it is admitted once for one operation, and runs its cases as  *)
(* the subreaper of everything it starts.  The full operation first takes  *)
(* the runtime closure over from the worker.  Its end is ok, failed or     *)
(* uncertain: the first two promise that nothing is left behind.           *)
(***************************************************************************)
EXTENDS LauncherTransfer

Init ==
  /\ k = [p \in Procs |-> Absent]
  \* a private root that an earlier, killed launch left behind is still there
  /\ \E mode \in Modes : \E base \in IF mode = "lifecycle" THEN {"none"} ELSE {"none", "stale"} :
       c = [at |-> "boot", client |-> "none", mode |-> mode, i |-> 1, step |-> 1, leases |-> <<>>, outer |-> <<>>, held |-> {},
            reaped |-> {}, phase |-> [p \in Procs |-> "none"], todo |-> <<>>, st |-> "check", then |-> "none",
            after |-> "none", err |-> FALSE, fails |-> FALSE, helper |-> "none", fds |-> FALSE, report |-> NoReport,
            root |-> base, base |-> base, open |-> FALSE, fed |-> FALSE, subreaper |-> FALSE, res |-> "none"]
  /\ w = WorkerInit /\ l = LeaderInit /\ faults = 0
  /\ ch = [ask |-> "none", answer |-> "none", issue |-> "none", ack |-> FALSE,
           say |-> <<>>, tell |-> <<>>, transfer |-> FALSE]

\* The bootstrap authenticates its admission and the held sources, and loads
\* the closure module from them.
Bootstrap == /\ c.at = "boot" /\ UNCHANGED <<k, w, l, ch>>
             /\ \/ Calm /\ c' = [c EXCEPT !.at = IF c.mode = "sandbox" THEN "capsule" ELSE "admit"]
                \/ Faulty /\ c' = [c EXCEPT !.err = TRUE, !.at = "finish"]
\* The probe runs as another user: the client hands the sources over and waits.
RootCapsule == /\ c.at = "capsule" /\ c' = [c EXCEPT !.at = "rootBoot", !.client = "waits"]
               /\ UNCHANGED <<k, w, l, ch, faults>>
\* The fixed root script checks its parent, its descriptors and the capsule
\* against the installed authority before it runs a line of it ...
RootBootstrap == /\ c.at = "rootBoot" /\ UNCHANGED <<k, w, l, ch>>
                 /\ \/ Calm /\ c' = [c EXCEPT !.at = "rootEntry"]
                    \/ Faulty /\ c' = [c EXCEPT !.err = TRUE, !.at = "finish"]
\* ... and the code it runs decodes the same capsule again.
RootCapsuleEntry == /\ c.at = "rootEntry" /\ UNCHANGED <<k, w, l, ch>>
                    /\ \/ Calm /\ c' = [c EXCEPT !.at = "admit"]
                       \/ Faulty /\ c' = [c EXCEPT !.err = TRUE, !.at = "finish"]
\* Its deadline finds a process that has changed its image: it is not signalled.
ClientDeadline == /\ c.client = "waits" /\ c.at # "dead" /\ Faulty
                  /\ c' = [c EXCEPT !.client = "uncertain"] /\ UNCHANGED <<k, w, l, ch>>
ClientReads == /\ c.client = "waits" /\ c.at = "dead" /\ UNCHANGED <<k, w, l, ch, faults>>
               /\ c' = [c EXCEPT !.client = IF c.res = "ok" THEN "ok" ELSE "failed"]
\* The operation is consumed, once, and the process becomes the subreaper
\* before it starts anything.
Admit == /\ c.at = "admit" /\ UNCHANGED <<k, w, l, ch, faults>>
         /\ c' = [c EXCEPT !.subreaper = TRUE, !.at = IF Full THEN "worker" ELSE "case"]

\* The worker must have ended well once both tools have run.
AfterCases ==
  /\ c.at = "cases" /\ UNCHANGED <<k, w, l, ch, faults>>
  /\ \E cc \in {[c EXCEPT !.leases = c.outer \o @, !.outer = <<>>]} :
       c' = IF Full /\ ~c.err /\ ~c.fails THEN [cc EXCEPT !.at = "worked"] ELSE Unwind(cc, "finish")
JoinWorker ==
  /\ c.at = "worked" /\ UNCHANGED <<w, l, ch>>
  /\ \/ /\ k["worker"].st = "zombie" /\ k' = Reaped("worker") /\ Calm
        /\ c' = IF k["worker"].code = "ok" THEN Unwind(Retired(c, "worker"), "finish")
                ELSE Raised(Retired(c, "worker"), "finish")
     \/ Alive("worker") /\ Faulty /\ c' = Raised(c, "finish") /\ UNCHANGED k

Children == {p \in Procs : k[p].par = "C" /\ k[p].st \in {"gated", "live", "zombie"}}
\* The baselines that are read again: the probe reads none after a failure.
Restored == CASE Full -> Children = {} /\ c.root = c.base /\ c.leases = <<>>
              [] c.mode = "lifecycle" -> Children = {}
              [] c.mode = "sandbox" -> TRUE
Ended(cc) ==
  [cc EXCEPT !.at = "done", !.subreaper = @ /\ Full,
             !.res = IF cc.fails \/ ~Restored THEN "uncertain" ELSE IF cc.err THEN "failed" ELSE "ok"]
\* Descriptors are closed after the processes; one whose close fails stays unknown.
CloseLeases == /\ c.at = "finish" /\ c.fds /\ UNCHANGED <<k, w, l, ch>>
               /\ \/ Calm /\ c' = [c EXCEPT !.fds = FALSE]
                  \/ Faulty /\ c' = Ended([c EXCEPT !.fails = TRUE])
Finish == /\ c.at = "finish" /\ ~c.fds /\ c' = Ended(c) /\ UNCHANGED <<k, w, l, ch, faults>>
Exits == /\ c.at = "done" /\ c' = [c EXCEPT !.at = "dead"] /\ k' = Orphaned(k, "C", "init")
         /\ UNCHANGED <<w, l, ch, faults>>

LaunchStep == \/ Bootstrap \/ RootCapsule \/ RootBootstrap \/ RootCapsuleEntry \/ ClientReads \/ Admit \/ CloseLeases \/ AfterCases \/ JoinWorker \/ Finish \/ Exits
OwnerStep == StopCheck \/ StopSignal \/ StopWait \/ StopEnds \/ AdoptUnregistered
KernelStep == \E p \in Procs : Deliver(p) \/ GateOpens(p) \/ GateEnds(p)
Mishap == CoordinatorKilled \/ ClientDeadline \/ \E p \in Procs : Kill(p)

Next == \/ LaunchStep \/ OwnerStep \/ HandoffStep \/ CaseStep
        \/ ClosureStep \/ LeaderStep \/ ChildStep \/ KernelStep \/ Mishap
Spec == Init /\ [][Next]_vars
Steps == LaunchStep \/ OwnerStep \/ HandoffStep \/ CaseStep
FairSpec == /\ Spec /\ WF_vars(Steps) /\ WF_vars(ClosureStep) /\ WF_vars(LeaderStep)
            /\ WF_vars(ChildStep) /\ WF_vars(KernelStep)

(***************************************************************************)
(* Properties.                                                             *)
(***************************************************************************)
\* A helper and a descendant run behind a gate that their creator opens only
\* after the coordinator's acknowledgement: whatever has passed its gate is
\* leased by the coordinator, exactly once, for as long as that lives.
GatedUntilOwned == /\ \A p \in {"helper", "child"} : k[p].st = "live" /\ Present => p \in Leased
                   /\ IsInjective(c.leases \o c.outer)

\* A launch that ends ok or failed has left no process, no private root of
\* its own and no descriptor; everything else is reported as an uncertain cleanup.
CertainMeansRestored ==
  c.res \in {"ok", "failed"} => /\ \A p \in Procs : k[p].st \in {"none", "gone"}
                                /\ c.root = c.base /\ ~c.fds /\ c.leases = <<>>

\* The descriptors the coordinator holds are of the one generation that both
\* preparations reported, and no helper that could still map another is alive.
IssuedOnce == c.report # NoReport => /\ c.mode = "runtime" => c.report = w.first
                                     /\ \A t \in 1..HelperTools : c.report.tools[t] = c.report.sealed
                                     /\ ~Alive("helper")

\* Whatever happens to the coordinator or to a creator, every process ends.
EverythingEnds == <>[](c.at = "dead" /\ \A p \in Procs : ~Alive(p))
================================================================================

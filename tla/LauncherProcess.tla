--------------------------- MODULE LauncherProcess ---------------------------
(***************************************************************************)
(* The processes of the trusted runtime launcher and the leases by which   *)
(* the coordinator owns them.  A creator (the closure worker, a leader)    *)
(* is a child of the coordinator; a creator has one child of its own (a    *)
(* helper, a descendant) whose pidfd it hands to the coordinator.  The     *)
(* kernel reparents the children of a dead process to the coordinator, the *)
(* subreaper, and kills those that armed a parent-death signal.            *)
(***************************************************************************)
EXTENDS Naturals, Sequences, SequencesExt

CONSTANTS Modes,      \* the operations a launch may be admitted for
          MaxFaults   \* bound: raised exceptions, kills and source changes

ASSUME ModesAssumption == Modes \subseteq {"runtime", "compression", "lifecycle", "sandbox"} /\ Modes # {}
ASSUME FaultsAssumption == MaxFaults \in Nat

VARIABLES k,       \* the kernel's view of every process
          c,       \* the coordinator
          w,       \* the worker: the owner of the runtime closure
          l,       \* the leader of the current case
          ch,      \* packets in flight
          faults

vars == <<k, c, w, l, ch, faults>>

Creators == {"worker", "leader"}
Procs == Creators \cup {"helper", "child"}

Absent == [st |-> "none", par |-> "none", gate |-> "shut", armed |-> FALSE, sid |-> FALSE,
           pc |-> "start", sig |-> "none", deaf |-> FALSE, code |-> "none"]

Alive(p) == k[p].st \in {"gated", "live"}
Faulty == faults < MaxFaults /\ faults' = faults + 1
Calm == UNCHANGED faults
Present == c.at # "dead"   \* the coordinator itself

(***************************************************************************)
(* The kernel.                                                             *)
(***************************************************************************)
Orphaned(kk, p, to) ==
  [q \in Procs |-> IF kk[q].par # p \/ kk[q].st \in {"none", "gone"} THEN kk[q]
                   ELSE [kk[q] EXCEPT !.par = to,
                           !.st = IF to = "init" /\ @ = "zombie" THEN "gone" ELSE @,
                           !.gate = IF @ = "shut" THEN "eof" ELSE @,
                           !.sig = IF kk[q].armed THEN "kill" ELSE @]]
Dead(kk, p, code) ==
  Orphaned([kk EXCEPT ![p].st = IF kk[p].par = "init" THEN "gone" ELSE "zombie",
                      ![p].code = code], p, IF Present THEN "C" ELSE "init")

Deliver(p) == /\ Alive(p) /\ k[p].sig # "none"
              /\ k' = IF k[p].sig = "kill" \/ ~k[p].deaf THEN Dead(k, p, "sig")
                      ELSE [k EXCEPT ![p].sig = "none"]
              /\ UNCHANGED <<c, w, l, ch, faults>>
Kill(p) == /\ Alive(p) /\ k[p].sig # "kill" /\ Faulty
           /\ k' = [k EXCEPT ![p].sig = "kill"] /\ UNCHANGED <<c, w, l, ch>>
GateOpens(p) == /\ k[p].st = "gated" /\ k[p].gate = "open"
                /\ k' = [k EXCEPT ![p].st = "live"] /\ UNCHANGED <<c, w, l, ch, faults>>
\* A creator that dies or closes its gate unwritten ends the process behind it.
GateEnds(p) == /\ k[p].st = "gated" /\ k[p].gate = "eof"
               /\ k' = Dead(k, p, "err") /\ UNCHANGED <<c, w, l, ch, faults>>
CoordinatorKilled == /\ Present /\ Faulty
                     /\ c' = [c EXCEPT !.at = "dead"] /\ k' = Orphaned(k, "C", "init")
                     /\ UNCHANGED <<w, l, ch>>

(***************************************************************************)
(* _ProcessOwner: leases, and the bounded stop of what they name.          *)
(***************************************************************************)
Leased == ToSet(c.leases) \cup ToSet(c.outer)
Spawned(par) == [Absent EXCEPT !.st = "gated", !.par = par]
Registered(cc, p) == [cc EXCEPT !.leases = Append(@, p), !.phase[p] = "BLOCKED"]

\* The executable of a zombie cannot be read, a retained one is not.  The
\* session must be the recorded one; one that was planned is accepted too,
\* but not of a lease whose executable is retained: that lease is refused
\* from its setsid until it was confirmed.
ProcessMatches(p) == /\ k[p].st # "gone"
                     /\ k[p].st = "zombie" => p \in c.held
                     /\ k[p].sid => c.phase[p] # "BLOCKED" /\ (p \in c.held => c.phase[p] = "POST")

PlanSetsid(cc, p) == [cc EXCEPT !.phase[p] = "PRE"]
ConfirmSetsid(p) == c.phase[p] = "PRE" /\ k[p].sid /\ (k[p].st = "zombie" => p \in c.held)

\* The children of a root are the leased ones, in two equal readings.
StableCensus(root, cc) == {q \in Procs : k[q].par = root /\ k[q].st \notin {"none", "gone"}}
                             \subseteq ToSet(cc.leases)

\* A new lease is read from the live process; a retained executable is not read.
Identified(p, retained) == k[p].st # "gone" /\ (k[p].st = "zombie" => retained)

Unwind(cc, then) == [cc EXCEPT !.at = "stop", !.st = "check", !.todo = cc.leases, !.then = then]
Raised(cc, then) == Unwind([cc EXCEPT !.err = TRUE], then)
Reaped(p) == [k EXCEPT ![p].st = "gone"]
Retired(cc, p) == [cc EXCEPT !.leases = RemoveFirst(@, p), !.outer = RemoveFirst(@, p), !.reaped = @ \ {p}]
Onward(cc) == [cc EXCEPT !.todo = Tail(@), !.st = "check"]
Unsettled(cc) == Onward([cc EXCEPT !.fails = TRUE])

Stopping(st) == c.at = "stop" /\ c.todo # <<>> /\ c.st = st /\ UNCHANGED <<w, l, ch>>
StopCheck ==
  /\ Stopping("check") /\ Calm
  /\ \E p \in {Head(c.todo)} :
       \/ p \in c.reaped /\ c' = Onward(Retired(c, p)) /\ UNCHANGED k
       \/ /\ p \notin c.reaped /\ k[p].st \in {"zombie", "gone"}
          /\ IF k[p].st = "zombie" /\ k[p].par = "C"
             THEN k' = Reaped(p) /\ c' = Onward(Retired(c, p))
             ELSE c' = Unsettled(c) /\ UNCHANGED k
       \/ /\ p \notin c.reaped /\ Alive(p)
          /\ k' = [k EXCEPT ![p].gate = IF @ = "shut" /\ k[p].par = "C" THEN "eof" ELSE @]
          /\ c' = [c EXCEPT !.st = "term"]

\* Faulty variant: a process is signalled and given up without being reaped.
StopSignalUnreaped ==
  \E st \in {"term", "kill"} :
    /\ Stopping(st) /\ Calm
    /\ \E p \in {Head(c.todo)} :
         /\ k' = [k EXCEPT ![p].sig = IF st = "kill" THEN "kill" ELSE "term"]
         /\ c' = Onward(Retired(c, p))
StopSignal ==
  \E st \in {"term", "kill"} :
    /\ Stopping(st) /\ Calm
    /\ \E p \in {Head(c.todo)} :
         IF ProcessMatches(p)
         THEN /\ k' = [k EXCEPT ![p].sig = IF st = "kill" \/ @ = "kill" THEN "kill" ELSE "term"]
              /\ c' = [c EXCEPT !.st = IF st = "term" THEN "termed" ELSE "killed"]
         ELSE c' = Unsettled(c) /\ UNCHANGED k
\* Only a child of the coordinator can be waited for; a deadline ends the wait.
StopWait ==
  \E st \in {"termed", "killed"} :
    /\ Stopping(st)
    /\ \E p \in {Head(c.todo)} :
         \/ /\ k[p].st = "zombie" /\ k[p].par = "C" /\ Calm
            /\ k' = Reaped(p) /\ c' = Onward(Retired(c, p))
         \/ /\ ~(k[p].st = "zombie" /\ k[p].par = "C")
            /\ IF st = "killed" /\ k[p].par = "C" THEN Faulty ELSE Calm
            /\ c' = IF st = "termed" THEN [c EXCEPT !.st = "kill"] ELSE Unsettled(c)
            /\ UNCHANGED k
StopEnds == /\ c.at = "stop" /\ c.todo = <<>>
            /\ c' = [c EXCEPT !.at = c.then] /\ UNCHANGED <<k, w, l, ch, faults>>

\* Children that appeared by reparenting and that no lease names; two
\* readings of them must agree.
AdoptUnregistered ==
  /\ c.at = "adopt" /\ UNCHANGED <<k, w, l, ch>>
  /\ \/ /\ Calm
        /\ \E new \in {SetToSeq({q \in Procs : /\ k[q].par = "C" /\ k[q].st \in {"gated", "live", "zombie"}
                                               /\ q \notin Leased})} :
             c' = [c EXCEPT !.leases = @ \o new, !.at = "stop", !.st = "check",
                            !.todo = new \o RemoveFirst(c.leases, "leader"),
                            !.then = c.after]
     \/ Faulty /\ c' = [c EXCEPT !.at = c.after, !.fails = TRUE]
==============================================================================

--------------------------- MODULE LauncherTransfer ---------------------------
(***************************************************************************)
(* One case of the launcher: a tool in its sandbox, a lifecycle case or    *)
(* the sandbox probe.  A leader and the coordinator follow a script of     *)
(* packets; in the middle the leader spawns a gated child and transfers    *)
(* its pidfd, and the coordinator accepts it or settles the rejection.     *)
(***************************************************************************)
EXTENDS LauncherClosure

Says(say, hears) == [say |-> say, hears |-> hears]
Tool == <<Says("userns", "uid-mapped"), Says("groups-cleared", "identity-mapped"), Says("namespace", "prepare-root"),
          Says("transfer", "A"), Says("child", "release-child"), Says("boundary", "none"),
          Says("post-inspection", "finalize-root"), Says("final-inspection", "none"), Says("exit", "none")>>
Probe == <<Says("S", "C"), Says("transfer", "A"), Says("entered", "F"), Says("E", "none")>>
Lifecycle(case) == <<Says("S", "C"), Says("transfer", "A")>> \o
                   IF case = "before-release" THEN <<Says("T", "X")>> ELSE <<Says("T", "none"), Says("R", "X")>>

Cases(mode) == CASE mode \in {"runtime", "compression"} -> <<"gzip", "zstd">>
                 [] mode = "lifecycle" -> <<"before-release", "after-release", "term-kill">>
                 [] mode = "sandbox" -> <<"sandbox">>
Case == Cases(c.mode)[c.i]
Script == CASE Full -> Tool [] c.mode = "lifecycle" -> Lifecycle(Case) [] c.mode = "sandbox" -> Probe

LeaderInit == [pc |-> "start", i |-> 1, local |-> FALSE, gate |-> "shut", err |-> FALSE]

(***************************************************************************)
(* The child.                                                              *)
(***************************************************************************)
ChildRuns(pc) == k["child"].st = "live" /\ k["child"].pc = pc /\ UNCHANGED <<c, w, l, ch, faults>>
LeaderGone == ~Alive("leader")
\* Faulty variant: the parent-death signal is not armed.
ChildArmsUnarmed == /\ ChildRuns("start")
                    /\ k' = [k EXCEPT !["child"] = [@ EXCEPT !.deaf = @ \/ Case = "term-kill", !.pc = "armed"]]
\* The parent is read again after the signal is armed in a lifecycle case only:
\* inside its own process namespace the child reads the same parent always.
ChildArms ==
  /\ ChildRuns("start")
  /\ k' = IF c.mode = "lifecycle" /\ k["child"].par # "leader" THEN Dead(k, "child", "err")
          ELSE [k EXCEPT !["child"] = [@ EXCEPT !.armed = TRUE, !.deaf = @ \/ Case = "term-kill", !.pc = "armed"]]
\* The boundary is installed and described; a tool is executed behind it.
ChildConfines == /\ ChildRuns("armed") /\ c.mode # "lifecycle"
                 /\ k' = [k EXCEPT !["child"].pc = "confined"]
ChildReleased == /\ ChildRuns("armed") /\ c.mode = "lifecycle" /\ Case # "before-release"
                 /\ l.gate = "open" \/ LeaderGone
                 /\ k' = IF l.gate = "open" THEN [k EXCEPT !["child"].pc = "paused"] ELSE Dead(k, "child", "err")
\* A tool ends with its input, the probe with its final gate.
ChildEnds == /\ ChildRuns("confined")
             /\ \/ Full /\ (c.fed \/ ~Present) /\ k' = Dead(k, "child", "ok")
                \/ c.mode = "sandbox" /\ l.gate = "open" /\ k' = Dead(k, "child", "ok")
                \/ c.mode = "sandbox" /\ l.gate # "open" /\ LeaderGone /\ k' = Dead(k, "child", "err")

(***************************************************************************)
(* The leader.                                                             *)
(***************************************************************************)
Leads(pc) == k["leader"].st = "live" /\ l.pc = pc
LeaderTo(ll, pc) == l' = [ll EXCEPT !.pc = pc]
Failing(ll) == [ll EXCEPT !.pc = "unwind", !.err = TRUE]
Peer == Present /\ c.open     \* the coordinator still holds its end of the sockets

LeaderStart == /\ Leads("start") /\ LeaderTo(l, "say")
               /\ k' = [k EXCEPT !["leader"] = [@ EXCEPT !.armed = TRUE, !.sid = TRUE]]
               /\ UNCHANGED <<c, w, ch, faults>>
LeaderFails == /\ k["leader"].st = "live" /\ l.pc \notin {"start", "unwind", "exit"} /\ Faulty
               /\ l' = Failing(l) /\ UNCHANGED <<k, c, w, ch>>
LeaderSpawn ==
  /\ Leads("say") /\ Script[l.i].say = "transfer" /\ k["child"].st = "none"
  /\ k' = [k EXCEPT !["child"] = [Spawned("leader") EXCEPT !.deaf = c.mode # "lifecycle"]]
  /\ l' = [l EXCEPT !.local = TRUE] /\ UNCHANGED <<c, w, ch, faults>>

\* What the leader has read before it sends a packet.
ToolReady(say) ==
  CASE say = "transfer" -> k["child"].st # "none"
    [] say = "boundary" -> k["child"].st = "live" /\ k["child"].pc = "confined"
    [] say \in {"post-inspection", "final-inspection"} -> Alive("child")
    [] say = "exit" -> k["child"].st = "zombie"
    [] OTHER -> TRUE
ProbeReady(say) ==
  CASE say = "transfer" -> k["child"].st # "none"
    [] say = "entered" -> k["child"].st = "live" /\ k["child"].pc = "confined"
    [] say = "E" -> k["child"].st = "zombie"
    [] OTHER -> TRUE
LifecycleReady(say) ==
  CASE say = "transfer" -> k["child"].st # "none"
    [] say = "T" -> k["child"].st = "live" /\ k["child"].pc # "start"
    [] say = "R" -> k["child"].st = "live" /\ k["child"].pc = "paused"
    [] OTHER -> TRUE
Ready(say) == CASE Full -> ToolReady(say) [] c.mode = "sandbox" -> ProbeReady(say) [] c.mode = "lifecycle" -> LifecycleReady(say)
Reaps(say) == say \in {"exit", "E"}
\* The transfer has a socket of its own.
Sent(say) == IF say = "transfer" THEN [ch EXCEPT !.transfer = TRUE] ELSE [ch EXCEPT !.say = Append(@, say)]
LeaderSay ==
  /\ Leads("say") /\ Ready(Script[l.i].say) /\ UNCHANGED <<c, w, faults>>
  /\ IF Peer /\ (Script[l.i].say = "E" => k["child"].code = "ok")
     THEN /\ ch' = Sent(Script[l.i].say)
          /\ k' = IF Reaps(Script[l.i].say) THEN Reaped("child") ELSE k
          /\ l' = [l EXCEPT !.local = IF Reaps(Script[l.i].say) THEN FALSE ELSE @,
                            !.gate = IF Script[l.i] = Says("T", "none") THEN "open" ELSE @,
                            !.pc = IF Script[l.i].hears # "none" THEN "hear"
                                   ELSE IF l.i = Len(Script) THEN "exit" ELSE "say",
                            !.i = IF Script[l.i].hears = "none" /\ l.i < Len(Script) THEN @ + 1 ELSE @]
     ELSE l' = Failing(l) /\ UNCHANGED <<k, ch>>
\* The child it waits for has died, or is in a state it does not accept.
LeaderSees == /\ Leads("say") /\ Script[l.i].say \notin {"transfer", "exit", "E"} /\ l.i > 2
              /\ ~Ready(Script[l.i].say) /\ k["child"].st \in {"zombie", "gone"}
              /\ l' = Failing(l) /\ UNCHANGED <<k, c, w, ch, faults>>
\* The child is released behind its gate only after the coordinator's acceptance;
\* outside a tool the leader then drops its own authority over it.
LeaderHear ==
  /\ Leads("hear") /\ ch.tell # <<>> /\ ch' = [ch EXCEPT !.tell = Tail(@)] /\ UNCHANGED <<c, w, faults>>
  /\ IF Head(ch.tell) = Script[l.i].hears
     THEN /\ k' = IF Head(ch.tell) = "A" THEN [k EXCEPT !["child"].gate = IF @ = "shut" THEN "open" ELSE @] ELSE k
          /\ l' = [l EXCEPT !.local = IF Head(ch.tell) = "A" /\ ~Full THEN FALSE ELSE @,
                            !.gate = IF Head(ch.tell) = "F" THEN "open" ELSE @,
                            !.pc = IF Head(ch.tell) = "X" THEN "exit" ELSE "say",
                            !.i = IF Head(ch.tell) = "X" THEN @ ELSE @ + 1]
     ELSE l' = Failing(l) /\ UNCHANGED k
LeaderAbandoned == /\ Leads("hear") /\ ch.tell = <<>> /\ ~Peer
                   /\ l' = Failing(l) /\ UNCHANGED <<k, c, w, ch, faults>>
\* Its own cleanup: a child it still holds is killed and reaped, the root
\* unmounted; then one packet says whether that is certain.
LeaderUnwind ==
  /\ Leads("unwind") /\ UNCHANGED <<c, w>>
  /\ \/ /\ l.local /\ Alive("child") /\ k["child"].sig # "kill" /\ Calm
        /\ k' = [k EXCEPT !["child"].sig = "kill", !["child"].gate = IF @ = "shut" THEN "eof" ELSE @]
        /\ UNCHANGED <<l, ch>>
     \/ /\ l.local => k["child"].st \in {"none", "zombie"}
        /\ k' = IF l.local /\ k["child"].st = "zombie" THEN Reaped("child") ELSE k
        /\ LeaderTo([l EXCEPT !.local = FALSE], "exit")
        /\ \/ Calm /\ ch' = Sent("Z")
           \/ Faulty /\ ch' = Sent("Zu")
LeaderExit == /\ Leads("exit") /\ LeaderTo(l, "done")
              /\ k' = Dead(k, "leader", IF l.err THEN "err" ELSE "ok") /\ UNCHANGED <<c, w, ch, faults>>

(***************************************************************************)
(* The coordinator in a case.                                              *)
(***************************************************************************)
Expected == Script[c.step].say
Heard == ch.say # <<>> /\ Head(ch.say) = Expected
Failure == ch.say # <<>> /\ Head(ch.say) \in {"Z", "Zu"}
Read == [ch EXCEPT !.say = Tail(@)]
Told(cc, tell) == IF tell = "none" THEN cc ELSE [cc EXCEPT !.tell = Append(@, tell)]

\* _RootOwner.prepare: a root that is already there is refused; one whose
\* identity was not read after its creation is never removed.
RootPrepare ==
  /\ c.at = "case" /\ c.mode # "lifecycle" /\ c.root = "none"
  /\ \/ Calm /\ c' = [c EXCEPT !.root = "made", !.at = "leader"]
     \/ Faulty /\ c' = Raised([c EXCEPT !.root = "unknown", !.fails = TRUE], "settled")
     \/ Faulty /\ c' = Raised(c, "settled")
  /\ UNCHANGED <<k, w, l, ch>>
RootRefused == /\ c.at = "case" /\ c.mode # "lifecycle" /\ c.root # "none"
               /\ c' = Raised(c, "settled") /\ UNCHANGED <<k, w, l, ch, faults>>
SpawnLeader ==
  /\ c.at = IF c.mode = "lifecycle" THEN "case" ELSE "leader"
  /\ k' = [k EXCEPT !["leader"] = [Spawned("C") EXCEPT !.gate = "open"], !["child"] = Absent]
  /\ l' = LeaderInit /\ ch' = [ch EXCEPT !.say = <<>>, !.tell = <<>>, !.transfer = FALSE]
  /\ c' = [PlanSetsid(Registered(c, "leader"), "leader") EXCEPT
             !.at = "hear", !.step = 1, !.open = TRUE, !.fed = FALSE,
             !.held = IF Full THEN @ \cup {"leader"} ELSE @ \ {"leader", "child"}]
  /\ UNCHANGED <<w, faults>>

Tells(from, cc) == ch' = Told(from, Script[c.step].hears) /\ c' = [cc EXCEPT !.step = @ + 1]
HearFirst == /\ c.at = "hear" /\ c.step = 1 /\ Heard /\ UNCHANGED <<k, w, l, faults>>
             /\ IF ConfirmSetsid("leader") THEN Tells(Read, [c EXCEPT !.phase["leader"] = "POST"])
                ELSE c' = Raised(c, "settled") /\ ch' = Read
\* What the coordinator reads of the child again before it goes on.
Inspects(say) == say \in {"post-inspection", "final-inspection", "entered"}
\* Its mappings are the sealed objects, its namespaces, limits and mounts the
\* ones of the boundary.
MappingExact == VerifyBundle(c.report)
BoundaryExact == k["child"].pc = "confined"
Inspected == Alive("child") /\ (Full => BoundaryExact /\ MappingExact)
Hear == /\ c.at = "hear" /\ c.step > 1 /\ Heard /\ Expected \notin {"exit", "E"} /\ Script[c.step].hears # "X"
        /\ UNCHANGED <<k, w, l, faults>>
        /\ IF Inspects(Expected) /\ ~Inspected
           THEN c' = Raised(c, "settled") /\ ch' = Read
           ELSE Tells(Read, [c EXCEPT !.fed = @ \/ Expected = "final-inspection"])

\* receive_descendant: the child is read behind its gate, then leased.
Received == k["child"].par = "leader" /\ Identified("child", Full)
Transferred == c.at = "hear" /\ ch.transfer /\ Expected = "transfer" /\ UNCHANGED <<k, w, l>>
Receive == /\ Transferred
           /\ \/ /\ Received /\ Calm /\ ch' = [ch EXCEPT !.transfer = FALSE]
                 /\ c' = [Registered(c, "child") EXCEPT !.at = "census",
                            !.held = IF Full THEN @ \cup {"child"} ELSE @]
              \/ /\ IF Received THEN Faulty ELSE Calm
                 /\ ch' = [ch EXCEPT !.transfer = FALSE] /\ c' = [c EXCEPT !.at = "reject", !.err = TRUE]
\* A tool is about to execute: its next image is expected.
PlanExec(cc, p) == [cc EXCEPT !.phase[p] = IF Full THEN "PRE" ELSE @]
Accept == /\ c.at = "census" /\ UNCHANGED <<k, w, l, faults>>
          /\ IF k["leader"].st # "gone" /\ StableCensus("leader", c) /\ Alive("leader")
             THEN Tells(ch, PlanExec([c EXCEPT !.at = "hear"], "child"))
             ELSE c' = Raised(c, "settled") /\ UNCHANGED ch
\* A packet of failure, the end of the leader, or a deadline.
HearFails ==
  /\ c.at = "hear" /\ UNCHANGED <<k, w, l>>
  /\ IF Expected = "transfer"
     THEN /\ ~ch.transfer /\ UNCHANGED ch
          /\ IF Alive("leader") THEN Faulty ELSE Calm
          /\ c' = [c EXCEPT !.at = "reject", !.err = TRUE]
     ELSE /\ \/ Failure /\ Calm
             \/ ch.say = <<>> /\ ~Alive("leader") /\ Calm
             \/ ~Failure /\ Alive("leader") /\ Faulty
          /\ ch' = [ch EXCEPT !.say = IF Failure THEN Tail(@) ELSE @]
          /\ c' = Raised([c EXCEPT !.fails = @ \/ (Failure /\ Head(ch.say) = "Zu")], "settled")

\* _settle_rejected_transfer: the creator is asked to undo, then it is
\* stopped, then whatever its death exposed is adopted and stopped.
StopsLeader(cc) == [cc EXCEPT !.at = "stop", !.st = "check", !.todo = <<"leader">>, !.then = "adopt", !.after = "rejected"]
Reject == /\ c.at = "reject" /\ UNCHANGED <<k, w, l, faults>>
          /\ IF Alive("leader") THEN c' = [c EXCEPT !.at = "undo"] /\ ch' = Told(ch, "N")
             ELSE c' = StopsLeader(c) /\ UNCHANGED ch
Undone == /\ c.at = "undo" /\ UNCHANGED <<k, w, l>>
          /\ IF ch.say = <<>> /\ Alive("leader") THEN Faulty ELSE Calm
          /\ ch' = [ch EXCEPT !.say = IF @ = <<>> THEN @ ELSE Tail(@)]
          /\ c' = StopsLeader([c EXCEPT !.fails = @ \/ ch.say = <<>> \/ Head(ch.say) # "Z"])
Rejected == /\ c.at = "rejected" /\ c' = Unwind(c, "settled") /\ UNCHANGED <<k, w, l, ch, faults>>

\* The child was reaped by its leader.
HearEnd == /\ c.at = "hear" /\ Heard /\ Expected \in {"exit", "E"} /\ UNCHANGED <<k, w, l, faults>>
           /\ ch' = Read
           /\ c' = IF k["child"].st = "gone" /\ k["child"].code = "ok" THEN [Retired(c, "child") EXCEPT !.at = "join"]
                   ELSE Raised(c, "settled")
HearLast == /\ c.at = "hear" /\ Heard /\ Script[c.step].hears = "X" /\ UNCHANGED <<k, w, l, faults>>
            /\ ch' = IF Case = "term-kill" THEN Read ELSE Told(Read, "X")
            /\ c' = [c EXCEPT !.at = IF Case = "term-kill" THEN "term" ELSE "join"]
\* TERM, which the child ignores, then KILL.
TermKill ==
  /\ UNCHANGED <<w, l, faults>>
  /\ \/ /\ c.at = "term" /\ UNCHANGED ch
        /\ IF ProcessMatches("child")
           THEN c' = [c EXCEPT !.at = "termed"] /\ k' = [k EXCEPT !["child"].sig = IF @ = "kill" THEN @ ELSE "term"]
           ELSE c' = Raised(c, "settled") /\ UNCHANGED k
     \/ /\ c.at = "termed" /\ (k["child"].sig # "term" \/ ~Alive("child"))
        /\ IF Alive("child") /\ ProcessMatches("child")
           THEN /\ c' = [c EXCEPT !.at = "join"] /\ ch' = Told(ch, "X")
                /\ k' = [k EXCEPT !["child"].sig = "kill"]
           ELSE c' = Raised(c, "settled") /\ UNCHANGED <<k, ch>>
Join == /\ c.at = "join" /\ UNCHANGED <<w, l, ch>>
        /\ \/ /\ k["leader"].st = "zombie" /\ k' = Reaped("leader") /\ Calm
              /\ c' = IF k["leader"].code # "ok" THEN Raised(Retired(c, "leader"), "settled")
                      ELSE IF c.mode = "lifecycle" THEN [Retired(c, "leader") EXCEPT !.at = "adopted"]
                      ELSE Unwind(Retired(c, "leader"), "settled")
           \/ Alive("leader") /\ Faulty /\ c' = Raised(c, "settled") /\ UNCHANGED k
\* The child is now the coordinator's own: it must have died of the signal.
ReapAdopted ==
  /\ c.at = "adopted" /\ ~Alive("child") /\ UNCHANGED <<w, l, ch, faults>>
  /\ IF k["child"].st = "zombie" /\ k["child"].par = "C"
     THEN /\ k' = Reaped("child")
          /\ c' = IF k["child"].code = "sig" THEN Unwind(Retired(c, "child"), "settled")
                  ELSE Raised([c EXCEPT !.reaped = @ \cup {"child"}], "settled")
     ELSE c' = Raised(c, "settled") /\ UNCHANGED k

\* The end of a case: sockets and pipes are closed, then the root is removed.
CloseCase == /\ c.at = "settled" /\ Full
             /\ c' = [c EXCEPT !.at = "adopt", !.after = "closed"] /\ UNCHANGED <<k, w, l, ch, faults>>
EndCase ==
  /\ c.at = IF Full THEN "closed" ELSE "settled"
  /\ UNCHANGED <<k, w, l, ch, faults>>
  /\ \E cc \in {[c EXCEPT !.open = FALSE, !.fed = TRUE, !.after = "none", !.root = IF @ = "made" THEN "none" ELSE @]} :
       c' = IF cc.fails \/ cc.err \/ cc.i = Len(Cases(cc.mode)) THEN [cc EXCEPT !.at = "cases"]
            ELSE [cc EXCEPT !.at = "case", !.i = @ + 1]

ChildStep == ChildArms \/ ChildConfines \/ ChildReleased \/ ChildEnds
LeaderStep == \/ LeaderStart \/ LeaderFails \/ LeaderSpawn \/ LeaderSay \/ LeaderSees \/ LeaderHear
              \/ LeaderAbandoned \/ LeaderUnwind \/ LeaderExit
CaseStep == \/ RootPrepare \/ RootRefused \/ SpawnLeader \/ HearFirst \/ Hear \/ Receive \/ Accept \/ HearFails
            \/ Reject \/ Undone \/ Rejected \/ HearEnd \/ HearLast \/ TermKill \/ Join \/ ReapAdopted
            \/ CloseCase \/ EndCase
==============================================================================

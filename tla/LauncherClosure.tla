--------------------------- MODULE LauncherClosure ---------------------------
(***************************************************************************)
(* The closure worker, its helpers and the handoff.  The worker prepares   *)
(* the runtime closure twice: it resolves the fixed tools to held files,   *)
(* runs each tool in a helper whose mappings it reads, and copies the      *)
(* files into sealed memory.  The first report is only compared with the   *)
(* second, whose descriptors go to the coordinator.  A helper passes its   *)
(* gates only after the coordinator holds a lease of it.                   *)
(***************************************************************************)
EXTENDS LauncherProcess

CONSTANT HelperTools   \* bound: the tools of FIXED_TOOL_TABLE that are mapped
ASSUME HelperToolsAssumption == HelperTools \in Nat \ {0}

Full == c.mode \in {"runtime", "compression"}
Preparations == IF c.mode = "runtime" THEN 2 ELSE 1   \* one admission for each

\* What a report says: the generation of the shared objects that every tool
\* was resolved to, and the one that was sealed.
Report(src, copied) == [tools |-> src, sealed |-> copied]
NoReport == Report(<<>>, 0)
\* The report names every tool once, and its rows cover what was sealed.
RowsExact(report) == Len(report.tools) = HelperTools
ReportExact(report) == RowsExact(report) /\ \A t \in 1..HelperTools : report.tools[t] = report.sealed

WorkerInit == [pc |-> "start", n |-> 1, cap |-> 0, t |-> 1, owner |-> "none", files |-> 1, seen |-> 0, src |-> <<>>,
               copied |-> 0, report |-> NoReport, first |-> NoReport, token |-> "none", gate |-> "shut", err |-> FALSE]

Worker(pc) == k["worker"].st = "live" /\ w.pc = pc
WorkerTo(ww, pc) == w' = [ww EXCEPT !.pc = pc]

(***************************************************************************)
(* The helper behind its two gates.                                        *)
(***************************************************************************)
HelperRuns == k["helper"].st = "live"
HelperArms == /\ HelperRuns /\ k["helper"].pc = "start"
              /\ k' = IF k["helper"].par = "worker"
                      THEN [k EXCEPT !["helper"] = [@ EXCEPT !.armed = TRUE, !.sid = TRUE, !.pc = "ready"]]
                      ELSE Dead(k, "helper", "err")
              /\ UNCHANGED <<c, w, l, ch, faults>>
HelperReleased == /\ HelperRuns /\ k["helper"].pc = "ready" /\ (w.gate # "shut" \/ ~Alive("worker"))
                  /\ k' = IF w.gate = "open" THEN [k EXCEPT !["helper"].pc = "exec"] ELSE Dead(k, "helper", "err")
                  /\ UNCHANGED <<c, w, l, ch, faults>>
\* The fixed tool reads its input to the end and exits.
HelperEnds == /\ HelperRuns /\ k["helper"].pc = "exec" /\ (w.gate = "closed" \/ ~Alive("worker"))
              /\ k' = Dead(k, "helper", "ok") /\ UNCHANGED <<c, w, l, ch, faults>>

(***************************************************************************)
(* The worker.                                                             *)
(***************************************************************************)
SourcesChange == /\ w.pc # "done" /\ k["worker"].st = "live" /\ Faulty
                 /\ w' = [w EXCEPT !.files = @ + 1] /\ UNCHANGED <<k, c, l, ch>>

Closing == LET s == k["helper"].st IN
  IF s \in {"none", "gone"} THEN [w EXCEPT !.err = TRUE, !.pc = "poison"]
  ELSE [w EXCEPT !.err = TRUE, !.pc = "stop", !.gate = "closed"]
\* An exception of any step, or an expired deadline.
WorkerFails == /\ k["worker"].st = "live" /\ ~w.err /\ w.pc \notin {"start", "exit", "done"} /\ Faulty
               /\ w' = Closing /\ UNCHANGED <<k, c, l, ch>>

WorkerStart == /\ Worker("start") /\ WorkerTo(w, "claim")
               /\ k' = [k EXCEPT !["worker"] = [@ EXCEPT !.armed = TRUE, !.sid = TRUE]]
               /\ UNCHANGED <<c, l, ch, faults>>
\* One capability per preparation, consumed before the owner exists; a second
\* use is a replay.
CapabilityUnused == w.cap < w.n
ClaimAdmission == /\ Worker("claim") /\ UNCHANGED <<k, c, l, ch, faults>>
                  /\ IF CapabilityUnused THEN WorkerTo([w EXCEPT !.cap = w.n, !.owner = "PREPARING", !.t = 1, !.src = <<>>, !.copied = 0], "resolve")
                     ELSE w' = Closing
\* A path is walked component by component and its file held open ...
ResolveOnce == /\ Worker("resolve") /\ WorkerTo([w EXCEPT !.seen = w.files], "authenticate")
               /\ UNCHANGED <<k, c, l, ch, faults>>
\* ... read, and walked again: the two transcripts agree.
Authenticated == w.files = w.seen
ResolveTool ==
  /\ Worker("authenticate") /\ UNCHANGED <<k, c, l, ch, faults>>
  /\ IF ~Authenticated THEN w' = Closing
     ELSE WorkerTo([w EXCEPT !.src = Append(@, w.seen), !.t = (@ % HelperTools) + 1],
                   IF w.t < HelperTools THEN "resolve" ELSE "alias")
\* An object that several tools share has one generation in all of them.
AliasesAgree(src) == \A t \in 1..HelperTools : src[t] = src[1]
EnforceAliases == /\ Worker("alias") /\ UNCHANGED <<k, c, l, ch, faults>>
                  /\ IF AliasesAgree(w.src) THEN WorkerTo(w, "spawn") ELSE w' = Closing
SpawnHelper == /\ Worker("spawn") /\ WorkerTo([w EXCEPT !.gate = "shut"], "register")
               /\ k' = [k EXCEPT !["helper"] = Spawned("worker")] /\ UNCHANGED <<c, l, ch, faults>>

\* A request of the helper channel: the peer must exist and answer in time.
Asks(pc, token, event, to) ==
  /\ Worker(pc) /\ UNCHANGED <<k, c, l, faults>>
  /\ IF Present /\ w.token = token THEN WorkerTo(w, to) /\ ch' = [ch EXCEPT !.ask = event]
     ELSE w' = Closing /\ UNCHANGED ch
Answered(pc, event) == Worker(pc) /\ ch.answer = event /\ ch' = [ch EXCEPT !.answer = "none"]
Unanswered == /\ k["worker"].st = "live" /\ w.pc \in {"registering", "releasing", "retiring"}
              /\ ch.answer = "none" /\ (~Present \/ c.at # "handoff")
              /\ w' = Closing /\ UNCHANGED <<k, c, l, ch, faults>>

\* Faulty variant: the gate opens when the request is sent, before its answer.
RegisterHelperUnanswered ==
  /\ Worker("register") /\ UNCHANGED <<c, l, faults>>
  /\ WorkerTo(w, "registering") /\ ch' = [ch EXCEPT !.ask = "register"]
  /\ k' = [k EXCEPT !["helper"].gate = IF @ = "shut" THEN "open" ELSE @]
RegisterHelper == Asks("register", "none", "register", "registering")
HelperRegistered == /\ Answered("registering", "registered")
                    /\ WorkerTo([w EXCEPT !.token = "registered"], "preexec")
                    /\ k' = [k EXCEPT !["helper"].gate = IF @ = "shut" THEN "open" ELSE @]
                    /\ UNCHANGED <<c, l, faults>>
HelperReady == /\ Worker("preexec") /\ UNCHANGED <<k, c, l, ch, faults>>
               /\ \/ HelperRuns /\ k["helper"].pc = "ready" /\ WorkerTo(w, "release")
                  \/ ~Alive("helper") /\ w' = Closing
ReleaseHelper == Asks("release", "registered", "release", "releasing")
ReleaseAnswered == /\ Answered("releasing", "released")
                   /\ WorkerTo([w EXCEPT !.token = "released", !.gate = "open"], "observe")
                   /\ UNCHANGED <<k, c, l, faults>>
\* The executable and every mapped object are the ones that were resolved.
MappedExactly == w.files = w.src[w.t]
MapHelper == /\ Worker("observe") /\ UNCHANGED <<k, c, l, ch, faults>>
             /\ \/ /\ HelperRuns /\ k["helper"].pc = "exec"
                   /\ w' = IF MappedExactly THEN [w EXCEPT !.gate = "closed", !.pc = "stop"] ELSE Closing
                \/ ~Alive("helper") /\ w' = Closing

\* _stop_helper: the gates are closed; what does not end is signalled by its pidfd.
ReapHelper == /\ Worker("stop") /\ k["helper"].st = "zombie" /\ k' = Reaped("helper")
              /\ WorkerTo(w, IF w.token = "none" THEN IF w.err THEN "poison" ELSE "next" ELSE "retire")
              /\ UNCHANGED <<c, l, ch, faults>>
KillHelper == /\ Worker("stop") /\ Alive("helper") /\ k["helper"].sig # "kill"
              /\ k["helper"].st = "gated"
              /\ k' = [k EXCEPT !["helper"].sig = "kill"] /\ UNCHANGED <<c, w, l, ch, faults>>
\* A retirement needs a released token: one that was only registered is refused.
RetireHelper == /\ Worker("retire") /\ UNCHANGED <<k, c, l, faults>>
                /\ IF Present /\ w.token = "released"
                   THEN WorkerTo(w, "retiring") /\ ch' = [ch EXCEPT !.ask = "retire"]
                   ELSE WorkerTo([w EXCEPT !.err = TRUE], "poison") /\ UNCHANGED ch
HelperRetired == /\ Answered("retiring", "retired") /\ UNCHANGED <<k, c, l, faults>>
                 /\ WorkerTo([w EXCEPT !.token = "none"], IF w.err THEN "poison" ELSE "next")
NextTool == /\ Worker("next") /\ UNCHANGED <<k, c, l, ch, faults>>
            /\ IF w.t < HelperTools THEN WorkerTo([w EXCEPT !.t = @ + 1], "spawn") ELSE WorkerTo(w, "seal")

\* The held file is compared, copied, and compared again with what was
\* resolved; the copy is read back against its digest and sealed.
SourceUnchanged == w.files = w.src[1]
SealObject == /\ Worker("seal") /\ UNCHANGED <<k, c, l, ch, faults>>
              /\ IF SourceUnchanged THEN WorkerTo([w EXCEPT !.copied = w.files], "sealed") ELSE w' = Closing
BuildBundle == /\ Worker("sealed") /\ UNCHANGED <<k, c, l, ch, faults>>
               /\ IF SourceUnchanged /\ w.copied = w.src[1]
                  THEN WorkerTo([w EXCEPT !.report = Report(w.src, w.copied)], "report") ELSE w' = Closing
\* Nothing of the preparation but the bundle is left when it becomes ready.
ReadyBaseline == k["helper"].st \in {"none", "gone"} /\ w.token = "none"
ConstructReport == /\ Worker("report") /\ UNCHANGED <<k, c, l, ch, faults>>
                   /\ IF ReportExact(w.report) /\ ReadyBaseline THEN WorkerTo([w EXCEPT !.owner = "READY"], "compare")
                      ELSE w' = Closing
\* Before it is compared and before it is issued the sealed report is read again.
RevalidateReport == ReportExact(w.report) /\ ReadyBaseline
\* Faulty variant: the second report is not compared with the first.
CompareReportsOnce == /\ Worker("compare") /\ UNCHANGED <<k, c, l, ch, faults>>
                      /\ IF w.n < Preparations
                         THEN WorkerTo([w EXCEPT !.n = @ + 1, !.first = w.report, !.report = NoReport, !.owner = "CLOSED"], "claim")
                         ELSE WorkerTo(w, "issue")
CompareReports == /\ Worker("compare") /\ UNCHANGED <<k, c, l, ch, faults>>
                  /\ IF Preparations = 2 /\ ~RevalidateReport THEN w' = Closing
                     ELSE IF w.n < Preparations
                     THEN WorkerTo([w EXCEPT !.n = @ + 1, !.first = w.report, !.report = NoReport, !.owner = "CLOSED"], "claim")
                     ELSE IF Preparations = 1 \/ w.first = w.report THEN WorkerTo(w, "issue") ELSE w' = Closing

\* The report is decoded by a codec of its own, against the tracked schema ...
DecodeReport(report) == RowsExact(report)
\* ... and every descriptor is inspected; the issuer and the consumer both do it.
VerifyBundle(report) == DecodeReport(report) /\ ReportExact(report)

\* _issue_once and _accept_runtime_closure.
IssueOnce == /\ Worker("issue") /\ UNCHANGED <<k, c, l, faults>>
             /\ IF w.cap = Preparations /\ RevalidateReport /\ VerifyBundle(w.report) /\ Present
                THEN WorkerTo([w EXCEPT !.owner = "ISSUING"], "acked") /\ ch' = [ch EXCEPT !.issue = "packet"]
                ELSE w' = Closing /\ UNCHANGED ch
\* The receipt must name the report that was issued.
ReceiptExact == RowsExact(w.report) /\ c.report = w.report
Acknowledged == /\ Worker("acked") /\ UNCHANGED <<k, c, l, faults>>
                /\ \/ /\ ch.ack /\ ch' = [ch EXCEPT !.ack = FALSE]
                      /\ IF ReceiptExact THEN WorkerTo([w EXCEPT !.owner = "CONSUMED"], "exit") ELSE w' = Closing
                   \/ ~ch.ack /\ (~Present \/ c.at \notin {"handoff", "receipt"}) /\ w' = Closing /\ UNCHANGED ch
PoisonOwner == /\ Worker("poison") /\ WorkerTo([w EXCEPT !.owner = "POISONED", !.report = NoReport], "exit")
               /\ ch' = [ch EXCEPT !.issue = "error"] /\ UNCHANGED <<k, c, l, faults>>
WorkerExit == /\ Worker("exit") /\ WorkerTo([w EXCEPT !.owner = IF w.err THEN @ ELSE "CLOSED"], "done")
              /\ k' = Dead(k, "worker", IF w.err THEN "err" ELSE "ok") /\ UNCHANGED <<c, l, ch, faults>>

(***************************************************************************)
(* The coordinator's side: _consume_worker_handoff, _consume_issuance.     *)
(***************************************************************************)
SpawnWorker == /\ c.at = "worker" /\ c.subreaper
               /\ c' = [Registered(c, "worker") EXCEPT !.at = "handoff"]
               /\ k' = [k EXCEPT !["worker"] = [Spawned("C") EXCEPT !.gate = "open"]]
               /\ UNCHANGED <<w, l, ch, faults>>

Handoff == c.at = "handoff"
Consumed == ~w.err /\ w.pc \in {"exit", "done"}   \* the issuer has shut its end down
Replies(cc, event) == c' = cc /\ ch' = [ch EXCEPT !.ask = "none", !.answer = event]
Refuses(cc) == c' = Raised(cc, "finish") /\ ch' = [ch EXCEPT !.ask = "none"]
AcceptRegistration ==
  /\ Handoff /\ ch.ask = "register" /\ UNCHANGED <<k, w, l, faults>>
  /\ IF Identified("helper", FALSE) THEN Replies([Registered(c, "helper") EXCEPT !.helper = "registered"], "registered")
     ELSE Refuses(c)
AcceptRelease == /\ Handoff /\ ch.ask = "release" /\ UNCHANGED <<k, w, l, faults>>
                 /\ IF c.helper = "registered" THEN Replies([c EXCEPT !.helper = "released"], "released") ELSE Refuses(c)
\* Only a helper that has ended is retired; its lease is dropped without a signal.
AcceptRetirement ==
  /\ Handoff /\ ch.ask = "retire" /\ UNCHANGED <<k, w, l, faults>>
  /\ IF c.helper = "released" /\ ~Alive("helper")
     THEN Replies([Retired(c, "helper") EXCEPT !.helper = "none"], "retired") ELSE Refuses(c)
ConsumeIssuance ==
  /\ Handoff /\ ch.issue = "packet" /\ UNCHANGED <<k, w, l, faults>>
  /\ IF c.helper = "none" /\ VerifyBundle(w.report)
     THEN /\ c' = [c EXCEPT !.at = "receipt", !.report = w.report, !.fds = TRUE]
          /\ ch' = [ch EXCEPT !.issue = "none", !.ack = TRUE]
     ELSE c' = Raised(c, "finish") /\ ch' = [ch EXCEPT !.issue = "none"]
\* The issuer shuts its end down after the acknowledgement; anything else is refused.
ReceiptEnds == /\ c.at = "receipt" /\ ~ch.ack /\ UNCHANGED <<k, w, l, ch, faults>>
               /\ c' = IF Consumed
                       THEN [c EXCEPT !.at = "case", !.outer = c.leases, !.leases = <<>>] ELSE Raised(c, "finish")
HandoffFails == /\ c.at \in {"handoff", "receipt"} /\ UNCHANGED <<k, w, l, ch>>
                /\ \/ ch.issue = "error" /\ Calm
                   \/ ch.issue = "none" /\ ~Alive("worker") /\ ~Consumed /\ Calm
                   \/ ch.issue # "error" /\ Faulty
                /\ c' = Raised(c, "finish")

ClosureStep ==
  \/ HelperArms \/ HelperReleased \/ HelperEnds \/ SourcesChange
  \/ WorkerFails \/ WorkerStart \/ ClaimAdmission \/ ResolveOnce \/ ResolveTool \/ EnforceAliases \/ SpawnHelper \/ Unanswered
  \/ RegisterHelper \/ HelperRegistered \/ HelperReady \/ ReleaseHelper \/ ReleaseAnswered \/ MapHelper
  \/ ReapHelper \/ KillHelper \/ RetireHelper \/ HelperRetired \/ NextTool
  \/ SealObject \/ BuildBundle \/ ConstructReport \/ CompareReports
  \/ IssueOnce \/ Acknowledged \/ PoisonOwner \/ WorkerExit
HandoffStep ==
  \/ SpawnWorker \/ AcceptRegistration \/ AcceptRelease \/ AcceptRetirement \/ ConsumeIssuance
  \/ ReceiptEnds \/ HandoffFails
==============================================================================

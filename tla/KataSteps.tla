------------------------------ MODULE KataSteps ------------------------------
(***************************************************************************)
(* The order of a Kata lifecycle and what an exception does to it.  A      *)
(* setup step that raises makes the first error the primary failure and    *)
(* starts the cleanup; a cleanup step that raises is collected and the     *)
(* next one runs all the same; a recovery that raises before its cleanup   *)
(* preserves everything.                                                   *)
(***************************************************************************)
EXTENDS KataStore

SetupSteps == <<"static", "rootfs", "open", "route", "inputs", "baselines", "network",
  "stage", "mapping", "launch", "runtimeNetwork", "platform", "causality", "ssh">>
CleanupSteps == <<"revoke", "ownership", "stopTask", "removeTask", "removeRuntime",
  "releaseNetwork", "removeNetwork", "removeContainer", "removeShare",
  "removeFirewall", "stopContainerd", "removeInputs", "prepareRelease",
  "authorizeRelease", "removeRootfs", "finalBaselines", "retire",
  "removeOperation", "residue">>
RecoverySteps == <<"recoverStatic", "openExisting", "recoverPending", "reconstruct">>

InSetup    == \E i \in 1..Len(SetupSteps) : SetupSteps[i] = run.at
InCleanup  == \E i \in 1..Len(CleanupSteps) : CleanupSteps[i] = run.at
InRecovery == run.at = "preproduction"
              \/ \E i \in 1..Len(RecoverySteps) : RecoverySteps[i] = run.at

\* What one process knows: its entry (mode), its step, the primary failure, the
\* collected errors, whether it holds the static custody, the route, whether it
\* may mint, and the owners it holds in memory.  mine says that it
\* forked the daemon, cut that a runtime cleanup has just settled a pending
\* command and not yet acted on it.  out is what the last process returned or raised.
Off == [mode |-> "off", at |-> "off", fail |-> FALSE, errs |-> FALSE,
        custody |-> FALSE, route |-> "none", mint |-> FALSE,
        op |-> FALSE, lease |-> FALSE, inputs |-> FALSE, nft |-> FALSE,
        net |-> FALSE, rt |-> FALSE, ssh |-> FALSE,
        retired |-> FALSE, mine |-> FALSE, cut |-> FALSE, out |-> "none"]
StepNames == {SetupSteps[i] : i \in 1..Len(SetupSteps)}
             \cup {CleanupSteps[i] : i \in 1..Len(CleanupSteps)}
             \cup {RecoverySteps[i] : i \in 1..Len(RecoverySteps)}
             \cup {"preproduction", "abandon", "settle", "off"}
Position(seq, x) == CHOOSE i \in 1..Len(seq) : seq[i] = x

\* The step after r.at: routes skip what they do not have, a setup or a
\* recovery is followed by the cleanup and the cleanup by the settlement.
After(r) ==
  CASE r.at = "open" /\ r.route = "none" -> "inputs"
    [] r.at = "platform" /\ r.route = "readiness" -> "ssh"
    [] r.at \in {"ssh", "reconstruct"} -> "revoke"
    [] r.at \in {"residue", "abandon", "preproduction"} -> "settle"
    [] r.at = "openExisting" /\ ~r.op -> "preproduction"
    [] OTHER -> LET s == IF InSetup THEN SetupSteps
                         ELSE IF InCleanup THEN CleanupSteps ELSE RecoverySteps
                IN s[Position(s, r.at) + 1]
Advance(r) == [r EXCEPT !.at = After(r), !.cut = FALSE]

\* Faulty variant: an error ends the cleanup instead of being collected.
RaisedStops(r) ==
  IF InCleanup THEN [r EXCEPT !.errs = TRUE, !.at = "settle"]
  ELSE [r EXCEPT !.fail = TRUE,
                 !.at = IF InRecovery THEN "settle" ELSE IF r.op THEN "revoke"
                        ELSE IF r.lease THEN "abandon" ELSE "settle"]

\* An exception out of the current step.
Raised(r) ==
  IF InCleanup \/ r.at = "abandon" THEN [Advance(r) EXCEPT !.errs = TRUE]
  ELSE [r EXCEPT !.fail = TRUE,
                 !.at = IF InRecovery THEN "settle" ELSE IF r.op THEN "revoke"
                        ELSE IF r.lease THEN "abandon" ELSE "settle"]

\* The step is at work and no command of its own is in flight; almost every
\* step reads the journal first.
Here(step) == run.at = step /\ p.at \in {"idle", "lost"}
At(step)   == Here(step) /\ Readable

Poisoned(s) == IF UncertainLegal(s) /\ Readable THEN Uncertain(s) ELSE s

\* A step of the journal alone, of the host alone, of the process alone.  A
\* record that does not fit the layout is durable, and its writer raises.
Log(s)   == /\ j' = s /\ UNCHANGED <<w, p, faults>>
            /\ run' = IF LayoutExact(s, w) THEN run ELSE Raised(run)
Touch(h) == w' = h /\ UNCHANGED <<j, p, run, faults>>
Know(r)  == run' = r /\ UNCHANGED <<j, w, p, faults>>
Skip     == Know(Advance(run))
Refuse   == Know(Raised(run))

\* The last record of a step and the end of the step.
Close(s, r) == /\ j' = s /\ UNCHANGED <<w, p, faults>>
               /\ run' = IF LayoutExact(s, w) THEN Advance(r) ELSE Raised(r)

\* A step issues a command; a step goes on with the successful result of one.
Call(step, id) == run.at = step /\ Readable /\ Issue(id) /\ UNCHANGED <<w, run, faults>>
Took(step, id) == run.at = step /\ Returned(id, "ok") /\ p' = Idle

\* Most steps just go on when their command succeeded.
TakeResult == /\ p.at = "done" /\ p.res = "ok"
              /\ p.id \notin {OBSERVE, "CONTAINERD_START", "CTR_RUN"}
              /\ p' = Idle /\ UNCHANGED <<j, w, run, faults>>

\* What stays of a command whose step gives it up.
Dropped == IF p.child \in {"gated", "running"} /\ p.id # "CONTAINERD_START"
           THEN [p EXCEPT !.at = "lost", !.res = "none"] ELSE Idle

\* The step raises: because its command did not succeed, or out of the blue.
Failing == \/ p.at = "done" /\ p.res # "ok" /\ UNCHANGED faults
           \/ ~Supervised /\ (p.at = "done" => p.res = "ok") /\ Faulty
Raises(step, s, h) == /\ run.at = step /\ Failing
                      /\ j' = s /\ w' = h /\ p' = Dropped /\ run' = Raised(run)
==============================================================================

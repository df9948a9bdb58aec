-------------------------- MODULE CampaignCustody --------------------------
(***************************************************************************)
(* The custody root of one AWS campaign segment: the campaign controller   *)
(* (completion_campaign_production.py), the adapter that keeps its durable *)
(* files (completion_campaign_aws_adapter.py), the provider commands it    *)
(* runs (completion_campaign_aws_provider.py), the cloud account, and the  *)
(* cleanup-only recovery entry.  A crash may come between any two durable  *)
(* writes; a provider command outlives the adapter that started it until   *)
(* its cgroup is killed.                                                   *)
(*                                                                         *)
(* Hashes are abstracted: a journal is the sequence of its rows, a state   *)
(* commitment is "grant" (before the plan is accepted) or "slot" (the      *)
(* provider's state slot of the cycle).                                    *)
(***************************************************************************)
EXTENDS Integers, Sequences, FiniteSets

CONSTANTS
  Boundary,      \* last cycle of the first segment (PHASE_BOUNDARY_ORDINAL)
  LastCycle,     \* last cycle of the campaign (7 in the code)
  RootKinds,     \* which segments the root may be staged for
  MaxAttempts,   \* inventories one cleanup may attempt (3 in the code)
  MaxFaults      \* bound on crashes, failed commands and short writes

ASSUME CustodyAssumption ==
  /\ Boundary \in Nat \ {0} /\ LastCycle \in Nat /\ Boundary < LastCycle
  /\ RootKinds \subseteq {"first", "second", "diag"}
  /\ MaxAttempts \in Nat \ {0} /\ MaxFaults \in Nat

VARIABLES
  kindOfRoot,    \* the segment this root is staged for
  consumed,      \* approval-consumed.json exists
  anchor,        \* continuation-journal-anchor.json exists
  journal,       \* the rows of campaign-journal.jsonl
  torn,          \* an unterminated tail follows the last row
  active,        \* cleanup-active.json: cycle and state, or NoActive
  complete,      \* cleanup-complete.json: what it certifies, or NotComplete
  segment,       \* segment-one-zero-complete.json exists
  creds,         \* the AWS credentials are still in custody
  published,     \* continuation, evidence or diagnostic result published
  scope,         \* the command cgroup: none, dir, marked, unlinked
  grants,        \* cycles whose grant.json exists
  tfvars,        \* cycles whose campaign.auto.tfvars.json is whole
  data,          \* cycles whose tf-data directory exists
  backend,       \* cycles whose local-backend.json is whole
  claims,        \* invocation intents claimed by the provider: <<op, ordinal>>
  receipts,      \* receipts the provider wrote: <<op, ordinal>>
  reconcile,     \* cleanup-reconciliation.intent.json of each cycle, or NoIntent
  invoked,       \* cleanup-destroy.invocation.json: what it says of the normal destroy
  partial,       \* files _write_once created and has not filled: <<file, ordinal>>
  settled,       \* cycles with cleanup-destroy.settlement.json
  attempts,      \* cleanup inventories attempted in each cycle
  cmds,          \* provider commands: operation, cycle, state, step, owner
  live,          \* cycles with a resource in the account
  tracked,       \* cycles whose resource is in the OpenTofu state file
  entry,         \* the entry that holds the root lock, or none
  pc, op, ord, mem, res,  \* its control point, operation, cycle, active_state, result
  clock,         \* 0 before the effect deadline, 1 before the cleanup deadline, 2 after
  faults

rootVars  == <<kindOfRoot, consumed, anchor, journal, torn, active, complete, segment,
               creds, published>>
provVars  == <<grants, tfvars, data, backend, claims, receipts, reconcile, invoked, partial,
               settled, attempts>>
cloudVars == <<live, tracked>>
procVars  == <<entry, pc, op, ord, mem, res>>
vars == <<rootVars, scope, provVars, cmds, cloudVars, procVars, clock, faults>>

Cycles == 1..LastCycle
States == {"grant", "slot"}
Effects == {"plan", "apply", "running", "destroy"}
Unfinished == {"variables", "intent", "invocation"}
FirstCycle(k) == IF k = "second" THEN Boundary + 1 ELSE 1
FinalCycle(k) == IF k = "first" THEN Boundary ELSE LastCycle

\* The two files of a cleanup and the intent of the provider's: none yet, or what
\* they name.
Active(o, st) == [ord |-> o, state |-> st]
NoActive == Active(0, "none")
Complete(what, of, rows) == [what |-> what, of |-> of, rows |-> rows]
NotComplete == Complete("none", NoActive, 0)
Unconsumed == Complete("unconsumed", NoActive, 0)
Inactive == Complete("inactive", NoActive, 0)
Final == Complete("final", NoActive, 0)
Reconciled(st, destroy) == [state |-> st, destroy |-> destroy]
NoIntent == Reconciled("none", FALSE)

CustodyTypeOK ==
  /\ kindOfRoot \in RootKinds
  /\ {consumed, anchor, torn, segment, creds, published} \subseteq BOOLEAN
  /\ active \in {NoActive} \union [ord : Cycles, state : States]
  /\ scope \in {"none", "dir", "marked", "unlinked"}
  /\ live \subseteq Cycles /\ tracked \subseteq Cycles
  /\ grants \subseteq Cycles /\ tfvars \subseteq Cycles /\ settled \subseteq Cycles
  /\ data \subseteq Cycles /\ backend \subseteq data /\ partial \subseteq Unfinished \X Cycles
  /\ invoked \in [Cycles -> {"none", "plain", "ambiguous"}]
  /\ attempts \in [Cycles -> 0..MaxAttempts]
  /\ entry \in {"none", "run", "recover"} /\ ord \in Cycles
  /\ clock \in 0..2 /\ faults \in 0..MaxFaults

Init ==
  /\ kindOfRoot \in RootKinds
  /\ consumed = FALSE /\ anchor = FALSE /\ journal = <<>> /\ torn = FALSE
  /\ active = NoActive /\ complete = NotComplete /\ segment = FALSE /\ creds = TRUE
  /\ published = FALSE /\ scope = "none"
  /\ grants = {} /\ tfvars = {} /\ data = {} /\ backend = {} /\ partial = {}
  /\ invoked = [c \in Cycles |-> "none"] /\ claims = {} /\ receipts = {}
  /\ settled = {} /\ reconcile = [c \in Cycles |-> NoIntent]
  /\ attempts = [c \in Cycles |-> 0]
  /\ cmds = {} /\ live = {} /\ tracked = {}
  /\ entry = "none" /\ pc = "idle" /\ op = "none" /\ ord = 1 /\ mem = "grant"
  /\ res = "none" /\ clock = 0 /\ faults = 0

(***************************************************************************)
(* Control of the entry that holds the lock.                               *)
(***************************************************************************)
Goto(p) == pc' = p /\ UNCHANGED <<entry, op, ord, mem, res>>
Do(o, p) == pc' = p /\ op' = o /\ UNCHANGED <<entry, ord, mem, res>>
Leave == entry' = "none" /\ pc' = "idle" /\ op' = "none" /\ res' = "none"
         /\ UNCHANGED <<ord, mem>>
Fault == faults < MaxFaults /\ faults' = faults + 1

\* Where an exception goes.  A cycle with an active grant is cleaned up first;
\* the recovery entry just ends and keeps what it has not settled.
Raised == IF entry = "recover" THEN "abandon"
          ELSE IF op = "recover" THEN "handler" ELSE "recClock"
Raise == Goto(Raised)

\* One row of the journal: a torn tail is refused unless the row is a cleanup
\* row, whose writer truncates it; a short write leaves a torn tail.
AppendRow(row, next, raised) ==
  /\ \/ (~torn \/ row[1] = "cleanup") /\ journal' = Append(journal, row) /\ torn' = FALSE
        /\ pc' = next /\ UNCHANGED faults
     \/ torn /\ row[1] # "cleanup" /\ pc' = raised /\ UNCHANGED <<journal, torn, faults>>
     \/ Fault /\ torn' = TRUE /\ pc' = raised /\ UNCHANGED journal

RowVars == <<kindOfRoot, consumed, anchor, active, complete, segment, creds, published, scope,
             provVars, cmds, cloudVars, entry, clock>>
(***************************************************************************)
(* The three campaign entries: admission, consumption, import.             *)
(***************************************************************************)
\* The workflow runs the entry the root is staged for; the root lock keeps a
\* second process out.  Files of an earlier entry, or credentials already
\* retired, refuse it before it consumes anything.  The diagnostic entry looks
\* only for its own result.
Fresh ==
  /\ creds
  /\ \/ kindOfRoot = "diag" /\ ~published
     \/ kindOfRoot # "diag" /\ ~consumed /\ journal = <<>> /\ ~torn /\ active = NoActive
        /\ complete = NotComplete /\ ~segment /\ ~anchor /\ ~published

StartRun ==
  /\ entry = "none" /\ entry' = "run"
  /\ pc' = IF Fresh /\ clock = 0 THEN "consume" ELSE "handler"
  /\ ord' = FirstCycle(kindOfRoot) /\ mem' = "grant" /\ op' = "none" /\ res' = "none"
  /\ UNCHANGED <<rootVars, scope, provVars, cmds, cloudVars, clock, faults>>

\* consume and _import_continuation: the consumption record is created once.
Consume ==
  /\ pc = "consume"
  /\ consumed' = TRUE
  /\ Goto(IF consumed THEN "handler" ELSE IF kindOfRoot = "second" THEN "anchor"
          ELSE "first-row")
  /\ UNCHANGED <<kindOfRoot, anchor, journal, torn, active, complete, segment, creds, published,
                 scope, provVars, cmds, cloudVars, clock, faults>>

ImportAnchor ==
  /\ pc = "anchor" /\ anchor' = TRUE /\ Goto("first-row")
  /\ UNCHANGED <<kindOfRoot, consumed, journal, torn, active, complete, segment, creds,
                 published, scope, provVars, cmds, cloudVars, clock, faults>>

FirstRow == IF kindOfRoot = "second" THEN <<"batch", "continued", 0>>
            ELSE <<"batch", "consumed", 0>>

RecordFirstRow ==
  /\ pc = "first-row" /\ AppendRow(FirstRow, "open", "handler")
  /\ UNCHANGED <<RowVars, op, ord, mem, res>>

(***************************************************************************)
(* _run_cycles: one cycle of the campaign.                                 *)
(***************************************************************************)
\* The cycle's row is durable before cleanup-active.json names the cycle.
OpenCycle ==
  /\ pc = "open"
  /\ \/ clock < 2 /\ AppendRow(<<"cycle", "opened", ord>>, "open-active", "recClock")
     \/ clock = 2 /\ pc' = "handler" /\ UNCHANGED <<journal, torn, faults>>
  /\ mem' = "grant"
  /\ UNCHANGED <<RowVars, op, ord, res>>

SetActive(st) == active' = Active(ord, st)

KeepButActive == <<kindOfRoot, consumed, anchor, journal, torn, complete, segment, creds,
                   published, scope, provVars, cmds, cloudVars, clock, faults>>

OpenActive ==
  /\ pc = "open-active" /\ SetActive("grant") /\ Do("plan", "grant")
  /\ UNCHANGED KeepButActive

\* AwsCampaignCustodian.effect: grant, intent row, deadline, command.
EnsureGrant ==
  /\ pc = "grant" /\ grants' = grants \union {ord} /\ Goto("intent")
  /\ UNCHANGED <<rootVars, scope, tfvars, data, backend, claims, receipts, reconcile, invoked,
                 partial, settled, attempts, cmds, cloudVars, clock, faults>>

\* Faulty variant: a failed write of the intent row is ignored.
RecordIntentIgnored ==
  /\ pc = "intent" /\ AppendRow(<<"effect", op, ord>>, "deadline", "deadline")
  /\ UNCHANGED <<RowVars, op, ord, mem, res>>

RecordIntent ==
  /\ pc = "intent" /\ AppendRow(<<"effect", op, ord>>, "deadline", "recClock")
  /\ UNCHANGED <<RowVars, op, ord, mem, res>>

\* The first apply rewrites cleanup-active.json with the plan's state.
EffectDeadline ==
  /\ pc = "deadline"
  /\ IF op \in Effects \union {"remote"} THEN
       IF clock = 0 THEN Goto("scope-dir") ELSE Raise
     ELSE IF clock < 2 THEN Goto("scope-dir") ELSE Raise
  /\ IF op = "apply" /\ clock = 0 THEN SetActive("slot") ELSE UNCHANGED active
  /\ UNCHANGED KeepButActive

(***************************************************************************)
(* AwsCampaignCustodian._run: a command in its own marked cgroup.          *)
(***************************************************************************)
KeepRun == <<rootVars, provVars, cloudVars, clock>>

MakeScope ==
  /\ pc = "scope-dir"
  /\ IF scope = "none" THEN scope' = "dir" /\ Goto("scope-mark")
     ELSE Raise /\ UNCHANGED scope
  /\ UNCHANGED <<KeepRun, cmds, faults>>

MarkScope ==
  /\ pc = "scope-mark" /\ scope' = "marked" /\ Goto("spawn")
  /\ UNCHANGED <<KeepRun, cmds, faults>>

Spawn ==
  /\ pc = "spawn" /\ Goto("wait")
  /\ cmds' = cmds \union
               {[op |-> op, ord |-> ord, state |-> mem, at |-> "start", owner |-> "held"]}
  /\ UNCHANGED <<KeepRun, scope, faults>>

\* The command ended, or the adapter kills its cgroup: a timeout, a signal or
\* output it refuses.
Collect ==
  /\ pc = "wait"
  /\ \E c \in cmds :
       /\ c.owner = "held"
       /\ \/ c.at \in {"ok", "fail", "uncertain"} /\ res' = c.at /\ UNCHANGED faults
          \/ Fault /\ res' = "fail"
       /\ cmds' = cmds \ {c}
  /\ pc' = "scope-remove"
  /\ UNCHANGED <<KeepRun, scope, entry, op, ord, mem>>

RemoveScope ==
  /\ pc = "scope-remove" /\ scope' = "unlinked" /\ Goto("scope-unmark")
  /\ UNCHANGED <<KeepRun, cmds, faults>>

\* The marker goes after the cgroup; then the result is handled.
UnmarkScope ==
  /\ pc = "scope-unmark" /\ scope' = "none"
  /\ IF res = "fail" THEN Raise
     ELSE CASE op \in {"plan", "apply", "running"} -> Goto("active-slot")
            [] op = "destroy" -> Goto("settle-row")
            [] op = "remote" -> Do("destroy", "grant")
            [] op = "inventory" -> Goto("seal")
            [] op = "final" -> Goto("terminal")
            [] op = "recover" /\ res = "uncertain" ->
                 Goto(IF entry = "recover" THEN "abandon"
                      ELSE IF active = NoActive THEN "handler" ELSE "uncertain-row")
            [] OTHER -> Goto("settle")
  /\ UNCHANGED <<KeepRun, cmds, faults>>

EffectActive ==
  /\ pc = "active-slot" /\ SetActive("slot") /\ Goto("settle-row")
  /\ UNCHANGED KeepButActive

RecordSettled ==
  /\ pc = "settle-row" /\ AppendRow(<<"settled", op, ord>>, "receipt-row", "recClock")
  /\ UNCHANGED <<RowVars, op, ord, mem, res>>

\* The controller records the receipt and validates it (a mismatch raises).
NextOp == [plan |-> "apply", apply |-> "running", running |-> "remote", destroy |-> "inventory"]
NextPc == [plan |-> "grant", apply |-> "grant", running |-> "deadline", destroy |-> "deadline"]

RecordReceipt ==
  /\ pc = "receipt-row"
  /\ \/ /\ AppendRow(<<"receipt", op, ord>>, NextPc[op], "recClock")
        /\ IF pc' = "recClock" THEN UNCHANGED <<op, mem>>
           ELSE op' = NextOp[op] /\ mem' = "slot"
     \/ Fault /\ ~torn /\ journal' = Append(journal, <<"receipt", op, ord>>)
        /\ pc' = "recClock" /\ UNCHANGED <<torn, op, mem>>
  /\ UNCHANGED <<RowVars, ord, res>>

\* The cycle's zero, cost and commitment are accepted; the seal is journaled
\* with no active grant in memory, so that its failure is left to recovery.
SealCycle ==
  /\ pc = "seal"
  /\ \/ AppendRow(<<"cycle", "sealed", ord>>, "seal-active", "handler")
     \/ Fault /\ pc' = "recClock" /\ UNCHANGED <<journal, torn>>
  /\ UNCHANGED <<RowVars, op, ord, mem, res>>

\* Faulty variant: one cycle too many.
SealActiveOffByOne ==
  /\ pc = "seal-active" /\ active' = NoActive
  /\ IF ord <= FinalCycle(kindOfRoot) THEN
       ord' = ord + 1 /\ pc' = "open" /\ UNCHANGED <<entry, op, mem, res>>
     ELSE IF kindOfRoot = "first" THEN Goto("segment") ELSE Do("final", "deadline")
  /\ UNCHANGED KeepButActive

SealActive ==
  /\ pc = "seal-active" /\ active' = NoActive
  /\ IF ord < FinalCycle(kindOfRoot) THEN
       ord' = ord + 1 /\ pc' = "open" /\ UNCHANGED <<entry, op, mem, res>>
     ELSE IF kindOfRoot = "first" THEN Goto("segment") ELSE Do("final", "deadline")
  /\ UNCHANGED KeepButActive
(***************************************************************************)
(* Cleanup of a cycle and its settlement.                                  *)
(***************************************************************************)
\* AwsCampaignCustodian.recover, called by the controller on an exception.
StartCleanup ==
  /\ pc = "recClock"
  /\ IF clock < 2 THEN Do("recover", "scope-dir") ELSE Do("recover", "handler")
  /\ UNCHANGED <<rootVars, scope, provVars, cmds, cloudVars, clock, faults>>

RecordUncertain ==
  /\ pc = "uncertain-row" /\ AppendRow(<<"cleanup", "uncertain", ord>>, "handler", "handler")
  /\ UNCHANGED <<RowVars, op, ord, mem, res>>

\* _settle_cleanup_transition: the proof, then the journal, then and only
\* then cleanup-active.json goes.  Each step may already have been done.
SettleComplete ==
  /\ pc = "settle"
  /\ IF active # NoActive /\ complete \in {NotComplete, Complete("settled", active, 0)}
     THEN complete' = Complete("settled", active, 0) /\ Goto("settle-journal")
     ELSE UNCHANGED complete /\ Goto(IF entry = "recover" THEN "abandon" ELSE "handler")
  /\ UNCHANGED <<kindOfRoot, consumed, anchor, journal, torn, active, segment, creds, published,
                 scope, provVars, cmds, cloudVars, clock, faults>>

SettledRow == <<"cleanup", "settled", active.ord>>

\* Faulty variant: a settlement that is already journaled is refused.
SettleJournalAgain ==
  /\ pc = "settle-journal"
  /\ LET abandoned == IF entry = "recover" THEN "abandon" ELSE "handler"
     IN  IF journal # <<>> /\ journal[Len(journal)] = SettledRow
         THEN pc' = abandoned /\ UNCHANGED <<journal, torn, faults>>
         ELSE AppendRow(SettledRow, "settle-active", abandoned)
  /\ UNCHANGED <<RowVars, op, ord, mem, res>>

SettleJournal ==
  /\ pc = "settle-journal"
  /\ LET abandoned == IF entry = "recover" THEN "abandon" ELSE "handler"
     IN  IF journal # <<>> /\ journal[Len(journal)] = SettledRow
         THEN pc' = "settle-active" /\ torn' = FALSE /\ UNCHANGED <<journal, faults>>
         ELSE AppendRow(SettledRow, "settle-active", abandoned)
  /\ UNCHANGED <<RowVars, op, ord, mem, res>>

SettleActive ==
  /\ pc = "settle-active" /\ active' = NoActive
  /\ Goto(IF entry = "recover" THEN "retire" ELSE "handler")
  /\ UNCHANGED KeepButActive

KeepButComplete == <<kindOfRoot, consumed, anchor, journal, torn, active, segment, creds,
                     published, scope, provVars, cmds, cloudVars, clock, faults>>

\* Faulty variant: the exception handler certifies whatever is still active.
HandlerCertifies ==
  /\ pc = "handler"
  /\ complete' = IF complete = NotComplete /\ ~(kindOfRoot = "first" /\ segment)
                  THEN Inactive ELSE complete
  /\ Goto("retire")
  /\ UNCHANGED KeepButComplete

\* The except clause of the three entries: with no active cycle the root is
\* certified inactive, unless something is certified already, and the
\* credentials are retired.
Handler ==
  /\ pc = "handler"
  /\ IF active = NoActive
     THEN /\ complete' = IF complete = NotComplete /\ ~(kindOfRoot = "first" /\ segment)
                         THEN Inactive ELSE complete
          /\ Goto("retire")
     ELSE UNCHANGED complete /\ Leave
  /\ UNCHANGED KeepButComplete

\* _retire_credentials, and the end of the entry.
KeepButCreds == <<kindOfRoot, consumed, anchor, journal, torn, active, complete, segment,
                  published, scope, provVars, cmds, cloudVars, clock, faults>>

Retire ==
  /\ pc = "retire" /\ creds' = FALSE /\ Leave
  /\ UNCHANGED KeepButCreds

(***************************************************************************)
(* The end of a segment.                                                   *)
(***************************************************************************)
\* run_fixed_first_segment: the certain zero, the credentials, the handoff.
SegmentComplete ==
  /\ pc = "segment" /\ segment' = TRUE /\ Goto("hand-off")
  /\ UNCHANGED <<kindOfRoot, consumed, anchor, journal, torn, active, complete, creds, published,
                 scope, provVars, cmds, cloudVars, clock, faults>>

\* run_phase_two and run_diagnostic_campaign end with one row; validation of
\* the whole candidate may still refuse it.
TerminalRow == IF kindOfRoot = "diag" THEN <<"batch", "diagnostic", 0>>
               ELSE <<"batch", "candidate", 0>>

Terminal ==
  /\ pc = "terminal"
  /\ \/ AppendRow(TerminalRow, "certify", "handler")
     \/ Fault /\ pc' = "handler" /\ UNCHANGED <<journal, torn>>
  /\ UNCHANGED <<RowVars, op, ord, mem, res>>

\* _publish_evidence and the diagnostic entry certify the final zero first.
Certify ==
  /\ pc = "certify"
  /\ IF complete = NotComplete /\ active = NoActive THEN complete' = Final /\ Goto("hand-off")
     ELSE UNCHANGED complete /\ Goto("handler")
  /\ UNCHANGED KeepButComplete

HandOff ==
  /\ pc = "hand-off" /\ creds' = FALSE /\ Goto("publish")
  /\ UNCHANGED KeepButCreds

Publish ==
  /\ pc = "publish"
  /\ \/ published' = TRUE /\ Leave /\ UNCHANGED faults
     \/ Fault /\ Goto("handler") /\ UNCHANGED published
  /\ UNCHANGED <<kindOfRoot, consumed, anchor, journal, torn, active, complete, segment, creds,
                 scope, provVars, cmds, cloudVars, clock>>

(***************************************************************************)
(* recover_fixed_campaign: the cleanup-only entry.                         *)
(***************************************************************************)
\* The approval is authenticated without credentials before anything is killed.
StartRecover ==
  /\ entry = "none" /\ entry' = "recover" /\ pc' = "drain"
  /\ op' = "recover" /\ res' = "none" /\ UNCHANGED <<ord, mem>>
  /\ UNCHANGED <<rootVars, scope, provVars, cmds, cloudVars, clock, faults>>

\* Faulty variant: the stale cgroup is removed and its command is not killed.
DrainUnkilled ==
  /\ pc = "drain" /\ scope' = "none" /\ UNCHANGED cmds /\ Goto("admit")
  /\ UNCHANGED <<KeepRun, faults>>

\* _drain_stale_command_scope: a marked cgroup is killed, waited for and
\* removed with its marker; an unmarked one is removed only when it is empty.
Drain ==
  /\ pc = "drain"
  /\ IF scope = "dir" /\ cmds # {} THEN Goto("abandon") /\ UNCHANGED <<scope, cmds>>
     ELSE scope' = "none" /\ cmds' = {} /\ Goto("admit")
  /\ UNCHANGED <<KeepRun, faults>>

\* A root whose approval was never consumed is retired as such.
RecoverUnconsumed ==
  /\ pc = "admit" /\ ~consumed
  /\ IF journal = <<>> /\ ~torn /\ active = NoActive /\ claims = {}
        /\ complete \in {NotComplete, Unconsumed}
     THEN complete' = Unconsumed /\ Goto("retire")
     ELSE UNCHANGED complete /\ Goto("abandon")
  /\ UNCHANGED KeepButComplete

\* _repair_continuation_import and _repair_first_journal_record finish an
\* interrupted admission; a torn tail is truncated.
RecoverAdmission ==
  /\ pc = "admit" /\ consumed
  /\ IF (active # NoActive /\ ~creds) \/ (kindOfRoot = "second" /\ ~anchor /\ journal # <<>>)
     THEN Goto("abandon") /\ UNCHANGED <<anchor, journal, torn>>
     ELSE /\ anchor' = (kindOfRoot = "second") /\ torn' = FALSE
          /\ journal' = IF journal = <<>> THEN <<FirstRow>> ELSE journal
          /\ Goto(IF active = NoActive THEN "inactive" ELSE "claim")
  /\ UNCHANGED <<kindOfRoot, consumed, active, complete, segment, creds, published, scope,
                 provVars, cmds, cloudVars, clock, faults>>

\* No active cycle: the last row must be one after which nothing can be live,
\* and what is certified must be what this root can have certified.
InactiveRows == {<<"batch", "consumed">>, <<"batch", "continued">>, <<"batch", "candidate">>,
                 <<"cycle", "opened">>, <<"cycle", "sealed">>, <<"cleanup", "settled">>}
LastRow == journal[Len(journal)]
Permitted ==
  \/ complete \in {NotComplete, Inactive, Complete("noactive", NoActive, Len(journal))}
  \/ complete = Final /\ <<"final", LastCycle>> \in receipts
  \/ complete.what = "settled" /\ LastRow = <<"cleanup", "settled", complete.of.ord>>

RecoverInactive ==
  /\ pc = "inactive"
  /\ IF <<LastRow[1], LastRow[2]>> \in InactiveRows /\ Permitted
     THEN /\ complete' = IF complete = NotComplete
                         THEN Complete("noactive", NoActive, Len(journal)) ELSE complete
          /\ Goto("retire")
     ELSE UNCHANGED complete /\ Goto("abandon")
  /\ UNCHANGED KeepButComplete

\* An active cycle: a certified settlement is finished, else the cleanup runs.
RecoverActive ==
  /\ pc = "claim"
  /\ IF clock = 2 THEN Goto("abandon")
     ELSE /\ ord' = active.ord /\ mem' = active.state /\ UNCHANGED <<entry, op, res>>
          /\ pc' = IF complete = NotComplete THEN "scope-dir"
                   ELSE IF complete = Complete("settled", active, 0) THEN "settle"
                   ELSE "abandon"
  /\ UNCHANGED <<rootVars, scope, provVars, cmds, cloudVars, clock, faults>>

Abandon ==
  /\ pc = "abandon" /\ Leave
  /\ UNCHANGED <<rootVars, scope, provVars, cmds, cloudVars, clock, faults>>
(***************************************************************************)
(* FixedProvider: the commands, and the account they act on.  Each step of *)
(* a command is one durable write or one change of the account.            *)
(***************************************************************************)
Step(c, at) == cmds' = (cmds \ {c}) \union {[c EXCEPT !.at = at]}
At(c, ops, at) == c.op \in ops /\ c.at = at
KeepCmd == <<rootVars, scope, procVars, clock>>

\* _write_once creates a file under its final name, then fills it: a command that
\* ends between the two leaves a file that no later reader accepts.
Half(file, o) == <<file, o>> \in partial
Created(file, c) == partial' = partial \union {<<file, c.ord>>} /\ Step(c, file)

\* effect: the grant, no receipt yet, the cycle's variables.
EffectPrepare(c) ==
  /\ At(c, Effects, "start")
  /\ IF c.ord \notin grants \/ <<c.op, c.ord>> \in receipts \/ Half("variables", c.ord)
     THEN Step(c, "fail") /\ UNCHANGED partial
     ELSE IF c.ord \in tfvars THEN Step(c, "claim") /\ UNCHANGED partial
     ELSE Created("variables", c)
  /\ UNCHANGED <<KeepCmd, grants, tfvars, data, backend, claims, receipts, reconcile, invoked,
                 settled, attempts, cloudVars, faults>>

\* _claim: an invocation is claimed once, before it acts.
EffectClaim(c) ==
  /\ At(c, Effects, "claim")
  /\ IF <<c.op, c.ord>> \in claims THEN Step(c, "fail") /\ UNCHANGED claims
     ELSE claims' = claims \union {<<c.op, c.ord>>} /\ Step(c, "init")
  /\ UNCHANGED <<KeepCmd, grants, tfvars, data, backend, receipts, reconcile, invoked, partial,
                 settled, attempts, cloudVars, faults>>

\* _local_backend: the cycle's cache directory is made before the receipt that
\* names it; a directory without a whole receipt is refused ever after.
LocalBackend(c) ==
  /\ At(c, Effects \union {"recover"}, "init")
  /\ IF c.ord \in backend THEN Step(c, "act") /\ UNCHANGED data
     ELSE IF c.ord \in data \union tracked THEN Step(c, "fail") /\ UNCHANGED data
     ELSE data' = data \union {c.ord} /\ Step(c, "backend")
  /\ UNCHANGED <<KeepCmd, grants, tfvars, backend, claims, receipts, reconcile, invoked, partial,
                 settled, attempts, cloudVars, faults>>

\* The receipt of the effect before is required; OpenTofu creates the resource
\* before its state file names it, and destroys what the state file names.
Previous == [plan |-> "none", apply |-> "plan", running |-> "apply", destroy |-> "running"]

EffectAct(c) ==
  /\ At(c, Effects, "act")
  /\ IF c.op # "plan" /\ <<Previous[c.op], c.ord>> \notin receipts
     THEN Step(c, "fail") /\ UNCHANGED cloudVars
     ELSE CASE c.op = "apply" -> live' = live \union {c.ord} /\ Step(c, "track") /\ UNCHANGED tracked
            [] c.op = "destroy" -> /\ live' = live \ (tracked \intersect {c.ord})
                                   /\ tracked' = tracked \ {c.ord} /\ Step(c, "write")
            [] OTHER -> Step(c, "write") /\ UNCHANGED cloudVars
  /\ UNCHANGED <<KeepCmd, provVars, faults>>

EffectTrack(c) ==
  /\ At(c, {"apply"}, "track") /\ tracked' = tracked \union {c.ord} /\ Step(c, "write")
  /\ UNCHANGED <<KeepCmd, provVars, live, faults>>

EffectReceipt(c) ==
  /\ At(c, Effects, "write") /\ receipts' = receipts \union {<<c.op, c.ord>>} /\ Step(c, "ok")
  /\ UNCHANGED <<KeepCmd, grants, tfvars, data, backend, claims, reconcile, invoked, partial,
                 settled, attempts, cloudVars, faults>>

\* remote: claimed once, and a durable send intent before the only send.
Remote(c) ==
  /\ \/ At(c, {"remote"}, "start") /\ c.ord \in grants /\ <<"remote", c.ord>> \notin claims
        /\ claims' = claims \union {<<"remote", c.ord>>} /\ Step(c, "send")
     \/ At(c, {"remote"}, "send") /\ <<"send", c.ord>> \notin claims
        /\ claims' = claims \union {<<"send", c.ord>>} /\ Step(c, "ok")
  /\ UNCHANGED <<KeepCmd, grants, tfvars, data, backend, receipts, reconcile, invoked, partial,
                 settled, attempts, cloudVars, faults>>

\* inventory of the whole account: a receipt only when nothing is live.
Inventory(c) ==
  /\ \/ At(c, {"inventory", "final"}, "start")
        /\ claims' = claims \union {<<c.op, c.ord>>} /\ Step(c, "observe") /\ UNCHANGED receipts
     \/ At(c, {"inventory", "final"}, "observe") /\ UNCHANGED claims
        /\ IF live = {} THEN receipts' = receipts \union {<<c.op, c.ord>>} /\ Step(c, "ok")
           ELSE Step(c, "fail") /\ UNCHANGED receipts
  /\ UNCHANGED <<KeepCmd, grants, tfvars, data, backend, reconcile, invoked, partial, settled,
                 attempts, cloudVars, faults>>

\* recover: its own intent and invocation, which a later attempt must repeat
\* exactly; both say whether the normal destroy was claimed before.
DestroyClaimed(o) == <<"destroy", o>> \in claims
Ambiguity(o) == IF DestroyClaimed(o) THEN "ambiguous" ELSE "plain"

RecoverIntent(c) ==
  /\ At(c, {"recover"}, "start")
  /\ IF c.ord \notin grants \/ Half("intent", c.ord)
        \/ reconcile[c.ord] \notin {NoIntent, Reconciled(c.state, DestroyClaimed(c.ord))}
     THEN Step(c, "fail") /\ UNCHANGED partial
     ELSE IF reconcile[c.ord] # NoIntent THEN Step(c, "invoke") /\ UNCHANGED partial
     ELSE Created("intent", c)
  /\ UNCHANGED <<KeepCmd, grants, tfvars, data, backend, claims, receipts, reconcile, invoked,
                 settled, attempts, cloudVars, faults>>

RecoverInvoke(c) ==
  /\ At(c, {"recover"}, "invoke")
  /\ IF Half("invocation", c.ord) \/ invoked[c.ord] \notin {"none", Ambiguity(c.ord)}
     THEN Step(c, "fail") /\ UNCHANGED partial
     ELSE IF invoked[c.ord] # "none" THEN Step(c, "destroy") /\ UNCHANGED partial
     ELSE Created("invocation", c)
  /\ UNCHANGED <<KeepCmd, grants, tfvars, data, backend, claims, receipts, reconcile, invoked,
                 settled, attempts, cloudVars, faults>>

\* The second half of _write_once, and of _local_backend.
Filled == [variables |-> "claim", backend |-> "act", intent |-> "invoke", invocation |-> "destroy"]

WriteOnce(c) ==
  /\ c.at \in DOMAIN Filled /\ Step(c, Filled[c.at])
  /\ partial' = partial \ {<<c.at, c.ord>>}
  /\ tfvars' = IF c.at = "variables" THEN tfvars \union {c.ord} ELSE tfvars
  /\ backend' = IF c.at = "backend" THEN backend \union {c.ord} ELSE backend
  /\ reconcile' = IF c.at # "intent" THEN reconcile
                  ELSE [reconcile EXCEPT ![c.ord] = Reconciled(c.state, DestroyClaimed(c.ord))]
  /\ invoked' = IF c.at # "invocation" THEN invoked
                ELSE [invoked EXCEPT ![c.ord] = Ambiguity(c.ord)]
  /\ UNCHANGED <<KeepCmd, grants, data, claims, receipts, settled, attempts, cloudVars, faults>>

\* One settled cleanup destroy per cycle; it needs the cycle's variables.
RecoverDestroy(c) ==
  /\ \/ At(c, {"recover"}, "destroy") /\ UNCHANGED cloudVars
        /\ Step(c, IF c.ord \in settled THEN "count" ELSE "init")
     \/ At(c, {"recover"}, "act") /\ c.ord \notin tfvars /\ Step(c, "fail") /\ UNCHANGED cloudVars
     \/ At(c, {"recover"}, "act") /\ c.ord \in tfvars /\ Step(c, "settle")
        /\ live' = live \ (tracked \intersect {c.ord}) /\ tracked' = tracked \ {c.ord}
  /\ UNCHANGED <<KeepCmd, provVars, faults>>

RecoverSettle(c) ==
  /\ At(c, {"recover"}, "settle") /\ settled' = settled \union {c.ord} /\ Step(c, "count")
  /\ UNCHANGED <<KeepCmd, grants, tfvars, data, backend, claims, receipts, reconcile, invoked,
                 partial, attempts, cloudVars, faults>>

\* Each attempt has a directory of its own; the last one allowed is the third.
RecoverInventory(c) ==
  /\ \/ /\ At(c, {"recover"}, "count")
        /\ IF attempts[c.ord] < MaxAttempts
           THEN attempts' = [attempts EXCEPT ![c.ord] = @ + 1] /\ Step(c, "observe")
           ELSE Step(c, "uncertain") /\ UNCHANGED attempts
     \/ /\ At(c, {"recover"}, "observe") /\ UNCHANGED attempts
        /\ Step(c, IF live = {} THEN "ok" ELSE "uncertain")
  /\ UNCHANGED <<KeepCmd, grants, tfvars, data, backend, claims, receipts, reconcile, invoked,
                 partial, settled, cloudVars, faults>>

Provide ==
  \E c \in cmds :
     \/ EffectPrepare(c) \/ EffectClaim(c) \/ LocalBackend(c) \/ WriteOnce(c)
     \/ EffectAct(c) \/ EffectTrack(c) \/ EffectReceipt(c) \/ Remote(c) \/ Inventory(c)
     \/ RecoverIntent(c) \/ RecoverInvoke(c) \/ RecoverDestroy(c) \/ RecoverSettle(c) \/ RecoverInventory(c)

(***************************************************************************)
(* The environment: failures, crashes and time.                            *)
(***************************************************************************)
\* A step of a command fails; an inventory that fails in recover is caught.
CommandFails ==
  /\ \E c \in cmds :
       /\ c.at \notin {"ok", "fail", "uncertain"}
       /\ Step(c, IF At(c, {"recover"}, "observe") THEN "uncertain" ELSE "fail")
  /\ Fault
  /\ UNCHANGED <<KeepCmd, provVars, cloudVars>>

\* The adapter dies: a write of the journal may be torn, a command goes on.
Writing == {"first-row", "open", "intent", "settle-row", "receipt-row", "seal", "uncertain-row",
            "settle-journal", "terminal"}
Crash ==
  /\ entry # "none" /\ Fault
  /\ torn' \in IF pc \in Writing THEN {torn, TRUE} ELSE {torn}
  /\ cmds' = {[c EXCEPT !.owner = "stray"] : c \in cmds}
  /\ Leave
  /\ UNCHANGED <<kindOfRoot, consumed, anchor, journal, active, complete, segment, creds,
                 published, scope, provVars, cloudVars, clock>>

Tick ==
  /\ clock < 2 /\ clock' = clock + 1
  /\ UNCHANGED <<rootVars, scope, provVars, cmds, cloudVars, procVars, faults>>

Proceed ==
  \/ Consume \/ ImportAnchor \/ RecordFirstRow
  \/ OpenCycle \/ OpenActive \/ EnsureGrant \/ RecordIntent \/ EffectDeadline
  \/ MakeScope \/ MarkScope \/ Spawn \/ Collect \/ RemoveScope \/ UnmarkScope
  \/ EffectActive \/ RecordSettled \/ RecordReceipt \/ SealCycle \/ SealActive
  \/ StartCleanup \/ RecordUncertain \/ SettleComplete \/ SettleJournal \/ SettleActive
  \/ Handler \/ Retire \/ SegmentComplete \/ Terminal \/ Certify \/ HandOff \/ Publish
  \/ Drain \/ RecoverUnconsumed \/ RecoverAdmission \/ RecoverInactive \/ RecoverActive \/ Abandon

Next == StartRun \/ StartRecover \/ Proceed \/ Provide \/ CommandFails \/ Crash \/ Tick

Spec == Init /\ [][Next]_vars

\* An entry and its command go on unless they crash, and recovery is run again
\* until it has nothing left to do (the campaign workflow runs it on every exit).
FairSpec == Spec /\ WF_vars(Proceed) /\ WF_vars(Provide) /\ SF_vars(StartRecover)

(***************************************************************************)
(* Properties.                                                             *)
(***************************************************************************)
\* What is live in the account is the one cycle that cleanup-active.json names,
\* the credentials to remove it are still in custody, and the provider's recover
\* will not refuse it for a missing grant, missing or half-written variables, a
\* cache directory without its receipt, or an intent or invocation that says
\* something else than an earlier recover wrote.  One refusal is left, after a
\* recover that was killed while it filled its intent or its invocation (Wedged):
\* at most one of the two files is half-written then, the first that is missing.
LiveIsRecoverable ==
  live # {} =>
    /\ active # NoActive /\ live = {active.ord} /\ creds
    /\ active.ord \in grants \intersect tfvars \intersect backend
    /\ reconcile[active.ord] \in {NoIntent, Reconciled(active.state, DestroyClaimed(active.ord))}
    /\ invoked[active.ord] \in {"none", Ambiguity(active.ord)}
    /\ ~Half("variables", active.ord)
    /\ Half("intent", active.ord) => reconcile[active.ord] = NoIntent
    /\ Half("invocation", active.ord) =>
         reconcile[active.ord] # NoIntent /\ invoked[active.ord] = "none"

\* A certified zero is one: nothing is live and no command that could make
\* something live is left, whichever entry certified it and wherever it crashed.
\* (A diagnostic root may be run after it was certified as unconsumed.)
CertainZero ==
  (segment \/ published \/ (complete # NotComplete /\ ~(kindOfRoot = "diag" /\ complete = Unconsumed)))
     => live = {} /\ \A c \in cmds : c.op # "apply" \/ c.at \in {"ok", "fail"}

\* An effect the provider has claimed has its intent in the journal, also after
\* the torn tail of a crash was truncated.
ClaimsAreJournaled ==
  \A c \in claims : c[1] \in Effects =>
     \E i \in 1..Len(journal) : journal[i] = <<"effect", c[1], c[2]>>

\* The dead ends of recovery.
Wedged ==
  IF active # NoActive THEN
     \/ clock = 2 \/ active.ord \notin grants \/ active.ord \notin tfvars
     \/ active.ord \in data \ backend \/ Half("intent", active.ord) \/ Half("invocation", active.ord)
     \/ invoked[active.ord] \notin {"none", Ambiguity(active.ord)}
     \/ attempts[active.ord] = MaxAttempts
     \/ reconcile[active.ord] \notin {NoIntent, Reconciled(active.state, DestroyClaimed(active.ord))}
     \/ complete \notin {NotComplete, Complete("settled", active, 0)}
  ELSE IF consumed THEN journal # <<>> /\ ~(<<LastRow[1], LastRow[2]>> \in InactiveRows /\ Permitted)
  ELSE complete \notin {NotComplete, Unconsumed}

\* Recovery run again and again comes to an end: the credentials are retired, or
\* it stands in one of the dead ends the code has.
CustodySettles == <>[](~creds \/ Wedged)
=============================================================================

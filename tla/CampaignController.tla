------------------------- MODULE CampaignController -------------------------
(***************************************************************************)
(* The campaign controller over its sealed in-memory ports: the event      *)
(* contract (completion_campaign_contracts.py), the reducer that admits    *)
(* one next record (completion_campaign_state.py), the controller's normal *)
(* attempt and cleanup-only recovery (completion_campaign_controller.py)   *)
(* and the private custody chain (completion_campaign_evidence.py).        *)
(*                                                                         *)
(* A record is <<event, cycle, outcome, uncertainty>>; cycle 0 is None.    *)
(* The mode of a cycle is a function of its ordinal and is left out, and   *)
(* so are hashes, payloads and observation times, which the ports derive   *)
(* from the position in the sequence.                                      *)
(***************************************************************************)
EXTENDS Integers, Sequences, FiniteSets

CONSTANTS
  Cycles,       \* number of cycles (7 in the code)
  MaxFaults     \* bound on injected failures, uncertainties and crashes

ASSUME ControllerAssumption == Cycles \in Nat \ {0} /\ MaxFaults \in Nat

VARIABLES
  valid,        \* the approval passes _validate_approval
  consumed,     \* the approval has been consumed
  records,      \* the published records
  live,         \* an instance is active in the account
  calls,        \* how often each action was called for each cycle (0: final)
  accepted,     \* receipts accepted: <<action, cycle>>
  sealedPre,    \* cycles with a pre-destroy commitment
  chain,        \* custody chain: [cycles, zeros, sealed]
  pc,           \* control point of the running invocation
  why,          \* the failure being recorded
  faults

vars == <<valid, consumed, records, live, calls, accepted, sealedPre, chain, pc, why, faults>>

(***************************************************************************)
(* The event contract.                                                     *)
(***************************************************************************)
CycleOrder == <<"CYCLE_OPENED", "PLAN_INTENT", "PLAN_ACCEPTED", "APPLY_INTENT", "APPLY_ACCEPTED",
                "RUNNING_OBSERVED", "REMOTE_INTENT", "REMOTE_ACCEPTED", "PRE_DESTROY_SEALED",
                "DESTROY_INTENT", "DESTROY_SETTLED", "ZERO_OBSERVATION_INTENT", "ZERO_ACCEPTED",
                "CYCLE_SEALED">>
FinalOrder == <<"FINAL_ZERO_OBSERVATION_INTENT", "FINAL_ZERO_ACCEPTED",
                "TERMINAL_CANDIDATE_VALIDATED", "SEALED">>
INTENT_EVENTS == {"PLAN_INTENT", "APPLY_INTENT", "REMOTE_INTENT", "DESTROY_INTENT",
                  "ZERO_OBSERVATION_INTENT", "FINAL_ZERO_OBSERVATION_INTENT"}
FailureTerminals == {"TERMINAL_FAILURE_SEALED", "TERMINAL_UNCERTAIN_SEALED"}
Events == {CycleOrder[i] : i \in 1..14} \union {FinalOrder[i] : i \in 1..4}
          \union {"BATCH_ADMITTED", "FAILURE_RECORDED"} \union FailureTerminals
Outcomes == {"intended", "accepted", "observed", "sealed", "failed", "uncertain", "zero", "nonzero"}

required_outcomes(event, cleanup) ==
  CASE event \in INTENT_EVENTS -> {"intended"}
    [] event = "RUNNING_OBSERVED" -> {"observed"}
    [] event \in {"PRE_DESTROY_SEALED", "CYCLE_SEALED", "TERMINAL_CANDIDATE_VALIDATED", "SEALED"}
                 \union FailureTerminals -> {"sealed"}
    [] event = "FAILURE_RECORDED" -> {"failed", "uncertain"}
    [] event = "DESTROY_SETTLED" ->
         IF cleanup THEN {"accepted", "failed", "uncertain"} ELSE {"accepted"}
    [] event \in {"ZERO_ACCEPTED", "FINAL_ZERO_ACCEPTED"} ->
         IF cleanup THEN {"zero", "nonzero", "uncertain"} ELSE {"zero"}
    [] OTHER -> {"accepted"}

outcome_introduces_uncertainty(event, outcome) ==
  outcome \in {"uncertain", "nonzero"} \/ (event = "DESTROY_SETTLED" /\ outcome = "failed")

\* ControllerEventRecord.__post_init__
WellFormed(r) ==
  /\ r[1] \in Events /\ r[3] \in required_outcomes(r[1], TRUE)
  /\ outcome_introduces_uncertainty(r[1], r[3]) => r[4] = "sticky"
  /\ r[1] = "TERMINAL_UNCERTAIN_SEALED" => r[4] = "sticky"
  /\ r[1] \in {"SEALED", "TERMINAL_FAILURE_SEALED"} => r[4] = "clear"
  /\ IF r[1] \in {CycleOrder[i] : i \in 1..14} THEN r[2] \in 1..Cycles
     ELSE IF r[1] = "FAILURE_RECORDED" THEN r[2] \in 0..Cycles ELSE r[2] = 0

(***************************************************************************)
(* The reducer.                                                            *)
(***************************************************************************)
\* _happy_path: the admission, the cycles in order, the end.
HappyPath ==
  [i \in 1..(14 * Cycles + 5) |->
     IF i = 1 THEN <<"BATCH_ADMITTED", 0>>
     ELSE IF i <= 14 * Cycles + 1 THEN <<CycleOrder[((i - 2) % 14) + 1], ((i - 2) \div 14) + 1>>
     ELSE <<FinalOrder[i - 14 * Cycles - 1], 0>>]

Has(rs, event, ordinal) ==
  \E i \in 1..Len(rs) : rs[i][1] = event /\ (ordinal = 0 \/ rs[i][2] = ordinal)

\* _active_cycle: the cycle opened and not sealed, 0 if there is none.
ActiveCycle(rs) ==
  LET open == {c \in 1..Cycles : Has(rs, "CYCLE_OPENED", c) /\ ~Has(rs, "CYCLE_SEALED", c)}
  IN  IF open = {} THEN 0 ELSE CHOOSE c \in open : TRUE

\* _cleanup_steps: what is left to do after a failure, and nothing twice.
CleanupSteps(prefix) ==
  LET c == ActiveCycle(prefix)
      When(cond, step) == IF cond THEN <<step>> ELSE <<>>
      destroy == Has(prefix, "APPLY_INTENT", c) /\ ~Has(prefix, "DESTROY_SETTLED", c)
  IN  IF c = 0
      THEN IF Has(prefix, "FINAL_ZERO_ACCEPTED", 0) THEN <<>>
           ELSE When(~Has(prefix, "FINAL_ZERO_OBSERVATION_INTENT", 0),
                     <<"FINAL_ZERO_OBSERVATION_INTENT", 0>>)
                \o <<<<"FINAL_ZERO_ACCEPTED", 0>>>>
      ELSE IF Has(prefix, "ZERO_ACCEPTED", c) THEN <<>>
      ELSE When(destroy /\ ~Has(prefix, "DESTROY_INTENT", c), <<"DESTROY_INTENT", c>>)
           \o When(destroy, <<"DESTROY_SETTLED", c>>)
           \o When(~Has(prefix, "ZERO_OBSERVATION_INTENT", c), <<"ZERO_OBSERVATION_INTENT", c>>)
           \o <<<<"ZERO_ACCEPTED", c>>>>

\* The uncertainty a state has; _check_uncertainty: every record carries the sticky projection so far.
Uncertainty(rs) ==
  IF \E i \in 1..Len(rs) : outcome_introduces_uncertainty(rs[i][1], rs[i][3])
  THEN "sticky" ELSE "clear"

FailureIndex(rs) ==
  IF Has(rs, "FAILURE_RECORDED", 0)
  THEN CHOOSE i \in 1..Len(rs) : /\ rs[i][1] = "FAILURE_RECORDED"
                                 /\ \A j \in 1..(i - 1) : rs[j][1] # "FAILURE_RECORDED"
  ELSE 0

\* _normal_prefix: the first n records are the first n of the happy path.
NormalPrefix(rs, n) ==
  /\ n <= Len(HappyPath)
  /\ \A i \in 1..n : /\ <<rs[i][1], rs[i][2]>> = HappyPath[i]
                     /\ rs[i][3] \in required_outcomes(rs[i][1], FALSE) /\ rs[i][4] = "clear"

\* reduce_campaign: the status and the one required next event.
State(status, next) == [status |-> status, next |-> next]

reduce_campaign(rs) ==
  LET f == FailureIndex(rs)
      steps == CleanupSteps(SubSeq(rs, 1, f - 1))
      done == Len(rs) - f
      sticky == Uncertainty(rs) = "sticky"
      terminal == IF sticky THEN "TERMINAL_UNCERTAIN_SEALED" ELSE "TERMINAL_FAILURE_SEALED"
  IN  IF f = 0
      THEN IF Len(rs) = Len(HappyPath) THEN State("sealed", <<>>)
           ELSE State("normal", HappyPath[Len(rs) + 1])
      ELSE IF done < Len(steps) THEN State("cleanup", steps[done + 1])
      ELSE IF done = Len(steps) THEN State("cleanup", <<terminal, 0>>)
      ELSE State(IF sticky THEN "terminal-uncertain" ELSE "terminal-failure", <<>>)

\* What reduce_campaign accepts without raising.
Reducible(rs) ==
  LET f == FailureIndex(rs)
      n == IF f = 0 THEN Len(rs) ELSE f - 1
      steps == CleanupSteps(SubSeq(rs, 1, f - 1))
  IN  /\ NormalPrefix(rs, n)
      /\ \A i \in 1..Len(rs) :
           rs[i][4] = IF \E j \in 1..i : outcome_introduces_uncertainty(rs[j][1], rs[j][3])
                      THEN "sticky" ELSE "clear"
      /\ f # 0 => /\ f > 1 /\ rs[f][2] = ActiveCycle(SubSeq(rs, 1, f - 1))
                  /\ Len(rs) - f <= Len(steps) + 1
                  /\ \A i \in (f + 1)..Len(rs) :
                       IF i - f <= Len(steps)
                       THEN <<rs[i][1], rs[i][2]>> = steps[i - f]
                       ELSE rs[i][1] \in FailureTerminals /\ rs[i][2] = 0

\* append_record: the next record, or a failure of the normal attempt.
Appendable(rs, r) ==
  \E s \in {reduce_campaign(rs)}, new \in {Append(rs, r)} :
      /\ s.next # <<>> /\ WellFormed(r)
      /\ \/ s.status = "normal" /\ r[1] = "FAILURE_RECORDED"
         \/ <<r[1], r[2]>> = s.next
      /\ Reducible(new)

Current == reduce_campaign(records)
Terminal == Current.next = <<>>
(***************************************************************************)
(* The ports: publication and actions.                                     *)
(***************************************************************************)
ActionKinds == {"plan", "apply", "running", "remote", "destroy", "inventory"}
Fault == faults < MaxFaults /\ faults' = faults + 1
PortVars == <<valid, consumed, live, calls, accepted, sealedPre, chain>>

Rec(event, ordinal, outcome) ==
  <<event, ordinal, outcome,
    IF Uncertainty(records) = "sticky" \/ outcome_introduces_uncertainty(event, outcome)
    THEN "sticky" ELSE "clear">>

\* _publish_locked: a record the reducer refuses is not published.
Published(r) == Appendable(records, r)

\* Faulty variant: a crash of the normal attempt is caught like a failure.
RaisedCaught(kind) ==
  IF pc \in {"step", "act", "settle"} THEN pc' = "fail" /\ why' = kind
  ELSE IF pc \in {"cleanup-act", "cleanup-settle"} THEN pc' = "unsettled" /\ UNCHANGED why
  ELSE pc' = "idle" /\ UNCHANGED why

\* Where an exception of the normal attempt, of the cleanup, and of the guarded
\* settlement in the cleanup goes; a crash ends the invocation everywhere.
Raised(kind) ==
  IF kind = "crash" THEN pc' = "idle" /\ UNCHANGED why
  ELSE IF pc \in {"step", "act", "settle"} THEN pc' = "fail" /\ why' = kind
  ELSE IF pc \in {"cleanup-act", "cleanup-settle"} THEN pc' = "unsettled" /\ UNCHANGED why
  ELSE pc' = "idle" /\ UNCHANGED why

\* _emit: a checkpoint before and one after the publication; either may raise.
Emit(record, next) ==
  \E r \in {record} : \E ok \in {Published(r)} :
    \/ ok /\ records' = Append(records, r) /\ pc' = next /\ UNCHANGED <<why, faults>>
    \/ ~ok /\ Raised("failed") /\ UNCHANGED <<records, faults>>
    \/ /\ Fault /\ \E kind \in {"failed", "uncertain", "crash"} : Raised(kind)
       /\ records' \in {records} \union (IF ok THEN {Append(records, r)} ELSE {})

\* FakeCampaignPorts.action and verify_receipt: an apply that may have happened
\* leaves an instance; a receipt of another cycle is rejected after the effect.
Act(kind, ordinal, next) ==
  /\ calls' = [calls EXCEPT ![<<kind, ordinal>>] = @ + 1]
  /\ LET effect == CASE kind = "apply" -> TRUE [] kind = "destroy" -> FALSE [] OTHER -> live
         nonzero == kind = "inventory" /\ live
     IN  \/ ~nonzero /\ live' = effect /\ pc' = next /\ UNCHANGED <<why, faults>>
         \/ nonzero /\ live' = live /\ Raised("uncertain") /\ UNCHANGED faults
         \/ Fault /\ live' = live /\ Raised("failed")
         \/ Fault /\ live' = (live \/ kind = "apply")
            /\ \E e \in {"uncertain", "crash"} : Raised(e)
         \/ Fault /\ ~nonzero /\ live' = effect /\ Raised("failed")

(***************************************************************************)
(* The normal attempt.                                                     *)
(***************************************************************************)
\* run: an approval is consumed once, together with the admission record.
Admit ==
  /\ pc = "idle" /\ records = <<>> /\ ~consumed /\ valid
  /\ consumed' = TRUE /\ records' = <<Rec("BATCH_ADMITTED", 0, "accepted")>>
  /\ \/ pc' = "step" /\ UNCHANGED <<why, faults>>
     \/ Fault /\ \/ pc' = "idle" /\ UNCHANGED why
                 \/ pc' = "fail" /\ why' \in {"failed", "uncertain"}
  /\ UNCHANGED <<valid, live, calls, accepted, sealedPre, chain>>

EffectKind ==
  [PLAN_INTENT |-> "plan", APPLY_INTENT |-> "apply", REMOTE_INTENT |-> "remote",
   DESTROY_INTENT |-> "destroy", ZERO_OBSERVATION_INTENT |-> "inventory",
   FINAL_ZERO_OBSERVATION_INTENT |-> "inventory"]
SettledBy ==
  [PLAN_INTENT |-> "PLAN_ACCEPTED", APPLY_INTENT |-> "APPLY_ACCEPTED",
   REMOTE_INTENT |-> "REMOTE_ACCEPTED", DESTROY_INTENT |-> "DESTROY_SETTLED",
   ZERO_OBSERVATION_INTENT |-> "ZERO_ACCEPTED",
   FINAL_ZERO_OBSERVATION_INTENT |-> "FINAL_ZERO_ACCEPTED"]
Intent == records[Len(records)]
SettledOutcome(event) == IF EffectKind[event] = "inventory" THEN "zero" ELSE "accepted"

\* _effect: the intent is published before the action, its result after.
StepIntent ==
  /\ pc = "step" /\ ~Terminal /\ Current.next[1] \in INTENT_EVENTS
  /\ Emit(Rec(Current.next[1], Current.next[2], "intended"), "act")
  /\ UNCHANGED PortVars

StepAct ==
  /\ pc = "act" /\ Act(EffectKind[Intent[1]], Intent[2], "settle")
  /\ UNCHANGED <<valid, consumed, records, accepted, sealedPre, chain>>

StepSettle ==
  /\ pc = "settle"
  /\ Emit(Rec(SettledBy[Intent[1]], Intent[2], SettledOutcome(Intent[1])), "step")
  /\ accepted' = IF pc' = "step" THEN accepted \union {<<EffectKind[Intent[1]], Intent[2]>>}
                 ELSE accepted
  /\ UNCHANGED <<valid, consumed, live, calls, sealedPre, chain>>

\* _step for RUNNING_OBSERVED: the observation is accepted before it is published.
StepObserve ==
  /\ pc = "step" /\ ~Terminal /\ Current.next[1] = "RUNNING_OBSERVED"
  /\ <<"running", Current.next[2]>> \notin accepted
  /\ Act("running", Current.next[2], "step")
  /\ accepted' = IF pc' = "step" THEN accepted \union {<<"running", Current.next[2]>>}
                 ELSE accepted
  /\ UNCHANGED <<valid, consumed, records, sealedPre, chain>>

StepRunning ==
  /\ pc = "step" /\ ~Terminal /\ Current.next[1] = "RUNNING_OBSERVED"
  /\ <<"running", Current.next[2]>> \in accepted
  /\ Emit(Rec("RUNNING_OBSERVED", Current.next[2], "observed"), "step")
  /\ UNCHANGED PortVars

StepPreDestroy ==
  /\ pc = "step" /\ ~Terminal /\ Current.next[1] = "PRE_DESTROY_SEALED"
  /\ LET c == Current.next[2]
     IN  /\ {<<"remote", c>>, <<"running", c>>} \subseteq accepted
         /\ sealedPre' = sealedPre \union {c}
         /\ Emit(Rec("PRE_DESTROY_SEALED", c, "sealed"), "step")
  /\ UNCHANGED <<valid, consumed, live, calls, accepted, chain>>

\* The private receipts: issue_cycle needs every receipt of the cycle, issue_zero
\* binds an observation to its cycle, the last one to none.
issue_cycle(c) ==
  c \in 1..Cycles /\ {<<k, c>> : k \in ActionKinds} \subseteq accepted /\ c \in sealedPre
issue_zero(sequence, c) ==
  /\ sequence \in 1..(Cycles + 1) /\ c = (IF sequence <= Cycles THEN sequence ELSE 0)
  /\ <<"inventory", c>> \in accepted

\* SyntheticPrivateCustodyChain: cycles and zeros alternate, in order, and the
\* final zero comes after the last cycle's.
accept_cycle(c) == ~chain.sealed /\ chain.cycles = chain.zeros /\ c = chain.cycles + 1
accept_zero(ch, sequence) ==
  /\ ~ch.sealed /\ sequence = ch.zeros + 1
  /\ ch.cycles = IF sequence <= Cycles THEN sequence ELSE Cycles
seal_fake_verdict(ch) == ~ch.sealed /\ ch.cycles = Cycles /\ ch.zeros = Cycles + 1

\* Faulty variant: the cycle enters the chain after its record, if that succeeds.
StepSealCycleLate ==
  /\ pc = "step" /\ ~Terminal /\ Current.next[1] = "CYCLE_SEALED"
  /\ LET c == Current.next[2]
     IN  /\ issue_cycle(c) /\ accept_cycle(c)
         /\ Emit(Rec("CYCLE_SEALED", c, "sealed"), "step")
         /\ chain' = IF pc' = "step" THEN [chain EXCEPT !.cycles = c, !.zeros = c] ELSE chain
  /\ UNCHANGED <<valid, consumed, live, calls, accepted, sealedPre>>

\* _seal_private_cycle: the whole cycle is in the chain before CYCLE_SEALED.
StepSealCycle ==
  /\ pc = "step" /\ ~Terminal /\ Current.next[1] = "CYCLE_SEALED"
  /\ LET c == Current.next[2]
     IN  /\ issue_cycle(c) /\ accept_cycle(c) /\ issue_zero(c, c)
         /\ accept_zero([chain EXCEPT !.cycles = c], c)
         /\ chain' = [chain EXCEPT !.cycles = c, !.zeros = c]
         /\ Emit(Rec("CYCLE_SEALED", c, "sealed"), "step")
  /\ UNCHANGED <<valid, consumed, live, calls, accepted, sealedPre>>

\* _seal_terminal_custody and seal_fake_verdict: a distinct final zero.
StepTerminal ==
  /\ pc = "step" /\ ~Terminal /\ Current.next[1] = "TERMINAL_CANDIDATE_VALIDATED"
  /\ issue_zero(Cycles + 1, 0) /\ accept_zero(chain, Cycles + 1)
  /\ seal_fake_verdict([chain EXCEPT !.zeros = Cycles + 1])
  /\ chain' = [chain EXCEPT !.zeros = Cycles + 1, !.sealed = TRUE]
  /\ Emit(Rec("TERMINAL_CANDIDATE_VALIDATED", 0, "sealed"), "step")
  /\ UNCHANGED <<valid, consumed, live, calls, accepted, sealedPre>>

StepPlain ==
  /\ pc = "step" /\ ~Terminal /\ Current.next[1] \in {"CYCLE_OPENED", "SEALED"}
  /\ Emit(Rec(Current.next[1], Current.next[2],
              IF Current.next[1] = "CYCLE_OPENED" THEN "accepted" ELSE "sealed"), "step")
  /\ UNCHANGED PortVars

\* run ends with the verdict of a sealed campaign.
RunEnds ==
  /\ pc = "step" /\ Terminal /\ pc' = "idle"
  /\ UNCHANGED <<PortVars, records, why, faults>>

(***************************************************************************)
(* Failure and cleanup.                                                    *)
(***************************************************************************)
\* _record_failure: bound to the open cycle; nothing if one is recorded.
RecordFailure ==
  /\ pc = "fail"
  /\ IF Current.status # "normal"
     THEN pc' = "cleanup" /\ UNCHANGED <<records, why, faults>>
     ELSE Emit(Rec("FAILURE_RECORDED", ActiveCycle(records), why), "cleanup")
  /\ UNCHANGED PortVars

CleanupIntent ==
  /\ pc = "cleanup" /\ ~Terminal /\ Current.next[1] \in INTENT_EVENTS
  /\ Emit(Rec(Current.next[1], Current.next[2], "intended"), "cleanup-act")
  /\ UNCHANGED PortVars

CleanupAct ==
  /\ pc = "cleanup-act" /\ Act(EffectKind[Intent[1]], Intent[2], "cleanup-settle")
  /\ UNCHANGED <<valid, consumed, records, accepted, sealedPre, chain>>

CleanupSettle ==
  /\ pc = "cleanup-settle"
  /\ Emit(Rec(SettledBy[Intent[1]], Intent[2], SettledOutcome(Intent[1])), "cleanup")
  /\ UNCHANGED PortVars

\* The except clause: the effect is settled as uncertain.
CleanupUnsettled ==
  /\ pc = "unsettled"
  /\ LET i == CHOOSE j \in {Len(records) - 1, Len(records)} : records[j][1] \in INTENT_EVENTS
     IN  Emit(Rec(SettledBy[records[i][1]], records[i][2], "uncertain"), "cleanup")
  /\ UNCHANGED PortVars

\* Faulty variant: an intent left by a crash is taken as performed.
CleanupReplayTrusted ==
  /\ pc = "cleanup" /\ ~Terminal
  /\ Current.next[1] \in {"DESTROY_SETTLED", "ZERO_ACCEPTED", "FINAL_ZERO_ACCEPTED"}
  /\ Emit(Rec(Current.next[1], Current.next[2],
              IF Current.next[1] = "DESTROY_SETTLED" THEN "accepted" ELSE "zero"), "cleanup")
  /\ UNCHANGED PortVars

\* Faulty variant: an intent left by a crash is performed again.
CleanupReplays ==
  /\ pc = "cleanup" /\ ~Terminal
  /\ Current.next[1] \in {"DESTROY_SETTLED", "ZERO_ACCEPTED", "FINAL_ZERO_ACCEPTED"}
  /\ Act(EffectKind[Intent[1]], Intent[2], "cleanup-settle")
  /\ UNCHANGED <<valid, consumed, records, accepted, sealedPre, chain>>

\* An intent left by a crash is settled as uncertain and never performed again.
CleanupUnreplayed ==
  /\ pc = "cleanup" /\ ~Terminal
  /\ Current.next[1] \in {"DESTROY_SETTLED", "ZERO_ACCEPTED", "FINAL_ZERO_ACCEPTED"}
  /\ Emit(Rec(Current.next[1], Current.next[2], "uncertain"), "cleanup")
  /\ UNCHANGED PortVars

\* Faulty variant: the cleanup returns without its terminal record.
CleanupUnsealed ==
  /\ pc = "cleanup" /\ (Terminal \/ Current.next[1] \in FailureTerminals) /\ pc' = "idle"
  /\ UNCHANGED <<PortVars, records, why, faults>>

CleanupTerminal ==
  /\ pc = "cleanup"
  /\ IF Terminal THEN pc' = "idle" /\ UNCHANGED <<records, why, faults>>
     ELSE /\ Current.next[1] \in FailureTerminals
          /\ Emit(Rec(Current.next[1], 0, "sealed"), "cleanup")
  /\ UNCHANGED PortVars

\* recover: consumed custody that is not terminal; an interrupted attempt is a
\* failure of uncertain outcome.
Recover ==
  /\ pc = "idle" /\ consumed /\ records # <<>> /\ ~Terminal
  /\ IF Current.status = "normal" THEN pc' = "fail" /\ why' = "uncertain"
     ELSE pc' = "cleanup" /\ UNCHANGED why
  /\ UNCHANGED <<PortVars, records, faults>>

Init ==
  /\ valid \in BOOLEAN /\ consumed = FALSE /\ records = <<>> /\ live = FALSE
  /\ calls = [x \in ActionKinds \X (0..Cycles) |-> 0]
  /\ accepted = {} /\ sealedPre = {}
  /\ chain = [cycles |-> 0, zeros |-> 0, sealed |-> FALSE]
  /\ pc = "idle" /\ why = "failed" /\ faults = 0

Proceed ==
  \/ StepIntent \/ StepAct \/ StepSettle \/ StepObserve \/ StepRunning \/ StepPreDestroy
  \/ StepSealCycle \/ StepTerminal \/ StepPlain \/ RunEnds
  \/ RecordFailure \/ CleanupIntent \/ CleanupAct \/ CleanupSettle \/ CleanupUnsettled
  \/ CleanupUnreplayed \/ CleanupTerminal

\* The campaign has ended, or its approval is refused without consumption.
Rest == pc = "idle" /\ (IF consumed THEN Terminal ELSE ~valid) /\ UNCHANGED vars

Next == Admit \/ Proceed \/ Recover \/ Rest

Spec == Init /\ [][Next]_vars

\* The process runs on, and an interrupted campaign is recovered: weak fairness
\* of Proceed \/ Recover, whose ENABLED is Unfinished (an invocation is running,
\* or none is and the consumed campaign has no terminal record; that Unfinished
\* work is never stuck is TLC's deadlock check).
Unfinished == pc # "idle" \/ (consumed /\ ~Terminal)
FairSpec == Spec /\ ([]<>~Unfinished \/ []<><<Proceed \/ Recover>>_vars)

(***************************************************************************)
(* Properties.                                                             *)
(***************************************************************************)
\* Every variable has its type, and every published record is well formed.
ControllerTypeOK ==
  /\ valid \in BOOLEAN /\ consumed \in BOOLEAN /\ live \in BOOLEAN
  /\ \A i \in 1..Len(records) : WellFormed(records[i])
  /\ calls \in [ActionKinds \X (0..Cycles) -> 0..2]
  /\ accepted \subseteq ActionKinds \X (0..Cycles) /\ sealedPre \subseteq 1..Cycles
  /\ chain.cycles \in 0..Cycles /\ chain.zeros \in 0..(Cycles + 1)
  /\ why \in {"failed", "uncertain"} /\ faults \in 0..MaxFaults

\* A clear end is a true one: when the campaign is sealed, or failed without
\* uncertainty, no instance is left, and the sealed one has its whole custody
\* chain, whatever failed and whichever invocation finished it.
ClearEndMeansZero ==
  /\ Current.status \in {"sealed", "terminal-failure"} => ~live
  /\ Current.status = "sealed" => chain.sealed /\ chain.zeros = Cycles + 1

\* No effect on a cycle is attempted twice, by the attempt, its cleanup or any
\* number of recoveries (retry_authorized is False).
EffectsOnce == \A x \in DOMAIN calls : calls[x] <= 1

\* The custody chain holds exactly the sealed cycles, and at most one more whose
\* record was never published.
ChainFollowsRecords ==
  LET sealed == Cardinality({i \in 1..Len(records) : records[i][1] = "CYCLE_SEALED"})
  IN  chain.cycles \in {sealed, sealed + 1} /\ (chain.cycles > sealed => ~chain.sealed)

\* A consumed approval ends in a terminal record once faults cease.
ConsumedEnds == consumed ~> Terminal
=============================================================================

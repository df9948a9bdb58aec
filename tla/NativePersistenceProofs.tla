---------------------- MODULE NativePersistenceProofs ----------------------
(***************************************************************************)
(* The persistence fence keeps its promises for any number of entries, and *)
(* the Pi session adapter uses it only through its operations: so the      *)
(* promises hold of every behaviour of the session.  The session's own     *)
(* promises, PiSafe and the refinement of RunLedger, follow from an        *)
(* inductive invariant of its runs, procedures and waiters.                *)
(***************************************************************************)
EXTENDS PiSession, SequenceTheorems, TLAPS

\* What a step of the fence needs to know of the state before it.
FenceInv == FenceTypeOK /\ DurableIsSynced

LEMMA FenceInitInv == FenceInit => FenceInv
  <1> SUFFICES ASSUME FenceInit
               PROVE  FenceTypeOK /\ DurableIsSynced
    BY DEF FenceInv
  <1>1. committing \in BOOLEAN /\ ~committing
    BY DEF FenceInit
  <1>2. FenceTypeOK
    BY <1>1, FenceAssumption DEF FenceInit, FenceTypeOK
  <1>3. DurableIsSynced
    BY <1>1 DEF FenceInit, DurableIsSynced
  <1>4. QED
    BY <1>2, <1>3

\* One step per operation.  An append moves file and revision together only from
\* a usable fence, where they agree; a commit publishes a candidate it synced.
LEMMA FenceStepInv ==
    ASSUME FenceInv, [FenceNext]_fenceVars
    PROVE  FenceInv'
  <1> USE FenceAssumption DEF FenceInv, FenceTypeOK, DurableIsSynced, Usable
  <1>1. CASE Track
    BY <1>1 DEF Track
  <1>2. CASE TrackDuringCommit
    BY <1>2 DEF TrackDuringCommit, Poison
  <1>3. CASE Retire
    BY <1>3 DEF Retire
  <1>4. CASE Persist
    BY <1>4 DEF Persist
  <1>5. CASE PersistFails
    BY <1>5 DEF PersistFails, Poison
  <1>6. CASE CommitBegins
    BY <1>6 DEF CommitBegins
  <1>7. CASE CommitNotAtRest
    BY <1>7 DEF CommitNotAtRest, Poison
  <1>8. CASE CommitScanFails
    BY <1>8 DEF CommitScanFails, Poison
  <1>9. CASE CommitPublishes
    BY <1>9 DEF CommitPublishes
  <1>10. CASE CommitFails
    BY <1>10 DEF CommitFails, Poison
  <1>11. CASE UNCHANGED fenceVars
    BY <1>11 DEF fenceVars
  <1>12. QED
    BY <1>1, <1>2, <1>3, <1>4, <1>5, <1>6, <1>7, <1>8, <1>9, <1>10, <1>11 DEF FenceNext

\* A published frontier is on disk, whatever fails and whenever (commitAtRest()).
THEOREM FenceIsDurable == FenceSpec => [](FenceTypeOK /\ DurableIsSynced)
  <1>1. FenceInit => FenceInv
    BY FenceInitInv
  <1>2. FenceInv /\ [FenceNext]_fenceVars => FenceInv'
    BY FenceStepInv
  <1>3. FenceInv => FenceTypeOK /\ DurableIsSynced
    BY DEF FenceInv
  <1>4. QED
    BY <1>1, <1>2, <1>3, PTL DEF FenceSpec

\* No step of the fence heals it (poison(), and publication last).
LEMMA FenceStepKeepsPoison ==
    ASSUME [FenceNext]_fenceVars
    PROVE  [~Usable => cause' = cause /\ durable' = durable]_fenceVars
  <1> SUFFICES ASSUME ~Usable
               PROVE  cause' = cause /\ durable' = durable
    OBVIOUS
  <1>1. CASE Track \/ TrackDuringCommit \/ Persist \/ PersistFails \/ CommitBegins
    BY <1>1 DEF Track, TrackDuringCommit, Persist, PersistFails, CommitBegins
  <1>2. CASE CommitNotAtRest \/ CommitScanFails \/ CommitPublishes
    BY <1>2 DEF CommitNotAtRest, CommitScanFails, CommitPublishes
  <1>3. CASE Retire
    BY <1>3 DEF Retire
  <1>4. CASE CommitFails
    BY <1>4 DEF CommitFails, Poison
  <1>5. CASE UNCHANGED fenceVars
    BY <1>5 DEF fenceVars
  <1>6. QED
    BY <1>1, <1>2, <1>3, <1>4, <1>5 DEF FenceNext

\* Poison is final (poison() keeps the first cause; durable = candidate is last).
THEOREM FencePoisonIsFinal == FenceSpec => PoisonIsFinal
  <1>1. [FenceNext]_fenceVars => [~Usable => cause' = cause /\ durable' = durable]_fenceVars
    BY FenceStepKeepsPoison
  <1>2. QED
    BY <1>1, PTL DEF FenceSpec, PoisonIsFinal

-----------------------------------------------------------------------------

\* The steps of a run touch the fence through track(), an append and retirement.
LEMMA RunStepsUseFence ==
    ASSUME NEW r \in Runs,
           \/ InputPrompt(r) \/ InputQueued(r) \/ DeadlinePasses(r) \/ DeadlineFires(r)
           \/ PromptEnds(r) \/ RunStep(r)
    PROVE  [FenceNext]_fenceVars
  <1>1. CASE InputPrompt(r) \/ InputQueued(r) \/ DeadlinePasses(r) \/ DeadlineFires(r)
    BY <1>1 DEF InputPrompt, InputQueued, DeadlinePasses, DeadlineFires
  <1>2. CASE PromptEnds(r)
    BY <1>2 DEF PromptEnds, FenceNext
  <1>3. CASE PromptStarts(r)
    BY <1>3 DEF PromptStarts, FenceNext
  <1>4. CASE RunReturns(r) \/ RunExpires(r) \/ RunFlushes(r) \/ RunCommitted(r)
    BY <1>4 DEF RunReturns, RunExpires, RunFlushes, RunCommitted
  <1>5. CASE RunFlushFails(r) \/ RunSettles(r) \/ RunCleaned(r)
    BY <1>5 DEF RunFlushFails, RunSettles, RunCleaned
  <1>6. QED
    BY <1>1, <1>2, <1>3, <1>4, <1>5 DEF RunStep

\* Everything else: only commits, navigation and native appends touch the fence.
LEMMA SessionStepUsesFence ==
    ASSUME [PiNext]_piVars
    PROVE  [FenceNext]_fenceVars
  <1>1. CASE \E r \in Runs :
                \/ InputPrompt(r) \/ InputQueued(r) \/ DeadlinePasses(r) \/ DeadlineFires(r)
                \/ PromptEnds(r) \/ RunStep(r)
    BY <1>1, RunStepsUseFence
  <1>2. CASE \E w \in Waiters : CommitCall(w)
    BY <1>2 DEF CommitCall, FenceNext
  <1>3. CASE CommitSettles
    BY <1>3 DEF CommitSettles, FenceNext
  <1>4. CASE NativeAppends
    BY <1>4 DEF NativeAppends, FenceNext
  <1>5. CASE EventRefused \/ GitEventRefused \/ AbortRequest \/ AbortSettles
    BY <1>5 DEF EventRefused, GitEventRefused, AbortRequest, AbortSettles
  <1>6. CASE CancelStep
    BY <1>6 DEF CancelStep, CancelTimesOut, CancelJoins, CancelCompletes, CancelFails
  <1>7. CASE CleanStep
    BY <1>7 DEF CleanStep, FailClosed, CleanTimesOut, CleanIsIdle, CleanCommitted,
                CleanFails, CleanEnds
  <1>8. CASE Dispose \/ DisposeStep
    BY <1>8 DEF Dispose, DisposeStep, DisposeJoins, DisposeProceeds, DisposeCleaned,
                DisposeCommitted, DisposeEnds
  <1>9. CASE PrepareShutdown \/ PrepareStep
    BY <1>9 DEF PrepareShutdown, PrepareStep, PrepareCommitted, PrepareMapped,
                PrepareExported, PrepareCleaned
  <1>10. CASE Navigate
    BY <1>10 DEF Navigate, FenceNext
  <1>11. CASE NavigateReturns
    BY <1>11 DEF NavigateReturns, FenceNext
  <1>12. CASE NavigateEnds \/ SinkGone
    BY <1>12 DEF NavigateEnds, SinkGone
  <1>13. CASE UNCHANGED piVars
    BY <1>13 DEF piVars
  <1>14. QED
    BY <1>1, <1>2, <1>3, <1>4, <1>5, <1>6, <1>7, <1>8, <1>9, <1>10, <1>11, <1>12, <1>13
    DEF PiNext

\* The session implements the fence's specification: no interleaving of runs,
\* aborts, timeouts, cleanup and disposal reaches into the native file past it.
THEOREM SessionUsesFence == PiSafety => FenceSpec
  <1>1. PiInit => FenceInit
    BY DEF PiInit
  <1>2. [PiNext]_piVars => [FenceNext]_fenceVars
    BY SessionStepUsesFence
  <1>3. QED
    BY <1>1, <1>2, PTL DEF PiSafety, FenceSpec

\* So the frontier the session publishes is on disk in all its behaviours.
THEOREM SessionIsDurable == PiSafety => []DurableIsSynced
  <1>1. (FenceTypeOK /\ DurableIsSynced) => DurableIsSynced
    OBVIOUS
  <1>2. QED
    BY <1>1, SessionUsesFence, FenceIsDurable, PTL

\* And a poisoned session never publishes another one.
THEOREM SessionPoisonIsFinal == PiSafety => PoisonIsFinal
  BY SessionUsesFence, FencePoisonIsFinal, PTL

-----------------------------------------------------------------------------
(***************************************************************************)
(* The invariant of the session.                                           *)
(***************************************************************************)

Both == {"resources", "credential"}

\* The owner has left, or the event sink has.
Closed == disp # "none" \/ ~sink

\* What the active run publishes from here on is dropped.
Quelled == active = NoRun \/ "suppress" \in mark[active]

\* Everything written is published and nothing is being written.
AtRest == revision = durable /\ tracked = 0

\* Native code runs at most one prompt, of the active run if there is one, and
\* the fence counts that prompt and a navigation.
CountInv ==
    /\ \A r, q \in Runs : pc[r] = "native" /\ pc[q] = "native" => r = q
    /\ \A r \in Runs : pc[r] = "native" => active \in {r, NoRun}
    /\ tracked = (IF Streaming THEN 1 ELSE 0) + (IF nav = "native" THEN 1 ELSE 0)

\* History stays at rest between the commit that said so and the report that
\* relies on it.
CommitInv ==
    /\ \A w \in Waiters : wait[w] = "ok" => AtRest
    /\ \A w \in Waiters : wait[w] = "err" => ~Usable
    /\ \A r \in Runs : pc[r] = "settle" /\ ~Sealed(r) => AtRest
    /\ prep \in {"git", "export"} => AtRest
    /\ reported <= durable

\* What each way of ending the session has already settled.
EndInv ==
    /\ disp # "none" => phase # "running"
    /\ phase = "disposed" => disp # "none"
    /\ clean # "none" => Quelled /\ phase # "running" /\ (~Closed => phase # "open")
    /\ phase = "failed" /\ ~Closed => Quelled
    /\ ~Usable => phase = "failed" \/ Closed \/ clean # "none"
    /\ prep # "none" /\ disp = "none" =>
          active = NoRun /\ cxStep = "none" /\ phase \notin {"open", "running"}

\* While a cancellation is pending no other run can have become the active one.
CancelInv ==
    cxStep # "none" =>
        /\ cxRun \in Runs /\ "suppress" \in mark[cxRun]
        /\ active \in {cxRun, NoRun} /\ phase \notin {"open", "running"}
        /\ pc[cxRun] # "idle" /\ (cxStep = "commit" => pc[cxRun] = "done")
        /\ cxStep # "fail" => queue = {}
        /\ ~Closed => phase \in {"aborting", "failed"}
        /\ failReq \/ clean # "none" => Closed \/ phase = "failed"

QueueInv ==
    /\ \A r \in queue : active = r /\ pc[r] \in {"native", "cleanup", "done"}
    /\ clean \in {"abort", "idle", "commit", "release", "done"} => queue = {}

HeldInv ==
    /\ held # Both => tracked = 0 /\ (clean # "none" \/ disp # "none")
    /\ clean = "release" \/ disp = "release" => "resources" \notin held

\* A run's events, its flags and who is responsible for it.
RunsInv ==
    \A r \in Runs :
        /\ pc[r] = "idle" => events[r] = <<>> /\ active # r
        /\ events[r] # <<>> => "terminal" \in mark[r]
        /\ pc[r] \notin {"idle", "done"} => active = r \/ clean # "none"
        /\ pc[r] # "idle" /\ events[r] = <<>> =>
              active = r \/ clean # "none" \/ disp # "none" \/ failReq
        /\ "terminal" \in mark[r] /\ events[r] = <<>> =>
              clean # "none" \/ disp # "none" \/ failReq

PiInv ==
    /\ PiTypeOK /\ DurableIsSynced /\ CountInv /\ CommitInv /\ EndInv
    /\ CancelInv /\ QueueInv /\ HeldInv /\ RunsInv

Kinds == {"settled", "aborted", "error", "timeout"}
Phases == {"open", "running", "aborting", "draining", "shutdown", "failed", "disposed"}
Marks == {"terminal", "suppress", "elapsed"}

\* Marking a run keeps the marks' type.
LEMMA MarkedType ==
    ASSUME RunTypeOK, NEW r \in Runs \cup {NoRun}, NEW ms \in SUBSET Marks
    PROVE  Marked(r, ms) \in [Runs -> SUBSET Marks]
  BY DEF Marked, RunTypeOK, Marks

\* A sequence that was appended to is not empty.
LEMMA AppendNonempty ==
    ASSUME NEW S, NEW s \in Seq(S), NEW e \in S
    PROVE  Append(s, e) # <<>>
  BY Len(Append(s, e)) = Len(s) + 1 /\ Len(s) \in Nat /\ Len(<<>>) = 0

\* Publishing an event keeps the events' type.
LEMMA EventType ==
    ASSUME RunTypeOK, NEW r \in Runs, NEW k \in Kinds
    PROVE  [events EXCEPT ![r] = Append(@, k)] \in [Runs -> Seq(Kinds)]
  <1>1. events \in [Runs -> Seq(Kinds)]
    BY DEF RunTypeOK, Kinds
  <1>2. events[r] \in Seq(Kinds)
    BY <1>1
  <1>3. Append(events[r], k) \in Seq(Kinds)
    BY <1>2
  <1>4. QED
    BY <1>1, <1>3

\* persistenceFailed() keeps the types of what it sets.
LEMMA PersistenceFailedType ==
    ASSUME RunTypeOK, PersistenceFailed
    PROVE  phase' \in Phases /\ mark' \in [Runs -> SUBSET Marks]
  <1>1. Marked(active, {"suppress"}) \in [Runs -> SUBSET Marks]
    BY MarkedType DEF RunTypeOK, Marks
  <1>2. QED
    BY <1>1 DEF PersistenceFailed, RunTypeOK, Marks, Phases

\* So does a terminal event,
LEMMA TerminalType ==
    ASSUME RunTypeOK, FenceTypeOK, NEW r \in Runs, NEW k \in Kinds, Terminal(r, k)
    PROVE  /\ phase' \in Phases /\ active' \in Runs \cup {NoRun}
           /\ mark' \in [Runs -> SUBSET Marks]
           /\ events' \in [Runs -> Seq(Kinds)]
           /\ reported' \in 0..MaxAppends
  <1>1. mark' \in [Runs -> SUBSET Marks]
    BY MarkedType DEF Terminal, Marks
  <1>2. [events EXCEPT ![r] = Append(@, k)] \in [Runs -> Seq(Kinds)]
    BY EventType
  <1>3. events' \in [Runs -> Seq(Kinds)]
    BY <1>2 DEF Terminal, RunTypeOK, Kinds
  <1>4. QED
    BY <1>1, <1>3 DEF Terminal, RunTypeOK, FenceTypeOK, Phases

\* and the timeout.
LEMMA TimeoutType ==
    ASSUME RunTypeOK, NEW r \in Runs, TimeoutActive(r)
    PROVE  /\ phase' \in Phases
           /\ mark' \in [Runs -> SUBSET Marks]
           /\ events' \in [Runs -> Seq(Kinds)]
           /\ queue' \subseteq Runs
  <1>1. mark' \in [Runs -> SUBSET Marks]
    BY MarkedType DEF TimeoutActive, Marks
  <1>2. [events EXCEPT ![r] = Append(@, "timeout")] \in [Runs -> Seq(Kinds)]
    BY EventType DEF Kinds
  <1>3. events' \in [Runs -> Seq(Kinds)]
    BY <1>2 DEF TimeoutActive, RunTypeOK, Kinds
  <1>4. QED
    BY <1>1, <1>3 DEF TimeoutActive, RunTypeOK, Phases

\* persistenceFailed() ends no run by itself.
LEMMA PersistenceFailedMarks ==
    ASSUME RunTypeOK, PersistenceFailed
    PROVE  /\ failReq => failReq'
           /\ \A r \in Runs : "terminal" \in mark'[r] <=> "terminal" \in mark[r]
  <1>1. CASE UNCHANGED <<mark, failReq>>
    BY <1>1
  <1>2. CASE mark' = Marked(active, {"suppress"}) /\ failReq'
    BY <1>2 DEF Marked, RunTypeOK
  <1>3. QED
    BY <1>1, <1>2 DEF PersistenceFailed

-----------------------------------------------------------------------------
(***************************************************************************)
(* Every step keeps the invariant, part by part.  In each proof the steps  *)
(* that touch the part's variables come one by one, the others last.       *)
(***************************************************************************)

\* At most one prompt is in native code, and the fence counts exactly what is.
LEMMA CountInvStep ==
    ASSUME PiInv, LateInput = FALSE, [PiNext]_piVars
    PROVE  CountInv'
  <1> USE SessionAssumption, FenceAssumption
  <1>a. RunTypeOK /\ CountInv
    BY DEF PiInv, PiTypeOK
  <1>1. ASSUME NEW r \in Runs, InputPrompt(r) PROVE CountInv'
    BY <1>a, <1>1 DEF InputPrompt, Streaming, CountInv, fenceVars, procVars
  <1>2. ASSUME NEW r \in Runs, PromptEnds(r) PROVE CountInv'
    BY <1>a, <1>2 DEF PromptEnds, Retire, Streaming, RunTypeOK, CountInv
  <1>3. ASSUME NEW r \in Runs, PromptStarts(r) PROVE CountInv'
    BY <1>a, <1>3
    DEF PromptStarts, Sealed, Track, TrackDuringCommit, Streaming, RunTypeOK,
        CountInv
  <1>4. ASSUME NEW r \in Runs, RunReturns(r) PROVE CountInv'
    BY <1>a, <1>4 DEF RunReturns, Resumes, Streaming, CountInv, fenceVars
  <1>5. ASSUME NEW r \in Runs, RunExpires(r) PROVE CountInv'
    BY <1>a, <1>5 DEF RunExpires, Resumes, Streaming, CountInv, fenceVars
  <1>6. ASSUME NEW r \in Runs, RunFlushes(r) PROVE CountInv'
    BY <1>a, <1>6 DEF RunFlushes, Sealed, Streaming, RunTypeOK, CountInv, fenceVars
  <1>7. ASSUME NEW r \in Runs, RunCommitted(r) PROVE CountInv'
    BY <1>a, <1>7 DEF RunCommitted, Streaming, CountInv, fenceVars
  <1>8. ASSUME NEW r \in Runs, RunFlushFails(r) PROVE CountInv'
    BY <1>a, <1>8 DEF RunFlushFails, Streaming, CountInv, fenceVars
  <1>9. ASSUME NEW r \in Runs, RunSettles(r) PROVE CountInv'
    BY <1>a, <1>9 DEF RunSettles, Terminal, Streaming, CountInv, fenceVars
  <1>10. ASSUME NEW r \in Runs, RunCleaned(r) PROVE CountInv'
    BY <1>a, <1>10 DEF RunCleaned, Streaming, CountInv, fenceVars, procVars
  <1>11. CASE CancelCompletes
    BY <1>a, <1>11 DEF CancelCompletes, Terminal, Streaming, CountInv, fenceVars
  <1>12. CASE CleanEnds
    BY <1>a, <1>12 DEF CleanEnds, Streaming, CountInv, fenceVars
  <1>13. CASE Navigate
    BY <1>a, <1>13 DEF Navigate, Streaming, Track, CountInv, runVars
  <1>14. CASE NavigateReturns
    BY <1>a, <1>14 DEF NavigateReturns, Retire, Streaming, CountInv, runVars
  <1>15. CASE NavigateEnds
    BY <1>a, <1>15 DEF NavigateEnds, Streaming, CountInv, fenceVars, runVars
  <1>16. ASSUME \E r \in Runs : \/ InputQueued(r) \/ DeadlinePasses(r)
                                \/ DeadlineFires(r)
         PROVE  UNCHANGED <<active, pc, tracked, nav>>
    BY <1>16
    DEF InputQueued, DeadlinePasses, Marked, DeadlineFires, TimeoutActive, fenceVars,
        runVars, procVars, envVars
  <1>17. ASSUME \E w \in Waiters : CommitCall(w)
         PROVE  UNCHANGED <<active, pc, tracked, nav>>
    BY <1>17
    DEF CommitCall, CommitBegins, CommitNotAtRest, CommitScanFails, Poison,
        PersistenceFailed, Marked, fenceVars, runVars, procVars, envVars
  <1>18. ASSUME \/ CommitSettles \/ NativeAppends \/ EventRefused
                \/ GitEventRefused \/ AbortRequest \/ AbortSettles
                \/ CancelTimesOut \/ CancelJoins \/ CancelFails \/ FailClosed
                \/ CleanTimesOut \/ CleanIsIdle \/ CleanCommitted \/ CleanFails
                \/ Dispose \/ DisposeJoins \/ DisposeProceeds \/ DisposeCleaned
                \/ DisposeCommitted \/ DisposeEnds \/ PrepareShutdown
                \/ PrepareCommitted \/ PrepareMapped \/ PrepareExported
                \/ PrepareCleaned \/ SinkGone \/ UNCHANGED piVars
         PROVE  UNCHANGED <<active, pc, tracked, nav>>
    BY <1>18
    DEF CommitSettles, CommitPublishes, CommitFails, Poison, PersistenceFailed,
        Marked, NativeAppends, Persist, PersistFails, EventRefused, GitEventRefused,
        AbortRequest, AbortSettles, CancelTimesOut, CancelJoins, CancelFails,
        FailClosed, CleanTimesOut, CleanIsIdle, CleanCommitted, CleanFails, Dispose,
        DisposeJoins, DisposeProceeds, DisposeCleaned, DisposeCommitted, DisposeEnds,
        PrepareShutdown, PrepareCommitted, PrepareMapped, PrepareExported,
        PrepareCleaned, SinkGone, piVars, fenceVars, runVars, procVars, envVars
  <1>19. CASE UNCHANGED <<active, pc, tracked, nav>>
    BY <1>a, <1>19 DEF CountInv, Streaming
  <1>20. QED
    BY <1>1, <1>2, <1>3, <1>4, <1>5, <1>6, <1>7, <1>8, <1>9, <1>10, <1>11, <1>12,
    <1>13, <1>14, <1>15, <1>16, <1>17, <1>18, <1>19 DEF PiNext, RunStep, CancelStep,
    CleanStep, DisposeStep, PrepareStep

\* A commit that answered ok leaves history at rest until its waiter has acted.
LEMMA CommitInvStep ==
    ASSUME PiInv, LateInput = FALSE, [PiNext]_piVars
    PROVE  CommitInv'
  <1> USE SessionAssumption, FenceAssumption
  <1>a. /\ RunTypeOK /\ ProcTypeOK /\ FenceTypeOK
        /\ DurableIsSynced /\ CountInv /\ EndInv
  /\ CommitInv
    BY DEF PiInv, PiTypeOK
  <1>1. ASSUME NEW r \in Runs, InputPrompt(r) PROVE CommitInv'
    BY <1>a, <1>1
    DEF InputPrompt, AtRest, Usable, Sealed, CommitInv, fenceVars, procVars
  <1>2. ASSUME NEW r \in Runs, DeadlinePasses(r) PROVE CommitInv'
    BY <1>a, <1>2
    DEF DeadlinePasses, Sealed, AtRest, Usable, CommitInv, fenceVars, procVars
  <1>3. ASSUME NEW r \in Runs, DeadlineFires(r) PROVE CommitInv'
    BY <1>a, <1>3
    DEF DeadlineFires, Sealed, TimeoutActive, Marked, AtRest, Usable, CommitInv,
        fenceVars
  <1>4. ASSUME NEW r \in Runs, PromptEnds(r) PROVE CommitInv'
    BY <1>a, <1>4 DEF PromptEnds, Retire, AtRest, Usable, Sealed, CommitInv
  <1>5. ASSUME NEW r \in Runs, PromptStarts(r) PROVE CommitInv'
    BY <1>a, <1>5
    DEF PromptStarts, Drained, Sealed, Elapsed, Track, TrackDuringCommit, Poison,
        Usable, PersistenceFailed, Marked, AtRest, RunTypeOK, EndInv, CommitInv
  <1>6. ASSUME NEW r \in Runs, RunReturns(r) PROVE CommitInv'
    BY <1>a, <1>6 DEF RunReturns, Sealed, Done, AtRest, Usable, CommitInv, fenceVars
  <1>7. ASSUME NEW r \in Runs, RunExpires(r) PROVE CommitInv'
    BY <1>a, <1>7
    DEF RunExpires, Sealed, TimeoutActive, Marked, Done, AtRest, Usable, CommitInv,
        fenceVars
  <1>8. ASSUME NEW r \in Runs, RunFlushes(r) PROVE CommitInv'
    BY <1>a, <1>8
    DEF RunFlushes, Sealed, Wants, AtRest, Usable, RunTypeOK, CommitInv, fenceVars
  <1>9. ASSUME NEW r \in Runs, RunCommitted(r) PROVE CommitInv'
    BY <1>a, <1>9
    DEF RunCommitted, Resumes, Done, AtRest, Usable, CommitInv, fenceVars, Waiters
  <1>10. ASSUME NEW r \in Runs, RunFlushFails(r) PROVE CommitInv'
    BY <1>a, <1>10
    DEF RunFlushFails, Done, AtRest, Usable, Sealed, CommitInv, fenceVars
  <1>11. ASSUME NEW r \in Runs, RunSettles(r) PROVE CommitInv'
    BY <1>a, <1>11
    DEF RunSettles, Resumes, Terminal, Done, AtRest, Usable, FenceTypeOK, CommitInv,
        fenceVars, Waiters
  <1>12. ASSUME NEW r \in Runs, RunCleaned(r) PROVE CommitInv'
    BY <1>a, <1>12
    DEF RunCleaned, AtRest, Usable, Sealed, CommitInv, fenceVars, procVars
  <1>13. ASSUME NEW w \in Waiters, CommitCall(w) PROVE CommitInv'
    BY <1>a, <1>13
    DEF CommitCall, Answer, CommitBegins, CommitNotAtRest, CommitScanFails, Poison,
        Usable, PersistenceFailed, Marked, AtRest, Sealed, RunTypeOK, ProcTypeOK,
        CommitInv, fenceVars
  <1>14. CASE CommitSettles
    BY <1>a, <1>14
    DEF CommitSettles, CommitPublishes, AnswerAll, CommitFails, Poison, Usable,
        PersistenceFailed, Marked, AtRest, Sealed, RunTypeOK, ProcTypeOK,
        FenceTypeOK, DurableIsSynced, CommitInv
  <1>15. CASE NativeAppends
    BY <1>a, <1>15
    DEF NativeAppends, Persist, PersistFails, PersistenceFailed, Marked, AtRest,
        Sealed, RunTypeOK, CountInv, CommitInv
  <1>16. CASE AbortRequest
    BY <1>a, <1>16
    DEF AbortRequest, Marked, AtRest, Usable, Sealed, CommitInv, fenceVars
  <1>17. CASE CancelJoins
    BY <1>a, <1>17
    DEF CancelJoins, Wants, AtRest, Usable, Sealed, CommitInv, fenceVars, runVars
  <1>18. CASE CancelCompletes
    BY <1>a, <1>18
    DEF CancelCompletes, Terminal, Done, AtRest, Usable, FenceTypeOK, CommitInv,
        fenceVars, Waiters, Owners
  <1>19. CASE CancelFails
    BY <1>a, <1>19
    DEF CancelFails, Done, AtRest, Usable, Sealed, CommitInv, fenceVars, runVars
  <1>20. CASE FailClosed
    BY <1>a, <1>20
    DEF FailClosed, Marked, AtRest, Usable, Sealed, RunTypeOK, CommitInv, fenceVars
  <1>21. CASE CleanIsIdle
    BY <1>a, <1>21
    DEF CleanIsIdle, Wants, AtRest, Usable, Sealed, ProcTypeOK, CommitInv, fenceVars,
        runVars
  <1>22. CASE CleanCommitted
    BY <1>a, <1>22
    DEF CleanCommitted, Done, AtRest, Usable, CommitInv, fenceVars, runVars, Waiters,
        Owners
  <1>23. CASE CleanFails
    BY <1>a, <1>23 DEF CleanFails, Done, AtRest, Usable, Sealed, CommitInv, fenceVars
  <1>24. CASE CleanEnds
    BY <1>a, <1>24 DEF CleanEnds, AtRest, Usable, Sealed, CommitInv, fenceVars
  <1>25. CASE DisposeProceeds
    BY <1>a, <1>25
    DEF DisposeProceeds, Wants, AtRest, Usable, Sealed, ProcTypeOK, CommitInv,
        fenceVars, runVars
  <1>26. CASE DisposeCommitted
    BY <1>a, <1>26
    DEF DisposeCommitted, Done, AtRest, Usable, Sealed, CommitInv, fenceVars
  <1>27. CASE PrepareShutdown
    BY <1>a, <1>27 DEF PrepareShutdown, Wants, AtRest, Sealed, CommitInv, fenceVars
  <1>28. CASE PrepareCommitted
    BY <1>a, <1>28
    DEF PrepareCommitted, Done, AtRest, Usable, Sealed, CommitInv, fenceVars,
        runVars, Waiters, Owners
  <1>29. CASE PrepareMapped
    BY <1>a, <1>29 DEF PrepareMapped, AtRest, Usable, CommitInv, fenceVars, runVars
  <1>30. CASE PrepareExported
    BY <1>a, <1>30
    DEF PrepareExported, AtRest, Usable, FenceTypeOK, CommitInv, fenceVars
  <1>31. CASE PrepareCleaned
    BY <1>a, <1>31
    DEF PrepareCleaned, AtRest, Usable, Sealed, CommitInv, fenceVars, runVars
  <1>32. CASE Navigate
    BY <1>a, <1>32
    DEF Navigate, Drained, CallerMayEnter, Live, Track, Sealed, EndInv, CommitInv,
        runVars
  <1>33. CASE NavigateReturns
    BY <1>a, <1>33
    DEF NavigateReturns, Retire, Wants, AtRest, Usable, Sealed, ProcTypeOK,
        CommitInv, runVars
  <1>34. CASE NavigateEnds
    BY <1>a, <1>34
    DEF NavigateEnds, Done, AtRest, Usable, Sealed, CommitInv, fenceVars, runVars
  <1>35. ASSUME \E r \in Runs : InputQueued(r)
         PROVE  UNCHANGED <<active, pc, mark, wait, prep, reported, cause, revision, durable, tracked>>
    BY <1>35 DEF InputQueued, fenceVars, runVars, procVars, envVars
  <1>36. ASSUME \/ EventRefused \/ GitEventRefused \/ AbortSettles
                \/ CancelTimesOut \/ CleanTimesOut \/ Dispose \/ DisposeJoins
                \/ DisposeCleaned \/ DisposeEnds \/ SinkGone \/ UNCHANGED piVars
         PROVE  UNCHANGED <<active, pc, mark, wait, prep, reported, cause, revision, durable, tracked>>
    BY <1>36
    DEF EventRefused, GitEventRefused, AbortSettles, CancelTimesOut, CleanTimesOut,
        Dispose, DisposeJoins, DisposeCleaned, DisposeEnds, SinkGone, piVars,
        fenceVars, runVars, procVars, envVars
  <1>37. CASE UNCHANGED <<active, pc, mark, wait, prep, reported, cause, revision,
                          durable, tracked>>
    BY <1>a, <1>37 DEF CommitInv, AtRest, Usable, Sealed
  <1>38. QED
    BY <1>1, <1>2, <1>3, <1>4, <1>5, <1>6, <1>7, <1>8, <1>9, <1>10, <1>11, <1>12,
    <1>13, <1>14, <1>15, <1>16, <1>17, <1>18, <1>19, <1>20, <1>21, <1>22, <1>23, <1>24,
    <1>25, <1>26, <1>27, <1>28, <1>29, <1>30, <1>31, <1>32, <1>33, <1>34, <1>35, <1>36,
    <1>37 DEF PiNext, RunStep, CancelStep, CleanStep, DisposeStep, PrepareStep

\* Failure, cleanup and disposal are final, and each quells the active run.
LEMMA EndInvStep ==
    ASSUME PiInv, LateInput = FALSE, [PiNext]_piVars
    PROVE  EndInv'
  <1> USE SessionAssumption, FenceAssumption
  <1>a. RunTypeOK /\ CancelInv /\ EndInv
    BY DEF PiInv, PiTypeOK
  <1>1. ASSUME NEW r \in Runs, InputPrompt(r) PROVE EndInv'
    BY <1>a, <1>1
    DEF InputPrompt, CallerMayEnter, Live, Closed, Usable, EndInv, fenceVars,
        procVars
  <1>2. ASSUME NEW r \in Runs, DeadlinePasses(r) PROVE EndInv'
    BY <1>a, <1>2
    DEF DeadlinePasses, Marked, Closed, Quelled, Usable, EndInv, fenceVars, procVars,
        envVars
  <1>3. ASSUME NEW r \in Runs, DeadlineFires(r) PROVE EndInv'
    BY <1>a, <1>3
    DEF DeadlineFires, Elapsed, Sealed, TimeoutActive, Closed, Quelled, Usable,
        EndInv, fenceVars, envVars
  <1>4. ASSUME NEW r \in Runs, PromptStarts(r) PROVE EndInv'
    BY <1>a, <1>4
    DEF PromptStarts, Track, Usable, PersistenceFailed, Marked, Quelled, RunTypeOK,
        EndInv
  <1>5. ASSUME NEW r \in Runs, RunExpires(r) PROVE EndInv'
    BY <1>a, <1>5
    DEF RunExpires, Elapsed, Sealed, TimeoutActive, Closed, Quelled, Usable, EndInv,
        fenceVars, envVars
  <1>6. ASSUME NEW r \in Runs, RunSettles(r) PROVE EndInv'
    BY <1>a, <1>6
    DEF RunSettles, Sealed, Terminal, Closed, Quelled, Usable, EndInv, fenceVars,
        envVars
  <1>7. ASSUME NEW w \in Waiters, CommitCall(w) PROVE EndInv'
    BY <1>a, <1>7
    DEF CommitCall, CommitBegins, Usable, PersistenceFailed, Marked, Closed, Quelled,
        RunTypeOK, EndInv, fenceVars
  <1>8. CASE CommitSettles
    BY <1>a, <1>8
    DEF CommitSettles, CommitPublishes, Usable, PersistenceFailed, Marked, Closed,
        Quelled, RunTypeOK, EndInv
  <1>9. CASE NativeAppends
    BY <1>a, <1>9
    DEF NativeAppends, Persist, Usable, PersistenceFailed, Marked, Closed, Quelled,
        RunTypeOK, EndInv
  <1>10. CASE AbortRequest
    BY <1>a, <1>10 DEF AbortRequest, Live, Marked, Quelled, Usable, EndInv, fenceVars
  <1>11. CASE AbortSettles
    BY <1>a, <1>11
    DEF AbortSettles, Closed, Quelled, Usable, EndInv, fenceVars, runVars, envVars
  <1>12. CASE CancelTimesOut
    BY <1>a, <1>12
    DEF CancelTimesOut, Closed, Quelled, Usable, EndInv, fenceVars, runVars, envVars
  <1>13. CASE CancelJoins
    BY <1>a, <1>13
    DEF CancelJoins, Closed, Quelled, Usable, EndInv, fenceVars, runVars, envVars
  <1>14. CASE CancelCompletes
    BY <1>a, <1>14
    DEF CancelCompletes, Terminal, Marked, Closed, Quelled, Usable, RunTypeOK,
        CancelInv, EndInv, fenceVars, envVars
  <1>15. CASE CancelFails
    BY <1>a, <1>15
    DEF CancelFails, Closed, Quelled, Usable, EndInv, fenceVars, runVars, envVars
  <1>16. CASE FailClosed
    BY <1>a, <1>16 DEF FailClosed, Marked, Closed, Quelled, RunTypeOK, EndInv, envVars
  <1>17. CASE CleanTimesOut
    BY <1>a, <1>17 DEF CleanTimesOut, Closed, Quelled, EndInv, runVars, envVars
  <1>18. CASE CleanIsIdle
    BY <1>a, <1>18 DEF CleanIsIdle, Closed, Quelled, EndInv, runVars
  <1>19. CASE CleanCommitted
    BY <1>a, <1>19 DEF CleanCommitted, Closed, Quelled, EndInv, runVars
  <1>20. CASE CleanFails
    BY <1>a, <1>20 DEF CleanFails, Quelled, EndInv
  <1>21. CASE CleanEnds
    BY <1>a, <1>21 DEF CleanEnds, Quelled, EndInv
  <1>22. CASE Dispose
    BY <1>a, <1>22 DEF Dispose, Closed, Quelled, EndInv
  <1>23. CASE DisposeJoins
    BY <1>a, <1>23 DEF DisposeJoins, Closed, Quelled, EndInv
  <1>24. CASE DisposeProceeds
    BY <1>a, <1>24 DEF DisposeProceeds, Closed, Quelled, EndInv, runVars
  <1>25. CASE DisposeCleaned
    BY <1>a, <1>25 DEF DisposeCleaned, Closed, Quelled, EndInv
  <1>26. CASE DisposeCommitted
    BY <1>a, <1>26 DEF DisposeCommitted, Closed, Quelled, EndInv
  <1>27. CASE DisposeEnds
    BY <1>a, <1>27 DEF DisposeEnds, Closed, Quelled, EndInv
  <1>28. CASE PrepareShutdown
    BY <1>a, <1>28 DEF PrepareShutdown, Quelled, Usable, CancelInv, EndInv, fenceVars
  <1>29. CASE PrepareCommitted
    BY <1>a, <1>29
    DEF PrepareCommitted, Closed, Quelled, Usable, EndInv, fenceVars, runVars,
        envVars
  <1>30. CASE PrepareMapped
    BY <1>a, <1>30
    DEF PrepareMapped, Closed, Quelled, Usable, EndInv, fenceVars, runVars, envVars
  <1>31. CASE PrepareExported
    BY <1>a, <1>31
    DEF PrepareExported, Publishable, Closed, Quelled, Usable, EndInv, fenceVars,
        envVars
  <1>32. CASE PrepareCleaned
    BY <1>a, <1>32 DEF PrepareCleaned, Closed, Quelled, EndInv, runVars
  <1>33. CASE SinkGone
    BY <1>a, <1>33 DEF SinkGone, Closed, Quelled, EndInv, runVars, procVars
  <1>34. ASSUME \E r \in Runs : \/ InputQueued(r) \/ PromptEnds(r) \/ RunReturns(r)
                                \/ RunFlushes(r) \/ RunCommitted(r)
                                \/ RunFlushFails(r) \/ RunCleaned(r)
         PROVE  UNCHANGED <<phase, active, mark, clean, disp, sink, cause, prep, cxStep>>
    BY <1>34
    DEF InputQueued, PromptEnds, Retire, RunReturns, RunFlushes, RunCommitted,
        RunFlushFails, RunCleaned, fenceVars, runVars, procVars, envVars
  <1>35. ASSUME \/ EventRefused \/ GitEventRefused \/ Navigate \/ NavigateReturns
                \/ NavigateEnds \/ UNCHANGED piVars
         PROVE  UNCHANGED <<phase, active, mark, clean, disp, sink, cause, prep, cxStep>>
    BY <1>35
    DEF EventRefused, GitEventRefused, Navigate, Track, NavigateReturns, Retire,
        NavigateEnds, piVars, fenceVars, runVars, procVars, envVars
  <1>36. CASE UNCHANGED <<phase, active, mark, clean, disp, sink, cause, prep,
                          cxStep>>
    BY <1>a, <1>36 DEF EndInv, Closed, Quelled, Usable
  <1>37. QED
    BY <1>1, <1>2, <1>3, <1>4, <1>5, <1>6, <1>7, <1>8, <1>9, <1>10, <1>11, <1>12,
    <1>13, <1>14, <1>15, <1>16, <1>17, <1>18, <1>19, <1>20, <1>21, <1>22, <1>23, <1>24,
    <1>25, <1>26, <1>27, <1>28, <1>29, <1>30, <1>31, <1>32, <1>33, <1>34, <1>35, <1>36
    DEF PiNext, RunStep, CancelStep, CleanStep, DisposeStep, PrepareStep

\* The run that is being cancelled stays suppressed, whoever ends it first.
LEMMA CancelInvStep ==
    ASSUME PiInv, LateInput = FALSE, [PiNext]_piVars
    PROVE  CancelInv'
  <1> USE SessionAssumption, FenceAssumption
  <1>a. RunTypeOK /\ RunsInv /\ EndInv /\ CommitInv /\ CancelInv
    BY DEF PiInv, PiTypeOK
  <1>1. ASSUME NEW r \in Runs, InputPrompt(r) PROVE CancelInv'
    BY <1>a, <1>1 DEF InputPrompt, Live, CancelInv, procVars
  <1>2. ASSUME NEW r \in Runs, InputQueued(r) PROVE CancelInv'
    BY <1>a, <1>2 DEF InputQueued, CancelInv
  <1>3. ASSUME NEW r \in Runs, DeadlinePasses(r) PROVE CancelInv'
    BY <1>a, <1>3 DEF DeadlinePasses, Marked, Closed, CancelInv, procVars, envVars
  <1>4. ASSUME NEW r \in Runs, DeadlineFires(r) PROVE CancelInv'
    BY <1>a, <1>4
    DEF DeadlineFires, Drained, Elapsed, Sealed, TimeoutActive, Marked, Quelled,
        RunTypeOK, RunsInv, EndInv, CancelInv
  <1>5. ASSUME NEW r \in Runs, PromptEnds(r) PROVE CancelInv'
    BY <1>a, <1>5 DEF PromptEnds, Drained, Discards, Closed, CancelInv, envVars
  <1>6. ASSUME NEW r \in Runs, PromptStarts(r) PROVE CancelInv'
    BY <1>a, <1>6 DEF PromptStarts, CancelInv
  <1>7. ASSUME NEW r \in Runs, RunReturns(r) PROVE CancelInv'
    BY <1>a, <1>7 DEF RunReturns, Closed, CancelInv, envVars
  <1>8. ASSUME NEW r \in Runs, RunExpires(r) PROVE CancelInv'
    BY <1>a, <1>8
    DEF RunExpires, Resumes, Drained, Elapsed, Sealed, TimeoutActive, Marked,
        Quelled, RunTypeOK, EndInv, CancelInv
  <1>9. ASSUME NEW r \in Runs, RunFlushes(r) PROVE CancelInv'
    BY <1>a, <1>9 DEF RunFlushes, Closed, RunTypeOK, CancelInv, envVars
  <1>10. ASSUME NEW r \in Runs, RunCommitted(r) PROVE CancelInv'
    BY <1>a, <1>10 DEF RunCommitted, Closed, CancelInv, envVars
  <1>11. ASSUME NEW r \in Runs, RunFlushFails(r) PROVE CancelInv'
    BY <1>a, <1>11
    DEF RunFlushFails, Closed, EndInv, CommitInv, CancelInv, envVars, Waiters
  <1>12. ASSUME NEW r \in Runs, RunSettles(r) PROVE CancelInv'
    BY <1>a, <1>12 DEF RunSettles, Sealed, CancelInv
  <1>13. ASSUME NEW r \in Runs, RunCleaned(r) PROVE CancelInv'
    BY <1>a, <1>13 DEF RunCleaned, Closed, CancelInv, procVars, envVars
  <1>14. ASSUME NEW w \in Waiters, CommitCall(w) PROVE CancelInv'
    BY <1>a, <1>14
    DEF CommitCall, PersistenceFailed, Marked, Closed, RunTypeOK, CancelInv
  <1>15. CASE CommitSettles
    BY <1>a, <1>15
    DEF CommitSettles, PersistenceFailed, Marked, Closed, RunTypeOK, CancelInv
  <1>16. CASE NativeAppends
    BY <1>a, <1>16
    DEF NativeAppends, PersistenceFailed, Marked, Closed, RunTypeOK, CancelInv
  <1>17. CASE EventRefused
    BY <1>a, <1>17 DEF EventRefused, Closed, CancelInv, runVars, envVars
  <1>18. CASE GitEventRefused
    BY <1>a, <1>18 DEF GitEventRefused, Closed, CancelInv, runVars, envVars
  <1>19. CASE AbortRequest
    BY <1>a, <1>19
    DEF AbortRequest, Drained, Live, Marked, Closed, RunTypeOK, RunsInv, EndInv,
        CancelInv, envVars
  <1>20. CASE AbortSettles
    BY <1>a, <1>20 DEF AbortSettles, Closed, CancelInv, runVars, envVars
  <1>21. CASE CancelTimesOut
    BY <1>a, <1>21 DEF CancelTimesOut, Closed, CancelInv, runVars, envVars
  <1>22. CASE CancelJoins
    BY <1>a, <1>22 DEF CancelJoins, Closed, CancelInv, runVars, envVars
  <1>23. CASE CancelCompletes
    BY <1>a, <1>23 DEF CancelCompletes, CancelInv
  <1>24. CASE CancelFails
    BY <1>a, <1>24 DEF CancelFails, CancelInv
  <1>25. CASE FailClosed
    BY <1>a, <1>25 DEF FailClosed, Marked, Closed, RunTypeOK, CancelInv, envVars
  <1>26. CASE CleanTimesOut
    BY <1>a, <1>26 DEF CleanTimesOut, Closed, CancelInv, runVars, envVars
  <1>27. CASE CleanIsIdle
    BY <1>a, <1>27 DEF CleanIsIdle, Closed, CancelInv, runVars
  <1>28. CASE CleanCommitted
    BY <1>a, <1>28 DEF CleanCommitted, Closed, CancelInv, runVars
  <1>29. CASE CleanFails
    BY <1>a, <1>29 DEF CleanFails, CancelInv
  <1>30. CASE CleanEnds
    BY <1>a, <1>30 DEF CleanEnds, CancelInv
  <1>31. CASE Dispose
    BY <1>a, <1>31 DEF Dispose, Closed, CancelInv
  <1>32. CASE DisposeJoins
    BY <1>a, <1>32 DEF DisposeJoins, Closed, CancelInv
  <1>33. CASE DisposeProceeds
    BY <1>a, <1>33 DEF DisposeProceeds, Closed, CancelInv, runVars
  <1>34. CASE DisposeCleaned
    BY <1>a, <1>34 DEF DisposeCleaned, Closed, CancelInv
  <1>35. CASE DisposeCommitted
    BY <1>a, <1>35 DEF DisposeCommitted, Closed, CancelInv
  <1>36. CASE DisposeEnds
    BY <1>a, <1>36 DEF DisposeEnds, Closed, CancelInv
  <1>37. CASE PrepareShutdown
    BY <1>a, <1>37 DEF PrepareShutdown, CancelInv
  <1>38. CASE PrepareCommitted
    BY <1>a, <1>38 DEF PrepareCommitted, Closed, EndInv, CancelInv, runVars
  <1>39. CASE PrepareMapped
    BY <1>a, <1>39 DEF PrepareMapped, Closed, EndInv, CancelInv, runVars
  <1>40. CASE PrepareExported
    BY <1>a, <1>40 DEF PrepareExported, Closed, EndInv, CancelInv
  <1>41. CASE SinkGone
    BY <1>a, <1>41 DEF SinkGone, Closed, CancelInv, runVars, procVars
  <1>42. ASSUME \/ PrepareCleaned \/ Navigate \/ NavigateReturns \/ NavigateEnds
                \/ UNCHANGED piVars
         PROVE  UNCHANGED <<cxRun, cxStep, mark, active, phase, pc, queue, failReq, clean, disp, sink>>
    BY <1>42
    DEF PrepareCleaned, Navigate, Track, NavigateReturns, Retire, NavigateEnds,
        piVars, fenceVars, runVars, procVars, envVars
  <1>43. CASE UNCHANGED <<cxRun, cxStep, mark, active, phase, pc, queue, failReq,
                          clean, disp, sink>>
    BY <1>a, <1>43 DEF CancelInv, Closed, Quelled, Usable
  <1>44. QED
    BY <1>1, <1>2, <1>3, <1>4, <1>5, <1>6, <1>7, <1>8, <1>9, <1>10, <1>11, <1>12,
    <1>13, <1>14, <1>15, <1>16, <1>17, <1>18, <1>19, <1>20, <1>21, <1>22, <1>23, <1>24,
    <1>25, <1>26, <1>27, <1>28, <1>29, <1>30, <1>31, <1>32, <1>33, <1>34, <1>35, <1>36,
    <1>37, <1>38, <1>39, <1>40, <1>41, <1>42, <1>43 DEF PiNext, RunStep, CancelStep,
    CleanStep, DisposeStep, PrepareStep

\* Queued inputs are of the active run, and a cleanup has discarded them.
LEMMA QueueInvStep ==
    ASSUME PiInv, LateInput = FALSE, [PiNext]_piVars
    PROVE  QueueInv'
  <1> USE SessionAssumption, FenceAssumption
  <1>a. RunTypeOK /\ RunsInv /\ EndInv /\ CancelInv /\ QueueInv
    BY DEF PiInv, PiTypeOK
  <1>1. ASSUME NEW r \in Runs, InputPrompt(r) PROVE QueueInv'
    BY <1>a, <1>1 DEF InputPrompt, RunTypeOK, QueueInv
  <1>2. ASSUME NEW r \in Runs, InputQueued(r) PROVE QueueInv'
    BY <1>a, <1>2 DEF InputQueued, RunsInv, EndInv, QueueInv
  <1>3. ASSUME NEW r \in Runs, DeadlineFires(r) PROVE QueueInv'
    BY <1>a, <1>3 DEF DeadlineFires, TimeoutActive, QueueInv
  <1>4. ASSUME NEW r \in Runs, PromptEnds(r) PROVE QueueInv'
    BY <1>a, <1>4 DEF PromptEnds, QueueInv
  <1>5. ASSUME NEW r \in Runs, PromptStarts(r) PROVE QueueInv'
    BY <1>a, <1>5 DEF PromptStarts, RunTypeOK, QueueInv
  <1>6. ASSUME NEW r \in Runs, RunReturns(r) PROVE QueueInv'
    BY <1>a, <1>6 DEF RunReturns, QueueInv
  <1>7. ASSUME NEW r \in Runs, RunExpires(r) PROVE QueueInv'
    BY <1>a, <1>7 DEF RunExpires, TimeoutActive, QueueInv
  <1>8. ASSUME NEW r \in Runs, RunFlushes(r) PROVE QueueInv'
    BY <1>a, <1>8 DEF RunFlushes, RunTypeOK, QueueInv
  <1>9. ASSUME NEW r \in Runs, RunCommitted(r) PROVE QueueInv'
    BY <1>a, <1>9 DEF RunCommitted, QueueInv
  <1>10. ASSUME NEW r \in Runs, RunFlushFails(r) PROVE QueueInv'
    BY <1>a, <1>10 DEF RunFlushFails, QueueInv
  <1>11. ASSUME NEW r \in Runs, RunSettles(r) PROVE QueueInv'
    BY <1>a, <1>11 DEF RunSettles, Terminal, QueueInv
  <1>12. ASSUME NEW r \in Runs, RunCleaned(r) PROVE QueueInv'
    BY <1>a, <1>12 DEF RunCleaned, QueueInv, procVars
  <1>13. CASE AbortRequest
    BY <1>a, <1>13 DEF AbortRequest, QueueInv
  <1>14. CASE AbortSettles
    BY <1>a, <1>14 DEF AbortSettles, QueueInv, runVars
  <1>15. CASE CancelCompletes
    BY <1>a, <1>15 DEF CancelCompletes, CancelInv, QueueInv
  <1>16. CASE FailClosed
    BY <1>a, <1>16 DEF FailClosed, QueueInv
  <1>17. CASE CleanTimesOut
    BY <1>a, <1>17 DEF CleanTimesOut, QueueInv, runVars
  <1>18. CASE CleanIsIdle
    BY <1>a, <1>18 DEF CleanIsIdle, QueueInv, runVars
  <1>19. CASE CleanCommitted
    BY <1>a, <1>19 DEF CleanCommitted, QueueInv, runVars
  <1>20. CASE CleanFails
    BY <1>a, <1>20 DEF CleanFails, QueueInv
  <1>21. CASE CleanEnds
    BY <1>a, <1>21 DEF CleanEnds, QueueInv
  <1>22. ASSUME \E r \in Runs : DeadlinePasses(r)
         PROVE  UNCHANGED <<queue, active, pc, clean>>
    BY <1>22 DEF DeadlinePasses, Marked, fenceVars, runVars, procVars, envVars
  <1>23. ASSUME \E w \in Waiters : CommitCall(w)
         PROVE  UNCHANGED <<queue, active, pc, clean>>
    BY <1>23
    DEF CommitCall, CommitBegins, CommitNotAtRest, CommitScanFails, Poison,
        PersistenceFailed, Marked, fenceVars, runVars, procVars, envVars
  <1>24. ASSUME \/ CommitSettles \/ NativeAppends \/ EventRefused
                \/ GitEventRefused \/ CancelTimesOut \/ CancelJoins \/ CancelFails
                \/ Dispose \/ DisposeJoins \/ DisposeProceeds \/ DisposeCleaned
                \/ DisposeCommitted \/ DisposeEnds \/ PrepareShutdown
                \/ PrepareCommitted \/ PrepareMapped \/ PrepareExported
                \/ PrepareCleaned \/ Navigate \/ NavigateReturns \/ NavigateEnds
                \/ SinkGone \/ UNCHANGED piVars
         PROVE  UNCHANGED <<queue, active, pc, clean>>
    BY <1>24
    DEF CommitSettles, CommitPublishes, CommitFails, Poison, PersistenceFailed,
        Marked, NativeAppends, Persist, PersistFails, EventRefused, GitEventRefused,
        CancelTimesOut, CancelJoins, CancelFails, Dispose, DisposeJoins,
        DisposeProceeds, DisposeCleaned, DisposeCommitted, DisposeEnds,
        PrepareShutdown, PrepareCommitted, PrepareMapped, PrepareExported,
        PrepareCleaned, Navigate, Track, NavigateReturns, Retire, NavigateEnds,
        SinkGone, piVars, fenceVars, runVars, procVars, envVars
  <1>25. CASE UNCHANGED <<queue, active, pc, clean>>
    BY <1>a, <1>25 DEF QueueInv
  <1>26. QED
    BY <1>1, <1>2, <1>3, <1>4, <1>5, <1>6, <1>7, <1>8, <1>9, <1>10, <1>11, <1>12,
    <1>13, <1>14, <1>15, <1>16, <1>17, <1>18, <1>19, <1>20, <1>21, <1>22, <1>23, <1>24,
    <1>25 DEF PiNext, RunStep, CancelStep, CleanStep, DisposeStep, PrepareStep

\* Resources go only after the tracked work has.
LEMMA HeldInvStep ==
    ASSUME PiInv, LateInput = FALSE, [PiNext]_piVars
    PROVE  HeldInv'
  <1> USE SessionAssumption, FenceAssumption
  <1>a. EndInv /\ CommitInv /\ HeldInv
    BY DEF PiInv, PiTypeOK
  <1>1. ASSUME NEW r \in Runs, PromptEnds(r) PROVE HeldInv'
    BY <1>a, <1>1 DEF PromptEnds, Retire, HeldInv, envVars
  <1>2. ASSUME NEW r \in Runs, PromptStarts(r) PROVE HeldInv'
    BY <1>a, <1>2 DEF PromptStarts, EndInv, HeldInv
  <1>3. CASE AbortSettles
    BY <1>a, <1>3 DEF AbortSettles, HeldInv, fenceVars, envVars
  <1>4. CASE FailClosed
    BY <1>a, <1>4 DEF FailClosed, HeldInv, fenceVars, envVars
  <1>5. CASE CleanTimesOut
    BY <1>a, <1>5 DEF CleanTimesOut, HeldInv, fenceVars, envVars
  <1>6. CASE CleanIsIdle
    BY <1>a, <1>6 DEF CleanIsIdle, HeldInv, fenceVars
  <1>7. CASE CleanCommitted
    BY <1>a, <1>7
    DEF CleanCommitted, AtRest, CommitInv, HeldInv, fenceVars, Waiters, Owners
  <1>8. CASE CleanFails
    BY <1>a, <1>8 DEF CleanFails, HeldInv, fenceVars
  <1>9. CASE CleanEnds
    BY <1>a, <1>9 DEF CleanEnds, Both, HeldInv, fenceVars
  <1>10. CASE Dispose
    BY <1>a, <1>10 DEF Dispose, HeldInv, fenceVars, envVars
  <1>11. CASE DisposeJoins
    BY <1>a, <1>11 DEF DisposeJoins, HeldInv, fenceVars, envVars
  <1>12. CASE DisposeProceeds
    BY <1>a, <1>12 DEF DisposeProceeds, HeldInv, fenceVars, envVars
  <1>13. CASE DisposeCleaned
    BY <1>a, <1>13 DEF DisposeCleaned, HeldInv, fenceVars, envVars
  <1>14. CASE DisposeCommitted
    BY <1>a, <1>14
    DEF DisposeCommitted, AtRest, CommitInv, HeldInv, fenceVars, Waiters, Owners
  <1>15. CASE DisposeEnds
    BY <1>a, <1>15 DEF DisposeEnds, Both, HeldInv, fenceVars
  <1>16. CASE Navigate
    BY <1>a, <1>16
    DEF Navigate, CallerMayEnter, Live, Closed, EndInv, HeldInv, envVars
  <1>17. CASE NavigateReturns
    BY <1>a, <1>17 DEF NavigateReturns, Retire, HeldInv, envVars
  <1>18. ASSUME \E r \in Runs : \/ InputPrompt(r) \/ InputQueued(r)
                                \/ DeadlinePasses(r) \/ DeadlineFires(r)
                                \/ RunReturns(r) \/ RunExpires(r) \/ RunFlushes(r)
                                \/ RunCommitted(r) \/ RunFlushFails(r)
                                \/ RunSettles(r) \/ RunCleaned(r)
         PROVE  UNCHANGED <<held, tracked, clean, disp>>
    BY <1>18
    DEF InputPrompt, InputQueued, DeadlinePasses, DeadlineFires, RunReturns,
        RunExpires, RunFlushes, RunCommitted, RunFlushFails, RunSettles, RunCleaned,
        fenceVars, procVars, envVars
  <1>19. ASSUME \E w \in Waiters : CommitCall(w)
         PROVE  UNCHANGED <<held, tracked, clean, disp>>
    BY <1>19
    DEF CommitCall, CommitBegins, CommitNotAtRest, CommitScanFails, Poison,
        PersistenceFailed, Marked, fenceVars, runVars, procVars, envVars
  <1>20. ASSUME \/ CommitSettles \/ NativeAppends \/ EventRefused
                \/ GitEventRefused \/ AbortRequest \/ CancelTimesOut \/ CancelJoins
                \/ CancelCompletes \/ CancelFails \/ PrepareShutdown
                \/ PrepareCommitted \/ PrepareMapped \/ PrepareExported
                \/ PrepareCleaned \/ NavigateEnds \/ SinkGone \/ UNCHANGED piVars
         PROVE  UNCHANGED <<held, tracked, clean, disp>>
    BY <1>20
    DEF CommitSettles, CommitPublishes, CommitFails, NativeAppends, Persist,
        PersistFails, EventRefused, GitEventRefused, AbortRequest, CancelTimesOut,
        CancelJoins, CancelCompletes, CancelFails, PrepareShutdown, PrepareCommitted, PrepareMapped,
        PrepareExported, PrepareCleaned, NavigateEnds, SinkGone, piVars, fenceVars,
        runVars, procVars, envVars
  <1>21. CASE UNCHANGED <<held, tracked, clean, disp>>
    BY <1>a, <1>21 DEF HeldInv
  <1>22. QED
    BY <1>1, <1>2, <1>3, <1>4, <1>5, <1>6, <1>7, <1>8, <1>9, <1>10, <1>11, <1>12,
    <1>13, <1>14, <1>15, <1>16, <1>17, <1>18, <1>19, <1>20, <1>21 DEF PiNext, RunStep,
    CancelStep, CleanStep, DisposeStep, PrepareStep

\* A run that was admitted has ended, or something has taken over that ends it.
LEMMA RunsInvStep ==
    ASSUME PiInv, LateInput = FALSE, [PiNext]_piVars
    PROVE  RunsInv'
  <1> USE SessionAssumption, FenceAssumption
  <1>a. RunTypeOK /\ EndInv /\ HeldInv /\ CancelInv /\ RunsInv
    BY DEF PiInv, PiTypeOK
  <1>1. ASSUME NEW r \in Runs, InputPrompt(r) PROVE RunsInv'
    BY <1>a, <1>1 DEF InputPrompt, RunTypeOK, RunsInv, procVars
  <1>2. ASSUME NEW r \in Runs, InputQueued(r) PROVE RunsInv'
    BY <1>a, <1>2 DEF InputQueued, Drained, RunsInv
  <1>3. ASSUME NEW r \in Runs, DeadlinePasses(r) PROVE RunsInv'
    BY <1>a, <1>3 DEF DeadlinePasses, Marked, RunsInv, procVars
  <1>4. ASSUME NEW r \in Runs, DeadlineFires(r) PROVE RunsInv'
    BY <1>a, <1>4
    DEF DeadlineFires, Elapsed, Sealed, TimeoutActive, Marked, RunTypeOK, RunsInv
  <1>5. ASSUME NEW r \in Runs, PromptEnds(r) PROVE RunsInv'
    BY <1>a, <1>5 DEF PromptEnds, Drained, RunsInv
  <1>6. ASSUME NEW r \in Runs, PromptStarts(r) PROVE RunsInv'
    BY <1>a, <1>6
    DEF PromptStarts, Sealed, PersistenceFailed, Marked, RunTypeOK, RunsInv
  <1>7. ASSUME NEW r \in Runs, RunReturns(r) PROVE RunsInv'
    BY <1>a, <1>7 DEF RunReturns, Resumes, RunsInv
  <1>8. ASSUME NEW r \in Runs, RunExpires(r) PROVE RunsInv'
    BY <1>a, <1>8 DEF RunExpires, TimeoutActive, Marked, RunTypeOK, RunsInv
  <1>9. ASSUME NEW r \in Runs, RunFlushes(r) PROVE RunsInv'
    BY <1>a, <1>9 DEF RunFlushes, RunTypeOK, RunsInv
  <1>10. ASSUME NEW r \in Runs, RunCommitted(r) PROVE RunsInv'
    BY <1>a, <1>10 DEF RunCommitted, RunsInv
  <1>11. ASSUME NEW r \in Runs, RunFlushFails(r) PROVE RunsInv'
    BY <1>a, <1>11 DEF RunFlushFails, RunsInv
  <1>12. ASSUME NEW r \in Runs, RunSettles(r) PROVE RunsInv'
    BY <1>a, <1>12 DEF RunSettles, Terminal, Marked, RunTypeOK, RunsInv
  <1>13. ASSUME NEW r \in Runs, RunCleaned(r) PROVE RunsInv'
    BY <1>a, <1>13 DEF RunCleaned, RunsInv, procVars
  <1>14. ASSUME NEW w \in Waiters, CommitCall(w) PROVE RunsInv'
    <2>1. UNCHANGED <<active, pc, events, clean, disp>>
      BY <1>14 DEF CommitCall
    <2>2. (failReq => failReq') /\ \A r \in Runs : "terminal" \in mark'[r] <=> "terminal" \in mark[r]
      BY <1>a, <1>14, PersistenceFailedMarks DEF CommitCall
    <2>3. QED
      BY <1>a, <2>1, <2>2 DEF RunsInv
  <1>15. CASE CommitSettles
    <2>1. UNCHANGED <<active, pc, events, clean, disp>>
      BY <1>15 DEF CommitSettles
    <2>2. (failReq => failReq') /\ \A r \in Runs : "terminal" \in mark'[r] <=> "terminal" \in mark[r]
      BY <1>a, <1>15, PersistenceFailedMarks DEF CommitSettles
    <2>3. QED
      BY <1>a, <2>1, <2>2 DEF RunsInv
  <1>16. CASE NativeAppends
    <2>1. UNCHANGED <<active, pc, events, clean, disp>>
      BY <1>16 DEF NativeAppends
    <2>2. (failReq => failReq') /\ \A r \in Runs : "terminal" \in mark'[r] <=> "terminal" \in mark[r]
      BY <1>a, <1>16, PersistenceFailedMarks DEF NativeAppends
    <2>3. QED
      BY <1>a, <2>1, <2>2 DEF RunsInv
  <1>17. CASE EventRefused
    BY <1>a, <1>17 DEF EventRefused, RunsInv, runVars
  <1>18. CASE GitEventRefused
    BY <1>a, <1>18 DEF GitEventRefused, RunsInv, runVars
  <1>19. CASE AbortRequest
    BY <1>a, <1>19 DEF AbortRequest, Marked, RunsInv
  <1>20. CASE AbortSettles
    BY <1>a, <1>20 DEF AbortSettles, RunsInv, runVars
  <1>21. CASE CancelCompletes
    <2>1. /\ cxRun \in Runs /\ pc[cxRun] = "done" /\ active \in {cxRun, NoRun}
          /\ UNCHANGED <<pc, clean, disp>> /\ mark \in [Runs -> SUBSET Marks]
      BY <1>a, <1>21 DEF CancelCompletes, CancelInv, RunTypeOK, Marks
    <2>2. CASE Terminal(cxRun, "aborted")
      <3>1. mark' = [mark EXCEPT ![cxRun] = @ \cup {"terminal", "suppress"}]
        BY <2>1, <2>2, SessionAssumption DEF Terminal, Marked
      <3>2. CASE failReq' = TRUE /\ UNCHANGED <<events, active>>
        BY <1>a, <2>1, <3>1, <3>2 DEF RunsInv
      <3>3. CASE events' = [events EXCEPT ![cxRun] = Append(@, "aborted")] /\ active' = NoRun /\ failReq' = failReq
        <4>1. events[cxRun] \in Seq(Kinds) /\ "aborted" \in Kinds
          BY <1>a, <2>1 DEF RunTypeOK, Kinds
        <4>2. events \in [Runs -> Seq(Kinds)] /\ Append(events[cxRun], "aborted") # <<>>
          BY <1>a, <4>1, AppendNonempty DEF RunTypeOK, Kinds
        <4>3. QED
          BY <1>a, <2>1, <3>1, <3>3, <4>2 DEF RunsInv
      <3>4. QED
        BY <2>1, <2>2, <3>2, <3>3 DEF Terminal
    <2>3. CASE /\ mark' = mark /\ events' = events /\ failReq' = failReq
               /\ "terminal" \in mark[cxRun] /\ active' = NoRun
      BY <1>a, <2>1, <2>3 DEF RunsInv
    <2>4. QED
      BY <1>a, <1>21, <2>1, <2>2, <2>3 DEF CancelCompletes
  <1>22. CASE CancelFails
    BY <1>a, <1>22 DEF CancelFails, RunsInv, runVars
  <1>23. CASE FailClosed
    BY <1>a, <1>23
    DEF FailClosed, Marked, Discards, RunTypeOK, EndInv, HeldInv, RunsInv
  <1>24. CASE CleanTimesOut
    BY <1>a, <1>24 DEF CleanTimesOut, RunsInv, runVars
  <1>25. CASE CleanIsIdle
    BY <1>a, <1>25 DEF CleanIsIdle, RunsInv, runVars
  <1>26. CASE CleanCommitted
    BY <1>a, <1>26 DEF CleanCommitted, RunsInv, runVars
  <1>27. CASE CleanFails
    BY <1>a, <1>27 DEF CleanFails, RunsInv
  <1>28. CASE CleanEnds
    BY <1>a, <1>28 DEF CleanEnds, RunsInv
  <1>29. CASE Dispose
    BY <1>a, <1>29 DEF Dispose, RunsInv
  <1>30. CASE DisposeJoins
    BY <1>a, <1>30 DEF DisposeJoins, RunsInv
  <1>31. CASE DisposeProceeds
    BY <1>a, <1>31 DEF DisposeProceeds, RunsInv, runVars
  <1>32. CASE DisposeCleaned
    BY <1>a, <1>32 DEF DisposeCleaned, RunsInv
  <1>33. CASE DisposeCommitted
    BY <1>a, <1>33 DEF DisposeCommitted, RunsInv
  <1>34. CASE DisposeEnds
    BY <1>a, <1>34 DEF DisposeEnds, RunsInv
  <1>35. CASE PrepareCommitted
    BY <1>a, <1>35 DEF PrepareCommitted, RunsInv, runVars
  <1>36. CASE PrepareMapped
    BY <1>a, <1>36 DEF PrepareMapped, Drained, RunsInv, runVars
  <1>37. CASE PrepareExported
    BY <1>a, <1>37 DEF PrepareExported, RunsInv
  <1>38. ASSUME \/ CancelTimesOut \/ CancelJoins \/ PrepareShutdown
                \/ PrepareCleaned \/ Navigate \/ NavigateReturns \/ NavigateEnds
                \/ SinkGone \/ UNCHANGED piVars
         PROVE  UNCHANGED <<pc, events, active, mark, clean, disp, failReq>>
    BY <1>38
    DEF CancelTimesOut, CancelJoins, PrepareShutdown, PrepareCleaned, Navigate,
        Track, NavigateReturns, Retire, NavigateEnds, SinkGone, piVars, fenceVars,
        runVars, procVars, envVars
  <1>39. CASE UNCHANGED <<pc, events, active, mark, clean, disp, failReq>>
    BY <1>a, <1>39 DEF RunsInv
  <1>40. QED
    BY <1>1, <1>2, <1>3, <1>4, <1>5, <1>6, <1>7, <1>8, <1>9, <1>10, <1>11, <1>12,
    <1>13, <1>14, <1>15, <1>16, <1>17, <1>18, <1>19, <1>20, <1>21, <1>22, <1>23, <1>24,
    <1>25, <1>26, <1>27, <1>28, <1>29, <1>30, <1>31, <1>32, <1>33, <1>34, <1>35, <1>36,
    <1>37, <1>38, <1>39 DEF PiNext, RunStep, CancelStep, CleanStep, DisposeStep,
    PrepareStep

\* The flags have their types.
LEMMA FlagTypeOKStep ==
    ASSUME PiInv, LateInput = FALSE, [PiNext]_piVars
    PROVE  FlagTypeOK'
  <1> USE SessionAssumption, FenceAssumption
  <1>a. FlagTypeOK
    BY DEF PiInv, PiTypeOK
  <1>1. ASSUME NEW r \in Runs, InputQueued(r) PROVE FlagTypeOK'
    BY <1>a, <1>1 DEF InputQueued, FlagTypeOK, envVars
  <1>2. ASSUME NEW r \in Runs, DeadlineFires(r) PROVE FlagTypeOK'
    BY <1>a, <1>2 DEF DeadlineFires, TimeoutActive, FlagTypeOK, envVars
  <1>3. ASSUME NEW r \in Runs, PromptEnds(r) PROVE FlagTypeOK'
    BY <1>a, <1>3 DEF PromptEnds, FlagTypeOK, envVars
  <1>4. ASSUME NEW r \in Runs, PromptStarts(r) PROVE FlagTypeOK'
    BY <1>a, <1>4 DEF PromptStarts, PersistenceFailed, FlagTypeOK
  <1>5. ASSUME NEW r \in Runs, RunExpires(r) PROVE FlagTypeOK'
    BY <1>a, <1>5 DEF RunExpires, TimeoutActive, FlagTypeOK, envVars
  <1>6. ASSUME NEW r \in Runs, RunFlushFails(r) PROVE FlagTypeOK'
    BY <1>a, <1>6 DEF RunFlushFails, FlagTypeOK, envVars
  <1>7. ASSUME NEW r \in Runs, RunSettles(r) PROVE FlagTypeOK'
    BY <1>a, <1>7 DEF RunSettles, Terminal, FlagTypeOK, envVars
  <1>8. ASSUME NEW w \in Waiters, CommitCall(w) PROVE FlagTypeOK'
    BY <1>a, <1>8 DEF CommitCall, PersistenceFailed, FlagTypeOK
  <1>9. CASE CommitSettles
    BY <1>a, <1>9 DEF CommitSettles, PersistenceFailed, FlagTypeOK
  <1>10. CASE NativeAppends
    BY <1>a, <1>10 DEF NativeAppends, PersistenceFailed, FlagTypeOK
  <1>11. CASE EventRefused
    BY <1>a, <1>11 DEF EventRefused, FlagTypeOK, envVars
  <1>12. CASE GitEventRefused
    BY <1>a, <1>12 DEF GitEventRefused, FlagTypeOK, envVars
  <1>13. CASE CancelCompletes
    BY <1>a, <1>13 DEF CancelCompletes, Terminal, FlagTypeOK, envVars
  <1>14. CASE CancelFails
    BY <1>a, <1>14 DEF CancelFails, FlagTypeOK, envVars
  <1>15. CASE FailClosed
    BY <1>a, <1>15 DEF FailClosed, FlagTypeOK, envVars
  <1>16. CASE CleanFails
    BY <1>a, <1>16 DEF CleanFails, FlagTypeOK
  <1>17. CASE CleanEnds
    BY <1>a, <1>17 DEF CleanEnds, FlagTypeOK
  <1>18. CASE Dispose
    BY <1>a, <1>18 DEF Dispose, FlagTypeOK, envVars
  <1>19. CASE DisposeProceeds
    BY <1>a, <1>19 DEF DisposeProceeds, FlagTypeOK, envVars
  <1>20. CASE PrepareCommitted
    BY <1>a, <1>20 DEF PrepareCommitted, FlagTypeOK, envVars
  <1>21. CASE PrepareMapped
    BY <1>a, <1>21 DEF PrepareMapped, FlagTypeOK, envVars
  <1>22. CASE PrepareExported
    BY <1>a, <1>22 DEF PrepareExported, FlagTypeOK, envVars
  <1>23. CASE SinkGone
    BY <1>a, <1>23 DEF SinkGone, FlagTypeOK, procVars
  <1>24. ASSUME \E r \in Runs : \/ InputPrompt(r) \/ DeadlinePasses(r)
                                \/ RunReturns(r) \/ RunFlushes(r)
                                \/ RunCommitted(r) \/ RunCleaned(r)
         PROVE  UNCHANGED <<failReq, prepAbort, fatal, sink>>
    BY <1>24
    DEF InputPrompt, DeadlinePasses, Marked, RunReturns, RunFlushes, RunCommitted,
        RunCleaned, fenceVars, runVars, procVars, envVars
  <1>25. ASSUME \/ AbortRequest \/ AbortSettles \/ CancelTimesOut \/ CancelJoins
                \/ CleanTimesOut \/ CleanIsIdle \/ CleanCommitted \/ DisposeJoins
                \/ DisposeCleaned \/ DisposeCommitted \/ DisposeEnds
                \/ PrepareShutdown \/ PrepareCleaned \/ Navigate \/ NavigateReturns
                \/ NavigateEnds \/ UNCHANGED piVars
         PROVE  UNCHANGED <<failReq, prepAbort, fatal, sink>>
    BY <1>25
    DEF AbortRequest, Marked, AbortSettles, CancelTimesOut, CancelJoins,
        CleanTimesOut, CleanIsIdle, CleanCommitted, DisposeJoins, DisposeCleaned,
        DisposeCommitted, DisposeEnds, PrepareShutdown, PrepareCleaned, Navigate,
        Track, NavigateReturns, Retire, NavigateEnds, piVars, fenceVars, runVars,
        procVars, envVars
  <1>26. CASE UNCHANGED <<failReq, prepAbort, fatal, sink>>
    BY <1>a, <1>26 DEF FlagTypeOK
  <1>27. QED
    BY <1>1, <1>2, <1>3, <1>4, <1>5, <1>6, <1>7, <1>8, <1>9, <1>10, <1>11, <1>12,
    <1>13, <1>14, <1>15, <1>16, <1>17, <1>18, <1>19, <1>20, <1>21, <1>22, <1>23, <1>24,
    <1>25, <1>26 DEF PiNext, RunStep, CancelStep, CleanStep, DisposeStep, PrepareStep

\* The run's variables have their types.
LEMMA RunTypeOKStep ==
    ASSUME PiInv, LateInput = FALSE, [PiNext]_piVars
    PROVE  RunTypeOK'
  <1> USE SessionAssumption, FenceAssumption
  <1>a. ProcTypeOK /\ FlagTypeOK /\ FenceTypeOK /\ DurableIsSynced /\ CountInv /\
  RunsInv /\ HeldInv /\ CommitInv /\ CancelInv /\ RunTypeOK
    BY DEF PiInv, PiTypeOK
  <1>1. ASSUME NEW r \in Runs, InputPrompt(r) PROVE RunTypeOK'
    BY <1>a, <1>1 DEF InputPrompt, RunTypeOK
  <1>2. ASSUME NEW r \in Runs, InputQueued(r) PROVE RunTypeOK'
    BY <1>a, <1>2 DEF InputQueued, RunTypeOK
  <1>3. ASSUME NEW r \in Runs, DeadlinePasses(r) PROVE RunTypeOK'
    BY <1>a, <1>3 DEF DeadlinePasses, Marked, RunTypeOK
  <1>4. ASSUME NEW r \in Runs, DeadlineFires(r) PROVE RunTypeOK'
    <2>1. UNCHANGED <<active, reported>>
          /\ pc' \in {pc, [pc EXCEPT ![r] = "done"]}
      BY <1>4 DEF DeadlineFires
    <2>2. /\ phase' \in Phases /\ mark' \in [Runs -> SUBSET Marks]
          /\ events' \in [Runs -> Seq(Kinds)] /\ queue' \subseteq Runs
      BY <1>4, <1>a, TimeoutType DEF DeadlineFires
    <2>3. QED
      BY <1>a, <2>1, <2>2 DEF RunTypeOK, Phases, Marks, Kinds
  <1>5. ASSUME NEW r \in Runs, PromptEnds(r) PROVE RunTypeOK'
    BY <1>a, <1>5 DEF PromptEnds, RunTypeOK
  <1>6. ASSUME NEW r \in Runs, PromptStarts(r) PROVE RunTypeOK'
    <2>1. UNCHANGED <<active, queue, events, reported>>
          /\ pc' \in {pc, [pc EXCEPT ![r] = "native"], [pc EXCEPT ![r] = "done"]}
      BY <1>6 DEF PromptStarts
    <2>2. phase' \in Phases /\ mark' \in [Runs -> SUBSET Marks]
      BY <1>6, <1>a, PersistenceFailedType DEF PromptStarts, RunTypeOK, Phases, Marks
    <2>3. QED
      BY <1>a, <2>1, <2>2 DEF RunTypeOK, Phases, Marks
  <1>7. ASSUME NEW r \in Runs, RunReturns(r) PROVE RunTypeOK'
    BY <1>a, <1>7 DEF RunReturns, RunTypeOK
  <1>8. ASSUME NEW r \in Runs, RunExpires(r) PROVE RunTypeOK'
    <2>1. UNCHANGED <<active, reported>>
          /\ pc' \in {pc, [pc EXCEPT ![r] = "done"]}
      BY <1>8 DEF RunExpires
    <2>2. /\ phase' \in Phases /\ mark' \in [Runs -> SUBSET Marks]
          /\ events' \in [Runs -> Seq(Kinds)] /\ queue' \subseteq Runs
      BY <1>8, <1>a, TimeoutType DEF RunExpires
    <2>3. QED
      BY <1>a, <2>1, <2>2 DEF RunTypeOK, Phases, Marks, Kinds
  <1>9. ASSUME NEW r \in Runs, RunFlushes(r) PROVE RunTypeOK'
    BY <1>a, <1>9 DEF RunFlushes, RunTypeOK
  <1>10. ASSUME NEW r \in Runs, RunCommitted(r) PROVE RunTypeOK'
    BY <1>a, <1>10 DEF RunCommitted, RunTypeOK
  <1>11. ASSUME NEW r \in Runs, RunFlushFails(r) PROVE RunTypeOK'
    BY <1>a, <1>11 DEF RunFlushFails, RunTypeOK
  <1>12. ASSUME NEW r \in Runs, RunSettles(r) PROVE RunTypeOK'
    <2>1. PICK k \in Kinds : Terminal(r, k)
      BY <1>12 DEF RunSettles, Kinds
    <2>2. pc' = [pc EXCEPT ![r] = "done"] /\ queue' = queue
      BY <1>12 DEF RunSettles
    <2>3. QED
      BY <1>a, <2>1, <2>2, TerminalType DEF RunTypeOK, Phases, Marks, Kinds
  <1>13. ASSUME NEW r \in Runs, RunCleaned(r) PROVE RunTypeOK'
    BY <1>a, <1>13 DEF RunCleaned, RunTypeOK
  <1>14. ASSUME NEW w \in Waiters, CommitCall(w) PROVE RunTypeOK'
    <2>1. UNCHANGED <<active, pc, queue, events, reported>>
      BY <1>14 DEF CommitCall
    <2>2. phase' \in Phases /\ mark' \in [Runs -> SUBSET Marks]
      BY <1>14, <1>a, PersistenceFailedType DEF CommitCall, RunTypeOK, Phases, Marks
    <2>3. QED
      BY <1>a, <2>1, <2>2 DEF RunTypeOK, Phases, Marks
  <1>15. CASE CommitSettles
    <2>1. UNCHANGED <<active, pc, queue, events, reported>>
      BY <1>15 DEF CommitSettles
    <2>2. phase' \in Phases /\ mark' \in [Runs -> SUBSET Marks]
      BY <1>15, <1>a, PersistenceFailedType DEF CommitSettles, RunTypeOK, Phases, Marks
    <2>3. QED
      BY <1>a, <2>1, <2>2 DEF RunTypeOK, Phases, Marks
  <1>16. CASE NativeAppends
    <2>1. UNCHANGED <<active, pc, queue, events, reported>>
      BY <1>16 DEF NativeAppends
    <2>2. phase' \in Phases /\ mark' \in [Runs -> SUBSET Marks]
      BY <1>16, <1>a, PersistenceFailedType DEF NativeAppends, RunTypeOK, Phases, Marks
    <2>3. QED
      BY <1>a, <2>1, <2>2 DEF RunTypeOK, Phases, Marks
  <1>17. CASE AbortRequest
    BY <1>a, <1>17 DEF AbortRequest, Marked, RunTypeOK
  <1>18. CASE CancelCompletes
    <2>1. pc' = pc /\ queue' = queue
      BY <1>18 DEF CancelCompletes
    <2>2. CASE Terminal(cxRun, "aborted")
      <3>1. cxRun \in Runs /\ "aborted" \in Kinds
        BY <1>a, <1>18 DEF CancelCompletes, CancelInv, Kinds
      <3>2. QED
        BY <1>a, <2>1, <2>2, <3>1, TerminalType DEF RunTypeOK, Phases, Marks, Kinds
    <2>3. CASE ~Terminal(cxRun, "aborted")
      BY <1>a, <1>18, <2>1, <2>3 DEF CancelCompletes, RunTypeOK
    <2>4. QED
      BY <2>2, <2>3
  <1>19. CASE FailClosed
    BY <1>a, <1>19 DEF FailClosed, Marked, ProcTypeOK, RunTypeOK
  <1>20. CASE CleanFails
    BY <1>a, <1>20 DEF CleanFails, RunTypeOK
  <1>21. CASE CleanEnds
    BY <1>a, <1>21 DEF CleanEnds, RunTypeOK
  <1>22. CASE Dispose
    BY <1>a, <1>22 DEF Dispose, RunTypeOK
  <1>23. CASE DisposeJoins
    BY <1>a, <1>23 DEF DisposeJoins, RunTypeOK
  <1>24. CASE DisposeCleaned
    BY <1>a, <1>24 DEF DisposeCleaned, RunTypeOK
  <1>25. CASE DisposeCommitted
    BY <1>a, <1>25 DEF DisposeCommitted, RunTypeOK
  <1>26. CASE DisposeEnds
    BY <1>a, <1>26 DEF DisposeEnds, RunTypeOK
  <1>27. CASE PrepareShutdown
    BY <1>a, <1>27 DEF PrepareShutdown, RunTypeOK
  <1>28. CASE PrepareExported
    BY <1>a, <1>28 DEF PrepareExported, FenceTypeOK, RunTypeOK
  <1>29. ASSUME \/ EventRefused \/ GitEventRefused \/ AbortSettles
                \/ CancelTimesOut \/ CancelJoins \/ CancelFails \/ CleanTimesOut
                \/ CleanIsIdle \/ CleanCommitted \/ DisposeProceeds
                \/ PrepareCommitted \/ PrepareMapped \/ PrepareCleaned \/ Navigate
                \/ NavigateReturns \/ NavigateEnds \/ SinkGone \/ UNCHANGED piVars
         PROVE  UNCHANGED <<phase, active, pc, mark, queue, events, reported>>
    BY <1>29
    DEF EventRefused, GitEventRefused, AbortSettles, CancelTimesOut, CancelJoins,
        CancelFails, CleanTimesOut, CleanIsIdle, CleanCommitted, DisposeProceeds,
        PrepareCommitted, PrepareMapped, PrepareCleaned, Navigate, Track,
        NavigateReturns, Retire, NavigateEnds, SinkGone, piVars, fenceVars, runVars,
        procVars, envVars
  <1>30. CASE UNCHANGED <<phase, active, pc, mark, queue, events, reported>>
    BY <1>a, <1>30 DEF RunTypeOK
  <1>31. QED
    BY <1>1, <1>2, <1>3, <1>4, <1>5, <1>6, <1>7, <1>8, <1>9, <1>10, <1>11, <1>12,
    <1>13, <1>14, <1>15, <1>16, <1>17, <1>18, <1>19, <1>20, <1>21, <1>22, <1>23, <1>24,
    <1>25, <1>26, <1>27, <1>28, <1>29, <1>30 DEF PiNext, RunStep, CancelStep,
    CleanStep, DisposeStep, PrepareStep

\* The procedures' variables have their types.
LEMMA ProcTypeOKStep ==
    ASSUME PiInv, LateInput = FALSE, [PiNext]_piVars
    PROVE  ProcTypeOK'
  <1> USE SessionAssumption, FenceAssumption
  <1>a. RunTypeOK /\ ProcTypeOK
    BY DEF PiInv, PiTypeOK
  <1>1. ASSUME NEW r \in Runs, DeadlineFires(r) PROVE ProcTypeOK'
    BY <1>a, <1>1 DEF DeadlineFires, TimeoutActive, ProcTypeOK, envVars
  <1>2. ASSUME NEW r \in Runs, RunReturns(r) PROVE ProcTypeOK'
    BY <1>a, <1>2 DEF RunReturns, Done, Waiters, ProcTypeOK, envVars
  <1>3. ASSUME NEW r \in Runs, RunExpires(r) PROVE ProcTypeOK'
    BY <1>a, <1>3 DEF RunExpires, TimeoutActive, Done, Waiters, ProcTypeOK, envVars
  <1>4. ASSUME NEW r \in Runs, RunFlushes(r) PROVE ProcTypeOK'
    BY <1>a, <1>4 DEF RunFlushes, Wants, Waiters, ProcTypeOK, envVars
  <1>5. ASSUME NEW r \in Runs, RunCommitted(r) PROVE ProcTypeOK'
    BY <1>a, <1>5 DEF RunCommitted, Done, Waiters, ProcTypeOK, envVars
  <1>6. ASSUME NEW r \in Runs, RunFlushFails(r) PROVE ProcTypeOK'
    BY <1>a, <1>6 DEF RunFlushFails, Done, Waiters, ProcTypeOK, envVars
  <1>7. ASSUME NEW r \in Runs, RunSettles(r) PROVE ProcTypeOK'
    BY <1>a, <1>7 DEF RunSettles, Done, Waiters, ProcTypeOK, envVars
  <1>8. ASSUME NEW w \in Waiters, CommitCall(w) PROVE ProcTypeOK'
    <2>1. UNCHANGED <<abortP, cxRun, cxStep, clean, disp, prep, nav, held>>
      BY <1>8 DEF CommitCall
    <2>2. wait' \in {[wait EXCEPT ![w] = a] : a \in {"wait", "err"}}
      BY <1>8 DEF CommitCall, Answer
    <2>3. QED
      BY <1>a, <2>1, <2>2 DEF ProcTypeOK
  <1>9. CASE CommitSettles
    BY <1>a, <1>9 DEF CommitSettles, AnswerAll, ProcTypeOK
  <1>10. CASE AbortRequest
    BY <1>a, <1>10 DEF AbortRequest, RunTypeOK, ProcTypeOK, envVars
  <1>11. CASE AbortSettles
    BY <1>a, <1>11 DEF AbortSettles, ProcTypeOK, envVars
  <1>12. CASE CancelTimesOut
    BY <1>a, <1>12 DEF CancelTimesOut, ProcTypeOK, envVars
  <1>13. CASE CancelJoins
    BY <1>a, <1>13 DEF CancelJoins, Wants, Waiters, Owners, ProcTypeOK, envVars
  <1>14. CASE CancelCompletes
    BY <1>a, <1>14 DEF CancelCompletes, Done, Waiters, Owners, ProcTypeOK, envVars
  <1>15. CASE CancelFails
    BY <1>a, <1>15 DEF CancelFails, Done, Waiters, Owners, ProcTypeOK, envVars
  <1>16. CASE FailClosed
    BY <1>a, <1>16 DEF FailClosed, ProcTypeOK, envVars
  <1>17. CASE CleanTimesOut
    BY <1>a, <1>17 DEF CleanTimesOut, ProcTypeOK, envVars
  <1>18. CASE CleanIsIdle
    <2>1. UNCHANGED <<abortP, cxRun, cxStep, disp, prep, nav>> /\ clean' \in {"commit", "release"}
      BY <1>18 DEF CleanIsIdle
    <2>2. wait' \in {wait, [wait EXCEPT !["clean"] = "want"]} /\ held' \subseteq held
      BY <1>18 DEF CleanIsIdle, Wants
    <2>3. QED
      BY <1>a, <2>1, <2>2 DEF ProcTypeOK, Waiters, Owners
  <1>19. CASE CleanCommitted
    BY <1>a, <1>19 DEF CleanCommitted, Done, Waiters, Owners, ProcTypeOK
  <1>20. CASE CleanFails
    BY <1>a, <1>20 DEF CleanFails, Done, Waiters, Owners, ProcTypeOK
  <1>21. CASE CleanEnds
    BY <1>a, <1>21 DEF CleanEnds, ProcTypeOK
  <1>22. CASE Dispose
    BY <1>a, <1>22 DEF Dispose, ProcTypeOK, envVars
  <1>23. CASE DisposeJoins
    BY <1>a, <1>23 DEF DisposeJoins, ProcTypeOK, envVars
  <1>24. CASE DisposeProceeds
    BY <1>a, <1>24 DEF DisposeProceeds, Wants, ProcTypeOK, envVars
  <1>25. CASE DisposeCleaned
    BY <1>a, <1>25 DEF DisposeCleaned, ProcTypeOK, envVars
  <1>26. CASE DisposeCommitted
    <2>1. UNCHANGED <<abortP, cxRun, cxStep, clean, prep, nav>> /\ disp' \in {"release", "failed"}
      BY <1>26 DEF DisposeCommitted
    <2>2. wait' = [wait EXCEPT !["dispose"] = "no"] /\ held' \subseteq held
      BY <1>26 DEF DisposeCommitted, Done
    <2>3. QED
      BY <1>a, <2>1, <2>2 DEF ProcTypeOK, Waiters, Owners
  <1>27. CASE DisposeEnds
    BY <1>a, <1>27 DEF DisposeEnds, ProcTypeOK
  <1>28. CASE PrepareShutdown
    BY <1>a, <1>28 DEF PrepareShutdown, Wants, ProcTypeOK, envVars
  <1>29. CASE PrepareCommitted
    BY <1>a, <1>29 DEF PrepareCommitted, Done, Waiters, Owners, ProcTypeOK, envVars
  <1>30. CASE PrepareMapped
    BY <1>a, <1>30 DEF PrepareMapped, ProcTypeOK, envVars
  <1>31. CASE PrepareExported
    BY <1>a, <1>31 DEF PrepareExported, ProcTypeOK, envVars
  <1>32. CASE PrepareCleaned
    BY <1>a, <1>32 DEF PrepareCleaned, ProcTypeOK, envVars
  <1>33. CASE Navigate
    BY <1>a, <1>33 DEF Navigate, ProcTypeOK, envVars
  <1>34. CASE NavigateReturns
    BY <1>a, <1>34 DEF NavigateReturns, Wants, Owners, ProcTypeOK, envVars
  <1>35. CASE NavigateEnds
    BY <1>a, <1>35 DEF NavigateEnds, Done, Waiters, Owners, ProcTypeOK, envVars
  <1>36. ASSUME \E r \in Runs : \/ InputPrompt(r) \/ InputQueued(r)
                                \/ DeadlinePasses(r) \/ PromptEnds(r)
                                \/ PromptStarts(r) \/ RunCleaned(r)
         PROVE  UNCHANGED <<abortP, cxRun, cxStep, clean, disp, prep, nav, wait, held>>
    BY <1>36
    DEF InputPrompt, InputQueued, DeadlinePasses, Marked, PromptEnds, Retire,
        PromptStarts, Track, TrackDuringCommit, Poison, PersistenceFailed,
        RunCleaned, fenceVars, runVars, procVars, envVars
  <1>37. ASSUME \/ NativeAppends \/ EventRefused \/ GitEventRefused \/ SinkGone
                \/ UNCHANGED piVars
         PROVE  UNCHANGED <<abortP, cxRun, cxStep, clean, disp, prep, nav, wait, held>>
    BY <1>37
    DEF NativeAppends, Persist, PersistFails, Poison, PersistenceFailed, Marked,
        EventRefused, GitEventRefused, SinkGone, piVars, fenceVars, runVars,
        procVars, envVars
  <1>38. CASE UNCHANGED <<abortP, cxRun, cxStep, clean, disp, prep, nav, wait, held>>
    BY <1>a, <1>38 DEF ProcTypeOK
  <1>39. QED
    BY <1>1, <1>2, <1>3, <1>4, <1>5, <1>6, <1>7, <1>8, <1>9, <1>10, <1>11, <1>12,
    <1>13, <1>14, <1>15, <1>16, <1>17, <1>18, <1>19, <1>20, <1>21, <1>22, <1>23, <1>24,
    <1>25, <1>26, <1>27, <1>28, <1>29, <1>30, <1>31, <1>32, <1>33, <1>34, <1>35, <1>36,
    <1>37, <1>38 DEF PiNext, RunStep, CancelStep, CleanStep, DisposeStep, PrepareStep

-----------------------------------------------------------------------------
(***************************************************************************)
(* The steps of the session as steps of the ledger.                        *)
(***************************************************************************)

\* The gate of the ledger is shut.
Shut == disp # "none" \/ prep # "none" \/ clean # "none" \/ failReq

\* No run begins, and none that returned runs again.
RunsWind ==
    \A r \in Runs : /\ pc'[r] = "idle" <=> pc[r] = "idle"
                    /\ pc[r] = "done" => pc'[r] = "done"

\* The story of a run that ends is longer by its ending.
LEMMA AdmittedEnds ==
    ASSUME NEW k \in Kinds
    PROVE  <<"admitted">> \o Append(<<>>, k) = Append(<<"admitted">> \o <<>>, k)
  OBVIOUS

\* The story of a run that has not ended is its admission.
LEMMA AdmittedIsBare == <<"admitted">> \o <<>> = <<"admitted">>
  OBVIOUS

\* Appending changes a sequence.
LEMMA LongerDiffers ==
    ASSUME NEW S, NEW t \in Seq(S), NEW s \in Seq(S), s # <<>>
    PROVE  t \o s # t
  BY ConcatEqualIffEmpty

\* A run that ended has more of a story than its admission.
LEMMA EndedIsLonger ==
    ASSUME NEW s \in Seq(Kinds), s # <<>>
    PROVE  <<"admitted">> \o s # <<"admitted">>
  <1> DEFINE S == Kinds \cup {"admitted"}
             t == <<"admitted">>
  <1>1. s \in Seq(S) /\ t \in Seq(S)
    OBVIOUS
  <1> HIDE DEF S, t
  <1>2. t \o s # t
    BY <1>1, LongerDiffers
  <1>3. QED
    BY <1>2 DEF t

\* Nothing is published or admitted.
Quiet == events' = events /\ RunsWind /\ (Shut => Shut')

\* Such a step only lets work return and shuts the gate.
LEMMA QuietReturns ==
    ASSUME Quiet
    PROVE  Ledger!Return
  BY DEF Quiet, Ledger!Return, Ledger!Wind, Shut, RunsWind

\* Publishing the first event of a run is its ending.
LEMMA EndIsEnd ==
    ASSUME NEW r \in Runs, NEW k \in Kinds, events' = [events EXCEPT ![r] = Append(@, k)],
           RunTypeOK, events[r] = <<>>, pc[r] # "idle", RunsWind, Shut => Shut'
    PROVE  Ledger!End(r)
  <1>1. Ledger!Wind
    BY DEF Ledger!Wind, Shut, RunsWind
  <1>2. (IF pc[r] = "idle" THEN <<>> ELSE <<"admitted">> \o events[r]) = <<"admitted">>
    BY AdmittedIsBare
  <1>3. QED
    BY <1>1, <1>2, AdmittedEnds
    DEF Ledger!End, Ledger!Endings, Kinds, RunsWind, RunTypeOK

\* Admission happens when every admitted run has returned and ended.
LEMMA AdmitIsAdmit ==
    ASSUME NEW r \in Runs, RunTypeOK, events' = events, ~Shut, ~Shut',
           pc[r] = "idle", pc' = [pc EXCEPT ![r] = "begin"], events[r] = <<>>,
           \A q \in Runs : pc[q] \in {"idle", "done"} /\ (pc[q] = "done" => events[q] # <<>>)
    PROVE  Ledger!Admit(r)
  <1>1. \A q \in Runs : (IF pc[q] = "idle" THEN <<>> ELSE <<"admitted">> \o events[q]) # <<"admitted">>
    BY EndedIsLonger DEF RunTypeOK, Kinds
  <1>2. QED
    BY <1>1, AdmittedIsBare DEF Ledger!Admit, Shut, RunTypeOK

\* The steps of a run that publish nothing.
LEMMA RunStepsAreQuiet ==
    ASSUME PiInv, NEW r \in Runs,
           \/ InputQueued(r) \/ DeadlinePasses(r) \/ PromptEnds(r) \/ PromptStarts(r)
           \/ RunReturns(r) \/ RunFlushes(r) \/ RunCommitted(r) \/ RunFlushFails(r)
           \/ RunCleaned(r)
    PROVE  Quiet
  <1>a. RunTypeOK
    BY DEF PiInv, PiTypeOK
  <1>0. CASE InputQueued(r)
    BY <1>0 DEF InputQueued, Drained, Quiet, RunsWind, Shut
  <1>1. CASE DeadlinePasses(r)
    BY <1>1 DEF DeadlinePasses, Quiet, RunsWind, Shut, procVars
  <1>2. CASE PromptEnds(r)
    BY <1>a, <1>2 DEF PromptEnds, Drained, Quiet, RunsWind, Shut, RunTypeOK
  <1>3. CASE PromptStarts(r)
    BY <1>a, <1>3
    DEF PromptStarts, Drained, PersistenceFailed, Quiet, RunsWind, Shut, RunTypeOK
  <1>4. CASE RunReturns(r) \/ RunFlushes(r) \/ RunCommitted(r)
    BY <1>a, <1>4
    DEF RunReturns, RunFlushes, RunCommitted, Resumes, Quiet, RunsWind, Shut,
        RunTypeOK
  <1>5. CASE RunFlushFails(r) \/ RunCleaned(r)
    BY <1>a, <1>5
    DEF RunFlushFails, RunCleaned, Quiet, RunsWind, Shut, RunTypeOK, procVars
  <1>6. QED
    BY <1>0, <1>1, <1>2, <1>3, <1>4, <1>5

\* The steps of the procedures that publish nothing.
LEMMA OtherStepsAreQuiet ==
    ASSUME PiInv,
           \/ \E w \in Waiters : CommitCall(w)
           \/ CommitSettles \/ NativeAppends \/ EventRefused \/ GitEventRefused
           \/ AbortRequest \/ AbortSettles
           \/ CancelTimesOut \/ CancelJoins \/ CancelFails
           \/ CleanStep
           \/ Dispose \/ DisposeStep
           \/ PrepareShutdown \/ PrepareStep
           \/ Navigate \/ NavigateReturns \/ NavigateEnds
           \/ SinkGone
           \/ UNCHANGED piVars
    PROVE  Quiet
  <1> USE DEF Quiet, RunsWind, Shut
  <1>1. CASE \E w \in Waiters : CommitCall(w)
    BY <1>1 DEF CommitCall, PersistenceFailed
  <1>2. CASE CommitSettles \/ NativeAppends
    BY <1>2 DEF CommitSettles, NativeAppends, PersistenceFailed
  <1>3. CASE EventRefused \/ GitEventRefused \/ AbortRequest \/ AbortSettles
    BY <1>3 DEF EventRefused, GitEventRefused, AbortRequest, AbortSettles, runVars
  <1>4. CASE CancelTimesOut \/ CancelJoins \/ CancelFails
    BY <1>4 DEF CancelTimesOut, CancelJoins, CancelFails, runVars
  <1>5. CASE FailClosed
    <2>1. phase = "disposed" => disp # "none"
      BY DEF PiInv, EndInv
    <2>2. QED
      BY <1>5, <2>1 DEF FailClosed
  <1>6. CASE CleanTimesOut \/ CleanIsIdle \/ CleanCommitted
    BY <1>6 DEF CleanTimesOut, CleanIsIdle, CleanCommitted, runVars
  <1>7. CASE CleanFails \/ CleanEnds
    BY <1>7 DEF CleanFails, CleanEnds
  <1>8. CASE Dispose \/ DisposeStep
    BY <1>8
    DEF Dispose, DisposeStep, DisposeJoins, DisposeProceeds, DisposeCleaned,
        DisposeCommitted, DisposeEnds, runVars
  <1>9. CASE PrepareShutdown \/ PrepareStep
    BY <1>9
    DEF PrepareShutdown, PrepareStep, PrepareCommitted, PrepareMapped,
        PrepareExported, PrepareCleaned, runVars
  <1>10. CASE Navigate \/ NavigateReturns \/ NavigateEnds \/ SinkGone \/ UNCHANGED piVars
    BY <1>10
    DEF Navigate, NavigateReturns, NavigateEnds, SinkGone, piVars, runVars, procVars
  <1>11. QED
    BY <1>1, <1>2, <1>3, <1>4, <1>5, <1>6, <1>7, <1>8, <1>9, <1>10 DEF CleanStep

\* A terminal event ends its run once, or asks for a failure.
LEMMA TerminalEnds ==
    ASSUME PiInv, NEW r \in Runs, NEW k \in Kinds, Terminal(r, k),
           "terminal" \notin mark[r], pc[r] # "idle", RunsWind,
           UNCHANGED <<clean, disp, prep>>
    PROVE  Ledger!End(r) \/ Ledger!Return
  <1>1. RunTypeOK /\ events[r] = <<>>
    BY DEF PiInv, PiTypeOK, RunsInv
  <1>2. Shut => Shut'
    BY DEF Terminal, Shut
  <1>3. CASE events' = [events EXCEPT ![r] = Append(@, k)]
    BY <1>1, <1>2, <1>3, EndIsEnd
  <1>4. CASE events' = events
    BY <1>2, <1>4, QuietReturns DEF Quiet
  <1>5. QED
    BY <1>3, <1>4 DEF Terminal

\* So does the timeout of an elapsed run.
LEMMA TimeoutEnds ==
    ASSUME PiInv, NEW r \in Runs, TimeoutActive(r), Elapsed(r), RunsWind,
           UNCHANGED <<clean, disp, prep>>
    PROVE  Ledger!End(r) \/ Ledger!Return
  <1>1. RunTypeOK /\ events[r] = <<>> /\ pc[r] # "idle" /\ "timeout" \in Kinds
    BY DEF PiInv, PiTypeOK, RunsInv, Elapsed, Sealed, Kinds
  <1>2. Shut => Shut'
    BY DEF TimeoutActive, Shut
  <1>3. CASE events' = [events EXCEPT ![r] = Append(@, "timeout")]
    BY <1>1, <1>2, <1>3, EndIsEnd
  <1>4. CASE events' = events
    BY <1>2, <1>4, QuietReturns DEF Quiet
  <1>5. QED
    BY <1>3, <1>4 DEF TimeoutActive

\* Every step of the session is one of the ledger.
LEMMA LedgerStep ==
    ASSUME PiInv, LateInput = FALSE, [PiNext]_piVars
    PROVE  [Ledger!LedgerNext]_(Ledger!ledgerVars)
  <1>a. RunTypeOK /\ RunsInv /\ EndInv /\ CancelInv
    BY DEF PiInv, PiTypeOK
  <1>1. ASSUME NEW r \in Runs, InputPrompt(r) PROVE Ledger!LedgerNext
    <2>1. ~Shut /\ ~Shut'
      BY <1>1, <1>a
      DEF InputPrompt, Drained, CallerMayEnter, Live, EndInv, Closed, Shut, procVars
    <2>2. \A q \in Runs : pc[q] \in {"idle", "done"} /\ (pc[q] = "done" => events[q] # <<>>)
      BY <1>1, <1>a, <2>1, SessionAssumption DEF InputPrompt, RunsInv, Shut, RunTypeOK
    <2>3. events[r] = <<>>
      BY <1>1, <1>a DEF InputPrompt, RunsInv
    <2>4. pc[r] = "idle" /\ pc' = [pc EXCEPT ![r] = "begin"] /\ events' = events
      BY <1>1 DEF InputPrompt
    <2>5. QED
      BY <1>a, <2>1, <2>2, <2>3, <2>4, AdmitIsAdmit DEF Ledger!LedgerNext
  <1>2. ASSUME NEW r \in Runs, DeadlineFires(r) \/ RunExpires(r)
        PROVE  Ledger!LedgerNext
    <2>1. TimeoutActive(r) /\ Elapsed(r) /\ RunsWind /\ UNCHANGED <<clean, disp,
                                                                    prep>>
      <3>1. Elapsed(r) => pc[r] # "idle"
        BY <1>a DEF Elapsed, Sealed, RunsInv
      <3>2. QED
        BY <1>2, <1>a, <3>1 DEF DeadlineFires, RunExpires, RunsWind, RunTypeOK
    <2>2. QED
      BY <2>1, TimeoutEnds DEF Ledger!LedgerNext
  <1>3. ASSUME NEW r \in Runs, RunSettles(r) PROVE Ledger!LedgerNext
    <2>1. PICK k \in Kinds : Terminal(r, k)
      BY <1>3 DEF RunSettles, Kinds
    <2>2. /\ "terminal" \notin mark[r] /\ pc[r] # "idle" /\ RunsWind
          /\ UNCHANGED <<clean, disp, prep>>
      BY <1>3, <1>a DEF RunSettles, Sealed, RunsWind, RunTypeOK
    <2>3. QED
      BY <2>1, <2>2, TerminalEnds DEF Ledger!LedgerNext
  <1>4. CASE CancelCompletes
    <2>1. /\ cxRun \in Runs /\ pc[cxRun] # "idle" /\ "aborted" \in Kinds
          /\ RunsWind /\ UNCHANGED <<clean, disp, prep>>
      BY <1>4, <1>a DEF CancelCompletes, CancelInv, RunsWind, Kinds
    <2>2. CASE "terminal" \notin mark[cxRun] /\ Terminal(cxRun, "aborted")
      BY <2>1, <2>2, TerminalEnds DEF Ledger!LedgerNext
    <2>3. CASE UNCHANGED <<events, failReq>>
      BY <2>1, <2>3, QuietReturns DEF Quiet, Shut, Ledger!LedgerNext
    <2>4. QED
      BY <1>4, <2>2, <2>3 DEF CancelCompletes
  <1>5. CASE Quiet
    BY <1>5, QuietReturns DEF Ledger!LedgerNext
  <1>6. QED
    BY <1>1, <1>2, <1>3, <1>4, <1>5, RunStepsAreQuiet, OtherStepsAreQuiet
    DEF PiNext, RunStep, CancelStep

-----------------------------------------------------------------------------
(***************************************************************************)
(* The theorems about the session.                                         *)
(***************************************************************************)

\* A new session satisfies the invariant.
LEMMA PiInitInv == PiInit => PiInv
  <1> SUFFICES ASSUME PiInit PROVE PiInv
    OBVIOUS
  <1> USE SessionAssumption, FenceAssumption
  <1>1. FenceTypeOK /\ DurableIsSynced
    BY FenceInitInv DEF PiInit, FenceInv
  <1>2. RunTypeOK
    BY DEF PiInit, RunTypeOK
  <1>7. ProcTypeOK /\ FlagTypeOK
    <2>1. wait \in [Waiters -> {"no", "want", "wait", "ok", "err"}] /\ cxRun \in Runs \cup {NoRun}
      BY DEF PiInit
    <2>2. ProcTypeOK
      BY <2>1 DEF PiInit, ProcTypeOK
    <2>3. FlagTypeOK
      BY DEF PiInit, FlagTypeOK
    <2>4. QED
      BY <2>2, <2>3
  <1>3. CountInv
    BY DEF PiInit, FenceInit, CountInv, Streaming
  <1>4. CommitInv /\ EndInv
    BY DEF PiInit, FenceInit, CommitInv, EndInv, Usable, Closed, Quelled, AtRest
  <1>5. CancelInv /\ QueueInv /\ HeldInv /\ RunsInv
    BY DEF PiInit, FenceInit, CancelInv, QueueInv, HeldInv, RunsInv, Both
  <1>6. QED
    BY <1>1, <1>2, <1>3, <1>4, <1>5, <1>7 DEF PiInv, PiTypeOK

\* The invariant is inductive for callers that respect the worker's seal.
LEMMA PiStepInv ==
    ASSUME PiInv, LateInput = FALSE, [PiNext]_piVars
    PROVE  PiInv'
  <1>1. FenceTypeOK' /\ DurableIsSynced'
    BY SessionStepUsesFence, FenceStepInv DEF FenceInv, PiInv, PiTypeOK
  <1>2. PiTypeOK'
    BY <1>1, RunTypeOKStep, ProcTypeOKStep, FlagTypeOKStep DEF PiTypeOK
  <1>3. QED
    BY <1>1, <1>2, CountInvStep, CommitInvStep, EndInvStep, CancelInvStep,
       QueueInvStep, HeldInvStep, RunsInvStep
    DEF PiInv

\* It holds in every state.
LEMMA SessionInvariant == LateInput = FALSE => (PiSafety => []PiInv)
  <1> SUFFICES ASSUME LateInput = FALSE PROVE PiSafety => []PiInv
    OBVIOUS
  <1>1. PiInv /\ [PiNext]_piVars => PiInv'
    BY PiStepInv
  <1>2. QED
    BY <1>1, PiInitInv, PTL DEF PiSafety

(***************************************************************************)
(* What a session's history and resources may be relied on for: a reported *)
(* history is durable, tracked work keeps its resources, and a queued      *)
(* input stays with its run, for any number of runs and appends, and any   *)
(* interleaving of prompts, aborts, deadlines, failures, cleanup, shutdown *)
(* and disposal.                                                           *)
(***************************************************************************)
THEOREM SessionIsSafe == LateInput = FALSE => (PiSafety => []PiSafe)
  <1> SUFFICES ASSUME LateInput = FALSE PROVE PiSafety => []PiSafe
    OBVIOUS
  <1>1. PiInv => PiSafe
    <2> SUFFICES ASSUME PiInv PROVE PiSafe
      OBVIOUS
    <2>1. PiTypeOK /\ DurableIsSynced /\ FenceTypeOK
      BY DEF PiInv, PiTypeOK
    <2>2. ReportedIsDurable
      BY <2>1 DEF PiInv, CommitInv, ReportedIsDurable, DurableIsSynced
    <2>3. WorkKeepsItsResources
      BY <2>1 DEF PiInv, HeldInv, Both, WorkKeepsItsResources, FenceTypeOK
    <2>4. QueuedInputStaysWithRun
      BY DEF PiInv, QueueInv, QueuedInputStaysWithRun
    <2>5. QED
      BY <2>1, <2>2, <2>3, <2>4 DEF PiSafe
  <1>2. PiSafety => []PiInv
    BY SessionInvariant
  <1>3. QED
    BY <1>1, <1>2, PTL

(***************************************************************************)
(* The session implements RunLedger: runs do not overlap, each ends at     *)
(* most once, and none is admitted after the session began to end.         *)
(***************************************************************************)
THEOREM SessionKeepsLedger == LateInput = FALSE => (PiSafety => KeepsLedger)
  <1> SUFFICES ASSUME LateInput = FALSE PROVE PiSafety => KeepsLedger
    OBVIOUS
  <1>1. PiInit => Ledger!LedgerInit
    <2> SUFFICES ASSUME PiInit PROVE Ledger!LedgerInit
      OBVIOUS
    <2>1. \A r \in Runs : pc[r] = "idle"
      BY DEF PiInit
    <2>2. disp = "none" /\ prep = "none" /\ clean = "none" /\ ~failReq
      BY DEF PiInit
    <2>3. QED
      BY <2>1, <2>2 DEF Ledger!LedgerInit
  <1>2. PiInv /\ [PiNext]_piVars => [Ledger!LedgerNext]_(Ledger!ledgerVars)
    BY LedgerStep
  <1>3. PiSafety => []PiInv
    BY SessionInvariant
  <1>4. QED
    BY <1>1, <1>2, <1>3, PTL DEF PiSafety, KeepsLedger, Ledger!LedgerSpec
=============================================================================

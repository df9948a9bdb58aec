----------------------------- MODULE PiSession -----------------------------
(***************************************************************************)
(* The Pi session adapter (PiSessionAdapter, src/src/pi/session.ts) over   *)
(* the persistence fence.                                                  *)
(*                                                                         *)
(* One run at a time: git setup, the native prompt, a commit of the native *)
(* file, git settlement, and a terminal event.  Against it race the turn   *)
(* deadline, abort(), navigate(), prepareShutdown(), dispose(), a refused  *)
(* event and a poisoned fence; the last four end in one fail-closed        *)
(* cleanup.  Native code and its abort may hang: every wait for them has a *)
(* bound, and cancelling is never taken for the work having retired.       *)
(*                                                                         *)
(* JavaScript runs one continuation at a time: once a promise settles, the *)
(* continuations it starts run before the next timer, callback or call.    *)
(* Actions that stand for such an outside event wait until Drained.        *)
(*                                                                         *)
(* persistenceCommitReady is set exactly while a commit is awaited, so     *)
(* persistenceAtRest() is what the fence sees itself: no tracked work.     *)
(***************************************************************************)
EXTENDS NativePersistence, Sequences

CONSTANTS
    Runs,       \* the prompts that may be admitted
    NoRun,
    LateInput   \* may a caller go on after dispose(), or after the event sink is gone?

\* Who awaits commitAtRest(), besides runs.
Owners == {"cancel", "clean", "dispose", "prepare", "navigate"}

Waiters == Runs \cup Owners

ASSUME SessionAssumption ==
    /\ NoRun \notin Runs
    /\ Runs \cap Owners = {}
    /\ LateInput \in BOOLEAN

VARIABLES
    phase,     \* phase
    active,    \* active: a run or NoRun
    pc,        \* per run: where runPrompt() is
    mark,      \* per run: terminal, suppress (suppressLate), elapsed (deadlineAt passed)
    queue,     \* the runs with queued inputs pending in native code
    events,    \* per run: the terminal events published
    reported,  \* revision when the last settled, aborted, error or ready event went out
    failReq,   \* failClosed() is being called
    abortP,    \* abortPromise: none or pending
    cxRun, cxStep,   \* abortActive() or timeoutActive(): its run and its step
    clean,     \* failClosed(): the cleanup it owns
    disp,      \* dispose()
    prep, prepAbort, \* prepareShutdown(), and its abort signal
    nav,       \* navigate()
    wait,      \* per waiter: its commitPersistence() call
    held,      \* what is not released yet: the session's resources, the credential
    fatal,     \* fatalEmitted
    sink       \* does the API still take events?

runVars == <<phase, active, pc, mark, queue, events, reported>>
procVars == <<failReq, abortP, cxRun, cxStep, clean, disp, prep, prepAbort, nav, wait>>
envVars == <<held, fatal, sink>>
piVars == <<fenceVars, runVars, procVars, envVars>>

PiInit ==
    /\ FenceInit
    /\ phase = "open" /\ active = NoRun
    /\ pc = [r \in Runs |-> "idle"]
    /\ mark = [r \in Runs |-> {}]
    /\ queue = {}
    /\ events = [r \in Runs |-> <<>>]
    /\ reported = 0
    /\ failReq = FALSE /\ abortP = "none"
    /\ cxRun = NoRun /\ cxStep = "none"
    /\ clean = "none" /\ disp = "none"
    /\ prep = "none" /\ prepAbort = FALSE
    /\ nav = "none"
    /\ wait = [w \in Waiters |-> "no"]
    /\ held = {"resources", "credential"}
    /\ fatal = FALSE /\ sink = TRUE

-----------------------------------------------------------------------------
(***************************************************************************)
(* The event loop, and what callers may do.                                *)
(***************************************************************************)

Drained ==
    /\ ~failReq
    /\ \A w \in Waiters : wait[w] \in {"no", "wait"}
    /\ \A r \in Runs : pc[r] \notin {"returned", "threw"}
    /\ cxStep # "fail" /\ clean # "fail" /\ disp # "next"

\* The API refuses requests once it is sealed for shutdown or takes no events.
CallerMayEnter == LateInput \/ (sink /\ disp = "none")

\* assertLive()
Live == phase \in {"open", "running"} /\ Usable

\* session.isStreaming: native code is in a prompt.
Streaming == \E r \in Runs : pc[r] = "native"

\* expireTurnIfElapsed(): the run is over, or no longer the active one.
Sealed(r) == {"terminal", "suppress"} \cap mark[r] # {} \/ active # r

Elapsed(r) == ~Sealed(r) /\ "elapsed" \in mark[r]

Marked(r, ms) == IF r = NoRun THEN mark ELSE [mark EXCEPT ![r] = @ \cup ms]

\* publishEvent(): refused when the session is over or the sink is gone; the
\* admission of a single event may also refuse it.
Publishable == sink /\ phase \notin {"failed", "disposed"}

\* discardPendingInputs() fails only when native code has inputs pending.
Discards(ok) == ok \/ queue # {}

Wants(w) == wait' = [wait EXCEPT ![w] = "want"]
Done(w) == wait' = [wait EXCEPT ![w] = "no"]

\* onPoison: persistenceFailed().  A disposed or cleaning session knows already.
PersistenceFailed ==
    IF phase = "disposed" \/ clean # "none"
    THEN UNCHANGED <<phase, mark, failReq, fatal>>
    ELSE /\ phase' = "failed"
         /\ mark' = Marked(active, {"suppress"})
         /\ failReq' = TRUE
         /\ fatal' = TRUE

-----------------------------------------------------------------------------
(***************************************************************************)
(* commitPersistence() and commitAtRest(): calls share a commit in         *)
(* progress, and all of them get its outcome.                              *)
(***************************************************************************)

Answer(w, a) == wait' = [wait EXCEPT ![w] = a]

CommitCall(w) ==
    /\ wait[w] = "want" /\ ~failReq
    /\ \/ /\ committing
          /\ Answer(w, "wait")
          /\ UNCHANGED <<fenceVars, phase, mark, failReq, fatal>>
       \/ /\ ~committing /\ ~Usable
          /\ Answer(w, "err")
          /\ UNCHANGED <<fenceVars, phase, mark, failReq, fatal>>
       \/ /\ CommitBegins
          /\ Answer(w, "wait")
          /\ UNCHANGED <<phase, mark, failReq, fatal>>
       \/ /\ CommitNotAtRest \/ CommitScanFails
          /\ Answer(w, "err")
          /\ PersistenceFailed
    /\ UNCHANGED <<active, pc, queue, events, reported, abortP, cxRun, cxStep, clean,
                   disp, prep, prepAbort, nav, held, sink>>

AnswerAll(a) ==
    wait' = [w \in Waiters |-> IF wait[w] = "wait" THEN a ELSE wait[w]]

CommitSettles ==
    /\ Drained
    /\ \/ /\ CommitPublishes
          /\ AnswerAll("ok")
          /\ UNCHANGED <<phase, mark, failReq, fatal>>
       \/ /\ CommitFails
          /\ AnswerAll("err")
          /\ IF Usable THEN PersistenceFailed
                       ELSE UNCHANGED <<phase, mark, failReq, fatal>>
    /\ UNCHANGED <<active, pc, queue, events, reported, abortP, cxRun, cxStep, clean,
                   disp, prep, prepAbort, nav, held, sink>>

-----------------------------------------------------------------------------
(***************************************************************************)
(* Terminal events.  TimeoutActive publishes first and cancels after;      *)
(* terminal() publishes last and opens the session again.                  *)
(***************************************************************************)

\* terminal()
Terminal(r, kind) ==
    /\ mark' = Marked(r, {"terminal", "suppress"})
    /\ \/ /\ Publishable
          /\ events' = [events EXCEPT ![r] = Append(@, kind)]
          /\ reported' = revision
          /\ active' = IF active = r THEN NoRun ELSE active
          /\ phase' = IF phase \in {"running", "aborting"} THEN "open" ELSE phase
          /\ UNCHANGED failReq
       \/ /\ failReq' = TRUE
          /\ UNCHANGED <<events, reported, active, phase>>

\* The start of timeoutActive(), up to its first wait.
TimeoutActive(r) ==
    /\ mark' = Marked(r, {"terminal", "suppress"})
    /\ phase' = "aborting"
    /\ \/ \E ok \in BOOLEAN :
             /\ Publishable /\ Discards(ok)
             /\ events' = [events EXCEPT ![r] = Append(@, "timeout")]
             /\ queue' = IF ok THEN {} ELSE queue
             /\ cxRun' = r
             /\ cxStep' = IF ok THEN "abort" ELSE "fail"
             /\ abortP' = IF ok THEN "pending" ELSE abortP
             /\ UNCHANGED failReq
       \/ /\ failReq' = TRUE
          /\ UNCHANGED <<events, queue, cxRun, cxStep, abortP>>

\* performance.now() passes deadlineAt; of a sealed run nobody asks.
DeadlinePasses(r) ==
    /\ pc[r] \notin {"idle", "done"} /\ ~Sealed(r)
    /\ "elapsed" \notin mark[r]
    /\ mark' = Marked(r, {"elapsed"})
    /\ UNCHANGED <<fenceVars, phase, active, pc, queue, events, reported, procVars, envVars>>

\* The timer of armTurnDeadline(), or a queued input that finds the turn over.
DeadlineFires(r) ==
    /\ Drained
    /\ Elapsed(r)
    /\ TimeoutActive(r)
    /\ UNCHANGED <<fenceVars, active, pc, reported, clean, disp, prep, prepAbort, nav,
                   wait, envVars>>

-----------------------------------------------------------------------------
(***************************************************************************)
(* input() and runPrompt().  pc: begin (git setup), native (the prompt),   *)
(* returned or threw (its continuation), commit, settle (git settlement),  *)
(* errcommit (the commit of the error path), cleanup (awaiting the cleanup *)
(* it asked for), done.                                                    *)
(***************************************************************************)

\* Runs are interchangeable before they are admitted: each admission takes a
\* fixed one of those left.
FreshRun == CHOOSE r \in Runs : pc[r] = "idle"

InputPrompt(r) ==
    /\ Drained /\ CallerMayEnter /\ Live
    /\ active = NoRun /\ ~Streaming
    /\ pc[r] = "idle" /\ r = FreshRun
    /\ active' = r
    /\ phase' = "running"
    /\ pc' = [pc EXCEPT ![r] = "begin"]
    /\ UNCHANGED <<fenceVars, mark, queue, events, reported, procVars, envVars>>

\* steer() and followUp(): accepted while queuedInputOpen, which is while the
\* native prompt runs and the run is not sealed.  The queued_input event may be
\* refused.
InputQueued(r) ==
    /\ Drained /\ CallerMayEnter /\ Live
    /\ phase = "running" /\ pc[r] = "native" /\ ~Sealed(r) /\ ~Elapsed(r)
    /\ queue' = queue \cup {r}
    /\ failReq' \in IF Publishable THEN BOOLEAN ELSE {TRUE}
    /\ UNCHANGED <<fenceVars, phase, active, pc, mark, events, reported, abortP, cxRun,
                   cxStep, clean, disp, prep, prepAbort, nav, wait, envVars>>

\* beginTurn() returned: track the native prompt.
PromptStarts(r) ==
    /\ Drained
    /\ pc[r] = "begin" /\ ~Sealed(r) /\ ~Elapsed(r) /\ phase = "running"
    /\ \/ /\ Track
          /\ pc' = [pc EXCEPT ![r] = "native"]
          /\ UNCHANGED <<phase, mark, failReq, fatal>>
       \/ /\ TrackDuringCommit
          /\ pc' = [pc EXCEPT ![r] = "done"]
          /\ PersistenceFailed
    /\ UNCHANGED <<active, queue, events, reported, abortP, cxRun, cxStep, clean, disp,
                   prep, prepAbort, nav, wait, held, sink>>

\* Native code appends an entry, in a prompt or in a navigation.
NativeAppends ==
    /\ Drained
    /\ Streaming \/ nav = "native"
    /\ \/ /\ Persist
          /\ UNCHANGED <<phase, mark, failReq, fatal>>
       \/ /\ PersistFails
          /\ PersistenceFailed
    /\ UNCHANGED <<active, pc, queue, events, reported, abortP, cxRun, cxStep, clean,
                   disp, prep, prepAbort, nav, wait, held, sink>>

\* forwardEvent(): a native event is refused.  One that is taken, or suppressed,
\* changes nothing here.
EventRefused ==
    /\ Drained
    /\ Streaming
    /\ phase \notin {"disposed", "failed", "aborting"}
    /\ active # NoRun => "suppress" \notin mark[active]
    /\ failReq' = TRUE
    /\ UNCHANGED <<fenceVars, runVars, abortP, cxRun, cxStep, clean, disp, prep,
                   prepAbort, nav, wait, envVars>>

\* publishGit() finds the sink gone during git work.
GitEventRefused ==
    /\ Drained
    /\ ~sink
    /\ prep = "git" \/ \E r \in Runs : pc[r] \in {"begin", "settle"}
    /\ clean = "none" /\ phase # "disposed"
    /\ failReq' = TRUE
    /\ UNCHANGED <<fenceVars, runVars, abortP, cxRun, cxStep, clean, disp, prep,
                   prepAbort, nav, wait, envVars>>

\* The native prompt settles: its work retires, queued inputs are discarded.
PromptEnds(r) ==
    /\ Drained
    /\ pc[r] = "native"
    /\ Retire
    /\ \E ok \in BOOLEAN :
          /\ Discards(ok)
          /\ queue' = IF ok THEN {} ELSE queue
          /\ failReq' = ~ok
          /\ \E to \in {"returned", "threw"} :
                pc' = [pc EXCEPT ![r] = IF ok THEN to ELSE "cleanup"]
    /\ UNCHANGED <<phase, active, mark, events, reported, abortP, cxRun, cxStep, clean,
                   disp, prep, prepAbort, nav, wait, envVars>>

\* Where runPrompt() comes back from a wait and checks the turn.
Resumes(r) ==
    \/ pc[r] \in {"begin", "settle"} /\ Drained
    \/ pc[r] \in {"returned", "threw"} /\ ~failReq
    \/ pc[r] \in {"commit", "errcommit"} /\ wait[r] = "ok" /\ ~failReq

\* The run is over, or must not go on: return without an event.
RunReturns(r) ==
    /\ Resumes(r)
    /\ \/ Sealed(r)
       \/ ~Elapsed(r) /\ pc[r] = "begin" /\ phase # "running"
       \/ ~Elapsed(r) /\ pc[r] = "threw" /\ phase \in {"aborting", "failed"}
    /\ pc' = [pc EXCEPT ![r] = "done"]
    /\ Done(r)
    /\ UNCHANGED <<fenceVars, phase, active, mark, queue, events, reported, failReq,
                   abortP, cxRun, cxStep, clean, disp, prep, prepAbort, nav, envVars>>

\* expireTurnIfElapsed() finds the deadline before its timer does.
RunExpires(r) ==
    /\ Resumes(r)
    /\ Elapsed(r)
    /\ TimeoutActive(r)
    /\ pc' = [pc EXCEPT ![r] = "done"]
    /\ Done(r)
    /\ UNCHANGED <<fenceVars, active, reported, clean, disp, prep, prepAbort, nav, envVars>>

\* Faulty variant: a prompt that returned is settled without a commit.
RunFlushesUncommitted(r) ==
    /\ Resumes(r) /\ ~Sealed(r) /\ ~Elapsed(r)
    /\ \/ /\ pc[r] = "returned"
          /\ pc' = [pc EXCEPT ![r] = "settle"]
          /\ UNCHANGED wait
       \/ /\ pc[r] = "threw" /\ phase \notin {"aborting", "failed"}
          /\ pc' = [pc EXCEPT ![r] = "errcommit"]
          /\ Wants(r)
    /\ UNCHANGED <<fenceVars, phase, active, mark, queue, events, reported, failReq,
                   abortP, cxRun, cxStep, clean, disp, prep, prepAbort, nav, envVars>>

\* commitPersistence() after the prompt, or in the error path.
RunFlushes(r) ==
    /\ Resumes(r) /\ ~Sealed(r) /\ ~Elapsed(r)
    /\ \/ /\ pc[r] = "returned"
          /\ pc' = [pc EXCEPT ![r] = "commit"]
       \/ /\ pc[r] = "threw" /\ phase \notin {"aborting", "failed"}
          /\ pc' = [pc EXCEPT ![r] = "errcommit"]
    /\ Wants(r)
    /\ UNCHANGED <<fenceVars, phase, active, mark, queue, events, reported, failReq,
                   abortP, cxRun, cxStep, clean, disp, prep, prepAbort, nav, envVars>>

RunCommitted(r) ==
    /\ Resumes(r) /\ ~Sealed(r) /\ ~Elapsed(r)
    /\ pc[r] = "commit"
    /\ pc' = [pc EXCEPT ![r] = "settle"]
    /\ Done(r)
    /\ UNCHANGED <<fenceVars, phase, active, mark, queue, events, reported, failReq,
                   abortP, cxRun, cxStep, clean, disp, prep, prepAbort, nav, envVars>>

\* The commit failed: fail closed and wait for it.
RunFlushFails(r) ==
    /\ pc[r] \in {"commit", "errcommit"} /\ wait[r] = "err" /\ ~failReq
    /\ pc' = [pc EXCEPT ![r] = "cleanup"]
    /\ Done(r)
    /\ failReq' = TRUE
    /\ UNCHANGED <<fenceVars, phase, active, mark, queue, events, reported, abortP, cxRun,
                   cxStep, clean, disp, prep, prepAbort, nav, envVars>>

\* The end of runPrompt(): settled after git settlement, aborted or error after
\* the commit of the error path.
RunSettles(r) ==
    /\ Resumes(r) /\ ~Sealed(r) /\ ~Elapsed(r)
    /\ \/ pc[r] = "settle" /\ Terminal(r, "settled")
       \/ pc[r] = "errcommit" /\ \E k \in {"aborted", "error"} : Terminal(r, k)
    /\ pc' = [pc EXCEPT ![r] = "done"]
    /\ Done(r)
    /\ UNCHANGED <<fenceVars, queue, abortP, cxRun, cxStep, clean, disp, prep, prepAbort,
                   nav, envVars>>

RunCleaned(r) ==
    /\ pc[r] = "cleanup" /\ clean \in {"done", "rejected"}
    /\ pc' = [pc EXCEPT ![r] = "done"]
    /\ UNCHANGED <<fenceVars, phase, active, mark, queue, events, reported, procVars, envVars>>

-----------------------------------------------------------------------------
(***************************************************************************)
(* abort(), abortActive() and timeoutActive() after their first wait, and  *)
(* abortWithBound(): one native abort is shared by whoever waits for it.   *)
(* cxStep: abort, join (of the run), commit, fail.                         *)
(***************************************************************************)

AbortRequest ==
    /\ Drained /\ CallerMayEnter /\ Live
    /\ active # NoRun /\ "terminal" \notin mark[active]
    /\ mark' = Marked(active, {"suppress"})
    /\ phase' = "aborting"
    /\ cxRun' = active
    /\ \E ok \in BOOLEAN :
          /\ Discards(ok)
          /\ queue' = IF ok THEN {} ELSE queue
          /\ cxStep' = IF ok THEN "abort" ELSE "fail"
          /\ abortP' = IF ok THEN "pending" ELSE abortP
    /\ UNCHANGED <<fenceVars, active, pc, events, reported, failReq, clean, disp, prep,
                   prepAbort, nav, wait, envVars>>

\* session.abort() settles: both the canceller and the cleanup may be waiting.
AbortSettles ==
    /\ Drained
    /\ abortP = "pending"
    /\ abortP' = "none"
    /\ \E ok \in BOOLEAN :
          /\ cxStep' = IF cxStep # "abort" THEN cxStep ELSE IF ok THEN "join" ELSE "fail"
          /\ clean' = IF clean # "abort" THEN clean ELSE IF ok THEN "idle" ELSE "fail"
    /\ UNCHANGED <<fenceVars, runVars, failReq, cxRun, disp, prep, prepAbort, nav, wait,
                   envVars>>

\* Faulty variant: only the join of the run has a bound.
CancelJoinTimesOut ==
    /\ Drained
    /\ cxStep = "join"
    /\ cxStep' = "fail"
    /\ UNCHANGED <<fenceVars, runVars, failReq, abortP, cxRun, clean, disp, prep, prepAbort,
                   nav, wait, envVars>>

\* The bound of one wait for the abort, or of the join of the run, passes.
CancelTimesOut ==
    /\ Drained
    /\ cxStep \in {"abort", "join"}
    /\ cxStep' = "fail"
    /\ UNCHANGED <<fenceVars, runVars, failReq, abortP, cxRun, clean, disp, prep, prepAbort,
                   nav, wait, envVars>>

\* Faulty variant: the run is not joined after its abort.
CancelUnjoined ==
    /\ Drained
    /\ cxStep = "join"
    /\ cxStep' = "commit"
    /\ Wants("cancel")
    /\ UNCHANGED <<fenceVars, runVars, failReq, abortP, cxRun, clean, disp, prep, prepAbort,
                   nav, envVars>>

\* observerDeadline(active.promise): runPrompt() has returned.
CancelJoins ==
    /\ Drained
    /\ cxStep = "join" /\ pc[cxRun] = "done"
    /\ cxStep' = "commit"
    /\ Wants("cancel")
    /\ UNCHANGED <<fenceVars, runVars, failReq, abortP, cxRun, clean, disp, prep, prepAbort,
                   nav, envVars>>

\* An abort publishes run_aborted; a timeout, which published first, only opens
\* the session again.
CancelCompletes ==
    /\ cxStep = "commit" /\ wait["cancel"] = "ok" /\ ~failReq
    /\ \/ /\ "terminal" \notin mark[cxRun]
          /\ Terminal(cxRun, "aborted")
       \/ /\ "terminal" \in mark[cxRun]
          /\ active' = IF active = cxRun THEN NoRun ELSE active
          /\ phase' = IF phase = "aborting" THEN "open" ELSE phase
          /\ UNCHANGED <<mark, events, reported, failReq>>
    /\ cxStep' = "none" /\ cxRun' = NoRun
    /\ Done("cancel")
    /\ UNCHANGED <<fenceVars, pc, queue, abortP, clean, disp, prep, prepAbort, nav, envVars>>

\* Any failure of the cancellation fails closed.
CancelFails ==
    /\ ~failReq
    /\ cxStep = "fail" \/ (cxStep = "commit" /\ wait["cancel"] = "err")
    /\ failReq' = TRUE
    /\ cxStep' = "none" /\ cxRun' = NoRun
    /\ Done("cancel")
    /\ UNCHANGED <<fenceVars, runVars, abortP, clean, disp, prep, prepAbort, nav, envVars>>

-----------------------------------------------------------------------------
(***************************************************************************)
(* failClosed(): one cleanup, shared by every caller.  clean: abort, idle  *)
(* (tracked work), commit, release, then done or rejected; fail.           *)
(***************************************************************************)

FailClosed ==
    /\ failReq
    /\ failReq' = FALSE
    /\ IF clean # "none" \/ phase = "disposed"
       THEN UNCHANGED <<phase, mark, queue, abortP, clean, prepAbort>>
       ELSE /\ phase' = IF phase = "failed" THEN phase ELSE "aborting"
            /\ mark' = Marked(active, {"suppress"})
            /\ prepAbort' = (prepAbort \/ prep \in {"commit", "git", "export"})
            /\ \E ok \in BOOLEAN :
                  /\ Discards(ok)
                  /\ queue' = IF ok THEN {} ELSE queue
                  /\ clean' = IF ok THEN "abort" ELSE "fail"
                  /\ abortP' = IF ok THEN "pending" ELSE abortP
    /\ UNCHANGED <<fenceVars, active, pc, events, reported, cxRun, cxStep, disp, prep, nav,
                   wait, envVars>>

\* The bound of the wait for the abort, or for tracked work, passes.
CleanTimesOut ==
    /\ Drained
    /\ clean \in {"abort", "idle"}
    /\ clean' = "fail"
    /\ UNCHANGED <<fenceVars, runVars, failReq, abortP, cxRun, cxStep, disp, prep, prepAbort,
                   nav, wait, envVars>>

\* waitForIdle(): tracked work is zero.  A poisoned fence is not committed.
CleanIsIdle ==
    /\ Drained
    /\ clean = "idle" /\ tracked = 0
    /\ IF Usable
       THEN clean' = "commit" /\ Wants("clean") /\ UNCHANGED held
       ELSE clean' = "release" /\ held' = held \ {"resources"} /\ UNCHANGED wait
    /\ UNCHANGED <<fenceVars, runVars, failReq, abortP, cxRun, cxStep, disp, prep, prepAbort,
                   nav, fatal, sink>>

CleanCommitted ==
    /\ clean = "commit" /\ wait["clean"] = "ok" /\ ~failReq
    /\ clean' = "release"
    /\ held' = held \ {"resources"}
    /\ Done("clean")
    /\ UNCHANGED <<fenceVars, runVars, failReq, abortP, cxRun, cxStep, disp, prep, prepAbort,
                   nav, fatal, sink>>

\* Nothing proves that native work retired: every resource is kept.
CleanFails ==
    /\ ~failReq
    /\ clean = "fail" \/ (clean = "commit" /\ wait["clean"] = "err")
    /\ clean' = "rejected"
    /\ phase' = "failed"
    /\ fatal' = TRUE
    /\ Done("clean")
    /\ UNCHANGED <<fenceVars, active, pc, mark, queue, events, reported, failReq, abortP,
                   cxRun, cxStep, disp, prep, prepAbort, nav, held, sink>>

\* The exporter, git, prepared resources and the credential have been retired,
\* or some could not be: the secret is wiped only when the credential was.
CleanEnds ==
    /\ Drained
    /\ clean = "release"
    /\ \E retired, others \in BOOLEAN :
          /\ held' = IF retired THEN held \ {"credential"} ELSE held
          /\ clean' = IF retired /\ others /\ Usable THEN "done" ELSE "rejected"
    /\ active' = NoRun
    /\ phase' = "failed"
    /\ fatal' = TRUE
    /\ UNCHANGED <<fenceVars, pc, mark, queue, events, reported, failReq, abortP, cxRun,
                   cxStep, disp, prep, prepAbort, nav, wait, sink>>

-----------------------------------------------------------------------------
(***************************************************************************)
(* dispose(), begun once.  disp: join (of a shutdown preparation), next,   *)
(* cleanup (awaiting failClosed()), commit, release, done or failed.       *)
(***************************************************************************)

Dispose ==
    /\ Drained
    /\ disp = "none"
    /\ phase' = IF phase \in {"failed", "disposed"} THEN phase ELSE "draining"
    /\ disp' = IF prep = "none" THEN "next" ELSE "join"
    /\ prepAbort' = (prepAbort \/ prep \in {"commit", "git", "export"})
    /\ UNCHANGED <<fenceVars, active, pc, mark, queue, events, reported, failReq, abortP,
                   cxRun, cxStep, clean, prep, nav, wait, envVars>>

DisposeJoins ==
    /\ Drained
    /\ disp = "join"
    /\ \/ /\ prep \in {"ready", "failed"}
          /\ disp' = "next"
          /\ UNCHANGED phase
       \/ /\ prep \notin {"ready", "failed"}       \* the bound of the join passes
          /\ disp' = "failed"
          /\ phase' = "failed"
    /\ UNCHANGED <<fenceVars, active, pc, mark, queue, events, reported, failReq, abortP,
                   cxRun, cxStep, clean, prep, prepAbort, nav, wait, envVars>>

\* A cleanup in progress is awaited; a run that has not ended is failed closed;
\* otherwise commit.
DisposeProceeds ==
    /\ disp = "next" /\ ~failReq
    /\ IF clean # "none" \/ (active # NoRun /\ "terminal" \notin mark[active])
       THEN /\ disp' = "cleanup"
            /\ failReq' = (clean = "none")
            /\ UNCHANGED wait
       ELSE /\ disp' = "commit"
            /\ Wants("dispose")
            /\ UNCHANGED failReq
    /\ UNCHANGED <<fenceVars, runVars, abortP, cxRun, cxStep, clean, prep, prepAbort, nav,
                   envVars>>

DisposeCleaned ==
    /\ Drained
    /\ disp = "cleanup" /\ clean \in {"done", "rejected"}
    /\ disp' = IF clean = "done" THEN "done" ELSE "failed"
    /\ phase' = IF clean = "done" THEN phase ELSE "failed"
    /\ UNCHANGED <<fenceVars, active, pc, mark, queue, events, reported, failReq, abortP,
                   cxRun, cxStep, clean, prep, prepAbort, nav, wait, envVars>>

DisposeCommitted ==
    /\ disp = "commit" /\ ~failReq
    /\ \/ /\ wait["dispose"] = "ok"
          /\ disp' = "release"
          /\ held' = held \ {"resources"}
          /\ UNCHANGED phase
       \/ /\ wait["dispose"] = "err"
          /\ disp' = "failed"
          /\ phase' = "failed"
          /\ UNCHANGED held
    /\ Done("dispose")
    /\ UNCHANGED <<fenceVars, active, pc, mark, queue, events, reported, failReq, abortP,
                   cxRun, cxStep, clean, prep, prepAbort, nav, fatal, sink>>

DisposeEnds ==
    /\ Drained
    /\ disp = "release"
    /\ \E retired, others \in BOOLEAN :
          /\ held' = IF retired THEN held \ {"credential"} ELSE held
          /\ disp' = IF retired /\ others THEN "done" ELSE "failed"
          /\ phase' = IF retired /\ others THEN "disposed" ELSE "failed"
    /\ UNCHANGED <<fenceVars, active, pc, mark, queue, events, reported, failReq, abortP,
                   cxRun, cxStep, clean, prep, prepAbort, nav, wait, fatal, sink>>

-----------------------------------------------------------------------------
(***************************************************************************)
(* prepareShutdown(), begun once.  prep: commit, git, export, failing      *)
(* (awaiting failClosed()), ready or failed.                               *)
(***************************************************************************)

PrepareShutdown ==
    /\ Drained
    /\ LateInput \/ disp = "none"
    /\ Usable
    /\ prep = "none"
    /\ phase = "open" /\ active = NoRun /\ ~Streaming
    /\ phase' = "draining"
    /\ prep' = "commit"
    /\ Wants("prepare")
    /\ UNCHANGED <<fenceVars, active, pc, mark, queue, events, reported, failReq, abortP,
                   cxRun, cxStep, clean, disp, prepAbort, nav, envVars>>

PrepareCommitted ==
    /\ prep = "commit" /\ ~failReq
    /\ wait["prepare"] \in {"ok", "err"}
    /\ prep' = IF wait["prepare"] = "ok" THEN "git" ELSE "failing"
    /\ failReq' = (wait["prepare"] = "err")
    /\ Done("prepare")
    /\ UNCHANGED <<fenceVars, runVars, abortP, cxRun, cxStep, clean, disp, prepAbort, nav,
                   envVars>>

\* gitBinding.shutdown() returned; its signal may have been aborted meanwhile.
PrepareMapped ==
    /\ Drained
    /\ prep = "git"
    /\ prep' = IF prepAbort THEN "failing" ELSE "export"
    /\ failReq' = prepAbort
    /\ UNCHANGED <<fenceVars, runVars, abortP, cxRun, cxStep, clean, disp, prepAbort, nav,
                   wait, envVars>>

\* The export is made and shutdown_ready published, or either fails.
PrepareExported ==
    /\ Drained
    /\ prep = "export"
    /\ \/ /\ Publishable
          /\ prep' = "ready"
          /\ phase' = "shutdown"
          /\ reported' = revision
          /\ UNCHANGED failReq
       \/ /\ prep' = "failing"
          /\ failReq' = TRUE
          /\ UNCHANGED <<phase, reported>>
    /\ UNCHANGED <<fenceVars, active, pc, mark, queue, events, abortP, cxRun, cxStep, clean,
                   disp, prepAbort, nav, wait, envVars>>

PrepareCleaned ==
    /\ Drained
    /\ prep = "failing" /\ (clean \in {"done", "rejected"} \/ phase = "disposed")
    /\ prep' = "failed"
    /\ UNCHANGED <<fenceVars, runVars, failReq, abortP, cxRun, cxStep, clean, disp,
                   prepAbort, nav, wait, envVars>>

-----------------------------------------------------------------------------
(***************************************************************************)
(* navigate(), one call at a time (a second one during the commit of the   *)
(* first is refused by track() and poisons the fence, as a prompt does);   *)
(* and the end of the event sink.                                          *)
(***************************************************************************)

Navigate ==
    /\ Drained /\ CallerMayEnter /\ Live
    /\ nav = "none" /\ active = NoRun /\ ~Streaming
    /\ Track
    /\ nav' = "native"
    /\ UNCHANGED <<runVars, failReq, abortP, cxRun, cxStep, clean, disp, prep, prepAbort,
                   wait, envVars>>

\* navigateTree() returns, and the call commits; or it throws.
NavigateReturns ==
    /\ Drained
    /\ nav = "native"
    /\ Retire
    /\ \/ nav' = "commit" /\ Wants("navigate")
       \/ nav' = "none" /\ UNCHANGED wait
    /\ UNCHANGED <<runVars, failReq, abortP, cxRun, cxStep, clean, disp, prep, prepAbort,
                   envVars>>

NavigateEnds ==
    /\ nav = "commit" /\ wait["navigate"] \in {"ok", "err"} /\ ~failReq
    /\ nav' = "none"
    /\ Done("navigate")
    /\ UNCHANGED <<fenceVars, runVars, failReq, abortP, cxRun, cxStep, clean, disp, prep,
                   prepAbort, envVars>>

\* The API closes, or a port timeout poisons it: publish() returns false.
SinkGone ==
    /\ Drained
    /\ sink
    /\ sink' = FALSE
    /\ UNCHANGED <<fenceVars, runVars, procVars, held, fatal>>

-----------------------------------------------------------------------------

RunStep(r) ==
    \/ PromptStarts(r) \/ RunReturns(r) \/ RunExpires(r) \/ RunFlushes(r)
    \/ RunCommitted(r) \/ RunFlushFails(r) \/ RunSettles(r) \/ RunCleaned(r)

CancelStep == CancelTimesOut \/ CancelJoins \/ CancelCompletes \/ CancelFails

CleanStep ==
    \/ FailClosed \/ CleanTimesOut \/ CleanIsIdle
    \/ CleanCommitted \/ CleanFails \/ CleanEnds

DisposeStep ==
    DisposeJoins \/ DisposeProceeds \/ DisposeCleaned \/ DisposeCommitted \/ DisposeEnds

PrepareStep == PrepareCommitted \/ PrepareMapped \/ PrepareExported \/ PrepareCleaned

PiNext ==
    \/ \E r \in Runs :
          \/ InputPrompt(r) \/ InputQueued(r) \/ DeadlinePasses(r) \/ DeadlineFires(r)
          \/ PromptEnds(r) \/ RunStep(r)
    \/ \E w \in Waiters : CommitCall(w)
    \/ CommitSettles
    \/ NativeAppends \/ EventRefused \/ GitEventRefused
    \/ AbortRequest \/ AbortSettles \/ CancelStep
    \/ CleanStep
    \/ Dispose \/ DisposeStep
    \/ PrepareShutdown \/ PrepareStep
    \/ Navigate \/ NavigateReturns \/ NavigateEnds
    \/ SinkGone

(***************************************************************************)
(* Timers fire, continuations run, the file system answers and resources   *)
(* settle their disposal.  Nothing is assumed of native prompts, of the    *)
(* native abort, or of callers.                                            *)
(***************************************************************************)
PiWork ==
    \/ \E r \in Runs : DeadlinePasses(r) \/ DeadlineFires(r) \/ RunStep(r)
    \/ \E w \in Waiters : CommitCall(w)
    \/ CommitSettles \/ CancelStep \/ CleanStep \/ DisposeStep \/ PrepareStep \/ NavigateEnds

PiFairness == WF_piVars(PiWork)

PiSafety == PiInit /\ [][PiNext]_piVars

PiSpec == PiSafety /\ PiFairness

-----------------------------------------------------------------------------

RunTypeOK ==
    /\ phase \in {"open", "running", "aborting", "draining", "shutdown", "failed", "disposed"}
    /\ active \in Runs \cup {NoRun}
    /\ pc \in [Runs -> {"idle", "begin", "native", "returned", "threw", "commit", "settle",
                        "errcommit", "cleanup", "done"}]
    /\ mark \in [Runs -> SUBSET {"terminal", "suppress", "elapsed"}]
    /\ queue \subseteq Runs
    /\ events \in [Runs -> Seq({"settled", "aborted", "error", "timeout"})]
    /\ reported \in 0..MaxAppends

ProcTypeOK ==
    /\ abortP \in {"none", "pending"}
    /\ cxRun \in Runs \cup {NoRun}
    /\ cxStep \in {"none", "abort", "join", "commit", "fail"}
    /\ clean \in {"none", "abort", "idle", "commit", "fail", "release", "done", "rejected"}
    /\ disp \in {"none", "join", "next", "cleanup", "commit", "release", "done", "failed"}
    /\ prep \in {"none", "commit", "git", "export", "failing", "ready", "failed"}
    /\ nav \in {"none", "native", "commit"}
    /\ wait \in [Waiters -> {"no", "want", "wait", "ok", "err"}]
    /\ held \subseteq {"resources", "credential"}

FlagTypeOK ==
    /\ failReq \in BOOLEAN /\ prepAbort \in BOOLEAN
    /\ fatal \in BOOLEAN /\ sink \in BOOLEAN

\* Every variable has its type.
PiTypeOK == FenceTypeOK /\ RunTypeOK /\ ProcTypeOK /\ FlagTypeOK

\* A terminal event (other than the timeout's, which goes out before the
\* cancellation) and shutdown_ready report a history that is durable: whatever
\* a reader was told is settled survives a crash (runPrompt(), abortActive() and
\* prepareShutdownOnce() commit before they publish).
ReportedIsDurable == reported <= durable /\ durable <= synced

\* No resource is disposed and no credential wiped while tracked native work is
\* running ("Keep every dependent resource and credential owner intact until the
\* fence's actual tracked work reaches zero", failClosed(); and disposeOnce()).
WorkKeepsItsResources == tracked > 0 => held = {"resources", "credential"}

\* A steering or follow-up input still pending in native code belongs to the
\* active run: it can never be taken up by a later one (discardPendingInputs()
\* and queuedInputOpen).
QueuedInputStaysWithRun == \A r \in queue : active = r

\* What the history file and the resources of a session may be relied on for,
\* in every state: see the parts.
PiSafe ==
    /\ PiTypeOK /\ DurableIsSynced
    /\ ReportedIsDurable /\ WorkKeepsItsResources /\ QueuedInputStaysWithRun

\* The session keeps the promise of RunLedger: runs do not overlap, each ends at
\* most once, and once the session began to shut down or to fail nothing is
\* admitted (phase, active, and the terminal and suppressLate flags together).
Ledger == INSTANCE RunLedger WITH
    story <- [r \in Runs |-> IF pc[r] = "idle" THEN <<>> ELSE <<"admitted">> \o events[r]],
    working <- {r \in Runs : pc[r] \notin {"idle", "done"}},
    gate <- disp = "none" /\ prep = "none" /\ clean = "none" /\ ~failReq

KeepsLedger == Ledger!LedgerSpec

\* Every admitted run ends in a terminal event, or the owner is told that the
\* session failed, even if native code and its abort hang for ever (the turn
\* deadline, abortWithBound() and observerDeadline()).
EveryRunEnds ==
    []<>(\A r \in Runs : pc[r] = "idle" \/ events[r] # <<>> \/ fatal)

=============================================================================

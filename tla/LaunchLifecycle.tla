-------------------------- MODULE LaunchLifecycle --------------------------
(***************************************************************************)
(* The launch lifecycle of a worker (src/src/launch/lifecycle.ts) and the  *)
(* close owners it is built on (src/src/launch/close.ts).                  *)
(*                                                                         *)
(* Dependencies start one after the other; the start work of one may still *)
(* be running when startup is abandoned.  Shutdown has one owner, begun    *)
(* once by whoever asks first, and any number of observers, each with a    *)
(* deadline or a cancellation of its own: an observer that gives up        *)
(* decides how the lifecycle is reported, never what the owner does.       *)
(*                                                                         *)
(* In production the owner first closes the session and the API            *)
(* (shutdownOwner, src/src/runtime/compose.ts), then the dependencies.     *)
(* Health checks and loss callbacks both end in dependencyLost().          *)
(***************************************************************************)
EXTENDS Naturals, Sequences, Functions

CONSTANTS
    Order,        \* launchDependencyNames, in start order
    Independent,  \* the dependencies that have a beginClose owner
    Requests      \* requestShutdown() calls: operator, signal, dispose, composite

Deps == Range(Order)

\* requestShutdown() is also called by start(), by the emergency timer and by
\* turnSettled().
Observers == Requests \cup {"start", "emergency", "turn"}

ASSUME LifecycleAssumption ==
    /\ Order \in Seq(Deps) /\ Order # <<>>
    /\ IsInjective(Order)
    /\ Independent \subseteq Deps

VARIABLES
    state,       \* #state
    published,   \* is #readyConfig set?
    depState,    \* #dependencyStates
    attempted,   \* how many dependencies of Order are in #attemptedDependencies
    work,        \* #startWork: none, running, ok or failed
    starter,     \* #start(): idle, awaiting, closing, returned or failed
    shutdown,    \* #shutdownStarted
    reason,      \* #shutdownReason
    owner,       \* #shutdown(): see OwnerStates
    closing,     \* per dependency: open, closing, closed or failed
    request,     \* per observer: none, watching, resolved or rejected
    recycleTimer, recyclePending, emergencyTimer

timerVars == <<recycleTimer, recyclePending, emergencyTimer>>
startVars == <<depState, attempted, work, starter>>
launchVars == <<state, published, depState, attempted, work, starter, shutdown, reason,
                owner, closing, request, recycleTimer, recyclePending, emergencyTimer>>

Terminal == {"stopped", "failed"}

\* prepare: the session and the API are closing.  deps: the dependencies are.
\* kept: the session did not close, so no dependency is touched.
OwnerStates == {"none", "prepare", "kept", "deps", "ok", "failed"}

Attempted == {Order[i] : i \in 1..attempted}

Position(d) == CHOOSE i \in 1..Len(Order) : Order[i] = d

LaunchReady == state = "ready" /\ published

LaunchInit ==
    /\ state = "created" /\ published = FALSE
    /\ depState = [d \in Deps |-> "pending"]
    /\ attempted = 0
    /\ work = [d \in Deps |-> "none"]
    /\ starter = "idle"
    /\ shutdown = FALSE /\ reason = "requested"
    /\ owner = "none"
    /\ closing = [d \in Deps |-> "open"]
    /\ request = [o \in Observers |-> "none"]
    /\ recycleTimer = FALSE /\ recyclePending = FALSE /\ emergencyTimer = FALSE

-----------------------------------------------------------------------------
(***************************************************************************)
(* #beginShutdown(): the first call seals admission, aborts startup and    *)
(* clears the timers; every later call finds the work begun.  The caller   *)
(* says what becomes of #state.                                            *)
(***************************************************************************)
BeginShutdown(why) ==
    /\ shutdown' = TRUE
    /\ published' = FALSE
    /\ reason' = IF shutdown THEN reason ELSE why
    /\ owner' = IF shutdown THEN owner ELSE "prepare"
    /\ recycleTimer' = FALSE /\ emergencyTimer' = FALSE
    /\ UNCHANGED recyclePending

\* requestShutdown(): an observer starts to watch; only the first call drains.
RequestShutdown(o, why) ==
    /\ request[o] = "none"
    /\ request' = [request EXCEPT ![o] = "watching"]
    /\ state' = IF shutdown \/ state \in Terminal THEN state ELSE "draining"
    /\ BeginShutdown(why)

\* #failClosed(): its own observer can change nothing any more and is left out.
FailClosed(why) ==
    /\ state' = "failed"
    /\ BeginShutdown(why)
    /\ UNCHANGED request

-----------------------------------------------------------------------------
(***************************************************************************)
(* start().                                                                *)
(***************************************************************************)

\* One turn of the loop: the dependency is attempted and its work registered.
Attempt(i) ==
    /\ attempted' = i
    /\ work' = [work EXCEPT ![Order[i]] = "running"]

Start ==
    /\ state = "created"
    /\ state' = "starting"
    /\ starter' = "awaiting"
    /\ Attempt(1)
    /\ UNCHANGED <<published, depState, shutdown, reason, owner, closing, request, timerVars>>

\* The dependency's start() settles, perhaps long after it was abandoned.
WorkEnds(d, ok) ==
    /\ work[d] = "running"
    /\ work' = [work EXCEPT ![d] = IF ok THEN "ok" ELSE "failed"]
    /\ UNCHANGED <<state, published, depState, attempted, starter, shutdown, reason, owner,
                   closing, request, timerVars>>

\* #throwIfStartInterrupted()
StartInterruption == shutdown \/ state # "starting"

\* dependencyReady() of the current dependency, then the next turn of the loop;
\* the last one makes the lifecycle ready and arms the recycle timer.
StartContinues ==
    /\ starter = "awaiting" /\ work[Order[attempted]] = "ok"
    /\ ~StartInterruption
    /\ depState' = [depState EXCEPT ![Order[attempted]] = "ready"]
    /\ IF attempted = Len(Order)
       THEN /\ state' = "ready" /\ published' = TRUE /\ recycleTimer' = TRUE
            /\ starter' = "returned"
            /\ UNCHANGED <<attempted, work>>
       ELSE /\ Attempt(attempted + 1)
            /\ UNCHANGED <<state, published, recycleTimer, starter>>
    /\ UNCHANGED <<shutdown, reason, owner, closing, request, recyclePending, emergencyTimer>>

\* #withAbort() rejects, or the work ended too late: start() joins the shutdown.
StartInterrupted ==
    /\ starter = "awaiting" /\ shutdown
    /\ starter' = "closing"
    /\ RequestShutdown("start", "requested")
    /\ UNCHANGED <<depState, attempted, work, closing>>

\* dependencyStartFailed()
StartFails ==
    /\ starter = "awaiting" /\ work[Order[attempted]] = "failed"
    /\ ~shutdown
    /\ starter' = "failed"
    /\ depState' = [depState EXCEPT ![Order[attempted]] = "failed"]
    /\ FailClosed("dependency-start-failed")
    /\ UNCHANGED <<attempted, work, closing>>

\* dependencyLost(), called back by a dependency or by the health check.
DependencyLost(d) ==
    /\ d \in Attempted
    /\ state \notin Terminal
    /\ depState' = [depState EXCEPT ![d] = "lost"]
    /\ FailClosed("dependency-lost")
    /\ UNCHANGED <<attempted, work, starter, closing>>

-----------------------------------------------------------------------------
(***************************************************************************)
(* Requests for shutdown and the recycle timers.                           *)
(***************************************************************************)

CallerRequests(r) ==
    /\ RequestShutdown(r, "requested")
    /\ UNCHANGED <<startVars, closing>>

\* Faulty variant: the emergency deadline is not armed.
RecycleFiresUnarmed ==
    /\ recycleTimer /\ LaunchReady
    /\ recycleTimer' = FALSE /\ recyclePending' = TRUE
    /\ UNCHANGED <<state, published, startVars, shutdown, reason, owner, closing, request,
                   emergencyTimer>>

RecycleFires ==
    /\ recycleTimer /\ LaunchReady
    /\ recycleTimer' = FALSE /\ recyclePending' = TRUE /\ emergencyTimer' = TRUE
    /\ UNCHANGED <<state, published, startVars, shutdown, reason, owner, closing, request>>

EmergencyFires ==
    /\ emergencyTimer
    /\ RequestShutdown("emergency", "recycle-emergency-deadline")
    /\ UNCHANGED <<startVars, closing>>

TurnSettled ==
    /\ recyclePending \/ shutdown
    /\ RequestShutdown("turn", "recycle-turn-settled")
    /\ UNCHANGED <<startVars, closing>>

-----------------------------------------------------------------------------
(***************************************************************************)
(* #shutdown(): the one owner.  It ignores every observer's deadline.      *)
(***************************************************************************)

\* #cleanupFailed()
CleanupFailed == state' = IF state \in Terminal THEN state ELSE "failed"

OwnerFails(how) ==
    /\ owner' = how
    /\ CleanupFailed

\* shutdownOwner: the session and the API are closed before any dependency.
SessionClosed(ok) ==
    /\ owner = "prepare"
    /\ IF ok THEN owner' = "deps" /\ UNCHANGED state ELSE OwnerFails("kept")
    /\ UNCHANGED <<published, startVars, shutdown, reason, closing, request, timerVars>>

Settled(d) == work[d] \in {"ok", "failed"}

\* #closeDependencies(): independent owners begin as soon as their start work
\* has settled; the others wait for all of those and for every later one.
MayClose(d) ==
    /\ d \in Attempted /\ Settled(d)
    /\ d \notin Independent =>
          \A e \in Attempted :
             e \in Independent \/ Position(e) > Position(d) => closing[e] = "closed"

CloseBegins(d) ==
    /\ owner \in {"deps", "failed"}
    /\ closing[d] = "open" /\ MayClose(d)
    /\ closing' = [closing EXCEPT ![d] = "closing"]
    /\ UNCHANGED <<state, published, startVars, shutdown, reason, owner, request, timerVars>>

CloseReturns(d, ok) ==
    /\ closing[d] = "closing"
    /\ closing' = [closing EXCEPT ![d] = IF ok THEN "closed" ELSE "failed"]
    /\ UNCHANGED <<state, published, startVars, shutdown, reason, owner, request, timerVars>>

\* A rejected close, a timer handle or a subscription that throws, or telemetry
\* that does not retire make the cleanup uncertain.
OwnerEnds(ok) ==
    /\ owner = "deps"
    /\ \/ /\ \A d \in Attempted : closing[d] = "closed"
          /\ IF ok THEN owner' = "ok" /\ UNCHANGED state ELSE OwnerFails("failed")
       \/ /\ \E d \in Deps : closing[d] = "failed"
          /\ ~ok /\ OwnerFails("failed")
    /\ UNCHANGED <<published, startVars, shutdown, reason, closing, request, timerVars>>

-----------------------------------------------------------------------------
(***************************************************************************)
(* observeClose().                                                         *)
(***************************************************************************)

StarterSees(o, outcome) ==
    starter' = IF o = "start" THEN outcome ELSE starter

\* Faulty variant: an observer does not wait for the owner.
RequestResolvesEarly(o) ==
    /\ request[o] = "watching"
    /\ request' = [request EXCEPT ![o] = "resolved"]
    /\ state' = IF state \in Terminal THEN state ELSE "stopped"
    /\ StarterSees(o, "returned")
    /\ UNCHANGED <<published, depState, attempted, work, shutdown, reason, owner, closing, timerVars>>

RequestResolves(o) ==
    /\ request[o] = "watching" /\ owner = "ok"
    /\ request' = [request EXCEPT ![o] = "resolved"]
    /\ state' = IF state \in Terminal THEN state ELSE "stopped"
    /\ StarterSees(o, "returned")
    /\ UNCHANGED <<published, depState, attempted, work, shutdown, reason, owner, closing, timerVars>>

\* The owner failed, or this observer's deadline or cancellation came first.
RequestRejects(o) ==
    /\ request[o] = "watching"
    /\ request' = [request EXCEPT ![o] = "rejected"]
    /\ CleanupFailed
    /\ StarterSees(o, "failed")
    /\ UNCHANGED <<published, depState, attempted, work, shutdown, reason, owner, closing, timerVars>>

-----------------------------------------------------------------------------
StartSteps ==
    \/ Start \/ StartContinues \/ StartInterrupted \/ StartFails
    \/ \E d \in Deps, ok \in BOOLEAN : WorkEnds(d, ok)

CloseSteps ==
    \/ \E ok \in BOOLEAN : SessionClosed(ok) \/ OwnerEnds(ok)
    \/ \E d \in Deps, ok \in BOOLEAN : CloseBegins(d) \/ CloseReturns(d, ok)
    \/ \E o \in Observers : RequestResolves(o) \/ RequestRejects(o)

LaunchNext ==
    \/ StartSteps
    \/ \E d \in Deps : DependencyLost(d)
    \/ \E r \in Requests : CallerRequests(r)
    \/ RecycleFires \/ EmergencyFires \/ TurnSettled
    \/ CloseSteps

LaunchSpec == LaunchInit /\ [][LaunchNext]_launchVars

\* Timers fire and the event loop runs: an observer's deadline, the emergency
\* deadline and the abort of startup are not put off forever.  Nothing is assumed
\* of a dependency: its start() or its close may hang.
LaunchFairness ==
    /\ WF_launchVars(EmergencyFires)
    /\ WF_launchVars(StartInterrupted)
    /\ \A o \in Observers : WF_launchVars(RequestRejects(o))

LaunchFairSpec == LaunchSpec /\ LaunchFairness

-----------------------------------------------------------------------------
(***************************************************************************)
(* Properties.                                                             *)
(***************************************************************************)

\* Every variable has its type.
LaunchTypeOK ==
    /\ state \in {"created", "starting", "ready", "draining", "stopped", "failed"}
    /\ published \in BOOLEAN
    /\ depState \in [Deps -> {"pending", "ready", "failed", "lost"}]
    /\ attempted \in 0..Len(Order)
    /\ work \in [Deps -> {"none", "running", "ok", "failed"}]
    /\ starter \in {"idle", "awaiting", "closing", "returned", "failed"}
    /\ shutdown \in BOOLEAN
    /\ reason \in {"requested", "dependency-start-failed", "dependency-lost",
                   "recycle-emergency-deadline", "recycle-turn-settled"}
    /\ owner \in OwnerStates
    /\ closing \in [Deps -> {"open", "closing", "closed", "failed"}]
    /\ request \in [Observers -> {"none", "watching", "resolved", "rejected"}]
    /\ recycleTimer \in BOOLEAN /\ recyclePending \in BOOLEAN /\ emergencyTimer \in BOOLEAN

(***************************************************************************)
(* A lifecycle that reports `stopped` has closed every dependency it ever  *)
(* attempted, none of their start work is still running, and none will be  *)
(* attempted later: no deadline, cancellation or race of observers turns   *)
(* an unfinished cleanup into a clean stop.                                *)
(***************************************************************************)
StoppedMeansClosed ==
    state = "stopped" =>
        /\ \A d \in Attempted : closing[d] = "closed"
        /\ \A d \in Deps : work[d] # "running"

(***************************************************************************)
(* Readiness is withdrawn before anything a user of the worker relies on   *)
(* is taken away: while it is ready every dependency has started, none is  *)
(* lost, and no shutdown has begun.                                        *)
(***************************************************************************)
ReadyMeansWhole ==
    LaunchReady =>
        /\ \A d \in Deps : depState[d] = "ready" /\ work[d] = "ok" /\ closing[d] = "open"
        /\ ~shutdown /\ owner = "none"

(***************************************************************************)
(* Custody: a dependency is released only after the session that uses it,  *)
(* and only when everything started after it and every independent owner   *)
(* has closed successfully, so a close that failed or hangs, or a start    *)
(* that is still running, keeps what it uses.                              *)
(***************************************************************************)
ReleaseOrder ==
    \A d \in Deps : closing[d] # "open" =>
        /\ work[d] # "running" /\ owner \notin {"none", "prepare", "kept"}
        /\ d \notin Independent =>
              \A e \in Attempted :
                 e \in Independent \/ Position(e) > Position(d) =>
                     closing[e] = "closed" /\ work[e] # "running"

(***************************************************************************)
(* A dependency that failed to start or was lost before the lifecycle      *)
(* ended is always reported as a failure, even when it is lost during a    *)
(* shutdown that then succeeds.                                            *)
(***************************************************************************)
LossIsFailure ==
    (\E d \in Deps : depState[d] \in {"failed", "lost"}) => state = "failed"

(***************************************************************************)
(* What the owner of a worker may rely on in every state: a clean stop has *)
(* closed everything, readiness means a whole worker, resources go in the  *)
(* order of their use, and no loss is ever reported as a success.          *)
(***************************************************************************)
LaunchSafe ==
    LaunchTypeOK /\ StoppedMeansClosed /\ ReadyMeansWhole /\ ReleaseOrder /\ LossIsFailure

(***************************************************************************)
(* `stopped` and `failed` are final, and a lifecycle whose shutdown has    *)
(* begun never becomes ready again.                                        *)
(***************************************************************************)
EndsOnce ==
    [][ /\ state \in Terminal => state' = state
        /\ shutdown => shutdown' /\ ~published' ]_launchVars

(***************************************************************************)
(* Shutdown is decided although a dependency may hang: once it has begun   *)
(* the lifecycle stops or fails and every caller is answered; and a        *)
(* pending recycle always ends in a shutdown.                              *)
(***************************************************************************)
ShutdownDecides ==
    /\ shutdown ~> state \in Terminal
    /\ \A o \in Observers : request[o] = "watching" ~> request[o] # "watching"
    /\ shutdown /\ starter = "awaiting" ~> starter \in {"returned", "failed"}
    /\ recyclePending ~> shutdown
=============================================================================

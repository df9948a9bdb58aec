------------------------ MODULE EgressRuntimeManager ------------------------
(***************************************************************************)
(* The owner of one egress generation (src/src/egress/runtime-manager.ts): *)
(* it opens the WAL and the completion queue, starts the authorization     *)
(* server, then runs a lexical scope that holds the secret material while  *)
(* a revocation watcher and an Envoy process live in it.                   *)
(*                                                                         *)
(* Three parties may tear the generation down at the same time: closeOnce, *)
(* the scope's own catch block, and the actions of the revocation watcher, *)
(* whose module this one extends.  They share memoized close owners, and   *)
(* each waits only for the handles that existed when it looked.            *)
(***************************************************************************)
EXTENDS RevocationWatcher

VARIABLES
    mstart,       \* start(): off, wal, await, published or failed
    scope,        \* runScoped(), see ScopeStates
    material,     \* the files on tmpfs and what they were made from
    authz,        \* none, up, unready, closing, closed or failed
    envoy,        \* none, starting, up, dead, reaping, closing, closed or failed
    walState,     \* none, ready, poisoned, closed or failed
    queueState,   \* none, open, poisoned, closed or kept
    readyState,   \* readyState
    mclosing,     \* closing
    replacement,  \* replacement
    closeStep,    \* closeOnce(), see CloseSteps
    closeWaits,   \* the producers closeOnce() waits for
    unwindWaits,  \* the producers the catch block of withMaterial() waits for
    verdict       \* failed, queueRetired and retirementCertain of closeOnce()

scopeVars == <<scope, material, unwindWaits>>
closeOnceVars == <<closeStep, closeWaits, verdict>>
managerVars == <<mstart, scope, material, authz, envoy, walState, queueState, readyState,
                 mclosing, replacement, closeStep, closeWaits, unwindWaits, verdict>>
generationVars == <<watcherVars, managerVars>>

ScopeStates == {"none", "acquire", "tmpfs", "watch", "spawn", "held", "unwind", "stuck",
                "leaving", "throwing", "ended", "broken", "uncertain"}
CloseSteps == {"none", "producers", "queue", "telemetry", "scope", "wal", "done", "failed"}
Producers == {"watcher", "authz", "envoy"}

NoVerdict == [failed |-> FALSE, certain |-> TRUE]

ManagerInit ==
    /\ WatcherInit
    /\ mstart = "off" /\ scope = "none" /\ material = "none"
    /\ authz = "none" /\ envoy = "none" /\ walState = "none" /\ queueState = "none"
    /\ readyState = FALSE /\ mclosing = FALSE /\ replacement = FALSE
    /\ closeStep = "none" /\ closeWaits = {} /\ unwindWaits = {} /\ verdict = NoVerdict

DependenciesReady ==
    /\ walState = "ready" /\ queueState = "open"
    /\ authz = "up" /\ envoy = "up" /\ WatcherReady

\* isReady()
ManagerReady == readyState /\ ~mclosing /\ ~replacement /\ DependenciesReady

-----------------------------------------------------------------------------
(***************************************************************************)
(* closeWatcher(), closeAuthz() and closeProcess() begin together on the   *)
(* handles there are; a handle that does not exist yet counts as closed.   *)
(* The argument e is the state of the Envoy process at that moment, which  *)
(* the same step may just have reached.                                    *)
(***************************************************************************)
Handles(e) ==
    {p \in Producers :
        \/ p = "watcher" /\ phase = "up"
        \/ p = "authz" /\ authz # "none"
        \/ p = "envoy" /\ e \in {"up", "dead", "closing", "closed", "failed"}}

AuthzCloses == authz' = IF authz \in {"up", "unready"} THEN "closing" ELSE authz
EnvoyCloses(e) == envoy' = IF e \in {"up", "dead"} THEN "closing" ELSE e

CloseProducers(e) ==
    /\ AuthzCloses
    /\ EnvoyCloses(e)
    /\ IF phase = "up" /\ closing = "none" THEN CloseWatcher ELSE UNCHANGED watcherVars

Joined(waits) ==
    \A p \in waits :
        \/ p = "watcher" /\ closing = "retired"
        \/ p = "authz" /\ authz \in {"closed", "failed"}
        \/ p = "envoy" /\ envoy \in {"closed", "failed"}

Unretired(waits) ==
    \/ "authz" \in waits /\ authz = "failed"
    \/ "envoy" \in waits /\ envoy = "failed"

\* beginClose(): once, whoever asks.
BeginManagerClose(e) ==
    /\ mclosing' = TRUE
    /\ readyState' = FALSE
    /\ IF closeStep = "none"
       THEN /\ closeStep' = "producers"
            /\ closeWaits' = Handles(e)
            /\ CloseProducers(e)
       ELSE envoy' = e /\ UNCHANGED <<closeStep, closeWaits, authz, watcherVars>>
    /\ UNCHANGED verdict

\* start() rejects, and startCogsEgressRuntimeManager() closes what there is.
RejectStart(e) ==
    /\ mstart' = "failed"
    /\ BeginManagerClose(e)

-----------------------------------------------------------------------------
(***************************************************************************)
(* start().                                                                *)
(***************************************************************************)
OpenWal(ok) ==
    /\ mstart = "off"
    /\ walState' = IF ok THEN "ready" ELSE "none"
    /\ queueState' = IF ok THEN "open" ELSE "none"
    /\ IF ok
       THEN mstart' = "wal" /\ UNCHANGED <<watcherVars, authz, envoy, readyState, mclosing, closeOnceVars>>
       ELSE RejectStart(envoy)
    /\ UNCHANGED <<scopeVars, replacement>>

\* A successful startAuthz() is followed by the scope in the same continuation.
StartAuthz(ok) ==
    /\ mstart = "wal"
    /\ IF ok
       THEN /\ mstart' = "await" /\ authz' = "up" /\ scope' = "acquire"
            /\ UNCHANGED <<watcherVars, envoy, readyState, mclosing, closeOnceVars>>
       ELSE RejectStart(envoy) /\ UNCHANGED scope
    /\ UNCHANGED <<material, unwindWaits, walState, queueState, replacement>>

\* startupObservationTimeoutMs
StartDeadline ==
    /\ mstart = "await"
    /\ RejectStart(envoy)
    /\ UNCHANGED <<scopeVars, walState, queueState, replacement>>

\* readyReject(), which means nothing when start() has settled.
ReadyReject(e) ==
    IF mstart = "await"
    THEN RejectStart(e)
    ELSE envoy' = e /\ UNCHANGED <<mstart, watcherVars, authz, readyState, mclosing, closeOnceVars>>

-----------------------------------------------------------------------------
(***************************************************************************)
(* runScoped() and withMaterial().                                         *)
(***************************************************************************)

\* scopePromise has settled: the generation cannot go on without it.
ScopeSettles(how) ==
    /\ scope' = how
    /\ IF mstart = "published" /\ (how # "ended" \/ ~mclosing)
       THEN BeginManagerClose(envoy) /\ UNCHANGED mstart
       ELSE IF mstart = "await"
            THEN RejectStart(envoy)
            ELSE /\ readyState' = FALSE
                 /\ UNCHANGED <<mstart, watcherVars, authz, envoy, mclosing, closeOnceVars>>

\* PKI, revocation binding, configuration and tmpfs, each of which may fail or
\* find that the startup was closed meanwhile.  Files half written are removed;
\* when that fails too, nobody knows what is left of them.
AcquireMaterial ==
    /\ scope = "acquire" /\ ~mclosing
    /\ scope' = "tmpfs" /\ material' = "live"
    /\ UNCHANGED <<mstart, watcherVars, authz, envoy, readyState, mclosing, closeOnceVars,
                   unwindWaits, walState, queueState, replacement>>

AcquireFails(how) ==
    /\ scope = "acquire" /\ how \in {"broken", "uncertain"}
    /\ ScopeSettles(how)
    /\ material' = IF how = "uncertain" THEN "live" ELSE material
    /\ UNCHANGED <<unwindWaits, walState, queueState, replacement>>

\* The catch block of withMaterial(): it closes every consumer it can see.
Unwind(e) ==
    /\ scope' = "unwind"
    /\ unwindWaits' = Handles(e)
    /\ readyState' = FALSE
    /\ mclosing' = TRUE
    /\ CloseProducers(e)
    /\ UNCHANGED <<mstart, closeOnceVars>>

EnterMaterial ==
    /\ scope = "tmpfs"
    /\ IF mclosing
       THEN Unwind(envoy)
       ELSE /\ Create
            /\ scope' = "watch"
            /\ UNCHANGED <<mstart, authz, envoy, readyState, mclosing, unwindWaits, closeOnceVars>>
    /\ UNCHANGED <<material, walState, queueState, replacement>>

WatcherCreated ==
    /\ scope = "watch" /\ phase = "up"
    /\ IF mclosing
       THEN Unwind(envoy)
       ELSE /\ scope' = "spawn" /\ envoy' = "starting"
            /\ UNCHANGED <<mstart, watcherVars, authz, readyState, mclosing, unwindWaits, closeOnceVars>>
    /\ UNCHANGED <<material, walState, queueState, replacement>>

\* The watcher failed to start: start() is rejected now, the scope goes on only
\* when everything the watcher owns has retired.
WatcherRefused ==
    /\ scope = "watch" /\ phase = "failed" /\ mstart = "await"
    /\ ReadyReject(envoy)
    /\ UNCHANGED <<scopeVars, walState, queueState, replacement>>

RefusedWatcherRetired ==
    /\ scope = "watch" /\ phase = "failed" /\ closing = "retired" /\ mstart # "await"
    /\ Unwind(envoy)
    /\ UNCHANGED <<material, walState, queueState, replacement>>

\* Faulty variant: what happened during the start is not looked at.
EnvoyStartedAnyway ==
    /\ scope = "spawn" /\ envoy = "starting"
    /\ scope' = "held" /\ envoy' = "up"
    /\ readyState' = TRUE /\ mstart' = "published"
    /\ UNCHANGED <<watcherVars, authz, mclosing, unwindWaits, closeOnceVars,
                   material, walState, queueState, replacement>>

\* envoyProcess.start() resolves: the handle exists, of a process that may have
\* died since, and either the generation becomes ready or the scope is left.
EnvoyStarted ==
    /\ scope = "spawn" /\ envoy = "starting"
    /\ \/ /\ ~mclosing
          /\ walState = "ready" /\ queueState = "open" /\ authz = "up" /\ WatcherReady
          /\ scope' = "held" /\ envoy' = "up"
          /\ readyState' = TRUE /\ mstart' = "published"
          /\ UNCHANGED <<watcherVars, authz, mclosing, unwindWaits, closeOnceVars>>
       \/ /\ mclosing \/ ~(walState = "ready" /\ queueState = "open" /\ authz = "up" /\ WatcherReady)
          /\ Unwind("up")
       \/ Unwind("dead")
    /\ UNCHANGED <<material, walState, queueState, replacement>>

\* It rejects: start() is rejected, the scope waits until no process is left.
EnvoyRefused ==
    /\ scope = "spawn" /\ envoy = "starting"
    /\ ReadyReject("reaping")
    /\ UNCHANGED <<scopeVars, walState, queueState, replacement>>

EnvoyReaped ==
    /\ scope = "spawn" /\ envoy = "reaping"
    /\ Unwind("closed")
    /\ UNCHANGED <<material, walState, queueState, replacement>>

\* Every consumer has retired, or the scope keeps the material for good.
UnwindJoined ==
    /\ scope = "unwind" /\ Joined(unwindWaits)
    /\ scope' = IF Unretired(unwindWaits) THEN "stuck" ELSE "throwing"
    /\ UNCHANGED <<watcherVars, mstart, material, authz, envoy, walState, queueState, readyState,
                   mclosing, replacement, unwindWaits, closeOnceVars>>

\* Faulty variant: material that could not be removed counts as released.
FinalizeRegardless(how) ==
    /\ scope \in {"leaving", "throwing"} /\ how \in {"ended", "broken", "uncertain"}
    /\ how = "ended" => scope = "leaving"
    /\ ScopeSettles(IF how = "uncertain" THEN "broken" ELSE how)
    /\ material' = IF how = "uncertain" THEN material ELSE "released"
    /\ UNCHANGED <<unwindWaits, walState, queueState, replacement>>

\* The finalizers of tmpfs, configuration and PKI: the callback returned, it or
\* a finalizer threw, or the files could not be removed and stay for good.
Finalize(how) ==
    /\ scope \in {"leaving", "throwing"} /\ how \in {"ended", "broken", "uncertain"}
    /\ how = "ended" => scope = "leaving"
    /\ ScopeSettles(how)
    /\ material' = IF how = "uncertain" THEN material ELSE "released"
    /\ UNCHANGED <<unwindWaits, walState, queueState, replacement>>

-----------------------------------------------------------------------------
(***************************************************************************)
(* closeOnce().                                                            *)
(***************************************************************************)
OwnerCloses ==
    /\ mstart = "published" /\ closeStep = "none"
    /\ BeginManagerClose(envoy)
    /\ UNCHANGED <<mstart, scopeVars, walState, queueState, replacement>>

\* isReady() finds a dependency gone: failClosed().
HealthCheck ==
    /\ mstart = "published" /\ readyState /\ ~mclosing /\ ~replacement
    /\ ~DependenciesReady
    /\ BeginManagerClose(envoy)
    /\ UNCHANGED <<mstart, scopeVars, walState, queueState, replacement>>

CloseMoves(step) ==
    /\ closeStep' = step
    /\ UNCHANGED <<watcherVars, mstart, material, authz, envoy, readyState, mclosing,
                   replacement, closeWaits, unwindWaits>>

ProducersJoined ==
    /\ closeStep = "producers" /\ Joined(closeWaits)
    /\ IF Unretired(closeWaits)
       THEN /\ CloseMoves("failed")
            /\ verdict' = [failed |-> TRUE, certain |-> FALSE]
       ELSE /\ CloseMoves("queue")
            /\ verdict' = [verdict EXCEPT
                             !.failed = "watcher" \in closeWaits /\ closeResult # "ok"]
    /\ UNCHANGED <<scope, walState, queueState>>

\* closeQueue(): capture and observation need a usable WAL; a queue that was
\* poisoned is closed, and fails the close.
CloseQueueStep ==
    /\ closeStep = "queue"
    /\ CloseMoves("telemetry")
    /\ IF queueState # "none" /\ walState # "ready"
       THEN queueState' = "kept" /\ verdict' = [failed |-> TRUE, certain |-> FALSE]
       ELSE /\ queueState' = IF queueState = "none" THEN "none" ELSE "closed"
            /\ verdict' = [verdict EXCEPT !.failed = @ \/ queueState = "poisoned"]
    /\ UNCHANGED <<scope, walState>>

\* closeTelemetry(), then releaseScope() lets a held scope go.
CloseTelemetryStep(ok) ==
    /\ closeStep = "telemetry"
    /\ CloseMoves("scope")
    /\ verdict' = IF ok THEN verdict ELSE [failed |-> TRUE, certain |-> FALSE]
    /\ scope' = IF scope = "held" THEN "leaving" ELSE scope
    /\ UNCHANGED <<walState, queueState>>

\* releaseScope(): a scope whose files could not be removed never retires, and
\* neither the WAL nor the close gets past it.
ScopeJoined ==
    /\ closeStep = "scope" /\ scope \in {"none", "ended", "broken"}
    /\ CloseMoves("wal")
    /\ verdict' = [verdict EXCEPT !.failed = @ \/ scope = "broken"]
    /\ UNCHANGED <<scope, walState, queueState>>

\* closeWal(), unless the queue was not retired.
CloseWalStep(ok) ==
    /\ closeStep = "wal"
    /\ LET skipped == queueState = "kept"
           closes == walState \in {"ready", "poisoned"} /\ ~skipped
           failed == verdict.failed \/ (closes /\ ~ok) \/ skipped
       IN  /\ walState' = IF ~closes THEN walState ELSE IF ok THEN "closed" ELSE "failed"
           /\ verdict' = [failed |-> failed,
                          certain |-> verdict.certain /\ ~skipped /\ (closes => ok)]
           /\ CloseMoves(IF failed THEN "failed" ELSE "done")
    /\ UNCHANGED <<scope, queueState>>

-----------------------------------------------------------------------------
(***************************************************************************)
(* The parts the manager owns.                                             *)
(***************************************************************************)
PartMoves ==
    UNCHANGED <<watcherVars, mstart, scopeVars, readyState, mclosing, replacement, closeOnceVars>>

AuthzCloseEnds(ok) ==
    /\ authz = "closing"
    /\ authz' = IF ok THEN "closed" ELSE "failed"
    /\ PartMoves /\ UNCHANGED <<envoy, walState, queueState>>

EnvoyCloseEnds(ok) ==
    /\ envoy = "closing"
    /\ envoy' = IF ok THEN "closed" ELSE "failed"
    /\ PartMoves /\ UNCHANGED <<authz, walState, queueState>>

AuthzDrops ==
    /\ authz = "up" /\ authz' = "unready"
    /\ PartMoves /\ UNCHANGED <<envoy, walState, queueState>>

EnvoyDies ==
    /\ envoy = "up" /\ envoy' = "dead"
    /\ PartMoves /\ UNCHANGED <<authz, walState, queueState>>

\* Only an append of an admitted check can poison the WAL.
WalPoisoned ==
    /\ walState = "ready" /\ authz \in {"up", "unready", "closing"}
    /\ walState' = "poisoned"
    /\ PartMoves /\ UNCHANGED <<authz, envoy, queueState>>

\* A line that does not correlate, or a look at the queue of an unusable WAL.
QueuePoisoned ==
    /\ queueState = "open" /\ envoy \in {"starting", "up", "closing"}
    /\ queueState' = "poisoned"
    /\ PartMoves /\ UNCHANGED <<authz, envoy, walState>>

(***************************************************************************)
(* actions(): denyNew closes the server, drain the process, replace asks   *)
(* for another generation.  Each returns when the owner it joined has.     *)
(***************************************************************************)
Started(a) == action[a] = "idle" /\ action'[a] = "running"

ActionEffects ==
    /\ IF Started("denyNew") THEN AuthzCloses ELSE UNCHANGED authz
    /\ readyState' = (readyState /\ ~Started("denyNew"))
    /\ IF Started("drain") THEN EnvoyCloses(envoy) ELSE UNCHANGED envoy
    /\ replacement' = (replacement \/ Started("replace"))
    /\ UNCHANGED <<mstart, scopeVars, walState, queueState, mclosing, closeOnceVars>>

MayReturn(a, ok) ==
    \/ a = "denyNew" /\ authz # "closing" /\ ok = (authz # "failed")
    \/ a = "drain" /\ envoy # "closing" /\ (ok => envoy # "failed")
    \/ a = "replace"

WatcherMoves ==
    /\ \/ WatcherStep
       \/ \E a \in Actions, ok \in BOOLEAN : MayReturn(a, ok) /\ ActionReturns(a, ok)
    /\ ActionEffects

-----------------------------------------------------------------------------
ScopeWork ==
    \/ EnterMaterial \/ WatcherCreated \/ WatcherRefused \/ RefusedWatcherRetired
    \/ EnvoyStarted \/ EnvoyRefused \/ EnvoyReaped
    \/ UnwindJoined
    \/ AcquireMaterial
    \/ \E how \in {"ended", "broken", "uncertain"} : AcquireFails(how) \/ Finalize(how)

CloseOnceWork ==
    \/ ProducersJoined \/ CloseQueueStep \/ ScopeJoined
    \/ \E ok \in BOOLEAN : CloseTelemetryStep(ok) \/ CloseWalStep(ok)

ProducerCloses ==
    \E ok \in BOOLEAN : AuthzCloseEnds(ok) \/ EnvoyCloseEnds(ok)

ManagerNext ==
    \/ \E ok \in BOOLEAN : OpenWal(ok) \/ StartAuthz(ok)
    \/ StartDeadline \/ OwnerCloses \/ HealthCheck
    \/ ScopeWork \/ CloseOnceWork \/ ProducerCloses
    \/ AuthzDrops \/ EnvoyDies \/ WalPoisoned \/ QueuePoisoned
    \/ WatcherMoves
    \/ Abort /\ ActionEffects

ManagerSpec == ManagerInit /\ [][ManagerNext]_generationVars

(***************************************************************************)
(* Timers fire and continuations run, the startup deadline included.       *)
(* envoyProcess.start() has a startup timeout.  Nothing is assumed of the  *)
(* server's close, of the Envoy process's close or of a source read.       *)
(***************************************************************************)
ManagerFairness ==
    /\ WF_generationVars(ScopeWork)
    /\ WF_generationVars(StartDeadline)
    /\ WF_generationVars(ReadExpires /\ ActionEffects)
    /\ WF_generationVars(ActionExpires /\ ActionEffects)
    /\ WF_generationVars(TransitionJoined /\ ActionEffects)

ManagerFairSpec == ManagerSpec /\ ManagerFairness

-----------------------------------------------------------------------------
(***************************************************************************)
(* Properties.                                                             *)
(***************************************************************************)

\* The variables of the watcher and of the manager have their types.
ManagerTypeOK ==
    /\ WatcherTypeOK
    /\ mstart \in {"off", "wal", "await", "published", "failed"}
    /\ scope \in ScopeStates /\ material \in {"none", "live", "released"}
    /\ authz \in {"none", "up", "unready", "closing", "closed", "failed"}
    /\ envoy \in {"none", "starting", "up", "dead", "reaping", "closing", "closed", "failed"}
    /\ walState \in {"none", "ready", "poisoned", "closed", "failed"}
    /\ queueState \in {"none", "open", "poisoned", "closed", "kept"}
    /\ {readyState, mclosing, replacement} \subseteq BOOLEAN
    /\ closeStep \in CloseSteps
    /\ closeWaits \cup unwindWaits \subseteq Producers
    /\ verdict \in [failed : BOOLEAN, certain : BOOLEAN]

EnvoyGone == envoy \in {"none", "closed"}
AuthzGone == authz \in {"none", "closed"}

(***************************************************************************)
(* Secret material outlives every consumer: it is released only when the   *)
(* Envoy process, the authorization server and the watcher have actually   *)
(* retired, also when the startup deadline, a revocation and the scope's   *)
(* own failure close the generation at the same time.                      *)
(***************************************************************************)
MaterialOutlivesConsumers ==
    material = "released" =>
        /\ EnvoyGone /\ AuthzGone
        /\ closing \in {"none", "retired"} /\ (closing = "none" => phase = "off")

(***************************************************************************)
(* The WAL is closed only when both of its producers are gone and the      *)
(* scope that could still start one has ended.                             *)
(***************************************************************************)
WalOutlivesProducers ==
    walState \in {"closed", "failed"} =>
        /\ EnvoyGone /\ AuthzGone
        /\ queueState \in {"none", "closed"} /\ scope \in {"none", "ended", "broken"}

(***************************************************************************)
(* Material that could not be removed is never given up: the log stays     *)
(* open and no close ends, so no other generation is started beside it.    *)
(***************************************************************************)
UncertainIsKept ==
    scope = "uncertain" =>
        material = "live" /\ walState \notin {"closed", "failed"} /\ closeStep # "done"
        /\ (closeStep = "failed" => ~verdict.certain)

(***************************************************************************)
(* Retirement is certain only when it is true: a close that ends and       *)
(* reports its retirement, and so allows another generation on the same    *)
(* log and port, has nothing left that runs, holds material or is open.    *)
(***************************************************************************)
CertainMeansRetired ==
    closeStep \in {"done", "failed"} /\ verdict.certain =>
        /\ EnvoyGone /\ AuthzGone /\ material # "live"
        /\ walState \in {"none", "closed"} /\ queueState \in {"none", "closed"}
        /\ closing \in {"none", "retired"}

\* Who can take the next step of a teardown: the watcher, whose observations
\* expire and whose work settles ...
WatcherCanMove ==
    \/ reading \/ reads # {}
    \/ transition \in Actions
    \/ transition = "done" /\ reader # "none"
    \/ closing = "registration" /\ reader = "none" /\ transition \in {"none", "done"}
    \/ closing = "work" /\ reads = {} /\ \A a \in Actions : action[a] # "running"
    \/ \E a \in Actions, ok \in BOOLEAN : action[a] = "running" /\ MayReturn(a, ok)

\* ... the scope, unless it waits for the watcher or for those it closed ...
ScopeCanMove ==
    \/ scope \in {"acquire", "tmpfs", "leaving", "throwing"}
    \/ scope = "watch" /\ (phase = "up" \/ (phase = "failed" /\ (mstart = "await" \/ closing = "retired")))
    \/ scope = "spawn" /\ envoy \in {"starting", "reaping"}
    \/ scope = "unwind" /\ Joined(unwindWaits)

\* ... and closeOnce(), unless it waits for the producers or for the scope.
CloseOnceCanMove ==
    \/ closeStep \in {"queue", "telemetry", "wal"}
    \/ closeStep = "producers" /\ Joined(closeWaits)
    \/ closeStep = "scope" /\ scope \in {"none", "ended", "broken"}

(***************************************************************************)
(* The three parties that tear a generation down never wait for each other *)
(* in a circle: while a close is pending one of them can move, or a close  *)
(* that was begun has still to return.  The code has two places where they *)
(* stop for good: the scope keeps its material because a consumer did not  *)
(* retire, or the material itself could not be removed.                    *)
(***************************************************************************)
CloseNeverWedges ==
    closeStep \notin {"none", "done", "failed"} /\ scope \notin {"stuck", "uncertain"} =>
        \/ ScopeCanMove \/ CloseOnceCanMove \/ WatcherCanMove
        \/ authz = "closing" \/ envoy = "closing"

(***************************************************************************)
(* Readiness is asked through isReady(), which looks at the parts one by   *)
(* one: whenever all of them say yes, the generation is whole, its secrets *)
(* are in place and nobody has begun to take it down.                      *)
(***************************************************************************)
ReadyMeansHeld ==
    ManagerReady =>
        /\ material = "live" /\ scope = "held"
        /\ closeStep = "none" /\ transition = "none"

(***************************************************************************)
(* Tearing down a generation, whoever begins it: the watcher is quiet when *)
(* it is retired and unrevoked while it is ready, material and log outlive *)
(* those who use them, a certain retirement is true, and nobody waits in a *)
(* circle (closeOnce(), withMaterial() and the watcher's close()).         *)
(***************************************************************************)
ManagerSafe ==
    /\ ManagerTypeOK
    /\ RetiredMeansQuiet /\ ReadyMeansUnrevoked
    /\ MaterialOutlivesConsumers /\ WalOutlivesProducers
    /\ UncertainIsKept /\ CertainMeansRetired /\ CloseNeverWedges /\ ReadyMeansHeld

(***************************************************************************)
(* A revoked generation loses its Envoy process and its authorizations,    *)
(* even when the process is still starting, when the revocation source     *)
(* hangs, or when the server's close never returns.                        *)
(***************************************************************************)
RevocationStopsEgress ==
    transition # "none" ~>
        /\ envoy \notin {"starting", "up"}
        /\ authz \notin {"up", "unready"}

=============================================================================

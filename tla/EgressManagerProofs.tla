------------------------ MODULE EgressManagerProofs ------------------------
(***************************************************************************)
(* The runtime manager never releases what is still in use, whoever tears  *)
(* the generation down.  The watcher is proved by itself: the manager only *)
(* creates it, closes it and lets it go on, so every invariant of its own  *)
(* specification carries over.  Of the watcher the teardown then needs two *)
(* facts: a retired watcher stays retired, and one that is up stays up     *)
(* until it is closed.                                                     *)
(***************************************************************************)
EXTENDS EgressRuntimeManager, TLAPS

-----------------------------------------------------------------------------
(* The inductive invariants. *)

\* The names the variables of the watcher range over, its flags and actions.
WatcherTypes ==
    /\ phase \in {"off", "starting", "up", "failed"}
    /\ reader \in {"none", "start", "poll"}
    /\ lastSeen \in Outcomes \cup {"none"}
    /\ transition \in Actions \cup {"none", "done"}
    /\ closing \in {"none", "registration", "work", "retired"}
    /\ closeResult \in {"none", "pending", "ok", "failed"}
FlagTypes ==
    /\ watching \in BOOLEAN /\ closed \in BOOLEAN /\ aborted \in BOOLEAN
    /\ timer \in BOOLEAN /\ reading \in BOOLEAN /\ actionFailed \in BOOLEAN
ActionTypes == action \in [Actions -> {"idle", "running", "ok", "failed"}]
\* A read that has not settled is one of those begun.
ReadsInv == readCount \in 0..MaxReads /\ reads \subseteq 1..readCount

\* The watcher reads, polls and is ready only between its start and its close.
ReaderInv ==
    /\ phase = "off" => /\ reader = "none" /\ readCount = 0 /\ closing = "none"
                        /\ transition = "none"
    /\ phase = "starting" <=> reader = "start"
    /\ phase \in {"off", "starting"} => closing = "none" /\ ~watching
    /\ phase = "failed" => closing # "none"
    /\ watching => phase = "up" /\ ~closed /\ transition = "none" /\ lastSeen = "same" /\ ~aborted
    /\ timer => watching /\ reader = "none"
    /\ reading => reader # "none"
    /\ reader = "start" /\ reading => transition = "none"
    /\ reader # "none" /\ ~reading => transition # "none"

\* The actions have been started as far as the transition has come.
ActionInv ==
    /\ transition = "none" <=> action["denyNew"] = "idle"
    /\ transition \in {"none", "denyNew"} <=> action["drain"] = "idle"
    /\ transition \in {"none", "denyNew", "drain"} <=> action["replace"] = "idle"

\* What the close of the watcher has waited for.
RetirementInv ==
    /\ closed <=> closing # "none"
    /\ closing \in {"work", "retired"} => reader = "none" /\ transition \in {"none", "done"}
    /\ closing = "retired" => reads = {} /\ \A a \in Actions : action[a] # "running"

\* The same for the manager.
ManagerTypes ==
    /\ mstart \in {"off", "wal", "await", "published", "failed"}
    /\ scope \in ScopeStates /\ material \in {"none", "live", "released"}
    /\ authz \in {"none", "up", "unready", "closing", "closed", "failed"}
    /\ envoy \in {"none", "starting", "up", "dead", "reaping", "closing", "closed", "failed"}
    /\ walState \in {"none", "ready", "poisoned", "closed", "failed"}
    /\ queueState \in {"none", "open", "poisoned", "closed", "kept"}
    /\ closeStep \in CloseSteps
WaitTypes == closeWaits \subseteq Producers /\ unwindWaits \subseteq Producers
SwitchTypes == readyState \in BOOLEAN /\ mclosing \in BOOLEAN /\ replacement \in BOOLEAN
VerdictType == verdict \in [failed : BOOLEAN, certain : BOOLEAN]

\* Which states of the scope go with which of start() and of the close.
StartInv ==
    /\ closeStep # "none" => mclosing /\ mstart \in {"published", "failed"}
    /\ mstart = "failed" => closeStep # "none"
    /\ mstart \in {"off", "wal"} => scope = "none" /\ ~mclosing
    /\ mstart = "await" => scope \notin {"none", "held", "leaving", "ended", "broken", "uncertain"}
    /\ mstart = "published" => scope \in {"held", "leaving", "ended", "broken", "uncertain"}
    /\ scope \in {"held", "leaving"} => mstart = "published"
    /\ readyState => mstart = "published" /\ ~mclosing /\ scope = "held"
    /\ scope = "leaving" => closeStep \notin {"none", "producers", "queue", "telemetry"}
    /\ closeStep \in {"scope", "wal"} => scope # "held"
    /\ scope = "unwind" => mclosing

\* What the scope holds, and which consumers can live in it.
ScopeInv ==
    /\ scope \in {"none", "acquire"} => material = "none"
    /\ scope \in {"tmpfs", "watch", "spawn", "held", "unwind", "stuck", "leaving", "throwing",
                  "uncertain"}
         => material = "live"
    /\ scope = "ended" => material = "released"
    /\ scope = "broken" => material # "live"
    /\ scope = "none" => authz = "none"
    /\ scope \notin {"none", "ended", "broken"} => authz # "none"
    /\ scope \in {"none", "acquire", "tmpfs"} => phase = "off"
    /\ scope \in {"spawn", "held"} => phase = "up"
    /\ scope = "watch" => phase # "off"
    /\ scope \in {"none", "acquire", "tmpfs", "watch"} => envoy = "none"
    /\ scope = "spawn" => envoy \in {"starting", "reaping"}
    /\ scope = "spawn" /\ envoy = "reaping" => mstart = "failed"
    /\ scope \notin {"spawn"} => envoy \notin {"starting", "reaping"}
    /\ scope = "held" => envoy # "none"

\* Nothing that could use the material is left.
Quiet == EnvoyGone /\ (phase = "off" \/ closing = "retired")

\* What the catch block has begun to close, and what it has waited for.
UnwindInv ==
    /\ scope \in {"unwind", "stuck", "throwing"} =>
         /\ authz \in {"closing", "closed", "failed"} /\ "authz" \in unwindWaits
         /\ envoy \in {"none", "closing", "closed", "failed"}
         /\ envoy # "none" => "envoy" \in unwindWaits
         /\ phase \in {"off", "up", "failed"}
         /\ phase = "failed" => closing = "retired"
         /\ phase = "up" => closing # "none"
         /\ phase = "up" <=> "watcher" \in unwindWaits
         /\ envoy = "none" => "envoy" \notin unwindWaits
    /\ scope \in {"throwing", "leaving", "ended", "broken", "uncertain"} => Quiet
    /\ scope \in {"throwing", "leaving"} \/ material = "released" => AuthzGone

\* What closeOnce() has begun to close, and what it has waited for.
CloseInv ==
    /\ closeStep # "none" => authz \in {"none", "closing", "closed", "failed"}
    /\ closeStep # "none" /\ authz # "none" => "authz" \in closeWaits
    /\ "authz" \in closeWaits => authz # "none"
    /\ "watcher" \in closeWaits => phase = "up" /\ closing # "none"
    /\ "envoy" \in closeWaits => envoy \in {"closing", "closed", "failed"}
    /\ closeStep # "none" /\ scope = "held" => closeWaits = Producers
    /\ closeStep \in {"queue", "telemetry", "scope", "wal", "done"} => AuthzGone
         /\ ("envoy" \in closeWaits => envoy = "closed")
         /\ ("watcher" \in closeWaits => closing = "retired")
    /\ closeStep \in {"telemetry", "scope", "wal", "done"} => queueState \notin {"open", "poisoned"}
    /\ closeStep \in {"wal", "done"} => scope \in {"none", "ended", "broken"}

\* The log is closed last, and a certain retirement has closed everything.
LogInv ==
    /\ walState \in {"closed", "failed"} =>
         /\ closeStep \in {"done", "failed"} /\ AuthzGone
         /\ queueState \in {"none", "closed"} /\ scope \in {"none", "ended", "broken"}
    /\ closeStep \in {"done", "failed"} /\ verdict.certain =>
         /\ AuthzGone /\ scope \in {"none", "ended", "broken"}
         /\ walState \in {"none", "closed"} /\ queueState \in {"none", "closed"}

-----------------------------------------------------------------------------
(* The watcher by itself. *)

WatcherInv ==
    /\ WatcherTypes /\ FlagTypes /\ ActionTypes /\ ReadsInv
    /\ ReaderInv /\ ActionInv /\ RetirementInv

LEMMA BeginReadInv ==
  ASSUME ReadsInv, NEW who, BeginRead(who)
  PROVE  ReadsInv'
  BY ReadsAssumption DEF ReadsInv, BeginRead

LEMMA CreateInv ==
  ASSUME WatcherInv, Create
  PROVE  WatcherInv'
  <1>1. WatcherTypes'
    BY DEF WatcherInv, WatcherTypes, Create, BeginRead, BeginCloseWatcher, readVars, actionVars,
       closingVars
  <1>2. FlagTypes'
    BY DEF WatcherInv, FlagTypes, Create, BeginRead, BeginCloseWatcher, readVars, actionVars,
       closingVars
  <1>3. ActionTypes'
    BY DEF WatcherInv, ActionTypes, Create, actionVars
  <1>4. ReadsInv'
    <2>1. CASE aborted
      BY <2>1 DEF WatcherInv, ReadsInv, Create, readVars
    <2>2. CASE ~aborted
      BY <2>2, BeginReadInv DEF WatcherInv, Create
    <2> QED
      BY <2>1, <2>2
  <1>5. ReaderInv'
    BY DEF WatcherInv, ReaderInv, Create, BeginRead, BeginCloseWatcher, readVars, actionVars,
       closingVars
  <1>6. ActionInv'
    BY DEF WatcherInv, ActionInv, Create, actionVars
  <1>7. RetirementInv'
    BY DEF WatcherInv, ReaderInv, RetirementInv, Create, BeginCloseWatcher, closingVars
  <1> QED
    BY <1>1, <1>2, <1>3, <1>4, <1>5, <1>6, <1>7 DEF WatcherInv

LEMMA AbortInv ==
  ASSUME WatcherInv, Abort
  PROVE  WatcherInv'
  <1>1. WatcherTypes'
    BY DEF WatcherInv, WatcherTypes, Actions, Abort, Trigger, readVars, actionVars, closingVars
  <1>2. FlagTypes'
    BY DEF WatcherInv, FlagTypes, Abort, Trigger, readVars, actionVars, closingVars
  <1>3. ActionTypes'
    BY DEF WatcherInv, ActionTypes, Abort, Trigger, actionVars
  <1>4. ReadsInv'
    BY ReadsAssumption DEF WatcherInv, ReadsInv, Abort, readVars
  <1>5. ReaderInv'
    BY DEF WatcherInv, ReaderInv, Abort, Trigger, readVars, actionVars, closingVars
  <1>6. ActionInv'
    BY DEF WatcherInv, ActionTypes, ActionInv, Actions, Abort, Trigger, actionVars
  <1>7. RetirementInv'
    BY DEF WatcherInv, RetirementInv, Abort, readVars, actionVars, closingVars
  <1> QED
    BY <1>1, <1>2, <1>3, <1>4, <1>5, <1>6, <1>7 DEF WatcherInv

LEMMA CloseWatcherInv ==
  ASSUME WatcherInv, CloseWatcher
  PROVE  WatcherInv'
  <1>1. WatcherTypes'
    BY DEF WatcherInv, WatcherTypes, CloseWatcher, BeginCloseWatcher, readVars, actionVars
  <1>2. FlagTypes'
    BY DEF WatcherInv, FlagTypes, CloseWatcher, BeginCloseWatcher, readVars, actionVars
  <1>3. ActionTypes'
    BY DEF WatcherInv, ActionTypes, CloseWatcher, actionVars
  <1>4. ReadsInv'
    BY ReadsAssumption DEF WatcherInv, ReadsInv, CloseWatcher, readVars
  <1>5. ReaderInv'
    BY DEF WatcherInv, ReaderInv, CloseWatcher, readVars, actionVars
  <1>6. ActionInv'
    BY DEF WatcherInv, ActionInv, CloseWatcher, actionVars
  <1>7. RetirementInv'
    BY DEF RetirementInv, CloseWatcher, BeginCloseWatcher
  <1> QED
    BY <1>1, <1>2, <1>3, <1>4, <1>5, <1>6, <1>7 DEF WatcherInv

LEMMA ReadReturnsInv ==
  ASSUME WatcherInv, NEW o \in Outcomes, ReadReturns(o)
  PROVE  WatcherInv'
  <1>1. WatcherTypes'
    BY DEF WatcherInv, WatcherTypes, Actions, ReadReturns, Continue, StartAccepts, Trigger,
       actionVars, closingVars
  <1>2. FlagTypes'
    BY DEF WatcherInv, FlagTypes, ReadReturns, Continue, StartAccepts, Trigger, actionVars,
       closingVars
  <1>3. ActionTypes'
    BY DEF WatcherInv, ActionTypes, ReadReturns, Continue, StartAccepts, Trigger, actionVars
  <1>4. ReadsInv'
    BY ReadsAssumption DEF WatcherInv, ReadsInv, ReadReturns
  <1>5. ReaderInv'
    BY DEF WatcherInv, FlagTypes, ReaderInv, RetirementInv, ReadReturns, Continue, StartAccepts,
       Trigger, actionVars, closingVars
  <1>6. ActionInv'
    BY DEF WatcherInv, ActionTypes, ReaderInv, ActionInv, Actions, ReadReturns, Continue,
       StartAccepts, Trigger, actionVars
  <1>7. RetirementInv'
    BY DEF WatcherInv, RetirementInv, ReadReturns, Continue, closingVars
  <1> QED
    BY <1>1, <1>2, <1>3, <1>4, <1>5, <1>6, <1>7 DEF WatcherInv

LEMMA ReadExpiresInv ==
  ASSUME WatcherInv, ReadExpires
  PROVE  WatcherInv'
  <1>1. WatcherTypes'
    BY DEF WatcherInv, WatcherTypes, Actions, ReadExpires, Continue, Trigger, Outcomes,
       actionVars, closingVars
  <1>2. FlagTypes'
    BY DEF WatcherInv, FlagTypes, ReadExpires, Continue, Trigger, actionVars, closingVars
  <1>3. ActionTypes'
    BY DEF WatcherInv, ActionTypes, ReadExpires, Continue, Trigger, actionVars
  <1>4. ReadsInv'
    BY ReadsAssumption DEF WatcherInv, ReadsInv, ReadExpires
  <1>5. ReaderInv'
    BY DEF WatcherInv, ReaderInv, ReadExpires, Continue, Trigger, actionVars, closingVars
  <1>6. ActionInv'
    BY DEF WatcherInv, ActionTypes, ReaderInv, ActionInv, Actions, ReadExpires, Continue, Trigger,
       actionVars
  <1>7. RetirementInv'
    BY DEF WatcherInv, RetirementInv, ReadExpires, Continue, closingVars
  <1> QED
    BY <1>1, <1>2, <1>3, <1>4, <1>5, <1>6, <1>7 DEF WatcherInv

LEMMA LateReadSettlesInv ==
  ASSUME WatcherInv, NEW i \in reads, LateReadSettles(i)
  PROVE  WatcherInv'
  <1>1. WatcherTypes'
    BY DEF WatcherInv, WatcherTypes, LateReadSettles, actionVars, closingVars
  <1>2. FlagTypes'
    BY DEF WatcherInv, FlagTypes, LateReadSettles, actionVars, closingVars
  <1>3. ActionTypes'
    BY DEF WatcherInv, ActionTypes, LateReadSettles, actionVars
  <1>4. ReadsInv'
    BY ReadsAssumption DEF WatcherInv, ReadsInv, LateReadSettles
  <1>5. ReaderInv'
    BY DEF WatcherInv, ReaderInv, LateReadSettles, actionVars, closingVars
  <1>6. ActionInv'
    BY DEF WatcherInv, ActionInv, LateReadSettles, actionVars
  <1>7. RetirementInv'
    BY DEF WatcherInv, RetirementInv, LateReadSettles, actionVars, closingVars
  <1> QED
    BY <1>1, <1>2, <1>3, <1>4, <1>5, <1>6, <1>7 DEF WatcherInv

LEMMA PollInv ==
  ASSUME WatcherInv, Poll
  PROVE  WatcherInv'
  <1>1. WatcherTypes'
    BY DEF WatcherInv, WatcherTypes, Poll, BeginRead, actionVars, closingVars
  <1>2. FlagTypes'
    BY DEF WatcherInv, FlagTypes, Poll, BeginRead, actionVars, closingVars
  <1>3. ActionTypes'
    BY DEF WatcherInv, ActionTypes, Poll, actionVars
  <1>4. ReadsInv'
    BY BeginReadInv DEF WatcherInv, Poll
  <1>5. ReaderInv'
    BY DEF WatcherInv, ReaderInv, Poll, BeginRead, actionVars, closingVars
  <1>6. ActionInv'
    BY DEF WatcherInv, ActionInv, Poll, actionVars
  <1>7. RetirementInv'
    BY DEF WatcherInv, RetirementInv, Poll, closingVars
  <1> QED
    BY <1>1, <1>2, <1>3, <1>4, <1>5, <1>6, <1>7 DEF WatcherInv

LEMMA ActionReturnsInv ==
  ASSUME WatcherInv, NEW a \in Actions, NEW ok \in BOOLEAN, ActionReturns(a, ok)
  PROVE  WatcherInv'
  <1>1. WatcherTypes'
    BY DEF WatcherInv, WatcherTypes, Actions, ActionReturns, Advance, Following, readVars,
       closingVars
  <1>2. FlagTypes'
    BY DEF WatcherInv, FlagTypes, ActionReturns, readVars, closingVars
  <1>3. ActionTypes'
    BY DEF WatcherInv, ActionTypes, ActionReturns, Advance, Actions
  <1>4. ReadsInv'
    BY ReadsAssumption DEF WatcherInv, ReadsInv, ActionReturns, readVars
  <1>5. ReaderInv'
    BY DEF WatcherInv, ReaderInv, Actions, ActionReturns, Advance, Following, readVars,
       closingVars
  <1>6. ActionInv'
    BY DEF WatcherInv, ActionTypes, ActionInv, Actions, ActionReturns, Advance, Following
  <1>7. RetirementInv'
    BY DEF WatcherInv, RetirementInv, Actions, ActionReturns, readVars, closingVars
  <1> QED
    BY <1>1, <1>2, <1>3, <1>4, <1>5, <1>6, <1>7 DEF WatcherInv

LEMMA ActionExpiresInv ==
  ASSUME WatcherInv, ActionExpires
  PROVE  WatcherInv'
  <1>1. WatcherTypes'
    BY DEF WatcherInv, WatcherTypes, Actions, ActionExpires, Advance, Following, readVars,
       closingVars
  <1>2. FlagTypes'
    BY DEF WatcherInv, FlagTypes, ActionExpires, readVars, closingVars
  <1>3. ActionTypes'
    BY DEF WatcherInv, ActionTypes, ActionExpires, Advance, Actions
  <1>4. ReadsInv'
    BY ReadsAssumption DEF WatcherInv, ReadsInv, ActionExpires, readVars
  <1>5. ReaderInv'
    BY DEF WatcherInv, ReaderInv, Actions, ActionExpires, Advance, Following, readVars,
       closingVars
  <1>6. ActionInv'
    BY DEF WatcherInv, ActionInv, Actions, ActionExpires, Advance, Following
  <1>7. RetirementInv'
    BY DEF WatcherInv, RetirementInv, Actions, ActionExpires, closingVars
  <1> QED
    BY <1>1, <1>2, <1>3, <1>4, <1>5, <1>6, <1>7 DEF WatcherInv

LEMMA TransitionJoinedInv ==
  ASSUME WatcherInv, TransitionJoined
  PROVE  WatcherInv'
  <1>1. WatcherTypes'
    BY DEF WatcherInv, WatcherTypes, TransitionJoined, BeginCloseWatcher, actionVars, closingVars
  <1>2. FlagTypes'
    BY DEF WatcherInv, FlagTypes, TransitionJoined, BeginCloseWatcher, actionVars, closingVars
  <1>3. ActionTypes'
    BY DEF WatcherInv, ActionTypes, TransitionJoined, actionVars
  <1>4. ReadsInv'
    BY ReadsAssumption DEF WatcherInv, ReadsInv, TransitionJoined
  <1>5. ReaderInv'
    BY DEF WatcherInv, ReaderInv, TransitionJoined, BeginCloseWatcher, closingVars
  <1>6. ActionInv'
    BY DEF WatcherInv, ActionInv, TransitionJoined, actionVars
  <1>7. RetirementInv'
    BY DEF WatcherInv, RetirementInv, TransitionJoined, BeginCloseWatcher, closingVars
  <1> QED
    BY <1>1, <1>2, <1>3, <1>4, <1>5, <1>6, <1>7 DEF WatcherInv

LEMMA RegistrationSettledInv ==
  ASSUME WatcherInv, RegistrationSettled
  PROVE  WatcherInv'
  <1>1. WatcherTypes'
    BY DEF WatcherInv, WatcherTypes, RegistrationSettled, readVars, actionVars
  <1>2. FlagTypes'
    BY DEF WatcherInv, FlagTypes, RegistrationSettled, readVars, actionVars
  <1>3. ActionTypes'
    BY DEF WatcherInv, ActionTypes, RegistrationSettled, actionVars
  <1>4. ReadsInv'
    BY ReadsAssumption DEF WatcherInv, ReadsInv, RegistrationSettled, readVars
  <1>5. ReaderInv'
    BY DEF WatcherInv, ReaderInv, RetirementInv, RegistrationSettled, readVars
  <1>6. ActionInv'
    BY DEF WatcherInv, ActionInv, RegistrationSettled, actionVars
  <1>7. RetirementInv'
    BY DEF WatcherInv, RetirementInv, RegistrationSettled, readVars, actionVars
  <1> QED
    BY <1>1, <1>2, <1>3, <1>4, <1>5, <1>6, <1>7 DEF WatcherInv

LEMMA RetiredInv ==
  ASSUME WatcherInv, Retired
  PROVE  WatcherInv'
  <1>1. WatcherTypes'
    BY DEF WatcherInv, WatcherTypes, Retired, readVars, actionVars
  <1>2. FlagTypes'
    BY DEF WatcherInv, FlagTypes, Retired, readVars, actionVars
  <1>3. ActionTypes'
    BY DEF WatcherInv, ActionTypes, Retired, actionVars
  <1>4. ReadsInv'
    BY ReadsAssumption DEF WatcherInv, ReadsInv, Retired, readVars
  <1>5. ReaderInv'
    BY DEF WatcherInv, ReaderInv, RetirementInv, Retired, readVars
  <1>6. ActionInv'
    BY DEF WatcherInv, ActionInv, Retired, actionVars
  <1>7. RetirementInv'
    BY DEF WatcherInv, RetirementInv, Retired, readVars, actionVars
  <1> QED
    BY <1>1, <1>2, <1>3, <1>4, <1>5, <1>6, <1>7 DEF WatcherInv

LEMMA CloseExpiresInv ==
  ASSUME WatcherInv, CloseExpires
  PROVE  WatcherInv'
  <1>1. WatcherTypes'
    BY DEF WatcherInv, WatcherTypes, CloseExpires, readVars, actionVars
  <1>2. FlagTypes'
    BY DEF WatcherInv, FlagTypes, CloseExpires, readVars, actionVars
  <1>3. ActionTypes'
    BY DEF WatcherInv, ActionTypes, CloseExpires, actionVars
  <1>4. ReadsInv'
    BY ReadsAssumption DEF WatcherInv, ReadsInv, CloseExpires, readVars
  <1>5. ReaderInv'
    BY DEF WatcherInv, ReaderInv, CloseExpires, readVars, actionVars
  <1>6. ActionInv'
    BY DEF WatcherInv, ActionInv, CloseExpires, actionVars
  <1>7. RetirementInv'
    BY DEF WatcherInv, RetirementInv, CloseExpires, readVars, actionVars
  <1> QED
    BY <1>1, <1>2, <1>3, <1>4, <1>5, <1>6, <1>7 DEF WatcherInv

LEMMA WatcherStepInv ==
  ASSUME WatcherInv, [WatcherNext]_watcherVars
  PROVE  WatcherInv'
  <1>1. CASE Create
    BY <1>1, CreateInv
  <1>2. CASE Abort
    BY <1>2, AbortInv
  <1>3. CASE CloseWatcher
    BY <1>3, CloseWatcherInv
  <1>4. CASE \E a \in Actions, ok \in BOOLEAN : ActionReturns(a, ok)
    BY <1>4, ActionReturnsInv
  <1>5. CASE WatcherStep
    BY <1>5, ReadReturnsInv, ReadExpiresInv, LateReadSettlesInv, PollInv, ActionExpiresInv,
       TransitionJoinedInv, RegistrationSettledInv, RetiredInv, CloseExpiresInv DEF WatcherStep
  <1>6. CASE UNCHANGED watcherVars
    <2>1. WatcherTypes' /\ FlagTypes'
      BY <1>6 DEF WatcherInv, WatcherTypes, FlagTypes, watcherVars
    <2>2. ActionTypes' /\ ReadsInv'
      BY <1>6 DEF WatcherInv, ActionTypes, ReadsInv, watcherVars
    <2>3. ReaderInv' /\ ActionInv' /\ RetirementInv'
      BY <1>6 DEF WatcherInv, ReaderInv, ActionInv, RetirementInv, watcherVars
    <2> QED
      BY <2>1, <2>2, <2>3 DEF WatcherInv
  <1> QED
    BY <1>1, <1>2, <1>3, <1>4, <1>5, <1>6 DEF WatcherNext

LEMMA WatcherInitInv == WatcherInit => WatcherInv
  <1> SUFFICES ASSUME WatcherInit PROVE WatcherInv
    OBVIOUS
  <1>1. WatcherTypes /\ FlagTypes
    BY DEF WatcherInit, WatcherTypes, FlagTypes
  <1>2. ActionTypes /\ ActionInv
    BY DEF WatcherInit, ActionTypes, ActionInv, Actions
  <1>3. ReadsInv
    BY ReadsAssumption DEF WatcherInit, ReadsInv
  <1>4. ReaderInv
    BY DEF WatcherInit, ReaderInv
  <1>5. RetirementInv
    BY DEF WatcherInit, RetirementInv
  <1> QED
    BY <1>1, <1>2, <1>3, <1>4, <1>5 DEF WatcherInv

LEMMA WatcherInvariant == WatcherSpec => []WatcherInv
  <1>1. WatcherInit => WatcherInv
    BY WatcherInitInv
  <1>2. WatcherInv /\ [WatcherNext]_watcherVars => WatcherInv'
    BY WatcherStepInv
  <1> QED
    BY <1>1, <1>2, PTL DEF WatcherSpec

LEMMA WatcherInvMeans == WatcherInv => WatcherTypeOK /\ RetiredMeansQuiet /\ ReadyMeansUnrevoked
  <1> SUFFICES ASSUME WatcherInv PROVE WatcherTypeOK /\ RetiredMeansQuiet /\ ReadyMeansUnrevoked
    OBVIOUS
  <1>1. WatcherTypeOK
    <2>1. {watching, closed, aborted, timer, reading, actionFailed} \subseteq BOOLEAN
      BY DEF WatcherInv, FlagTypes
    <2>2. readCount \in 0..MaxReads /\ reads \subseteq 1..MaxReads
      BY ReadsAssumption DEF WatcherInv, ReadsInv
    <2> QED
      BY <2>1, <2>2 DEF WatcherInv, WatcherTypes, ActionTypes, WatcherTypeOK
  <1>2. RetiredMeansQuiet
    <2> SUFFICES ASSUME closing = "retired"
                 PROVE  /\ reads = {} /\ reader = "none" /\ ~timer
                        /\ \A a \in Actions : action[a] # "running"
                        /\ \E b \in BOOLEAN : \A a \in Actions : (action[a] = "idle") = b
      BY DEF RetiredMeansQuiet
    <2>1. reads = {} /\ reader = "none" /\ \A a \in Actions : action[a] # "running"
      BY DEF WatcherInv, RetirementInv
    <2>2. ~timer
      BY DEF WatcherInv, RetirementInv, ReaderInv
    <2>3. CASE transition = "none"
      <3>1. \A a \in Actions : (action[a] = "idle") = TRUE
        BY <2>3 DEF WatcherInv, ActionInv, Actions
      <3> QED
        BY <3>1, <2>1, <2>2
    <2>4. CASE transition = "done"
      <3>1. \A a \in Actions : (action[a] = "idle") = FALSE
        BY <2>4 DEF WatcherInv, ActionInv, Actions
      <3> QED
        BY <3>1, <2>1, <2>2
    <2> QED
      BY <2>3, <2>4 DEF WatcherInv, RetirementInv
  <1>3. ReadyMeansUnrevoked
    BY DEF WatcherInv, ReaderInv, ActionInv, ReadyMeansUnrevoked, WatcherReady, Actions
  <1> QED
    BY <1>1, <1>2, <1>3
-----------------------------------------------------------------------------
(* The teardown. *)

TeardownInv ==
    /\ ManagerTypes /\ WaitTypes /\ SwitchTypes /\ VerdictType
    /\ StartInv /\ ScopeInv /\ UnwindInv /\ CloseInv /\ LogInv

\* What the other steps of the watcher leave alone.
WatcherKeeps ==
    /\ phase # "starting" => phase' = phase
    /\ phase = "starting" => phase' \in {"starting", "up", "failed"}
    /\ closing = "retired" => closing' = "retired"
    /\ closing # "none" => closing' # "none"

\* closeWatcher() on the handle there is.
WatcherCloses ==
    /\ phase' = phase
    /\ phase = "up" => closing' # "none"
    /\ phase # "up" \/ closing # "none" => closing' = closing

\* The handles there are, one by one.
HandlesAre(e, waits) ==
    /\ waits \subseteq Producers
    /\ "watcher" \in waits <=> phase = "up"
    /\ "authz" \in waits <=> authz # "none"
    /\ "envoy" \in waits <=> e \in {"up", "dead", "closing", "closed", "failed"}

BeginsClose(e) ==
    /\ mclosing' = TRUE /\ readyState' = FALSE /\ verdict' = verdict
    /\ \/ /\ closeStep = "none" /\ closeStep' = "producers" /\ HandlesAre(e, closeWaits')
          /\ AuthzCloses /\ EnvoyCloses(e) /\ WatcherCloses
       \/ /\ closeStep # "none" /\ closeStep' = closeStep /\ closeWaits' = closeWaits
          /\ authz' = authz /\ envoy' = e /\ phase' = phase /\ closing' = closing

Unwinds(e) ==
    /\ scope' = "unwind" /\ HandlesAre(e, unwindWaits') /\ readyState' = FALSE /\ mclosing' = TRUE
    /\ AuthzCloses /\ EnvoyCloses(e) /\ WatcherCloses
    /\ mstart' = mstart /\ closeStep' = closeStep /\ closeWaits' = closeWaits /\ verdict' = verdict

LEMMA HandlesEach ==
  ASSUME NEW e
  PROVE  HandlesAre(e, Handles(e))
  BY DEF HandlesAre, Handles, Producers

LEMMA CloseProducersDo ==
  ASSUME NEW e, CloseProducers(e)
  PROVE  AuthzCloses /\ EnvoyCloses(e) /\ WatcherCloses
  BY DEF CloseProducers, WatcherCloses, CloseWatcher, BeginCloseWatcher, watcherVars

LEMMA BeginManagerCloseDoes ==
  ASSUME NEW e, BeginManagerClose(e)
  PROVE  BeginsClose(e)
  <1>1. CASE closeStep = "none"
    <2>1. closeWaits' = Handles(e) /\ CloseProducers(e) /\ closeStep' = "producers"
      BY <1>1 DEF BeginManagerClose
    <2> QED
      BY <1>1, <2>1, HandlesEach, CloseProducersDo DEF BeginManagerClose, BeginsClose
  <1>2. CASE closeStep # "none"
    BY <1>2 DEF BeginManagerClose, BeginsClose, watcherVars
  <1> QED
    BY <1>1, <1>2

LEMMA UnwindDoes ==
  ASSUME NEW e, Unwind(e)
  PROVE  Unwinds(e)
  <1>1. unwindWaits' = Handles(e) /\ CloseProducers(e)
    BY DEF Unwind
  <1> QED
    BY <1>1, HandlesEach, CloseProducersDo DEF Unwind, Unwinds, closeOnceVars

LEMMA JoinedEach ==
  ASSUME NEW waits, waits \subseteq Producers
  PROVE  Joined(waits) <=> /\ "watcher" \in waits => closing = "retired"
                           /\ "authz" \in waits => authz \in {"closed", "failed"}
                           /\ "envoy" \in waits => envoy \in {"closed", "failed"}
  BY DEF Joined, Producers

LEMMA OpenWalTears ==
  ASSUME TeardownInv, WatcherInv, NEW ok \in BOOLEAN, OpenWal(ok)
  PROVE  TeardownInv'
  <1>0. BeginManagerClose(envoy) => BeginsClose(envoy)
    BY BeginManagerCloseDoes
  <1>1. ManagerTypes'
    BY <1>0 DEF TeardownInv, ManagerTypes, CloseSteps, OpenWal, RejectStart, BeginsClose,
       AuthzCloses, EnvoyCloses, scopeVars, closeOnceVars
  <1>2. WaitTypes'
    BY <1>0 DEF TeardownInv, WaitTypes, OpenWal, RejectStart, BeginsClose, HandlesAre, scopeVars,
       closeOnceVars
  <1>3. SwitchTypes'
    BY <1>0 DEF TeardownInv, SwitchTypes, OpenWal, RejectStart, BeginsClose
  <1>4. VerdictType'
    BY <1>0 DEF TeardownInv, VerdictType, OpenWal, RejectStart, BeginsClose, closeOnceVars
  <1>5. StartInv'
    BY <1>0 DEF TeardownInv, StartInv, OpenWal, RejectStart, BeginsClose, scopeVars, closeOnceVars
  <1>6. ScopeInv'
    BY <1>0 DEF TeardownInv, ScopeInv, OpenWal, RejectStart, BeginsClose, AuthzCloses,
       EnvoyCloses, WatcherCloses, watcherVars, scopeVars
  <1>7. UnwindInv'
    BY <1>0 DEF TeardownInv, StartInv, UnwindInv, AuthzGone, OpenWal, RejectStart, BeginsClose,
       AuthzCloses, scopeVars
  <1>8. CloseInv'
    BY <1>0 DEF TeardownInv, StartInv, ScopeInv, CloseInv, OpenWal, RejectStart, BeginsClose,
       HandlesAre, AuthzCloses, scopeVars, closeOnceVars
  <1>9. LogInv'
    BY <1>0 DEF TeardownInv, StartInv, LogInv, OpenWal, RejectStart, BeginsClose, closeOnceVars
  <1> QED
    BY <1>1, <1>2, <1>3, <1>4, <1>5, <1>6, <1>7, <1>8, <1>9 DEF TeardownInv

LEMMA StartAuthzTears ==
  ASSUME TeardownInv, WatcherInv, NEW ok \in BOOLEAN, StartAuthz(ok)
  PROVE  TeardownInv'
  <1>0. BeginManagerClose(envoy) => BeginsClose(envoy)
    BY BeginManagerCloseDoes
  <1>1. ManagerTypes'
    BY <1>0 DEF TeardownInv, ManagerTypes, ScopeStates, CloseSteps, StartAuthz, RejectStart,
       BeginsClose, AuthzCloses, EnvoyCloses, closeOnceVars
  <1>2. WaitTypes'
    BY <1>0 DEF TeardownInv, WaitTypes, StartAuthz, RejectStart, BeginsClose, HandlesAre,
       closeOnceVars
  <1>3. SwitchTypes'
    BY <1>0 DEF TeardownInv, SwitchTypes, StartAuthz, RejectStart, BeginsClose
  <1>4. VerdictType'
    BY <1>0 DEF TeardownInv, VerdictType, StartAuthz, RejectStart, BeginsClose, closeOnceVars
  <1>5. StartInv'
    BY <1>0 DEF TeardownInv, StartInv, StartAuthz, RejectStart, BeginsClose, closeOnceVars
  <1>6. ScopeInv'
    BY <1>0 DEF TeardownInv, StartInv, ScopeInv, StartAuthz, RejectStart, BeginsClose,
       AuthzCloses, EnvoyCloses, WatcherCloses, watcherVars
  <1>7. UnwindInv'
    BY <1>0 DEF TeardownInv, StartInv, ScopeInv, UnwindInv, StartAuthz
  <1>8. CloseInv'
    BY <1>0 DEF TeardownInv, StartInv, ScopeInv, CloseInv, StartAuthz, RejectStart, BeginsClose,
       HandlesAre, AuthzCloses, closeOnceVars
  <1>9. LogInv'
    BY <1>0 DEF TeardownInv, StartInv, LogInv, StartAuthz, RejectStart, BeginsClose, closeOnceVars
  <1> QED
    BY <1>1, <1>2, <1>3, <1>4, <1>5, <1>6, <1>7, <1>8, <1>9 DEF TeardownInv

LEMMA StartDeadlineTears ==
  ASSUME TeardownInv, WatcherInv, StartDeadline
  PROVE  TeardownInv'
  <1>0. BeginManagerClose(envoy) => BeginsClose(envoy)
    BY BeginManagerCloseDoes
  <1>1. ManagerTypes'
    BY <1>0 DEF TeardownInv, ManagerTypes, CloseSteps, StartDeadline, RejectStart, BeginsClose,
       AuthzCloses, EnvoyCloses, scopeVars
  <1>2. WaitTypes'
    BY <1>0 DEF TeardownInv, WaitTypes, StartDeadline, RejectStart, BeginsClose, HandlesAre,
       scopeVars
  <1>3. SwitchTypes'
    BY <1>0 DEF TeardownInv, SwitchTypes, StartDeadline, RejectStart, BeginsClose
  <1>4. VerdictType'
    BY <1>0 DEF TeardownInv, VerdictType, StartDeadline, RejectStart, BeginsClose
  <1>5. StartInv'
    BY <1>0 DEF TeardownInv, StartInv, StartDeadline, RejectStart, BeginsClose, scopeVars
  <1>6. ScopeInv'
    BY <1>0 DEF TeardownInv, ScopeInv, StartDeadline, RejectStart, BeginsClose, AuthzCloses,
       EnvoyCloses, WatcherCloses, scopeVars
  <1>7. UnwindInv'
    BY <1>0 DEF TeardownInv, UnwindInv, EnvoyGone, AuthzGone, Quiet, StartDeadline, RejectStart,
       BeginsClose, AuthzCloses, EnvoyCloses, WatcherCloses, scopeVars
  <1>8. CloseInv'
    BY <1>0 DEF TeardownInv, ManagerTypes, StartInv, CloseInv, StartDeadline, RejectStart,
       BeginsClose, HandlesAre, AuthzCloses, EnvoyCloses, WatcherCloses, scopeVars
  <1>9. LogInv'
    BY <1>0 DEF TeardownInv, StartInv, LogInv, StartDeadline, RejectStart, BeginsClose
  <1> QED
    BY <1>1, <1>2, <1>3, <1>4, <1>5, <1>6, <1>7, <1>8, <1>9 DEF TeardownInv

LEMMA OwnerClosesTears ==
  ASSUME TeardownInv, WatcherInv, OwnerCloses
  PROVE  TeardownInv'
  <1>0. BeginManagerClose(envoy) => BeginsClose(envoy)
    BY BeginManagerCloseDoes
  <1>1. ManagerTypes'
    BY <1>0 DEF TeardownInv, ManagerTypes, CloseSteps, OwnerCloses, BeginsClose, AuthzCloses,
       EnvoyCloses, scopeVars
  <1>2. WaitTypes'
    BY <1>0 DEF TeardownInv, WaitTypes, OwnerCloses, BeginsClose, HandlesAre, scopeVars
  <1>3. SwitchTypes'
    BY <1>0 DEF TeardownInv, SwitchTypes, OwnerCloses, BeginsClose
  <1>4. VerdictType'
    BY <1>0 DEF TeardownInv, VerdictType, OwnerCloses, BeginsClose
  <1>5. StartInv'
    BY <1>0 DEF TeardownInv, StartInv, OwnerCloses, BeginsClose, scopeVars
  <1>6. ScopeInv'
    BY <1>0 DEF TeardownInv, ScopeInv, OwnerCloses, BeginsClose, AuthzCloses, EnvoyCloses,
       WatcherCloses, scopeVars
  <1>7. UnwindInv'
    BY <1>0 DEF TeardownInv, UnwindInv, EnvoyGone, AuthzGone, Quiet, OwnerCloses, BeginsClose,
       AuthzCloses, EnvoyCloses, WatcherCloses, scopeVars
  <1>8. CloseInv'
    BY <1>0 DEF TeardownInv, ManagerTypes, ScopeInv, CloseInv, Producers, OwnerCloses,
       BeginsClose, HandlesAre, AuthzCloses, EnvoyCloses, WatcherCloses, scopeVars
  <1>9. LogInv'
    BY <1>0 DEF TeardownInv, LogInv, OwnerCloses, BeginsClose
  <1> QED
    BY <1>1, <1>2, <1>3, <1>4, <1>5, <1>6, <1>7, <1>8, <1>9 DEF TeardownInv

LEMMA HealthCheckTears ==
  ASSUME TeardownInv, WatcherInv, HealthCheck
  PROVE  TeardownInv'
  <1>0. BeginManagerClose(envoy) => BeginsClose(envoy)
    BY BeginManagerCloseDoes
  <1>1. ManagerTypes'
    BY <1>0 DEF TeardownInv, ManagerTypes, CloseSteps, HealthCheck, BeginsClose, AuthzCloses,
       EnvoyCloses, scopeVars
  <1>2. WaitTypes'
    BY <1>0 DEF TeardownInv, WaitTypes, HealthCheck, BeginsClose, HandlesAre, scopeVars
  <1>3. SwitchTypes'
    BY <1>0 DEF TeardownInv, SwitchTypes, HealthCheck, BeginsClose
  <1>4. VerdictType'
    BY <1>0 DEF TeardownInv, VerdictType, HealthCheck, BeginsClose
  <1>5. StartInv'
    BY <1>0 DEF TeardownInv, StartInv, HealthCheck, BeginsClose, scopeVars
  <1>6. ScopeInv'
    BY <1>0 DEF TeardownInv, ScopeInv, HealthCheck, BeginsClose, AuthzCloses, EnvoyCloses,
       WatcherCloses, scopeVars
  <1>7. UnwindInv'
    BY <1>0 DEF TeardownInv, UnwindInv, EnvoyGone, AuthzGone, Quiet, HealthCheck, BeginsClose,
       AuthzCloses, EnvoyCloses, WatcherCloses, scopeVars
  <1>8. CloseInv'
    BY <1>0 DEF TeardownInv, ManagerTypes, StartInv, ScopeInv, CloseInv, Producers, HealthCheck,
       BeginsClose, HandlesAre, AuthzCloses, EnvoyCloses, WatcherCloses
  <1>9. LogInv'
    BY <1>0 DEF TeardownInv, StartInv, LogInv, HealthCheck, BeginsClose
  <1> QED
    BY <1>1, <1>2, <1>3, <1>4, <1>5, <1>6, <1>7, <1>8, <1>9 DEF TeardownInv

LEMMA AcquireMaterialTears ==
  ASSUME TeardownInv, WatcherInv, AcquireMaterial
  PROVE  TeardownInv'
  <1>1. ManagerTypes' /\ WaitTypes' /\ SwitchTypes' /\ VerdictType'
    BY DEF TeardownInv, ManagerTypes, WaitTypes, SwitchTypes, VerdictType, ScopeStates,
       AcquireMaterial, closeOnceVars
  <1>2. StartInv' /\ ScopeInv'
    BY DEF TeardownInv, StartInv, ScopeInv, AcquireMaterial, watcherVars, closeOnceVars
  <1>3. UnwindInv' /\ CloseInv' /\ LogInv'
    BY DEF TeardownInv, UnwindInv, CloseInv, LogInv, EnvoyGone, AuthzGone, Quiet,
       AcquireMaterial, watcherVars, closeOnceVars
  <1> QED
    BY <1>1, <1>2, <1>3 DEF TeardownInv

LEMMA AcquireFailsTears ==
  ASSUME TeardownInv, WatcherInv, NEW how, AcquireFails(how)
  PROVE  TeardownInv'
  <1>0. BeginManagerClose(envoy) => BeginsClose(envoy)
    BY BeginManagerCloseDoes
  <1>1. ManagerTypes'
    BY <1>0 DEF TeardownInv, ManagerTypes, ScopeStates, CloseSteps, AcquireFails, ScopeSettles,
       RejectStart, BeginsClose, AuthzCloses, EnvoyCloses, closeOnceVars
  <1>2. WaitTypes'
    BY <1>0 DEF TeardownInv, WaitTypes, AcquireFails, ScopeSettles, RejectStart, BeginsClose,
       HandlesAre, closeOnceVars
  <1>3. SwitchTypes'
    BY <1>0 DEF TeardownInv, SwitchTypes, AcquireFails, ScopeSettles, RejectStart, BeginsClose
  <1>4. VerdictType'
    BY <1>0 DEF TeardownInv, VerdictType, AcquireFails, ScopeSettles, RejectStart, BeginsClose,
       closeOnceVars
  <1>5. StartInv'
    BY <1>0 DEF TeardownInv, StartInv, AcquireFails, ScopeSettles, RejectStart, BeginsClose,
       closeOnceVars
  <1>6. ScopeInv'
    BY <1>0 DEF TeardownInv, ScopeInv, AcquireFails, ScopeSettles, RejectStart, BeginsClose,
       AuthzCloses, EnvoyCloses, watcherVars
  <1>7. UnwindInv'
    BY <1>0 DEF TeardownInv, ScopeInv, UnwindInv, EnvoyGone, Quiet, AcquireFails, ScopeSettles,
       RejectStart, BeginsClose, EnvoyCloses, WatcherCloses, watcherVars
  <1>8. CloseInv'
    BY <1>0 DEF TeardownInv, ManagerTypes, ScopeInv, CloseInv, AuthzGone, AcquireFails, ScopeSettles,
       RejectStart, BeginsClose, HandlesAre, AuthzCloses, closeOnceVars
  <1>9. LogInv'
    BY <1>0 DEF TeardownInv, LogInv, AcquireFails, ScopeSettles, RejectStart, BeginsClose,
       closeOnceVars
  <1> QED
    BY <1>1, <1>2, <1>3, <1>4, <1>5, <1>6, <1>7, <1>8, <1>9 DEF TeardownInv

LEMMA EnterMaterialTears ==
  ASSUME TeardownInv, WatcherInv, EnterMaterial
  PROVE  TeardownInv'
  <1>0. /\ Unwind(envoy) => Unwinds(envoy)
        /\ Create => phase' \in {"starting", "failed"}
    BY UnwindDoes DEF Create
  <1>1. ManagerTypes'
    BY <1>0 DEF TeardownInv, ManagerTypes, ScopeStates, EnterMaterial, Unwinds, AuthzCloses,
       EnvoyCloses, closeOnceVars
  <1>2. WaitTypes'
    BY <1>0 DEF TeardownInv, WaitTypes, EnterMaterial, Unwinds, HandlesAre, closeOnceVars
  <1>3. SwitchTypes'
    BY <1>0 DEF TeardownInv, SwitchTypes, EnterMaterial, Unwinds
  <1>4. VerdictType'
    BY <1>0 DEF TeardownInv, VerdictType, EnterMaterial, Unwinds, closeOnceVars
  <1>5. StartInv'
    BY <1>0 DEF TeardownInv, StartInv, EnterMaterial, Unwinds, closeOnceVars
  <1>6. ScopeInv'
    BY <1>0 DEF TeardownInv, ScopeInv, EnterMaterial, Unwinds, AuthzCloses, EnvoyCloses
  <1>7. UnwindInv'
    BY <1>0 DEF TeardownInv, ManagerTypes, ScopeInv, UnwindInv, EnterMaterial, Unwinds,
       HandlesAre, AuthzCloses, EnvoyCloses, WatcherCloses
  <1>8. CloseInv'
    BY <1>0 DEF TeardownInv, ScopeInv, CloseInv, AuthzGone, EnterMaterial, Unwinds, AuthzCloses,
       closeOnceVars
  <1>9. LogInv'
    BY <1>0 DEF TeardownInv, LogInv, EnterMaterial, Unwinds, closeOnceVars
  <1> QED
    BY <1>1, <1>2, <1>3, <1>4, <1>5, <1>6, <1>7, <1>8, <1>9 DEF TeardownInv

LEMMA WatcherCreatedTears ==
  ASSUME TeardownInv, WatcherInv, WatcherCreated
  PROVE  TeardownInv'
  <1>0. Unwind(envoy) => Unwinds(envoy)
    BY UnwindDoes
  <1>1. ManagerTypes'
    BY <1>0 DEF TeardownInv, ManagerTypes, ScopeStates, WatcherCreated, Unwinds, AuthzCloses,
       EnvoyCloses, closeOnceVars
  <1>2. WaitTypes'
    BY <1>0 DEF TeardownInv, WaitTypes, WatcherCreated, Unwinds, HandlesAre, closeOnceVars
  <1>3. SwitchTypes'
    BY <1>0 DEF TeardownInv, SwitchTypes, WatcherCreated, Unwinds
  <1>4. VerdictType'
    BY <1>0 DEF TeardownInv, VerdictType, WatcherCreated, Unwinds, closeOnceVars
  <1>5. StartInv'
    BY <1>0 DEF TeardownInv, StartInv, WatcherCreated, Unwinds, closeOnceVars
  <1>6. ScopeInv'
    BY <1>0 DEF TeardownInv, ScopeInv, WatcherCreated, Unwinds, AuthzCloses, EnvoyCloses,
       watcherVars
  <1>7. UnwindInv'
    BY <1>0 DEF TeardownInv, ManagerTypes, ScopeInv, UnwindInv, WatcherCreated, Unwinds,
       HandlesAre, AuthzCloses, EnvoyCloses, WatcherCloses
  <1>8. CloseInv'
    BY <1>0 DEF TeardownInv, ScopeInv, CloseInv, AuthzGone, WatcherCreated, Unwinds, AuthzCloses,
       WatcherCloses, watcherVars, closeOnceVars
  <1>9. LogInv'
    BY <1>0 DEF TeardownInv, LogInv, WatcherCreated, Unwinds, closeOnceVars
  <1> QED
    BY <1>1, <1>2, <1>3, <1>4, <1>5, <1>6, <1>7, <1>8, <1>9 DEF TeardownInv

LEMMA WatcherRefusedTears ==
  ASSUME TeardownInv, WatcherInv, WatcherRefused
  PROVE  TeardownInv'
  <1>0. BeginManagerClose(envoy) => BeginsClose(envoy)
    BY BeginManagerCloseDoes
  <1>1. ManagerTypes'
    BY <1>0 DEF TeardownInv, ManagerTypes, CloseSteps, WatcherRefused, ReadyReject, RejectStart,
       BeginsClose, AuthzCloses, EnvoyCloses, scopeVars
  <1>2. WaitTypes'
    BY <1>0 DEF TeardownInv, WaitTypes, WatcherRefused, ReadyReject, RejectStart, BeginsClose,
       HandlesAre, scopeVars
  <1>3. SwitchTypes'
    BY <1>0 DEF TeardownInv, SwitchTypes, WatcherRefused, ReadyReject, RejectStart, BeginsClose
  <1>4. VerdictType'
    BY <1>0 DEF TeardownInv, VerdictType, WatcherRefused, ReadyReject, RejectStart, BeginsClose
  <1>5. StartInv'
    BY <1>0 DEF StartInv, WatcherRefused, ReadyReject, RejectStart, BeginsClose, scopeVars
  <1>6. ScopeInv'
    BY <1>0 DEF TeardownInv, ScopeInv, WatcherRefused, ReadyReject, RejectStart, BeginsClose,
       AuthzCloses, EnvoyCloses, WatcherCloses, scopeVars
  <1>7. UnwindInv'
    BY <1>0 DEF TeardownInv, UnwindInv, AuthzGone, WatcherRefused, ReadyReject, RejectStart,
       BeginsClose, AuthzCloses, scopeVars
  <1>8. CloseInv'
    BY <1>0 DEF TeardownInv, ManagerTypes, CloseInv, AuthzGone, WatcherRefused, ReadyReject,
       RejectStart, BeginsClose, HandlesAre, AuthzCloses, EnvoyCloses, scopeVars
  <1>9. LogInv'
    BY <1>0 DEF TeardownInv, LogInv, WatcherRefused, ReadyReject, RejectStart, BeginsClose
  <1> QED
    BY <1>1, <1>2, <1>3, <1>4, <1>5, <1>6, <1>7, <1>8, <1>9 DEF TeardownInv

LEMMA RefusedWatcherRetiredTears ==
  ASSUME TeardownInv, WatcherInv, RefusedWatcherRetired
  PROVE  TeardownInv'
  <1>0. Unwind(envoy) => Unwinds(envoy)
    BY UnwindDoes
  <1>1. ManagerTypes'
    BY <1>0 DEF TeardownInv, ManagerTypes, ScopeStates, RefusedWatcherRetired, Unwinds,
       AuthzCloses, EnvoyCloses
  <1>2. WaitTypes'
    BY <1>0 DEF TeardownInv, WaitTypes, RefusedWatcherRetired, Unwinds, HandlesAre
  <1>3. SwitchTypes'
    BY <1>0 DEF TeardownInv, SwitchTypes, RefusedWatcherRetired, Unwinds
  <1>4. VerdictType'
    BY <1>0 DEF TeardownInv, VerdictType, RefusedWatcherRetired, Unwinds
  <1>5. StartInv'
    BY <1>0 DEF TeardownInv, StartInv, RefusedWatcherRetired, Unwinds
  <1>6. ScopeInv'
    BY <1>0 DEF TeardownInv, ScopeInv, RefusedWatcherRetired, Unwinds, AuthzCloses, EnvoyCloses
  <1>7. UnwindInv'
    BY <1>0 DEF TeardownInv, ManagerTypes, ScopeInv, UnwindInv, RefusedWatcherRetired, Unwinds,
       HandlesAre, AuthzCloses, EnvoyCloses, WatcherCloses
  <1>8. CloseInv'
    BY <1>0 DEF TeardownInv, CloseInv, AuthzGone, RefusedWatcherRetired, Unwinds, AuthzCloses,
       EnvoyCloses
  <1>9. LogInv'
    BY <1>0 DEF TeardownInv, LogInv, RefusedWatcherRetired, Unwinds
  <1> QED
    BY <1>1, <1>2, <1>3, <1>4, <1>5, <1>6, <1>7, <1>8, <1>9 DEF TeardownInv

LEMMA EnvoyStartedTears ==
  ASSUME TeardownInv, WatcherInv, EnvoyStarted
  PROVE  TeardownInv'
  <1>0. (Unwind("up") => Unwinds("up")) /\ (Unwind("dead") => Unwinds("dead"))
    BY UnwindDoes
  <1>1. ManagerTypes'
    BY <1>0 DEF TeardownInv, ManagerTypes, ScopeStates, EnvoyStarted, Unwinds, AuthzCloses,
       EnvoyCloses, closeOnceVars
  <1>2. WaitTypes'
    BY <1>0 DEF TeardownInv, WaitTypes, EnvoyStarted, Unwinds, HandlesAre, closeOnceVars
  <1>3. SwitchTypes'
    BY <1>0 DEF TeardownInv, SwitchTypes, EnvoyStarted, Unwinds
  <1>4. VerdictType'
    BY <1>0 DEF TeardownInv, VerdictType, EnvoyStarted, Unwinds, closeOnceVars
  <1>5. StartInv'
    BY <1>0 DEF TeardownInv, StartInv, EnvoyStarted, Unwinds, closeOnceVars
  <1>6. ScopeInv'
    BY <1>0 DEF TeardownInv, ScopeInv, EnvoyStarted, Unwinds, AuthzCloses, EnvoyCloses,
       watcherVars
  <1>7. UnwindInv'
    BY <1>0 DEF TeardownInv, ManagerTypes, ScopeInv, UnwindInv, EnvoyStarted, Unwinds, HandlesAre,
       AuthzCloses, EnvoyCloses, WatcherCloses
  <1>8. CloseInv'
    BY <1>0 DEF TeardownInv, CloseInv, AuthzGone, EnvoyStarted, Unwinds, AuthzCloses,
       WatcherCloses, watcherVars, closeOnceVars
  <1>9. LogInv'
    BY <1>0 DEF TeardownInv, LogInv, EnvoyStarted, Unwinds, closeOnceVars
  <1> QED
    BY <1>1, <1>2, <1>3, <1>4, <1>5, <1>6, <1>7, <1>8, <1>9 DEF TeardownInv

LEMMA EnvoyRefusedTears ==
  ASSUME TeardownInv, WatcherInv, EnvoyRefused
  PROVE  TeardownInv'
  <1>0. BeginManagerClose("reaping") => BeginsClose("reaping")
    BY BeginManagerCloseDoes
  <1>1. ManagerTypes'
    BY <1>0 DEF TeardownInv, ManagerTypes, CloseSteps, EnvoyRefused, ReadyReject, RejectStart,
       BeginsClose, AuthzCloses, EnvoyCloses, scopeVars, closeOnceVars
  <1>2. WaitTypes'
    BY <1>0 DEF TeardownInv, WaitTypes, EnvoyRefused, ReadyReject, RejectStart, BeginsClose,
       HandlesAre, scopeVars, closeOnceVars
  <1>3. SwitchTypes'
    BY <1>0 DEF TeardownInv, SwitchTypes, EnvoyRefused, ReadyReject, RejectStart, BeginsClose
  <1>4. VerdictType'
    BY <1>0 DEF TeardownInv, VerdictType, EnvoyRefused, ReadyReject, RejectStart, BeginsClose,
       closeOnceVars
  <1>5. StartInv'
    BY <1>0 DEF TeardownInv, StartInv, EnvoyRefused, ReadyReject, RejectStart, BeginsClose,
       scopeVars, closeOnceVars
  <1>6. ScopeInv'
    BY <1>0 DEF TeardownInv, ManagerTypes, StartInv, ScopeInv, EnvoyRefused, ReadyReject,
       RejectStart, BeginsClose, AuthzCloses, EnvoyCloses, WatcherCloses, watcherVars, scopeVars
  <1>7. UnwindInv'
    BY <1>0 DEF TeardownInv, UnwindInv, AuthzGone, EnvoyRefused, ReadyReject, RejectStart,
       BeginsClose, AuthzCloses, scopeVars
  <1>8. CloseInv'
    BY <1>0 DEF TeardownInv, ManagerTypes, CloseInv, AuthzGone, EnvoyRefused, ReadyReject,
       RejectStart, BeginsClose, HandlesAre, AuthzCloses, WatcherCloses, watcherVars, scopeVars,
       closeOnceVars
  <1>9. LogInv'
    BY <1>0 DEF TeardownInv, LogInv, EnvoyRefused, ReadyReject, RejectStart, BeginsClose,
       closeOnceVars
  <1> QED
    BY <1>1, <1>2, <1>3, <1>4, <1>5, <1>6, <1>7, <1>8, <1>9 DEF TeardownInv

LEMMA EnvoyReapedTears ==
  ASSUME TeardownInv, WatcherInv, EnvoyReaped
  PROVE  TeardownInv'
  <1>0. Unwind("closed") => Unwinds("closed")
    BY UnwindDoes
  <1>1. ManagerTypes'
    BY <1>0 DEF TeardownInv, ManagerTypes, ScopeStates, EnvoyReaped, Unwinds, AuthzCloses,
       EnvoyCloses
  <1>2. WaitTypes'
    BY <1>0 DEF TeardownInv, WaitTypes, EnvoyReaped, Unwinds, HandlesAre
  <1>3. SwitchTypes'
    BY <1>0 DEF TeardownInv, SwitchTypes, EnvoyReaped, Unwinds
  <1>4. VerdictType'
    BY <1>0 DEF TeardownInv, VerdictType, EnvoyReaped, Unwinds
  <1>5. StartInv'
    BY <1>0 DEF TeardownInv, StartInv, EnvoyReaped, Unwinds
  <1>6. ScopeInv'
    BY <1>0 DEF TeardownInv, ScopeInv, EnvoyReaped, Unwinds, AuthzCloses, EnvoyCloses
  <1>7. UnwindInv'
    BY <1>0 DEF TeardownInv, StartInv, ScopeInv, UnwindInv, CloseInv, EnvoyReaped, Unwinds,
       HandlesAre, AuthzCloses, EnvoyCloses, WatcherCloses
  <1>8. CloseInv'
    BY <1>0 DEF TeardownInv, CloseInv, AuthzGone, EnvoyReaped, Unwinds, AuthzCloses, WatcherCloses
  <1>9. LogInv'
    BY <1>0 DEF TeardownInv, LogInv, EnvoyReaped, Unwinds
  <1> QED
    BY <1>1, <1>2, <1>3, <1>4, <1>5, <1>6, <1>7, <1>8, <1>9 DEF TeardownInv

LEMMA UnwindJoinedTears ==
  ASSUME TeardownInv, WatcherInv, UnwindJoined
  PROVE  TeardownInv'
  <1>0. Joined(unwindWaits) =>
             /\ "watcher" \in unwindWaits => closing = "retired"
             /\ "authz" \in unwindWaits => authz \in {"closed", "failed"}
             /\ "envoy" \in unwindWaits => envoy \in {"closed", "failed"}
    BY JoinedEach DEF TeardownInv, WaitTypes
  <1>1. ManagerTypes'
    BY <1>0 DEF TeardownInv, ManagerTypes, ScopeStates, UnwindJoined, closeOnceVars
  <1>2. WaitTypes'
    BY <1>0 DEF TeardownInv, WaitTypes, UnwindJoined, closeOnceVars
  <1>3. SwitchTypes'
    BY <1>0 DEF TeardownInv, SwitchTypes, UnwindJoined
  <1>4. VerdictType'
    BY <1>0 DEF TeardownInv, VerdictType, UnwindJoined, closeOnceVars
  <1>5. StartInv'
    BY <1>0 DEF TeardownInv, StartInv, UnwindJoined, closeOnceVars
  <1>6. ScopeInv'
    BY <1>0 DEF TeardownInv, ScopeInv, UnwindJoined
  <1>7. UnwindInv'
    BY <1>0 DEF TeardownInv, UnwindInv, EnvoyGone, AuthzGone, Quiet, UnwindJoined, Unretired,
       watcherVars
  <1>8. CloseInv'
    BY <1>0 DEF TeardownInv, CloseInv, AuthzGone, UnwindJoined, watcherVars, closeOnceVars
  <1>9. LogInv'
    BY <1>0 DEF TeardownInv, LogInv, UnwindJoined, closeOnceVars
  <1> QED
    BY <1>1, <1>2, <1>3, <1>4, <1>5, <1>6, <1>7, <1>8, <1>9 DEF TeardownInv

LEMMA FinalizeTears ==
  ASSUME TeardownInv, WatcherInv, NEW how, Finalize(how)
  PROVE  TeardownInv'
  <1>0. BeginManagerClose(envoy) => BeginsClose(envoy)
    BY BeginManagerCloseDoes
  <1>1. ManagerTypes'
    BY <1>0 DEF TeardownInv, ManagerTypes, ScopeStates, CloseSteps, Finalize, ScopeSettles,
       RejectStart, BeginsClose, AuthzCloses, EnvoyCloses, closeOnceVars
  <1>2. WaitTypes'
    BY <1>0 DEF TeardownInv, WaitTypes, Finalize, ScopeSettles, RejectStart, BeginsClose,
       HandlesAre, closeOnceVars
  <1>3. SwitchTypes'
    BY <1>0 DEF TeardownInv, SwitchTypes, Finalize, ScopeSettles, RejectStart, BeginsClose
  <1>4. VerdictType'
    BY <1>0 DEF TeardownInv, VerdictType, Finalize, ScopeSettles, RejectStart, BeginsClose,
       closeOnceVars
  <1>5. StartInv'
    BY <1>0 DEF TeardownInv, StartInv, Finalize, ScopeSettles, RejectStart, BeginsClose,
       closeOnceVars
  <1>6. ScopeInv'
    BY <1>0 DEF TeardownInv, ScopeInv, Finalize, ScopeSettles, RejectStart, BeginsClose,
       AuthzCloses, EnvoyCloses
  <1>7. UnwindInv'
    BY <1>0 DEF TeardownInv, UnwindInv, EnvoyGone, AuthzGone, Quiet, Finalize, ScopeSettles,
       RejectStart, BeginsClose, AuthzCloses, EnvoyCloses, WatcherCloses, watcherVars
  <1>8. CloseInv'
    BY <1>0 DEF TeardownInv, UnwindInv, CloseInv, AuthzGone, Finalize, ScopeSettles, RejectStart,
       BeginsClose, HandlesAre, AuthzCloses, EnvoyCloses, WatcherCloses, watcherVars,
       closeOnceVars
  <1>9. LogInv'
    BY <1>0 DEF TeardownInv, LogInv, Finalize, ScopeSettles, RejectStart, BeginsClose,
       closeOnceVars
  <1> QED
    BY <1>1, <1>2, <1>3, <1>4, <1>5, <1>6, <1>7, <1>8, <1>9 DEF TeardownInv

LEMMA ProducersJoinedTears ==
  ASSUME TeardownInv, WatcherInv, ProducersJoined
  PROVE  TeardownInv'
  <1>0. Joined(closeWaits) =>
             /\ "watcher" \in closeWaits => closing = "retired"
             /\ "authz" \in closeWaits => authz \in {"closed", "failed"}
             /\ "envoy" \in closeWaits => envoy \in {"closed", "failed"}
    BY JoinedEach DEF TeardownInv, WaitTypes
  <1>a. VerdictType'
    <2>1. CASE Unretired(closeWaits)
      <3>1. verdict' = [failed |-> TRUE, certain |-> FALSE]
        BY <2>1 DEF ProducersJoined
      <3> QED
        BY <3>1 DEF VerdictType
    <2>2. CASE ~Unretired(closeWaits)
      <3> DEFINE late == "watcher" \in closeWaits /\ closeResult # "ok"
      <3>1. late \in BOOLEAN
        OBVIOUS
      <3>2. verdict' = [verdict EXCEPT !.failed = late]
        BY <2>2 DEF ProducersJoined
      <3> HIDE DEF late
      <3> QED
        BY <3>1, <3>2 DEF TeardownInv, VerdictType
    <2> QED
      BY <2>1, <2>2
  <1>b. \/ Unretired(closeWaits) /\ closeStep' = "failed" /\ verdict'.certain = FALSE
        \/ ~Unretired(closeWaits) /\ closeStep' = "queue"
    BY DEF ProducersJoined, CloseMoves
  <1>c. /\ closeStep = "producers" /\ Joined(closeWaits) /\ phase' = phase /\ closing' = closing
        /\ mstart' = mstart /\ material' = material /\ authz' = authz /\ envoy' = envoy
        /\ readyState' = readyState /\ mclosing' = mclosing /\ replacement' = replacement
        /\ closeWaits' = closeWaits /\ unwindWaits' = unwindWaits
        /\ scope' = scope /\ walState' = walState /\ queueState' = queueState
    BY DEF ProducersJoined, CloseMoves, watcherVars
  <1>1. ManagerTypes'
    BY <1>0, <1>b, <1>c DEF TeardownInv, ManagerTypes, CloseSteps
  <1>2. WaitTypes'
    BY <1>0, <1>b, <1>c DEF TeardownInv, WaitTypes
  <1>3. SwitchTypes'
    BY <1>0, <1>b, <1>c DEF TeardownInv, SwitchTypes
  <1>4. VerdictType'
    BY <1>a
  <1>5. StartInv'
    BY <1>0, <1>b, <1>c DEF TeardownInv, StartInv
  <1>6. ScopeInv'
    BY <1>0, <1>b, <1>c DEF TeardownInv, ScopeInv
  <1>7. UnwindInv'
    BY <1>0, <1>b, <1>c DEF TeardownInv, UnwindInv, EnvoyGone, AuthzGone, Quiet
  <1>8. CloseInv'
    BY <1>0, <1>b, <1>c DEF TeardownInv, CloseInv, AuthzGone, Unretired
  <1>9. LogInv'
    BY <1>0, <1>b, <1>c DEF TeardownInv, LogInv
  <1> QED
    BY <1>1, <1>2, <1>3, <1>4, <1>5, <1>6, <1>7, <1>8, <1>9 DEF TeardownInv

LEMMA CloseQueueStepTears ==
  ASSUME TeardownInv, WatcherInv, CloseQueueStep
  PROVE  TeardownInv'
  <1>a. VerdictType'
    <2>1. CASE queueState # "none" /\ walState # "ready"
      <3>1. verdict' = [failed |-> TRUE, certain |-> FALSE]
        BY <2>1 DEF CloseQueueStep
      <3> QED
        BY <3>1 DEF VerdictType
    <2>2. CASE ~(queueState # "none" /\ walState # "ready")
      <3> DEFINE bad == verdict.failed \/ queueState = "poisoned"
      <3>1. bad \in BOOLEAN
        OBVIOUS
      <3>2. verdict' = [verdict EXCEPT !.failed = bad]
        BY <2>2 DEF CloseQueueStep
      <3> HIDE DEF bad
      <3> QED
        BY <3>1, <3>2 DEF TeardownInv, VerdictType
    <2> QED
      BY <2>1, <2>2
  <1>1. ManagerTypes'
    BY DEF TeardownInv, ManagerTypes, CloseSteps, CloseQueueStep, CloseMoves
  <1>2. WaitTypes'
    BY DEF TeardownInv, WaitTypes, CloseQueueStep, CloseMoves
  <1>3. SwitchTypes'
    BY DEF TeardownInv, SwitchTypes, CloseQueueStep, CloseMoves
  <1>4. VerdictType'
    BY <1>a
  <1>5. StartInv'
    BY DEF TeardownInv, StartInv, CloseQueueStep, CloseMoves
  <1>6. ScopeInv'
    BY DEF TeardownInv, ScopeInv, CloseQueueStep, CloseMoves, watcherVars
  <1>7. UnwindInv'
    BY DEF TeardownInv, UnwindInv, EnvoyGone, AuthzGone, Quiet, CloseQueueStep, CloseMoves,
       watcherVars
  <1>8. CloseInv'
    BY DEF TeardownInv, CloseInv, AuthzGone, CloseQueueStep, CloseMoves, watcherVars
  <1>9. LogInv'
    BY DEF TeardownInv, LogInv, CloseQueueStep, CloseMoves
  <1> QED
    BY <1>1, <1>2, <1>3, <1>4, <1>5, <1>6, <1>7, <1>8, <1>9 DEF TeardownInv

LEMMA CloseTelemetryStepTears ==
  ASSUME TeardownInv, WatcherInv, NEW ok \in BOOLEAN, CloseTelemetryStep(ok)
  PROVE  TeardownInv'
  <1>1. ManagerTypes'
    BY DEF TeardownInv, ManagerTypes, ScopeStates, CloseSteps, CloseTelemetryStep, CloseMoves
  <1>2. WaitTypes'
    BY DEF TeardownInv, WaitTypes, CloseTelemetryStep, CloseMoves
  <1>3. SwitchTypes'
    BY DEF TeardownInv, SwitchTypes, CloseTelemetryStep, CloseMoves
  <1>4. VerdictType'
    BY DEF TeardownInv, VerdictType, CloseTelemetryStep
  <1>5. StartInv'
    BY DEF TeardownInv, StartInv, CloseTelemetryStep, CloseMoves
  <1>6. ScopeInv'
    BY DEF TeardownInv, ScopeInv, CloseTelemetryStep, CloseMoves, watcherVars
  <1>7. UnwindInv'
    BY DEF TeardownInv, UnwindInv, CloseInv, EnvoyGone, AuthzGone, Quiet, Producers,
       CloseTelemetryStep, CloseMoves, watcherVars
  <1>8. CloseInv'
    BY DEF TeardownInv, CloseInv, AuthzGone, CloseTelemetryStep, CloseMoves, watcherVars
  <1>9. LogInv'
    BY DEF TeardownInv, LogInv, CloseTelemetryStep, CloseMoves
  <1> QED
    BY <1>1, <1>2, <1>3, <1>4, <1>5, <1>6, <1>7, <1>8, <1>9 DEF TeardownInv

LEMMA ScopeJoinedTears ==
  ASSUME TeardownInv, WatcherInv, ScopeJoined
  PROVE  TeardownInv'
  <1>1. ManagerTypes'
    BY DEF TeardownInv, ManagerTypes, CloseSteps, ScopeJoined, CloseMoves
  <1>2. WaitTypes'
    BY DEF TeardownInv, WaitTypes, ScopeJoined, CloseMoves
  <1>3. SwitchTypes'
    BY DEF TeardownInv, SwitchTypes, ScopeJoined, CloseMoves
  <1>4. VerdictType'
    BY DEF TeardownInv, VerdictType, ScopeJoined
  <1>5. StartInv'
    BY DEF TeardownInv, StartInv, ScopeJoined, CloseMoves
  <1>6. ScopeInv'
    BY DEF TeardownInv, ScopeInv, ScopeJoined, CloseMoves, watcherVars
  <1>7. UnwindInv'
    BY DEF TeardownInv, UnwindInv, EnvoyGone, AuthzGone, Quiet, ScopeJoined, CloseMoves,
       watcherVars
  <1>8. CloseInv'
    BY DEF TeardownInv, CloseInv, AuthzGone, ScopeJoined, CloseMoves, watcherVars
  <1>9. LogInv'
    BY DEF TeardownInv, LogInv, ScopeJoined, CloseMoves
  <1> QED
    BY <1>1, <1>2, <1>3, <1>4, <1>5, <1>6, <1>7, <1>8, <1>9 DEF TeardownInv

LEMMA CloseWalStepTears ==
  ASSUME TeardownInv, WatcherInv, NEW ok \in BOOLEAN, CloseWalStep(ok)
  PROVE  TeardownInv'
  <1>1. ManagerTypes'
    BY DEF TeardownInv, ManagerTypes, CloseSteps, CloseWalStep, CloseMoves
  <1>2. WaitTypes'
    BY DEF TeardownInv, WaitTypes, CloseWalStep, CloseMoves
  <1>3. SwitchTypes'
    BY DEF TeardownInv, SwitchTypes, CloseWalStep, CloseMoves
  <1>4. VerdictType'
    BY DEF VerdictType, CloseWalStep
  <1>5. StartInv'
    BY DEF TeardownInv, StartInv, CloseWalStep, CloseMoves
  <1>6. ScopeInv'
    BY DEF TeardownInv, ScopeInv, CloseWalStep, CloseMoves, watcherVars
  <1>7. UnwindInv'
    BY DEF TeardownInv, UnwindInv, EnvoyGone, AuthzGone, Quiet, CloseWalStep, CloseMoves,
       watcherVars
  <1>8. CloseInv'
    BY DEF TeardownInv, CloseInv, AuthzGone, CloseWalStep, CloseMoves, watcherVars
  <1>9. LogInv'
    BY DEF TeardownInv, ManagerTypes, CloseInv, LogInv, AuthzGone, CloseWalStep, CloseMoves
  <1> QED
    BY <1>1, <1>2, <1>3, <1>4, <1>5, <1>6, <1>7, <1>8, <1>9 DEF TeardownInv

LEMMA AuthzCloseEndsTears ==
  ASSUME TeardownInv, WatcherInv, NEW ok \in BOOLEAN, AuthzCloseEnds(ok)
  PROVE  TeardownInv'
  <1>1. ManagerTypes'
    BY DEF TeardownInv, ManagerTypes, AuthzCloseEnds, PartMoves, scopeVars, closeOnceVars
  <1>2. WaitTypes'
    BY DEF TeardownInv, WaitTypes, AuthzCloseEnds, PartMoves, scopeVars, closeOnceVars
  <1>3. SwitchTypes'
    BY DEF TeardownInv, SwitchTypes, AuthzCloseEnds, PartMoves
  <1>4. VerdictType'
    BY DEF TeardownInv, VerdictType, AuthzCloseEnds, PartMoves, closeOnceVars
  <1>5. StartInv'
    BY DEF TeardownInv, StartInv, AuthzCloseEnds, PartMoves, scopeVars, closeOnceVars
  <1>6. ScopeInv'
    BY DEF TeardownInv, ScopeInv, AuthzCloseEnds, PartMoves, watcherVars, scopeVars
  <1>7. UnwindInv'
    BY DEF TeardownInv, UnwindInv, EnvoyGone, AuthzGone, Quiet, AuthzCloseEnds, PartMoves,
       watcherVars, scopeVars
  <1>8. CloseInv'
    BY DEF TeardownInv, CloseInv, AuthzGone, AuthzCloseEnds, PartMoves, watcherVars, scopeVars,
       closeOnceVars
  <1>9. LogInv'
    BY DEF TeardownInv, LogInv, AuthzGone, AuthzCloseEnds, PartMoves, closeOnceVars
  <1> QED
    BY <1>1, <1>2, <1>3, <1>4, <1>5, <1>6, <1>7, <1>8, <1>9 DEF TeardownInv

LEMMA EnvoyCloseEndsTears ==
  ASSUME TeardownInv, WatcherInv, NEW ok \in BOOLEAN, EnvoyCloseEnds(ok)
  PROVE  TeardownInv'
  <1>1. ManagerTypes'
    BY DEF TeardownInv, ManagerTypes, EnvoyCloseEnds, PartMoves, scopeVars, closeOnceVars
  <1>2. WaitTypes'
    BY DEF TeardownInv, WaitTypes, EnvoyCloseEnds, PartMoves, scopeVars, closeOnceVars
  <1>3. SwitchTypes'
    BY DEF TeardownInv, SwitchTypes, EnvoyCloseEnds, PartMoves
  <1>4. VerdictType'
    BY DEF TeardownInv, VerdictType, EnvoyCloseEnds, PartMoves, closeOnceVars
  <1>5. StartInv'
    BY DEF TeardownInv, StartInv, EnvoyCloseEnds, PartMoves, scopeVars, closeOnceVars
  <1>6. ScopeInv'
    BY DEF TeardownInv, ScopeInv, EnvoyCloseEnds, PartMoves, watcherVars, scopeVars
  <1>7. UnwindInv'
    BY DEF TeardownInv, UnwindInv, EnvoyGone, AuthzGone, Quiet, EnvoyCloseEnds, PartMoves,
       watcherVars, scopeVars
  <1>8. CloseInv'
    BY DEF TeardownInv, CloseInv, AuthzGone, EnvoyCloseEnds, PartMoves, watcherVars, scopeVars,
       closeOnceVars
  <1>9. LogInv'
    BY DEF TeardownInv, ScopeInv, UnwindInv, LogInv, EnvoyGone, Quiet, EnvoyCloseEnds, PartMoves,
       closeOnceVars
  <1> QED
    BY <1>1, <1>2, <1>3, <1>4, <1>5, <1>6, <1>7, <1>8, <1>9 DEF TeardownInv

LEMMA AuthzDropsTears ==
  ASSUME TeardownInv, WatcherInv, AuthzDrops
  PROVE  TeardownInv'
  <1>1. ManagerTypes'
    BY DEF TeardownInv, ManagerTypes, AuthzDrops, PartMoves, scopeVars, closeOnceVars
  <1>2. WaitTypes'
    BY DEF TeardownInv, WaitTypes, AuthzDrops, PartMoves, scopeVars, closeOnceVars
  <1>3. SwitchTypes'
    BY DEF TeardownInv, SwitchTypes, AuthzDrops, PartMoves
  <1>4. VerdictType'
    BY DEF TeardownInv, VerdictType, AuthzDrops, PartMoves, closeOnceVars
  <1>5. StartInv'
    BY DEF TeardownInv, StartInv, AuthzDrops, PartMoves, scopeVars, closeOnceVars
  <1>6. ScopeInv'
    BY DEF TeardownInv, ScopeInv, AuthzDrops, PartMoves, watcherVars, scopeVars
  <1>7. UnwindInv'
    BY DEF TeardownInv, UnwindInv, EnvoyGone, AuthzGone, Quiet, AuthzDrops, PartMoves,
       watcherVars, scopeVars
  <1>8. CloseInv'
    BY DEF TeardownInv, CloseInv, AuthzDrops, PartMoves, watcherVars, closeOnceVars
  <1>9. LogInv'
    BY DEF TeardownInv, LogInv, AuthzGone, AuthzDrops, PartMoves, closeOnceVars
  <1> QED
    BY <1>1, <1>2, <1>3, <1>4, <1>5, <1>6, <1>7, <1>8, <1>9 DEF TeardownInv

LEMMA EnvoyDiesTears ==
  ASSUME TeardownInv, WatcherInv, EnvoyDies
  PROVE  TeardownInv'
  <1>1. ManagerTypes'
    BY DEF TeardownInv, ManagerTypes, EnvoyDies, PartMoves, scopeVars, closeOnceVars
  <1>2. WaitTypes'
    BY DEF TeardownInv, WaitTypes, EnvoyDies, PartMoves, scopeVars, closeOnceVars
  <1>3. SwitchTypes'
    BY DEF TeardownInv, SwitchTypes, EnvoyDies, PartMoves
  <1>4. VerdictType'
    BY DEF TeardownInv, VerdictType, EnvoyDies, PartMoves, closeOnceVars
  <1>5. StartInv'
    BY DEF TeardownInv, StartInv, EnvoyDies, PartMoves, scopeVars, closeOnceVars
  <1>6. ScopeInv'
    BY DEF TeardownInv, ScopeInv, EnvoyDies, PartMoves, watcherVars, scopeVars
  <1>7. UnwindInv'
    BY DEF TeardownInv, UnwindInv, EnvoyGone, AuthzGone, Quiet, EnvoyDies, PartMoves, scopeVars
  <1>8. CloseInv'
    BY DEF TeardownInv, ManagerTypes, ScopeInv, UnwindInv, CloseInv, ScopeStates, EnvoyGone,
       Quiet, Producers, EnvoyDies, PartMoves, watcherVars, closeOnceVars
  <1>9. LogInv'
    BY DEF TeardownInv, ScopeInv, UnwindInv, LogInv, EnvoyGone, Quiet, EnvoyDies, PartMoves,
       closeOnceVars
  <1> QED
    BY <1>1, <1>2, <1>3, <1>4, <1>5, <1>6, <1>7, <1>8, <1>9 DEF TeardownInv

LEMMA WalPoisonedTears ==
  ASSUME TeardownInv, WatcherInv, WalPoisoned
  PROVE  TeardownInv'
  <1>1. ManagerTypes'
    BY DEF TeardownInv, ManagerTypes, WalPoisoned, PartMoves, scopeVars, closeOnceVars
  <1>2. WaitTypes'
    BY DEF TeardownInv, WaitTypes, WalPoisoned, PartMoves, scopeVars, closeOnceVars
  <1>3. SwitchTypes'
    BY DEF TeardownInv, SwitchTypes, WalPoisoned, PartMoves
  <1>4. VerdictType'
    BY DEF TeardownInv, VerdictType, WalPoisoned, PartMoves, closeOnceVars
  <1>5. StartInv'
    BY DEF TeardownInv, StartInv, WalPoisoned, PartMoves, scopeVars, closeOnceVars
  <1>6. ScopeInv'
    BY DEF TeardownInv, ScopeInv, WalPoisoned, PartMoves, watcherVars, scopeVars
  <1>7. UnwindInv'
    BY DEF TeardownInv, UnwindInv, EnvoyGone, AuthzGone, Quiet, WalPoisoned, PartMoves,
       watcherVars, scopeVars
  <1>8. CloseInv'
    BY DEF TeardownInv, CloseInv, AuthzGone, WalPoisoned, PartMoves, watcherVars, scopeVars,
       closeOnceVars
  <1>9. LogInv'
    BY DEF TeardownInv, LogInv, WalPoisoned, PartMoves, closeOnceVars
  <1> QED
    BY <1>1, <1>2, <1>3, <1>4, <1>5, <1>6, <1>7, <1>8, <1>9 DEF TeardownInv

LEMMA QueuePoisonedTears ==
  ASSUME TeardownInv, WatcherInv, QueuePoisoned
  PROVE  TeardownInv'
  <1>1. ManagerTypes'
    BY DEF TeardownInv, ManagerTypes, QueuePoisoned, PartMoves, scopeVars, closeOnceVars
  <1>2. WaitTypes'
    BY DEF TeardownInv, WaitTypes, QueuePoisoned, PartMoves, scopeVars, closeOnceVars
  <1>3. SwitchTypes'
    BY DEF TeardownInv, SwitchTypes, QueuePoisoned, PartMoves
  <1>4. VerdictType'
    BY DEF TeardownInv, VerdictType, QueuePoisoned, PartMoves, closeOnceVars
  <1>5. StartInv'
    BY DEF TeardownInv, StartInv, QueuePoisoned, PartMoves, scopeVars, closeOnceVars
  <1>6. ScopeInv'
    BY DEF TeardownInv, ScopeInv, QueuePoisoned, PartMoves, watcherVars, scopeVars
  <1>7. UnwindInv'
    BY DEF TeardownInv, UnwindInv, EnvoyGone, AuthzGone, Quiet, QueuePoisoned, PartMoves,
       watcherVars, scopeVars
  <1>8. CloseInv'
    BY DEF TeardownInv, CloseInv, AuthzGone, QueuePoisoned, PartMoves, watcherVars, scopeVars,
       closeOnceVars
  <1>9. LogInv'
    BY DEF TeardownInv, LogInv, QueuePoisoned, PartMoves, closeOnceVars
  <1> QED
    BY <1>1, <1>2, <1>3, <1>4, <1>5, <1>6, <1>7, <1>8, <1>9 DEF TeardownInv

LEMMA WatcherActsTears ==
  ASSUME TeardownInv, WatcherInv, WatcherKeeps, ActionEffects
  PROVE  TeardownInv'
  <1>1. ManagerTypes'
    BY DEF TeardownInv, ManagerTypes, ActionEffects, AuthzCloses, EnvoyCloses, scopeVars,
       closeOnceVars
  <1>2. WaitTypes'
    BY DEF TeardownInv, WaitTypes, ActionEffects, scopeVars, closeOnceVars
  <1>3. SwitchTypes'
    BY DEF TeardownInv, SwitchTypes, ActionEffects
  <1>4. VerdictType'
    BY DEF TeardownInv, VerdictType, ActionEffects, closeOnceVars
  <1>5. StartInv'
    BY DEF TeardownInv, StartInv, ActionEffects, scopeVars, closeOnceVars
  <1>6. ScopeInv'
    BY DEF TeardownInv, ScopeInv, WatcherKeeps, ActionEffects, AuthzCloses, EnvoyCloses, scopeVars
  <1>7. UnwindInv'
    BY DEF TeardownInv, UnwindInv, EnvoyGone, AuthzGone, Quiet, WatcherKeeps, ActionEffects,
       AuthzCloses, EnvoyCloses, scopeVars
  <1>8. CloseInv'
    BY DEF TeardownInv, CloseInv, AuthzGone, WatcherKeeps, ActionEffects, AuthzCloses,
       EnvoyCloses, scopeVars, closeOnceVars
  <1>9. LogInv'
    BY DEF TeardownInv, LogInv, AuthzGone, ActionEffects, AuthzCloses, scopeVars, closeOnceVars
  <1> QED
    BY <1>1, <1>2, <1>3, <1>4, <1>5, <1>6, <1>7, <1>8, <1>9 DEF TeardownInv
-----------------------------------------------------------------------------
(* The composition. *)

LEMMA WatcherMovesKeep ==
  ASSUME WatcherInv, WatcherMoves \/ (Abort /\ ActionEffects)
  PROVE  WatcherKeeps /\ ActionEffects
  <1>1. CASE WatcherStep
    <2>1. (\E outcome \in Outcomes : ReadReturns(outcome)) => WatcherKeeps
      BY DEF WatcherInv, ReaderInv, WatcherKeeps, ReadReturns, Continue, StartAccepts, closingVars
    <2>2. ReadExpires => WatcherKeeps
      BY DEF WatcherKeeps, ReadExpires, Continue, closingVars
    <2>3. (\E i \in reads : LateReadSettles(i)) => WatcherKeeps
      BY DEF WatcherKeeps, LateReadSettles, closingVars
    <2>4. Poll => WatcherKeeps
      BY DEF WatcherKeeps, Poll, closingVars
    <2>5. ActionExpires => WatcherKeeps
      BY DEF WatcherKeeps, ActionExpires, closingVars
    <2>6. TransitionJoined => WatcherKeeps
      BY DEF WatcherInv, ReaderInv, WatcherKeeps, TransitionJoined, closingVars
    <2>7. (RegistrationSettled \/ Retired \/ CloseExpires) => WatcherKeeps
      BY DEF WatcherKeeps, RegistrationSettled, Retired, CloseExpires
    <2>8. WatcherKeeps
      BY <1>1, <2>1, <2>2, <2>3, <2>4, <2>5, <2>6, <2>7 DEF WatcherStep
    <2> QED
      BY <2>8 DEF WatcherMoves
  <1>2. CASE \E a \in Actions, ok \in BOOLEAN : ActionReturns(a, ok)
    <2>1. WatcherKeeps
      BY <1>2 DEF WatcherKeeps, ActionReturns, closingVars
    <2> QED
      BY <2>1 DEF WatcherMoves
  <1>3. CASE Abort
    <2>1. WatcherKeeps
      BY <1>3 DEF WatcherKeeps, Abort, closingVars
    <2> QED
      BY <2>1 DEF WatcherMoves
  <1> QED
    BY <1>1, <1>2, <1>3 DEF WatcherMoves

LEMMA ClosesOnlyTheWatcher ==
  ASSUME NEW e
  PROVE  /\ CloseProducers(e) => CloseWatcher \/ UNCHANGED watcherVars
         /\ BeginManagerClose(e) => CloseWatcher \/ UNCHANGED watcherVars
         /\ Unwind(e) => CloseWatcher \/ UNCHANGED watcherVars
  <1>1. CloseProducers(e) => CloseWatcher \/ UNCHANGED watcherVars
    BY DEF CloseProducers
  <1> QED
    BY <1>1 DEF BeginManagerClose, Unwind

LEMMA StepOfTheWatcher ==
  ASSUME [ManagerNext]_generationVars
  PROVE  [WatcherNext]_watcherVars
  <1> DEFINE Only == Create \/ CloseWatcher \/ UNCHANGED watcherVars
  <1>1. ASSUME NEW ok \in BOOLEAN, OpenWal(ok) \/ StartAuthz(ok) PROVE Only
    BY <1>1, ClosesOnlyTheWatcher DEF OpenWal, StartAuthz, RejectStart
  <1>2. StartDeadline \/ OwnerCloses \/ HealthCheck => Only
    BY ClosesOnlyTheWatcher DEF StartDeadline, OwnerCloses, HealthCheck, RejectStart
  <1>3. EnterMaterial \/ WatcherCreated \/ WatcherRefused \/ RefusedWatcherRetired => Only
    BY ClosesOnlyTheWatcher DEF EnterMaterial, WatcherCreated, WatcherRefused,
       RefusedWatcherRetired, ReadyReject, RejectStart
  <1>4. EnvoyStarted \/ EnvoyRefused \/ EnvoyReaped \/ UnwindJoined => Only
    BY ClosesOnlyTheWatcher DEF EnvoyStarted, EnvoyRefused, EnvoyReaped, UnwindJoined,
       ReadyReject, RejectStart
  <1>5. ASSUME NEW how, AcquireMaterial \/ AcquireFails(how) \/ Finalize(how) PROVE Only
    BY <1>5, ClosesOnlyTheWatcher DEF AcquireMaterial, AcquireFails, Finalize, ScopeSettles,
       RejectStart
  <1>6. CloseOnceWork => Only
    BY DEF CloseOnceWork, ProducersJoined, CloseQueueStep, ScopeJoined, CloseTelemetryStep,
       CloseWalStep, CloseMoves
  <1>7. ProducerCloses \/ AuthzDrops \/ EnvoyDies \/ WalPoisoned \/ QueuePoisoned => Only
    BY DEF ProducerCloses, AuthzCloseEnds, EnvoyCloseEnds, AuthzDrops, EnvoyDies, WalPoisoned,
       QueuePoisoned, PartMoves
  <1>8. CASE WatcherMoves \/ (Abort /\ ActionEffects)
    BY <1>8 DEF WatcherMoves, WatcherNext
  <1>9. CASE UNCHANGED generationVars
    BY <1>9 DEF generationVars
  <1>10. Only => [WatcherNext]_watcherVars
    BY DEF WatcherNext
  <1> HIDE DEF Only
  <1>11. ScopeWork => Only
    BY <1>3, <1>4, <1>5 DEF ScopeWork
  <1> QED
    BY <1>1, <1>2, <1>6, <1>7, <1>8, <1>9, <1>10, <1>11 DEF ManagerNext

\* The manager drives the watcher only as the watcher's own specification
\* allows (`withMaterial()' and `closeWatcher()' in runtime-manager.ts).
THEOREM ManagerUsesWatcher == ManagerSpec => WatcherSpec
  <1>1. ManagerInit => WatcherInit
    BY DEF ManagerInit
  <1>2. [ManagerNext]_generationVars => [WatcherNext]_watcherVars
    BY StepOfTheWatcher
  <1> QED
    BY <1>1, <1>2, PTL DEF ManagerSpec, WatcherSpec

LEMMA ManagerInitInv == ManagerInit => TeardownInv
  <1> SUFFICES ASSUME ManagerInit PROVE TeardownInv
    OBVIOUS
  <1>1. ManagerTypes /\ WaitTypes /\ SwitchTypes
    BY DEF ManagerInit, ManagerTypes, WaitTypes, SwitchTypes, ScopeStates, CloseSteps
  <1>2. VerdictType
    BY DEF ManagerInit, VerdictType, NoVerdict
  <1>3. StartInv /\ ScopeInv /\ UnwindInv /\ CloseInv /\ LogInv
    BY DEF ManagerInit, WatcherInit, StartInv, ScopeInv, UnwindInv, CloseInv, LogInv
  <1> QED
    BY <1>1, <1>2, <1>3 DEF TeardownInv

LEMMA ManagerStepInv ==
  ASSUME WatcherInv, TeardownInv, [ManagerNext]_generationVars
  PROVE  TeardownInv'
  <1>1. CASE \E ok \in BOOLEAN : OpenWal(ok) \/ StartAuthz(ok)
    BY <1>1, OpenWalTears, StartAuthzTears
  <1>2. CASE StartDeadline \/ OwnerCloses \/ HealthCheck
    BY <1>2, StartDeadlineTears, OwnerClosesTears, HealthCheckTears
  <1>3. CASE ScopeWork
    BY <1>3, EnterMaterialTears, WatcherCreatedTears, WatcherRefusedTears,
       RefusedWatcherRetiredTears, EnvoyStartedTears, EnvoyRefusedTears, EnvoyReapedTears,
       UnwindJoinedTears, AcquireMaterialTears, AcquireFailsTears, FinalizeTears DEF ScopeWork
  <1>4. CASE CloseOnceWork
    BY <1>4, ProducersJoinedTears, CloseQueueStepTears, ScopeJoinedTears, CloseTelemetryStepTears,
       CloseWalStepTears DEF CloseOnceWork
  <1>5. CASE ProducerCloses
    BY <1>5, AuthzCloseEndsTears, EnvoyCloseEndsTears DEF ProducerCloses
  <1>6. CASE AuthzDrops \/ EnvoyDies \/ WalPoisoned \/ QueuePoisoned
    BY <1>6, AuthzDropsTears, EnvoyDiesTears, WalPoisonedTears, QueuePoisonedTears
  <1>7. CASE WatcherMoves \/ (Abort /\ ActionEffects)
    BY <1>7, WatcherMovesKeep, WatcherActsTears
  <1>8. CASE UNCHANGED generationVars
    <2>1. ManagerTypes' /\ WaitTypes' /\ SwitchTypes' /\ VerdictType'
      BY <1>8 DEF TeardownInv, ManagerTypes, WaitTypes, SwitchTypes, VerdictType, generationVars,
         managerVars
    <2>2. StartInv' /\ ScopeInv' /\ UnwindInv' /\ CloseInv' /\ LogInv'
      BY <1>8 DEF TeardownInv, StartInv, ScopeInv, UnwindInv, CloseInv, LogInv, Quiet, EnvoyGone,
         AuthzGone, generationVars, managerVars, watcherVars
    <2> QED
      BY <2>1, <2>2 DEF TeardownInv
  <1> QED
    BY <1>1, <1>2, <1>3, <1>4, <1>5, <1>6, <1>7, <1>8 DEF ManagerNext

LEMMA TeardownInvariant == ManagerSpec => [](WatcherInv /\ TeardownInv)
  <1>1. ManagerInit => WatcherInv /\ TeardownInv
    BY WatcherInitInv, ManagerInitInv DEF ManagerInit
  <1>2. WatcherInv /\ TeardownInv /\ [ManagerNext]_generationVars => (WatcherInv /\ TeardownInv)'
    BY StepOfTheWatcher, WatcherStepInv, ManagerStepInv
  <1> QED
    BY <1>1, <1>2, PTL DEF ManagerSpec

\* A watcher that is not retired can move, or what its actions join can.
LEMMA WatcherGoesOn ==
  ASSUME WatcherInv, TeardownInv, phase \in {"starting", "up", "failed"}, closing # "retired",
         phase = "up" => closing # "none"
  PROVE  WatcherCanMove \/ authz = "closing" \/ envoy = "closing"
  <1>1. CASE reader # "none"
    BY <1>1 DEF WatcherInv, WatcherTypes, ReaderInv, WatcherCanMove
  <1>2. CASE reader = "none" /\ transition \in Actions
    BY <1>2 DEF WatcherCanMove
  <1>3. CASE reader = "none" /\ transition \notin Actions
    <2>1. closing \in {"registration", "work"} /\ transition \in {"none", "done"}
      BY <1>3 DEF WatcherInv, WatcherTypes, ReaderInv
    <2>2. CASE closing = "registration" \/ reads # {}
      BY <1>3, <2>1, <2>2 DEF WatcherCanMove
    <2>3. CASE closing = "work" /\ reads = {} /\ \A a \in Actions : action[a] # "running"
      BY <2>3 DEF WatcherCanMove
    <2>4. ASSUME NEW a \in Actions, action[a] = "running"
          PROVE  WatcherCanMove \/ authz = "closing" \/ envoy = "closing"
      <3>1. CASE authz # "closing" /\ envoy # "closing"
        <4>1. PICK ok \in BOOLEAN : MayReturn(a, ok)
          <5>1. CASE a = "denyNew"
            <6>1. MayReturn(a, authz # "failed")
              BY <3>1, <5>1 DEF MayReturn
            <6> QED
              BY <6>1
          <5>2. CASE a = "drain"
            <6>1. MayReturn(a, FALSE)
              BY <3>1, <5>2 DEF MayReturn
            <6> QED
              BY <6>1
          <5>3. CASE a = "replace"
            <6>1. MayReturn(a, TRUE)
              BY <5>3 DEF MayReturn
            <6> QED
              BY <6>1
          <5> QED
            BY <5>1, <5>2, <5>3 DEF Actions
        <4> QED
          BY <2>4, <4>1 DEF WatcherCanMove
      <3> QED
        BY <3>1
    <2> QED
      BY <2>1, <2>2, <2>3, <2>4
  <1> QED
    BY <1>1, <1>2, <1>3

\* Each party that waits, waits for one that can move.
LEMMA NobodyWaitsInACircle ==
  ASSUME WatcherInv, TeardownInv
  PROVE  CloseNeverWedges
  <1> SUFFICES ASSUME closeStep \notin {"none", "done", "failed"},
                      scope \notin {"stuck", "uncertain"},
                      authz # "closing", envoy # "closing", ~WatcherCanMove
               PROVE  ScopeCanMove \/ CloseOnceCanMove
    BY DEF CloseNeverWedges
  <1>0. mclosing /\ mstart \in {"published", "failed"}
    BY DEF TeardownInv, StartInv
  <1>1. CASE closeStep \in {"queue", "telemetry", "wal"}
    BY <1>1 DEF CloseOnceCanMove
  <1>2. CASE closeStep = "producers"
    <2>1. "watcher" \in closeWaits => closing = "retired"
      BY WatcherGoesOn DEF TeardownInv, CloseInv
    <2>2. "authz" \in closeWaits => authz \in {"closed", "failed"}
      BY <1>2 DEF TeardownInv, CloseInv
    <2>3. "envoy" \in closeWaits => envoy \in {"closed", "failed"}
      BY <1>2 DEF TeardownInv, CloseInv
    <2>4. Joined(closeWaits)
      BY <2>1, <2>2, <2>3, JoinedEach DEF TeardownInv, WaitTypes
    <2> QED
      BY <1>2, <2>4 DEF CloseOnceCanMove
  <1>3. CASE closeStep = "scope"
    <2>1. CASE scope \in {"none", "ended", "broken"}
      BY <1>3, <2>1 DEF CloseOnceCanMove
    <2>2. CASE scope \in {"acquire", "tmpfs", "leaving", "throwing"}
      BY <2>2 DEF ScopeCanMove
    <2>3. CASE scope = "watch"
      <3>1. phase \in {"starting", "up", "failed"}
        BY <2>3 DEF WatcherInv, WatcherTypes, TeardownInv, ScopeInv
      <3>2. CASE phase = "up"
        BY <2>3, <3>2 DEF ScopeCanMove
      <3>3. CASE phase # "up"
        <4>1. closing = "retired"
          BY <3>1, <3>3, WatcherGoesOn
        <4>2. phase = "failed"
          BY <3>1, <3>3, <4>1 DEF WatcherInv, ReaderInv
        <4> QED
          BY <2>3, <4>1, <4>2 DEF ScopeCanMove
      <3> QED
        BY <3>2, <3>3
    <2>4. CASE scope = "spawn"
      BY <2>4 DEF TeardownInv, ScopeInv, ScopeCanMove
    <2>5. CASE scope = "unwind"
      <3>1. "watcher" \in unwindWaits => closing = "retired"
        BY <2>5, WatcherGoesOn DEF TeardownInv, UnwindInv
      <3>2. "authz" \in unwindWaits => authz \in {"closed", "failed"}
        BY <2>5 DEF TeardownInv, UnwindInv
      <3>3. "envoy" \in unwindWaits => envoy \in {"closed", "failed"}
        BY <2>5 DEF TeardownInv, UnwindInv
      <3>4. Joined(unwindWaits)
        BY <3>1, <3>2, <3>3, JoinedEach DEF TeardownInv, WaitTypes
      <3> QED
        BY <2>5, <3>4 DEF ScopeCanMove
    <2> QED
      BY <1>3, <2>1, <2>2, <2>3, <2>4, <2>5 DEF TeardownInv, ManagerTypes, ScopeStates, StartInv
  <1> QED
    BY <1>1, <1>2, <1>3 DEF TeardownInv, ManagerTypes, CloseSteps

LEMMA TeardownInvMeans ==
  ASSUME WatcherInv, TeardownInv
  PROVE  ManagerSafe
  <1>1. ManagerTypeOK
    <2>1. {readyState, mclosing, replacement} \subseteq BOOLEAN
      BY DEF TeardownInv, SwitchTypes
    <2>2. WatcherTypeOK
      BY WatcherInvMeans
    <2>3. closeWaits \cup unwindWaits \subseteq Producers
      BY DEF TeardownInv, WaitTypes
    <2> QED
      BY <2>1, <2>2, <2>3 DEF TeardownInv, ManagerTypes, VerdictType, ManagerTypeOK
  <1>2. RetiredMeansQuiet /\ ReadyMeansUnrevoked
    BY WatcherInvMeans
  <1>3. MaterialOutlivesConsumers
    BY DEF WatcherInv, ReaderInv, TeardownInv, ManagerTypes, ScopeStates, ScopeInv, UnwindInv,
       Quiet, MaterialOutlivesConsumers
  <1>4. WalOutlivesProducers
    BY DEF TeardownInv, ScopeInv, UnwindInv, LogInv, Quiet, EnvoyGone, WalOutlivesProducers
  <1>5. CertainMeansRetired
    BY DEF WatcherInv, ReaderInv, TeardownInv, ScopeInv, UnwindInv, LogInv, Quiet, EnvoyGone,
       CertainMeansRetired
  <1>6. ReadyMeansHeld
    BY DEF WatcherInv, ReaderInv, TeardownInv, StartInv, ScopeInv, ReadyMeansHeld, ManagerReady,
       DependenciesReady, WatcherReady
  <1>7. CloseNeverWedges
    BY NobodyWaitsInACircle
  <1>8. UncertainIsKept
    BY DEF TeardownInv, ScopeInv, CloseInv, LogInv, UncertainIsKept
  <1> QED
    BY <1>1, <1>2, <1>3, <1>4, <1>5, <1>6, <1>7, <1>8 DEF ManagerSafe

\* In every behaviour of the manager, for any number of reads, material and
\* log outlive those who use them, a certain retirement is true, material that
\* could not be removed is never given up and no close waits in a circle (`closeOnce()', `withMaterial()', the watcher's actions).
THEOREM ManagerIsSafe == ManagerSpec => []ManagerSafe
  <1>1. WatcherInv /\ TeardownInv => ManagerSafe
    BY TeardownInvMeans
  <1> QED
    BY <1>1, TeardownInvariant, PTL
=============================================================================

------------------------- MODULE RevocationWatcher -------------------------
(***************************************************************************)
(* The watcher that polls for revocation of an egress generation           *)
(* (src/src/egress/revocation-watcher.ts).                                 *)
(*                                                                         *)
(* Every read of the source and every safety action is observed for a      *)
(* bounded time only, but its actual promise is kept: the watcher goes on  *)
(* after a timeout, and its retirement waits for what really runs.  What   *)
(* the actions do is the runtime manager's business; here they settle,     *)
(* fail or hang as they like.                                              *)
(***************************************************************************)
EXTENDS Naturals

CONSTANT MaxReads   \* bound on the source reads of one watcher

ASSUME ReadsAssumption == MaxReads \in Nat \ {0}

Actions == {"denyNew", "drain", "replace"}

VARIABLES
    phase,         \* create: off, starting, up or failed
    watching,      \* readyState
    closed,        \* closed
    aborted,       \* options.signal.aborted
    timer,         \* is the poll timer armed?
    reader,        \* who awaits readOnce() or its trigger: none, start or poll
    reading,       \* is the latest read still observed?
    readCount,     \* reads begun so far
    reads,         \* sourceWork: the reads that have not settled
    lastSeen,      \* history: what the latest observation returned
    transition,    \* none, the action runActions() observes, or done
    action,        \* actionWork: idle, running, ok or failed
    actionFailed,  \* actionFailed
    closing,       \* closeOnce(): none, registration, work or retired
    closeResult    \* close() as its caller sees it: none, pending, ok or failed

readVars == <<reader, reading, readCount, reads, lastSeen>>
actionVars == <<transition, action, actionFailed>>
closingVars == <<closed, closing, closeResult>>
watcherVars == <<phase, watching, closed, aborted, timer, reader, reading, readCount, reads,
                 lastSeen, transition, action, actionFailed, closing, closeResult>>

\* What the observation of a read returns: the baseline, a change that reason()
\* names (revoked, other revision or version, PKI changed or expiring), or an
\* error.  An observation that times out is an error.
Outcomes == {"same", "changed", "error"}

WatcherInit ==
    /\ phase = "off" /\ watching = FALSE /\ closed = FALSE /\ aborted = FALSE
    /\ timer = FALSE
    /\ reader = "none" /\ reading = FALSE /\ readCount = 0 /\ reads = {}
    /\ lastSeen = "none"
    /\ transition = "none" /\ action = [a \in Actions |-> "idle"] /\ actionFailed = FALSE
    /\ closing = "none" /\ closeResult = "none"

WatcherReady == watching /\ ~closed

-----------------------------------------------------------------------------
\* readOnce(): the read is owned before it is observed.
BeginRead(who) ==
    /\ readCount < MaxReads
    /\ readCount' = readCount + 1
    /\ reads' = reads \cup {readCount + 1}
    /\ reader' = who
    /\ reading' = TRUE
    /\ UNCHANGED lastSeen

\* trigger(): withdraws readiness, stops polling and starts the first action.
Trigger ==
    /\ transition' = "denyNew"
    /\ action' = [action EXCEPT !["denyNew"] = "running"]
    /\ watching' = FALSE
    /\ timer' = FALSE
    /\ UNCHANGED actionFailed

\* beginClose(): admission ends at once.  When an action has already failed the
\* caller is rejected without waiting for retirement.
BeginCloseWatcher ==
    /\ closing = "none"
    /\ closing' = "registration"
    /\ closed' = TRUE
    /\ closeResult' = IF actionFailed THEN "failed" ELSE "pending"

-----------------------------------------------------------------------------
(***************************************************************************)
(* createCogsEgressRevocationWatcher() and start().                        *)
(***************************************************************************)
Create ==
    /\ phase = "off"
    /\ IF aborted
       THEN /\ phase' = "failed" /\ BeginCloseWatcher
            /\ UNCHANGED readVars
       ELSE /\ phase' = "starting" /\ BeginRead("start")
            /\ UNCHANGED closingVars
    /\ UNCHANGED <<watching, aborted, timer, actionVars>>

\* The initial read shows the baseline: the watcher is up and polls.
StartAccepts ==
    /\ phase' = "up"
    /\ watching' = TRUE
    /\ timer' = TRUE
    /\ reader' = "none"
    /\ UNCHANGED actionVars

\* What the observed read leads to.  A trigger of a closed watcher does nothing.
Continue(outcome) ==
    \/ /\ reader = "start"
       /\ IF outcome = "same" /\ ~aborted
          THEN StartAccepts
          ELSE Trigger /\ UNCHANGED <<phase, reader>>
    \/ /\ reader = "poll"
       /\ IF outcome = "same" \/ closed
          THEN /\ reader' = "none"
               /\ timer' = (watching /\ ~closed)
               /\ UNCHANGED <<watching, actionVars>>
          ELSE IF transition # "none"
               THEN UNCHANGED <<reader, timer, watching, actionVars>>
               ELSE Trigger /\ UNCHANGED reader
       /\ UNCHANGED phase

ReadReturns(outcome) ==
    /\ reading
    /\ reading' = FALSE
    /\ reads' = reads \ {readCount}
    /\ lastSeen' = outcome
    /\ Continue(outcome)
    /\ UNCHANGED <<aborted, readCount, closingVars>>

\* observeAction() expires: the read itself stays in sourceWork.
ReadExpires ==
    /\ reading
    /\ reading' = FALSE
    /\ lastSeen' = "error"
    /\ Continue("error")
    /\ UNCHANGED <<aborted, readCount, reads, closingVars>>

LateReadSettles(i) ==
    /\ i \in reads /\ (reading => i # readCount)
    /\ reads' = reads \ {i}
    /\ UNCHANGED <<phase, watching, aborted, timer, reader, reading, readCount, lastSeen,
                   actionVars, closingVars>>

\* poll()
Poll ==
    /\ timer /\ ~closed /\ watching /\ reader = "none"
    /\ timer' = FALSE
    /\ BeginRead("poll")
    /\ UNCHANGED <<phase, watching, aborted, actionVars, closingVars>>

\* The owner aborts; the listener triggers unless it was removed.
Abort ==
    /\ ~aborted
    /\ aborted' = TRUE
    /\ IF phase = "up" /\ ~closed /\ transition = "none"
       THEN Trigger
       ELSE UNCHANGED <<watching, timer, actionVars>>
    /\ UNCHANGED <<phase, readVars, closingVars>>

-----------------------------------------------------------------------------
(***************************************************************************)
(* runActions(): each action is started once the one before it has settled *)
(* or has been given up; none is skipped.                                  *)
(***************************************************************************)
Following(a) ==
    CASE a = "denyNew" -> "drain"
      [] a = "drain" -> "replace"
      [] a = "replace" -> "done"

Advance(settled) ==
    LET next == Following(transition)
    IN  /\ transition' = next
        /\ action' = [a \in Actions |-> IF a = next THEN "running" ELSE settled[a]]

ActionReturns(a, ok) ==
    /\ action[a] = "running"
    /\ LET settled == [action EXCEPT ![a] = IF ok THEN "ok" ELSE "failed"]
       IN  IF transition = a
           THEN Advance(settled)
           ELSE action' = settled /\ UNCHANGED transition
    /\ actionFailed' = (actionFailed \/ ~ok)
    /\ UNCHANGED <<phase, watching, aborted, timer, readVars, closingVars>>

ActionExpires ==
    /\ transition \in Actions
    /\ Advance(action)
    /\ actionFailed' = TRUE
    /\ UNCHANGED <<phase, watching, aborted, timer, readVars, closingVars>>

\* The poll or the start that awaits the transition goes on when it is done; a
\* failed start closes the watcher it never published.
TransitionJoined ==
    /\ transition = "done" /\ reader # "none" /\ ~reading
    /\ reader' = "none"
    /\ IF reader = "start"
       THEN phase' = "failed" /\ BeginCloseWatcher
       ELSE UNCHANGED <<phase, closingVars>>
    /\ UNCHANGED <<watching, aborted, timer, reading, readCount, reads, lastSeen, actionVars>>

-----------------------------------------------------------------------------
(***************************************************************************)
(* close() and retirement().                                               *)
(***************************************************************************)
CloseWatcher ==
    /\ phase = "up"
    /\ BeginCloseWatcher
    /\ watching' = FALSE
    /\ timer' = FALSE
    /\ UNCHANGED <<phase, aborted, readVars, actionVars>>

\* The polls and the transition there were when close() began have ended.
RegistrationSettled ==
    /\ closing = "registration"
    /\ reader = "none" /\ transition \in {"none", "done"}
    /\ closing' = "work"
    /\ UNCHANGED <<phase, watching, closed, aborted, timer, readVars, actionVars, closeResult>>

\* sourceWork and actionWork have settled: the actual reads and actions.
Retired ==
    /\ closing = "work"
    /\ reads = {} /\ \A a \in Actions : action[a] # "running"
    /\ closing' = "retired"
    /\ closeResult' = IF closeResult # "pending" THEN closeResult
                      ELSE IF actionFailed THEN "failed" ELSE "ok"
    /\ UNCHANGED <<phase, watching, closed, aborted, timer, readVars, actionVars>>

\* boundedAwait() gives up on close(); retirement is still to come.
CloseExpires ==
    /\ closeResult = "pending"
    /\ closeResult' = "failed"
    /\ UNCHANGED <<phase, watching, closed, aborted, timer, readVars, actionVars, closing>>

-----------------------------------------------------------------------------
\* Everything but create, close, abort and the outcome of the actions.
WatcherStep ==
    \/ \E outcome \in Outcomes : ReadReturns(outcome)
    \/ ReadExpires
    \/ \E i \in reads : LateReadSettles(i)
    \/ Poll
    \/ ActionExpires
    \/ TransitionJoined
    \/ RegistrationSettled \/ Retired \/ CloseExpires

WatcherNext ==
    \/ Create \/ Abort \/ CloseWatcher
    \/ \E a \in Actions, ok \in BOOLEAN : ActionReturns(a, ok)
    \/ WatcherStep

WatcherSpec == WatcherInit /\ [][WatcherNext]_watcherVars

\* Timers fire: observations expire.  Reads and actions may hang forever.
WatcherFairness ==
    /\ WF_watcherVars(ReadExpires)
    /\ WF_watcherVars(ActionExpires)
    /\ WF_watcherVars(TransitionJoined)

WatcherFairSpec == WatcherSpec /\ WatcherFairness

-----------------------------------------------------------------------------
(***************************************************************************)
(* Properties.                                                             *)
(***************************************************************************)

\* Every variable has its type.
WatcherTypeOK ==
    /\ phase \in {"off", "starting", "up", "failed"}
    /\ {watching, closed, aborted, timer, reading, actionFailed} \subseteq BOOLEAN
    /\ reader \in {"none", "start", "poll"}
    /\ readCount \in 0..MaxReads /\ reads \subseteq 1..MaxReads
    /\ lastSeen \in Outcomes \cup {"none"}
    /\ transition \in Actions \cup {"none", "done"}
    /\ action \in [Actions -> {"idle", "running", "ok", "failed"}]
    /\ closing \in {"none", "registration", "work", "retired"}
    /\ closeResult \in {"none", "pending", "ok", "failed"}

(***************************************************************************)
(* Retirement is real: once it is reported no read and no action of this   *)
(* watcher is running, none of the three is left unstarted half-way, and   *)
(* nothing runs later, although each was observed only for a bounded time. *)
(***************************************************************************)
RetiredMeansQuiet ==
    closing = "retired" =>
        /\ reads = {} /\ reader = "none" /\ ~timer
        /\ \A a \in Actions : action[a] # "running"
        /\ \E b \in BOOLEAN : \A a \in Actions : (action[a] = "idle") = b

(***************************************************************************)
(* A watcher that says it is ready has last seen its baseline, has not     *)
(* been aborted and has started no action.                                 *)
(***************************************************************************)
ReadyMeansUnrevoked ==
    WatcherReady =>
        /\ lastSeen = "same" /\ ~aborted
        /\ transition = "none" /\ \A a \in Actions : action[a] = "idle"

=============================================================================

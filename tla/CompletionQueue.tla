-------------------------- MODULE CompletionQueue --------------------------
(***************************************************************************)
(* The queue that correlates Envoy's completion lines with intents of the  *)
(* audit WAL (src/src/egress/completion-queue.ts), composed with the WAL   *)
(* and the authorization server, and closed in the order of closeOnce()    *)
(* (src/src/egress/runtime-manager.ts): server and Envoy, queue, WAL.      *)
(*                                                                         *)
(* Envoy emits one line for each request it forwarded, whenever that       *)
(* request ends, and an uncorrelated line for a request it did not         *)
(* forward.  The queue also has to refuse every other line, so any line    *)
(* may arrive; `honest` remembers whether only Envoy's own ones did.       *)
(***************************************************************************)
EXTENDS ExtAuthzServer, FiniteSetsExt

CONSTANTS
    Capacity,        \* options.capacity
    MaxCompleted,    \* the 10,000 of accept() and matchRecord()
    MaxUncorrelated  \* bound on the counter of uncorrelated lines

ASSUME QueueAssumption ==
    /\ Capacity \in Nat \ {0}
    /\ MaxCompleted \in Nat \ {0}
    /\ MaxRecords <= MaxCompleted   \* both are 10,000: maxWalRecords bounds options.maxRecords
    /\ MaxUncorrelated \in Nat

VARIABLES
    queue,      \* none, open or closed
    poisoned,   \* poisoned
    baseline,   \* how many records the WAL had when the queue was created
    completed,  \* completed: the correlated intents, a set of [id, seq]
    retained,   \* retained
    tally,      \* accepted, drained, dropped and uncorrelated
    final,      \* the manager's finalCompletions
    observed,   \* the manager's finalObservation: none, or records and completions
    envoy,      \* is the Envoy process up?
    inflight,   \* requests allowed in this lifetime whose line is still to come
    honest      \* history: have all lines been Envoy's own?

queueVars == <<queue, poisoned, baseline, completed, retained, tally, final, observed,
               envoy, inflight, honest>>
egressVars == <<lines, torn, durable, wal, records, bytes, chain, stage, line, left,
                closer, barrier, call, acked, opens,
                srv, active, reply, cancelled, verifier,
                queue, poisoned, baseline, completed, retained, tally, final, observed,
                envoy, inflight, honest>>

Completion == [id : Ids, seq : Nat]

NoTally == [accepted |-> 0, drained |-> 0, dropped |-> 0, uncorrelated |-> 0]

NoObservation == [records |-> <<>>, completions |-> {}]

EmptyQueue ==
    /\ queue = "none" /\ poisoned = FALSE /\ baseline = 0
    /\ completed = {} /\ retained = <<>> /\ tally = NoTally
    /\ final = <<>> /\ observed = NoObservation
    /\ envoy = FALSE /\ inflight = {} /\ honest = TRUE

EgressInit == AuthzInit /\ EmptyQueue

-----------------------------------------------------------------------------
\* start() of the manager: openWal(), and in its continuation the queue.
OpenWithQueue ==
    /\ Open
    /\ Len(lines) <= MaxCompleted
    /\ queue' = "open" /\ baseline' = Len(lines)
    /\ UNCHANGED <<srvVars, poisoned, completed, retained, tally, final, observed,
                   envoy, inflight, honest>>

\* envoyProcess.start(), once the server it has to ask is up.
StartEnvoy ==
    /\ srv = "ready" /\ ~envoy /\ queue = "open" /\ inflight = {}
    /\ envoy' = TRUE
    /\ UNCHANGED <<walVars, srvVars, queue, poisoned, baseline, completed, retained,
                   tally, final, observed, inflight, honest>>

\* The Envoy process is gone, closed or dead; its pending lines are lost.
EnvoyExits ==
    /\ envoy
    /\ envoy' = FALSE
    /\ inflight' = {}
    /\ UNCHANGED <<walVars, srvVars, queue, poisoned, baseline, completed, retained,
                   tally, final, observed, honest>>

\* A step of the server or of the WAL; a reply that allows puts a request in flight.
Forwarding(step) ==
    /\ step
    /\ inflight' = IF envoy
                   THEN inflight \cup {c \in Calls : reply'[c] = "allow" /\ reply[c] # "allow"}
                   ELSE {}
    /\ UNCHANGED <<queue, poisoned, baseline, completed, retained, tally, final, observed,
                   envoy, honest>>

FileWork == WalWork /\ UNCHANGED srvVars

ServerStep ==
    Forwarding(\/ FileWork \/ StartServer
               \/ \E c \in Calls : Cancel(c) \/ (envoy /\ CheckAdmitted(c))
               \/ \E c \in Calls, answer \in Replies : envoy /\ CheckReplies(c, answer)
               \/ SrvWork \/ CloseServer)

-----------------------------------------------------------------------------
(***************************************************************************)
(* accept(): onCompletionLine of the Envoy process.                        *)
(***************************************************************************)

\* matchRecord(): exactly one record of the WAL, newer than the queue.
Matches(id, sameRoute) ==
    /\ Len(records) <= MaxCompleted
    /\ \E i \in 1..Len(records) :
          /\ {j \in 1..Len(records) : records[j].id = id} = {i}
          /\ records[i].seq >= baseline
          /\ sameRoute

SequenceOf(id) == records[CHOOSE i \in 1..Len(records) : records[i].id = id].seq

AcceptLine(id) ==
    LET completion == [id |-> id, seq |-> SequenceOf(id)]
        room == Len(retained) < Capacity
    IN  /\ completed' = completed \cup {completion}
        /\ retained' = IF room THEN Append(retained, completion) ELSE retained
        /\ tally' = [tally EXCEPT !.accepted = @ + 1,
                                  !.dropped = IF room THEN @ ELSE @ + 1]
        /\ UNCHANGED poisoned

PoisonQueue ==
    /\ poisoned' = TRUE
    /\ UNCHANGED <<completed, retained, tally>>

AcceptUncorrelated ==
    /\ tally.uncorrelated < MaxUncorrelated
    /\ tally' = [tally EXCEPT !.uncorrelated = @ + 1]
    /\ UNCHANGED <<completed, retained, poisoned>>

QueueUsable == queue = "open" /\ ~poisoned /\ Ready

Accept(id, sameRoute) ==
    IF /\ QueueUsable
       /\ Matches(id, sameRoute)
       /\ id \notin {x.id : x \in completed}
       /\ Cardinality(completed) < MaxCompleted
    THEN AcceptLine(id)
    ELSE PoisonQueue

\* Envoy's line for a request it forwarded: the intent id of the reply, once.
ForwardedLine(c) ==
    /\ envoy /\ queue = "open" /\ c \in inflight
    /\ \E a \in acked : a.by = c /\ Accept(a.rec.id, TRUE)
    /\ inflight' = inflight \ {c}
    /\ UNCHANGED <<walVars, srvVars, queue, baseline, final, observed, envoy, honest>>

\* Envoy's line for a request that was not forwarded has no intent id.
UncorrelatedLine ==
    /\ envoy /\ queue = "open"
    /\ IF QueueUsable THEN AcceptUncorrelated ELSE PoisonQueue
    /\ UNCHANGED <<walVars, srvVars, queue, baseline, final, observed, envoy, inflight, honest>>

\* Any other line: malformed, an unknown, stale or repeated id, another route.
ForeignLine(id, sameRoute, parses) ==
    /\ envoy /\ queue = "open"
    /\ IF parses THEN Accept(id, sameRoute) ELSE PoisonQueue
    /\ honest' = FALSE
    /\ UNCHANGED <<walVars, srvVars, queue, baseline, final, observed, envoy, inflight>>

-----------------------------------------------------------------------------
\* drain(limit): a queue that is not usable is poisoned, a bad limit only throws.
\* The manager forgets a closed queue, so nobody calls it then.
Drain(limit) ==
    /\ queue = "open"
    /\ IF QueueUsable
       THEN LET n == Min({limit, Len(retained)})
            IN  /\ retained' = SubSeq(retained, n + 1, Len(retained))
                /\ tally' = [tally EXCEPT !.drained = @ + n]
                /\ UNCHANGED <<poisoned, completed>>
       ELSE PoisonQueue
    /\ UNCHANGED <<walVars, srvVars, queue, baseline, final, observed, envoy, inflight, honest>>

\* get ready(): asking an open queue whose WAL is unusable poisons it.
AskReady ==
    /\ queue = "open" /\ ~Ready
    /\ PoisonQueue
    /\ UNCHANGED <<walVars, srvVars, queue, baseline, final, observed, envoy, inflight, honest>>

\* What captureFinalCompletions() moves into finalCompletions.
Captured == SubSeq(retained, 1, Min({Len(retained), Capacity - Len(final)}))

\* The drain action of the revocation watcher, after closeProcess().
CaptureFinal ==
    /\ queue = "open" /\ ~envoy
    /\ Len(final) < Capacity
    /\ IF QueueUsable
       THEN /\ final' = final \o Captured
            /\ retained' = SubSeq(retained, Len(Captured) + 1, Len(retained))
            /\ tally' = [tally EXCEPT !.drained = @ + Len(Captured)]
            /\ UNCHANGED <<poisoned, completed>>
       ELSE PoisonQueue /\ UNCHANGED final
    /\ UNCHANGED <<walVars, srvVars, queue, baseline, observed, envoy, inflight, honest>>

\* drainCompletions() of a manager that is not ready any more.
TakeFinal(limit) ==
    /\ ~envoy /\ final # <<>>
    /\ final' = SubSeq(final, Min({limit, Len(final)}) + 1, Len(final))
    /\ UNCHANGED <<walVars, srvVars, queue, poisoned, baseline, completed, retained, tally,
                   observed, envoy, inflight, honest>>

\* Faulty variant: the queue does not wait for the authorization server.
CloseQueueEarly ==
    /\ queue = "open" /\ ~envoy /\ Ready
    /\ LET captured == IF poisoned THEN <<>> ELSE Captured
       IN  /\ final' = final \o captured
           /\ observed' = [records |-> records, completions |-> completed]
           /\ queue' = "closed"
           /\ retained' = <<>>
           /\ tally' = [tally EXCEPT !.drained = @ + Len(captured),
                                     !.dropped = @ + Len(retained) - Len(captured)]
    /\ UNCHANGED <<walVars, srvVars, poisoned, completed, baseline, envoy, inflight, honest>>

\* closeQueue() of the manager, after its producers: a queue that has not failed
\* is captured, the WAL and the completions are observed, and close() drops the
\* rest.  Capturing or observing throws when the WAL is unusable; the queue then
\* stays open and the WAL is never closed.
CloseQueue ==
    /\ queue = "open" /\ srv \in {"closed", "off"} /\ ~envoy
    /\ LET captured == IF poisoned THEN <<>> ELSE Captured
       IN  IF Ready
           THEN /\ final' = final \o captured
                /\ observed' = [records |-> records, completions |-> completed]
                /\ queue' = "closed"
                /\ retained' = <<>>
                /\ tally' = [tally EXCEPT !.drained = @ + Len(captured),
                                          !.dropped = @ + Len(retained) - Len(captured)]
                /\ UNCHANGED <<poisoned, completed>>
           ELSE /\ poisoned' = (poisoned \/ Len(final) < Capacity)
                /\ UNCHANGED <<final, observed, queue, completed, retained, tally>>
    /\ UNCHANGED <<walVars, srvVars, baseline, envoy, inflight, honest>>

\* closeWal(): only after the queue was observed and closed.
ReleaseWal ==
    /\ queue = "closed"
    /\ CloseWal
    /\ UNCHANGED queueVars

EgressCrash ==
    /\ Crash
    /\ queue' = "none" /\ poisoned' = FALSE /\ baseline' = 0
    /\ completed' = {} /\ retained' = <<>> /\ tally' = NoTally
    /\ final' = <<>> /\ observed' = NoObservation
    /\ envoy' = FALSE /\ inflight' = {} /\ honest' = TRUE

EgressNext ==
    \/ OpenWithQueue
    \/ OpenFails /\ UNCHANGED <<srvVars, queueVars>>
    \/ StartEnvoy \/ EnvoyExits
    \/ ServerStep
    \/ \E c \in Calls : ForwardedLine(c)
    \/ UncorrelatedLine
    \/ \E id \in Ids, sameRoute, parses \in BOOLEAN : ForeignLine(id, sameRoute, parses)
    \/ \E limit \in 1..Capacity : Drain(limit)
    \/ AskReady \/ CaptureFinal
    \/ \E limit \in 1..Capacity : TakeFinal(limit)
    \/ CloseQueue \/ ReleaseWal
    \/ EgressCrash

EgressSpec == EgressInit /\ [][EgressNext]_egressVars

\* The file system and the event loop serve what is pending.
EgressFairSpec ==
    /\ EgressSpec
    /\ WF_egressVars(Forwarding(FileWork))
    /\ WF_egressVars(Forwarding(SrvWork))

-----------------------------------------------------------------------------
(***************************************************************************)
(* Properties.                                                             *)
(***************************************************************************)

\* The variables of the WAL, the server and the queue have their types.
QueueTypeOK ==
    /\ WalTypeOK /\ SrvTypeOK
    /\ queue \in {"none", "open", "closed"} /\ poisoned \in BOOLEAN /\ baseline \in Nat
    /\ completed \in SUBSET Completion
    /\ Range(retained) \cup Range(final) \subseteq Completion
    /\ tally \in [accepted : Nat, drained : Nat, dropped : Nat, uncorrelated : Nat]
    /\ envoy \in BOOLEAN /\ inflight \in SUBSET Calls /\ honest \in BOOLEAN

(***************************************************************************)
(* Envoy's own lines never poison the queue of a usable WAL, whenever they *)
(* come: the intent of a forwarded request is a record of this generation, *)
(* is in the WAL's records before the reply is sent, and is never full.    *)
(***************************************************************************)
HonestNeverPoisons == honest /\ poisoned => ~Ready

(***************************************************************************)
(* Every accepted completion stands for one durable intent of this         *)
(* lifetime, whatever lines arrive: no intent completes twice, and none of *)
(* an earlier worker on the same log completes at all.                     *)
(***************************************************************************)
CompletionsCorrelate ==
    /\ tally.accepted = Cardinality(completed)
    /\ \A x \in completed :
          /\ x.seq \in baseline..durable - 1
          /\ lines[x.seq + 1].id = x.id
          /\ \E a \in acked : a.rec.id = x.id

(***************************************************************************)
(* Accounting: an accepted completion is drained, dropped or retained,     *)
(* exactly once, also across a close that captures or drops the rest.      *)
(***************************************************************************)
QueueAccounting ==
    /\ tally.accepted = tally.drained + tally.dropped + Len(retained)
    /\ Len(retained) <= Capacity /\ Len(final) <= Capacity
    /\ IsInjective(final \o retained)

(***************************************************************************)
(* The final observation is complete: once it is taken nothing is appended *)
(* to the WAL and nothing completes, so what is kept after retirement is   *)
(* the whole audit of this generation.                                     *)
(***************************************************************************)
ObservationFinal ==
    queue = "closed" => observed = [records |-> records, completions |-> completed]

(***************************************************************************)
(* The audit of forwarded requests, from the check to the observation the  *)
(* manager keeps: a request is forwarded only on its own durable intent,   *)
(* no intent is shared, the checks outlive neither the secrets nor the     *)
(* log, and every completion is accounted to exactly one intent.           *)
(***************************************************************************)
EgressSafe ==
    /\ QueueTypeOK
    /\ AllowDurable /\ AllowsDistinct
    /\ QueueBounded /\ ChecksKeepCustody
    /\ HonestNeverPoisons /\ CompletionsCorrelate /\ QueueAccounting
    /\ ObservationFinal
=============================================================================

--------------------------- MODULE ExtAuthzServer ---------------------------
(***************************************************************************)
(* The gRPC authorization service Envoy asks before it forwards a request  *)
(* (src/src/egress/ext-authz-server.ts), composed with the audit WAL it    *)
(* appends to.                                                             *)
(*                                                                         *)
(* A check runs synchronously up to `await wal.append(...)`: all early     *)
(* exits reply at once, an authorized check joins the WAL's chain and      *)
(* replies in a later step, when everything it checked may have changed.   *)
(* The runtime manager closes the WAL only after the server's close()      *)
(* (src/src/egress/runtime-manager.ts, closeOnce).                         *)
(***************************************************************************)
EXTENDS AuditWal, FiniteSets

CONSTANT MaxActive   \* maxActiveChecks

ASSUME MaxActiveAssumption == MaxActive \in Nat \ {0}

VARIABLES
    srv,        \* the server: see SrvStates
    active,     \* the admitted checks, #active of them
    reply,      \* what each check was answered
    cancelled,  \* the checks whose caller has cancelled
    verifier    \* the keyed digests of the token and the capability

srvVars == <<srv, active, reply, cancelled, verifier>>
authzVars == <<lines, torn, durable, wal, records, bytes, chain, stage, line, left,
               closer, barrier, call, acked, opens,
               srv, active, reply, cancelled, verifier>>

\* unready: #ready was dropped by a failed check.  closing: tryShutdown() or
\* forceShutdown() is pending.  draining, failing: close() awaits #activeRetired.
SrvStates == {"off", "ready", "unready", "closing", "draining", "failing", "closed", "failed"}
Replies == {"none", "allow", "capability", "denied", "error"}

AuthzInit ==
    /\ WalInit
    /\ srv = "off"
    /\ active = {}
    /\ reply = [c \in Calls |-> "none"]
    /\ cancelled = {}
    /\ verifier = "cleared"

Serving == srv = "ready" /\ Ready

-----------------------------------------------------------------------------
\* startCogsExtAuthzServer(): refuses a WAL that is not ready.
StartServer ==
    /\ srv = "off"
    /\ Ready
    /\ srv' = "ready"
    /\ verifier' = "live"
    /\ UNCHANGED <<walVars, active, reply, cancelled>>

\* The caller (Envoy, for a downstream that left) cancels its call.
Cancel(c) ==
    /\ c \notin cancelled
    /\ reply[c] = "none"
    /\ cancelled' = cancelled \cup {c}
    /\ UNCHANGED <<walVars, srv, active, reply, verifier>>

\* A check that ends in the same run of #check(): not serving, too many active
\* checks, a bad token or deadline, a malformed or refused request, a capability
\* probe, or a call already cancelled.
CheckReplies(c, answer) ==
    /\ srv \in {"ready", "unready", "closing", "failing"}
    /\ call[c] = "new" /\ reply[c] = "none"
    /\ answer \in {"error", "denied", "capability"}
    /\ answer # "error" => Serving /\ Cardinality(active) < MaxActive
    /\ answer = "capability" => c \notin cancelled
    /\ reply' = [reply EXCEPT ![c] = answer]
    /\ UNCHANGED <<walVars, srv, active, cancelled, verifier>>

\* An authorized check: it becomes active and appends its intent.
CheckAdmitted(c) ==
    /\ Serving
    /\ Cardinality(active) < MaxActive
    /\ c \notin cancelled /\ reply[c] = "none"
    /\ active' = active \cup {c}
    /\ AppendCall(c)
    /\ UNCHANGED <<srv, reply, cancelled, verifier>>

\* Faulty variant: a rejected append is not caught.
CheckResumesOnSuccess(c) ==
    /\ c \in active
    /\ call[c] = "ok"
    /\ active' = active \ {c}
    /\ reply' = [reply EXCEPT ![c] = IF Serving /\ c \notin cancelled THEN "allow" ELSE "error"]
    /\ UNCHANGED <<walVars, srv, cancelled, verifier>>

\* The continuation of `await wal.append(...)`: admission is checked again.
CheckResumes(c) ==
    /\ c \in active
    /\ call[c] \in {"ok", "failed"}
    /\ active' = active \ {c}
    /\ IF call[c] = "ok" /\ Serving /\ c \notin cancelled
       THEN /\ reply' = [reply EXCEPT ![c] = "allow"]
            /\ UNCHANGED srv
       ELSE /\ reply' = [reply EXCEPT ![c] = "error"]
            /\ srv' = IF srv = "ready" THEN "unready" ELSE srv
    /\ UNCHANGED <<walVars, cancelled, verifier>>

-----------------------------------------------------------------------------
\* close(): admission ends at once.
CloseServer ==
    /\ srv \in {"ready", "unready"}
    /\ srv' = "closing"
    /\ UNCHANGED <<walVars, active, reply, cancelled, verifier>>

\* tryShutdown() has called back, or forceShutdown() after 200 ms, which may
\* throw; handlers may still be running.
SocketsDown(ok) ==
    /\ srv = "closing"
    /\ srv' = IF ok THEN "draining" ELSE "failing"
    /\ UNCHANGED <<walVars, active, reply, cancelled, verifier>>

\* #activeRetired: the last admitted check has resumed.
ServerRetired ==
    /\ srv \in {"draining", "failing"}
    /\ active = {}
    /\ srv' = IF srv = "draining" THEN "closed" ELSE "failed"
    /\ verifier' = "cleared"
    /\ UNCHANGED <<walVars, active, reply, cancelled>>

\* closeOnce() of the runtime manager: the WAL is closed after its producer, never
\* when the producer's close failed, and at once when no server was started.
CloseWal ==
    /\ srv \in {"closed", "off"}
    /\ Close
    /\ UNCHANGED srvVars

\* The process ends: every handler and its caller go with it.
Crash ==
    /\ WalCrash
    /\ srv' = "off"
    /\ active' = {}
    /\ reply' = [c \in Calls |-> IF c \in active THEN "error" ELSE reply[c]]
    /\ verifier' = "cleared"
    /\ UNCHANGED cancelled

-----------------------------------------------------------------------------
SrvWork ==
    \/ \E c \in Calls : CheckResumes(c)
    \/ \E ok \in BOOLEAN : SocketsDown(ok)
    \/ ServerRetired

AuthzNext ==
    \/ (Open \/ OpenFails) /\ UNCHANGED srvVars
    \/ WalWork /\ UNCHANGED srvVars
    \/ StartServer
    \/ \E c \in Calls : Cancel(c) \/ CheckAdmitted(c)
    \/ \E c \in Calls, answer \in Replies : CheckReplies(c, answer)
    \/ SrvWork
    \/ CloseServer \/ CloseWal
    \/ Crash

AuthzSpec == AuthzInit /\ [][AuthzNext]_authzVars

\* The file system and the event loop serve what is pending.
AuthzFairSpec ==
    /\ AuthzSpec
    /\ WF_authzVars(WalWork /\ UNCHANGED srvVars)
    /\ WF_authzVars(SrvWork)

-----------------------------------------------------------------------------
(***************************************************************************)
(* Properties.                                                             *)
(***************************************************************************)

\* The server's variables have their types; those of the WAL are WalTypeOK.
SrvTypeOK ==
    /\ srv \in SrvStates
    /\ active \in SUBSET Calls
    /\ reply \in [Calls -> Replies]
    /\ cancelled \in SUBSET Calls
    /\ verifier \in {"live", "cleared"}

(***************************************************************************)
(* Write-ahead: Envoy is told to forward a request only when the intent of *)
(* exactly that check is on stable storage, whatever was closed, poisoned, *)
(* cancelled or restarted while the append was awaited.                    *)
(***************************************************************************)
AllowDurable ==
    \A c \in Calls : reply[c] = "allow" =>
        \E i \in 1..durable : [by |-> c, rec |-> lines[i]] \in acked

(***************************************************************************)
(* No two allowed requests carry the same intent id, over all restarts of  *)
(* the worker on one log: the ids recovered from the file are refused too. *)
(***************************************************************************)
AllowsDistinct ==
    \A a, b \in acked :
        a.by # b.by /\ {reply[a.by], reply[b.by]} = {"allow"} => a.rec.id # b.rec.id

(***************************************************************************)
(* Every append in the WAL's queue belongs to an admitted check, so        *)
(* maxActiveChecks bounds the queue, which has no bound of its own.        *)
(***************************************************************************)
QueueBounded == Range(chain) \subseteq active

(***************************************************************************)
(* Custody: socket shutdown is not handler retirement.  The secrets are    *)
(* cleared and the WAL is closed only when no admitted check is left, so   *)
(* close() of the WAL never has an append to wait for or to refuse.        *)
(***************************************************************************)
ChecksKeepCustody ==
    active # {} => verifier = "live" /\ closer = "none"

(***************************************************************************)
(* Every admitted check is answered, and a close() that has begun ends: it *)
(* hangs neither in the shutdown of its sockets nor, once they are down,   *)
(* in the wait for the last admitted check.                                *)
(***************************************************************************)
Retiring == srv \in {"closing", "draining", "failing"}
ChecksAnswered ==
    /\ \A c \in Calls : c \in active ~> reply[c] # "none"
    /\ Retiring ~> ~Retiring
=============================================================================

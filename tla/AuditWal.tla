------------------------------ MODULE AuditWal ------------------------------
(***************************************************************************)
(* The append-only write-ahead log of egress intents                       *)
(* (src/src/egress/audit-wal.ts).                                          *)
(*                                                                         *)
(* A Wal object owns one open file.  append() queues on the promise chain  *)
(* #next; the head of the chain writes its line, fsyncs, re-verifies the   *)
(* file and only then publishes the record.  Any failure poisons the       *)
(* object for good.  close() seals admission, waits for the appends that   *)
(* were queued before it, then syncs and closes the file.  A process may   *)
(* die at any point, a machine may lose what was not fsynced, and the next *)
(* process recovers from the file, or refuses to.                          *)
(*                                                                         *)
(* A line of the file is [id, seq, end]: the intent id, the sequence       *)
(* number serialised in it and the offset of its last byte, so that sizes  *)
(* need no sums.  The other fields of a record (session, route, method)    *)
(* play no part in the protocol and are left out.                          *)
(***************************************************************************)
EXTENDS Naturals, Sequences, Functions

CONSTANTS
    Calls,           \* append() calls, each made at most once
    Ids,             \* intent identifiers newIntentId() can return
    MaxRecords,      \* options.maxRecords
    MaxBytes,        \* options.maxBytes
    MaxRecordBytes,  \* options.maxRecordBytes
    MaxOpens         \* bound on open attempts over all process lifetimes

ASSUME WalAssumption ==
    /\ MaxRecords \in Nat \ {0}
    /\ MaxBytes \in Nat \ {0}
    /\ MaxRecordBytes \in 1..MaxBytes
    /\ MaxOpens \in Nat \ {0}
    /\ Ids # {}

VARIABLES
    lines,     \* complete lines of the file, as a read() would see them
    torn,      \* bytes of an incomplete last line
    durable,   \* how many of lines are known to be on stable storage
    wal,       \* the Wal object's fields, see WalStates
    records,   \* #current
    bytes,     \* #bytes
    chain,     \* appends queued on #next, the running one first
    stage,     \* where the running append is: idle, write, sync or stat
    line,      \* the line being appended
    left,      \* bytes of line that writeAll() still has to write
    closer,    \* where close() is, see CloserStates
    barrier,   \* the appends close() waits for: #next when it was called
    call,      \* per append() call: new, queued, ok, failed, aborted or lost
    acked,     \* history: the record each append() resolved with, over all lifetimes
    opens      \* open attempts so far

fileVars == <<lines, torn, durable>>
closeVars == <<closer, barrier>>
objVars == <<wal, records, bytes>>
runVars == <<chain, stage, line, left>>
walVars == <<lines, torn, durable, wal, records, bytes, chain, stage, line, left,
             closer, barrier, call, acked, opens>>

WalStates == {"down", "open", "poisoned"}
Stages == {"idle", "write", "sync", "stat"}
CloserStates == {"none", "wait", "sync", "file", "unsynced", "done", "failed"}
CallStates == {"new", "queued", "ok", "failed", "aborted", "lost"}

(***************************************************************************)
(* File layout.                                                            *)
(***************************************************************************)

EndOf(s) == IF s = <<>> THEN 0 ELSE s[Len(s)].end

LengthAt(s, i) == s[i].end - (IF i = 1 THEN 0 ELSE s[i - 1].end)

FileSize == EndOf(lines) + torn

Line == [id : Ids, seq : Nat, end : Nat]

NoLine == [id |-> CHOOSE i \in Ids : TRUE, seq |-> 0, end |-> 0]

IdsOf(s) == {s[i].id : i \in 1..Len(s)}

(***************************************************************************)
(* get ready(): a poisoned, closing or closed object admits nothing.       *)
(***************************************************************************)
Ready == wal = "open" /\ closer = "none"

(***************************************************************************)
(* recover(): what a fresh open accepts of the file it finds.              *)
(***************************************************************************)
Recoverable(s, partial) ==
    /\ EndOf(s) + partial <= MaxBytes
    /\ partial = 0
    /\ Len(s) <= MaxRecords
    /\ \A i \in 1..Len(s) : LengthAt(s, i) <= MaxRecordBytes /\ s[i].seq = i - 1
    /\ \A i, j \in 1..Len(s) : s[i].id = s[j].id => i = j

WalInit ==
    /\ lines = <<>> /\ torn = 0 /\ durable = 0
    /\ wal = "down" /\ records = <<>> /\ bytes = 0
    /\ chain = <<>> /\ stage = "idle" /\ line = NoLine /\ left = 0
    /\ closer = "none" /\ barrier = {}
    /\ call = [c \in Calls |-> "new"]
    /\ acked = {}
    /\ opens = 0

-----------------------------------------------------------------------------
(***************************************************************************)
(* openEgressAuditWalWithDeps(): the file is created or recovered; every   *)
(* record of the file becomes a record of the object, fsynced or not.      *)
(***************************************************************************)
Open ==
    /\ wal = "down" /\ opens < MaxOpens
    /\ Recoverable(lines, torn)
    /\ opens' = opens + 1
    /\ wal' = "open"
    /\ records' = lines
    /\ bytes' = EndOf(lines)
    /\ UNCHANGED <<fileVars, runVars, closeVars, call, acked>>

\* Recovery refuses the file, or one of open's own file operations fails.
OpenFails ==
    /\ wal = "down" /\ opens < MaxOpens
    /\ opens' = opens + 1
    /\ UNCHANGED <<fileVars, objVars, runVars, closeVars, call, acked>>

-----------------------------------------------------------------------------
(***************************************************************************)
(* append(): the call joins the chain whatever the state of the object.    *)
(***************************************************************************)
AppendCall(c) ==
    /\ wal # "down"
    /\ call[c] = "new"
    /\ call' = [call EXCEPT ![c] = "queued"]
    /\ chain' = Append(chain, c)
    /\ UNCHANGED <<fileVars, objVars, stage, line, left, closeVars, acked, opens>>

\* Faulty variant: only a successful append lets the next one run.
FinishOnSuccess(outcome) ==
    /\ call' = [call EXCEPT ![Head(chain)] = outcome]
    /\ chain' = IF outcome = "ok" THEN Tail(chain) ELSE chain
    /\ stage' = "idle"
    /\ left' = 0

\* The head of the chain leaves it with the given outcome.
Finish(outcome) ==
    /\ call' = [call EXCEPT ![Head(chain)] = outcome]
    /\ chain' = Tail(chain)
    /\ stage' = "idle"
    /\ left' = 0

\* The catch of #append: the object is poisoned and the caller rejected.
Poison ==
    /\ Finish("failed")
    /\ wal' = "poisoned"
    /\ UNCHANGED <<records, bytes, closeVars, acked, opens>>

\* signal?.aborted: rejected before anything began, and nothing is poisoned.
AbortAppend ==
    /\ stage = "idle" /\ chain # <<>>
    /\ Finish("aborted")
    /\ UNCHANGED <<fileVars, objVars, line, closeVars, acked, opens>>

\* maxRecordBytes, maxRecords and maxBytes, checked before the first write.
Fits(length) ==
    /\ length <= MaxRecordBytes
    /\ Len(records) < MaxRecords
    /\ bytes + length <= MaxBytes

BeginAppend(id, length) ==
    /\ stage = "idle" /\ chain # <<>>
    /\ Ready
    /\ id \notin IdsOf(records)
    /\ Fits(length)
    /\ stage' = "write"
    /\ line' = [id |-> id, seq |-> Len(records), end |-> bytes + length]
    /\ left' = length
    /\ UNCHANGED <<fileVars, objVars, chain, closeVars, call, acked, opens>>

\* Not ready, a repeated id or no room.  A field that validateRecord() rejects
\* ends the same way, and an oversized length stands for it.
RefuseAppend(id, length) ==
    /\ stage = "idle" /\ chain # <<>>
    /\ \/ ~Ready
       \/ id \in IdsOf(records)
       \/ ~Fits(length)
    /\ Poison
    /\ UNCHANGED <<fileVars, line>>

\* One file.write() of writeAll(); the last byte completes the line.
Write(n) ==
    /\ stage = "write"
    /\ n \in 1..left
    /\ left' = left - n
    /\ IF n = left
       THEN /\ lines' = Append(lines, [id |-> line.id, seq |-> line.seq, end |-> FileSize + n])
            /\ torn' = 0
            /\ stage' = "sync"
       ELSE /\ torn' = torn + n
            /\ UNCHANGED <<lines, stage>>
    /\ UNCHANGED <<durable, objVars, chain, line, closeVars, call, acked, opens>>

Sync ==
    /\ stage = "sync"
    /\ durable' = Len(lines)
    /\ stage' = "stat"
    /\ UNCHANGED <<lines, torn, objVars, chain, line, left, closeVars, call, acked, opens>>

\* verifyFile() passes and the record is published.
Commit ==
    /\ stage = "stat"
    /\ FileSize = line.end
    /\ bytes' = FileSize
    /\ records' = Append(records, line)
    /\ acked' = acked \cup {[by |-> Head(chain), rec |-> line]}
    /\ Finish("ok")
    /\ UNCHANGED <<fileVars, wal, line, closeVars, opens>>

\* Faulty variant: the caller is rejected but the object stays usable.
IoFailsQuietly ==
    /\ stage # "idle"
    /\ Finish("failed")
    /\ UNCHANGED <<fileVars, objVars, line, closeVars, acked, opens>>

\* A write, the fsync or the verification throws.
IoFails ==
    /\ stage # "idle"
    /\ Poison
    /\ UNCHANGED <<fileVars, line>>

-----------------------------------------------------------------------------
(***************************************************************************)
(* close(): `closing` is set at once; the rest waits for the chain as it   *)
(* was at that moment.                                                     *)
(***************************************************************************)
Close ==
    /\ wal # "down" /\ closer = "none"
    /\ closer' = "wait"
    /\ barrier' = Range(chain)
    /\ UNCHANGED <<fileVars, objVars, runVars, call, acked, opens>>

CloseDrained ==
    /\ closer = "wait"
    /\ barrier \cap Range(chain) = {}
    /\ closer' = "sync"
    /\ barrier' = {}
    /\ UNCHANGED <<fileVars, objVars, runVars, call, acked, opens>>

\* #file.sync(); a failure is remembered while the file is still closed.
CloseSync(ok) ==
    /\ closer = "sync"
    /\ closer' = IF ok THEN "file" ELSE "unsynced"
    /\ durable' = IF ok THEN Len(lines) ELSE durable
    /\ UNCHANGED <<lines, torn, objVars, runVars, barrier, call, acked, opens>>

\* #file.close(); either failure poisons the object and rejects close().
CloseFile(ok) ==
    /\ closer \in {"file", "unsynced"}
    /\ closer' = IF ok /\ closer = "file" THEN "done" ELSE "failed"
    /\ wal' = IF ok /\ closer = "file" THEN wal ELSE "poisoned"
    /\ UNCHANGED <<fileVars, records, bytes, runVars, barrier, call, acked, opens>>

-----------------------------------------------------------------------------
\* The process is gone with everything it held; unfinished calls are lost.
Forget ==
    /\ wal' = "down" /\ records' = <<>> /\ bytes' = 0
    /\ chain' = <<>> /\ stage' = "idle" /\ line' = NoLine /\ left' = 0
    /\ closer' = "none" /\ barrier' = {}
    /\ call' = [c \in Calls |-> IF call[c] = "queued" THEN "lost" ELSE call[c]]
    /\ UNCHANGED <<acked, opens>>

\* The worker process dies, or ends after close(); the file stays as written.
ProcessExit ==
    /\ wal # "down"
    /\ Forget
    /\ UNCHANGED fileVars

\* The machine stops: of what was not fsynced any prefix remains, perhaps
\* ending inside a line.  It may stop before the next process is started.
MachineStop(kept, partial) ==
    /\ kept \in durable..Len(lines)
    /\ IF kept = Len(lines)
       THEN partial \in 0..torn
       ELSE partial \in 0..(LengthAt(lines, kept + 1) - 1)
    /\ lines' = SubSeq(lines, 1, kept)
    /\ torn' = partial
    /\ durable' = kept
    /\ Forget

-----------------------------------------------------------------------------
Lengths == 1..MaxRecordBytes + 1

\* The steps the Wal object takes by itself once append() or close() is called.
WalWork ==
    \/ \E id \in Ids, length \in Lengths :
          BeginAppend(id, length) \/ RefuseAppend(id, length)
    \/ \E n \in 1..MaxRecordBytes : Write(n)
    \/ Sync \/ Commit \/ IoFails
    \/ CloseDrained
    \/ \E ok \in BOOLEAN : CloseSync(ok) \/ CloseFile(ok)

WalCrash ==
    \/ ProcessExit
    \/ \E kept \in 0..Len(lines), partial \in 0..MaxRecordBytes :
          MachineStop(kept, partial)

WalNext ==
    \/ Open \/ OpenFails
    \/ \E c \in Calls : AppendCall(c)
    \/ AbortAppend
    \/ WalWork
    \/ Close
    \/ WalCrash

WalSpec == WalInit /\ [][WalNext]_walVars

\* File operations return, so the object's own steps are not put off forever.
WalFairSpec == WalSpec /\ WF_walVars(WalWork)

-----------------------------------------------------------------------------
(***************************************************************************)
(* Properties.                                                             *)
(***************************************************************************)

\* Every variable has its type.
WalTypeOK ==
    /\ lines \in Seq(Line) /\ torn \in Nat /\ durable \in 0..Len(lines)
    /\ wal \in WalStates /\ records \in Seq(Line) /\ bytes \in Nat
    /\ chain \in Seq(Calls) /\ stage \in Stages /\ line \in Line /\ left \in Nat
    /\ closer \in CloserStates /\ barrier \in SUBSET Calls
    /\ call \in [Calls -> CallStates]
    /\ acked \in SUBSET [by : Calls, rec : Line]
    /\ opens \in Nat

(***************************************************************************)
(* A record append() resolved with is on stable storage, at the position   *)
(* its sequence number names, and stays there: no crash, failed append,    *)
(* restart or later append loses or moves it.                              *)
(***************************************************************************)
AckedDurable ==
    \A a \in acked : a.rec.seq < durable /\ lines[a.rec.seq + 1] = a.rec

(***************************************************************************)
(* While the object is not poisoned and no append is running, #current and *)
(* #bytes describe the file exactly: there is no line in the file that the *)
(* object does not know, and none it knows that the file lacks.            *)
(***************************************************************************)
MirrorsFile ==
    wal = "open" /\ stage = "idle" =>
        /\ lines = records
        /\ torn = 0
        /\ bytes = FileSize

(***************************************************************************)
(* The limits append() enforces are the limits recover() checks: whatever  *)
(* failed before, only an incomplete last line can make a later open       *)
(* refuse a file this code wrote.                                          *)
(***************************************************************************)
OnlyTornRefused == torn = 0 => Recoverable(lines, torn)

(***************************************************************************)
(* What an open log promises: types, durability of what was acknowledged,  *)
(* an object that mirrors its file, and a file that a restart accepts.     *)
(***************************************************************************)
WalSafe == WalTypeOK /\ AckedDurable /\ MirrorsFile /\ OnlyTornRefused

(***************************************************************************)
(* Every append() settles and every close() ends, unless the process dies: *)
(* again and again nothing is queued and no close() is waiting.            *)
(***************************************************************************)
WalSettles == []<>(closer # "wait" /\ \A c \in Calls : call[c] # "queued")
=============================================================================

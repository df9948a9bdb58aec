---------------------------- MODULE EgressProofs ----------------------------
(***************************************************************************)
(* Proofs about the audit WAL, the authorization server over it and the    *)
(* completion queue over both: the log is what was appended, a check is    *)
(* answered only after its record is durable, and the audit of forwarded   *)
(* requests is whole and exact, for any number of appends, requests,       *)
(* lines, process lifetimes and any limits.                                *)
(***************************************************************************)
EXTENDS CompletionQueue, SequenceTheorems, FiniteSetTheorems, TLAPS

-----------------------------------------------------------------------------
(* The audit WAL, for every number of appends, ids, limits and process      *)
(* lifetimes.                                                               *)

(***************************************************************************)
(* The inductive invariant.                                                *)
(***************************************************************************)

\* What append() maintains of the file and recover() will check: limits,
\* sequence numbers and ids, line by line.
LogOK(s) ==
    /\ Len(s) <= MaxRecords
    /\ \A i \in 1..Len(s) :
          /\ s[i].seq = i - 1
          /\ s[i].end <= MaxBytes
          /\ LengthAt(s, i) \in 1..MaxRecordBytes
    /\ \A i, j \in 1..Len(s) : s[i].id = s[j].id => i = j

\* The append that runs is the head of the chain, on a usable object; a close()
\* that was called meanwhile waits for it.
RunningOK ==
    stage # "idle" =>
        /\ wal = "open" /\ chain # <<>>
        /\ closer # "none" => closer = "wait" /\ Head(chain) \in barrier

\* The line that is being appended has passed every check of #append().
LineOK ==
    stage # "idle" =>
        /\ line.seq = Len(records) /\ Len(records) < MaxRecords
        /\ line.id \notin IdsOf(records)
        /\ line.end <= MaxBytes
        /\ line.end - bytes \in 1..MaxRecordBytes

\* How the file is ahead of #current at each stage of the running append.
AheadOK ==
    wal = "open" =>
        /\ bytes = EndOf(records)
        /\ stage \in {"idle", "write"} => lines = records
        /\ stage = "idle" => torn = 0
        /\ stage = "write" => left # 0 /\ bytes + torn + left = line.end
        /\ stage \in {"sync", "stat"} => lines = Append(records, line) /\ torn = 0

SyncedOK == stage = "stat" => durable = Len(lines)

TypeInv == WalTypeOK /\ RunningOK

WalInv == LogOK(lines) /\ LineOK /\ AheadOK /\ SyncedOK /\ AckedDurable

-----------------------------------------------------------------------------
(***************************************************************************)
(* Type correctness.                                                       *)
(***************************************************************************)

\* The line a fresh object holds has a line's type.
LEMMA NoLineType == NoLine \in Line
  BY WalAssumption DEF NoLine, Line

\* Head and Tail of the chain, as the actions use them.
LEMMA ChainType ==
  ASSUME chain \in Seq(Calls), chain # <<>>
  PROVE  /\ Head(chain) \in Calls /\ Tail(chain) \in Seq(Calls)
         /\ Head(chain) \in Range(chain)
  <1>1. Head(chain) \in Calls /\ Tail(chain) \in Seq(Calls)
    BY HeadTailProperties
  <1>2. Head(chain) = chain[1] /\ 1 \in DOMAIN chain
    BY EmptySeq, LenProperties
  <1> QED  BY <1>1, <1>2 DEF Range

\* Finish() keeps the types of what it changes.
LEMMA FinishType ==
  ASSUME WalTypeOK, chain # <<>>, NEW outcome \in CallStates, Finish(outcome)
  PROVE  /\ call' \in [Calls -> CallStates] /\ chain' \in Seq(Calls)
         /\ stage' \in Stages /\ left' \in Nat /\ stage' = "idle"
  BY ChainType DEF WalTypeOK, Finish, Stages

\* The variables of a process that is gone have their types.
LEMMA ForgetType ==
  ASSUME WalTypeOK, Forget
  PROVE  /\ wal' \in WalStates /\ records' \in Seq(Line) /\ bytes' \in Nat
         /\ chain' \in Seq(Calls) /\ stage' \in Stages /\ line' \in Line /\ left' \in Nat
         /\ closer' \in CloserStates /\ barrier' \in SUBSET Calls
         /\ call' \in [Calls -> CallStates]
         /\ acked' = acked /\ opens' = opens /\ stage' = "idle"
  BY NoLineType, EmptySeq
  DEF WalTypeOK, Forget, WalStates, Stages, CloserStates, CallStates

\* A file size is a natural number.
LEMMA EndType ==
  ASSUME NEW s \in Seq(Line)
  PROVE  EndOf(s) \in Nat
  <1>1. CASE s = <<>>  BY <1>1 DEF EndOf
  <1>2. CASE s # <<>>
    <2>1. Len(s) \in 1..Len(s)  BY <1>2, EmptySeq, LenProperties
    <2>2. s[Len(s)] \in Line  BY <2>1, ElementOfSeq
    <2> QED  BY <1>2, <2>2 DEF EndOf, Line
  <1> QED  BY <1>1, <1>2

\* TypeInv is inductive.
LEMMA TypeStep == TypeInv /\ [WalNext]_walVars => TypeInv'
  <1> SUFFICES ASSUME TypeInv, [WalNext]_walVars
               PROVE  TypeInv'
    OBVIOUS
  <1> USE DEF TypeInv
  <1>1. CASE Open
    BY <1>1, EndType
    DEF Open, WalTypeOK, RunningOK, WalStates, fileVars, runVars, closeVars
  <1>2. CASE OpenFails
    BY <1>2
    DEF OpenFails, WalTypeOK, RunningOK, fileVars, objVars, runVars, closeVars
  <1>3. ASSUME NEW c \in Calls, AppendCall(c)
        PROVE  TypeInv'
    <2>1. chain' \in Seq(Calls) /\ chain' # <<>>
      BY <1>3, AppendProperties DEF AppendCall, WalTypeOK
    <2>2. chain # <<>> => Head(chain') = Head(chain)
      BY <1>3, HeadTailAppend DEF AppendCall, WalTypeOK
    <2>3. call' \in [Calls -> CallStates]
      BY <1>3 DEF AppendCall, WalTypeOK, CallStates
    <2> QED
      BY <1>3, <2>1, <2>2, <2>3
      DEF AppendCall, WalTypeOK, RunningOK, fileVars, objVars, closeVars
  <1>4. CASE AbortAppend
    <2>1. "aborted" \in CallStates  BY DEF CallStates
    <2> QED
      BY <1>4, <2>1, FinishType
      DEF AbortAppend, WalTypeOK, RunningOK, fileVars, objVars, closeVars
  <1>5. ASSUME NEW id \in Ids, NEW length \in Lengths, BeginAppend(id, length)
        PROVE  TypeInv'
    <2>1. length \in Nat  BY WalAssumption DEF Lengths
    <2>2. line' \in Line
      <3>1. Len(records) \in Nat  BY LenProperties DEF WalTypeOK
      <3> QED  BY <1>5, <2>1, <3>1 DEF BeginAppend, WalTypeOK, Line
    <2> QED
      BY <1>5, <2>1, <2>2
      DEF BeginAppend, WalTypeOK, RunningOK, Ready, Stages, fileVars, objVars, closeVars
  <1>6. ASSUME NEW id \in Ids, NEW length \in Lengths, RefuseAppend(id, length)
        PROVE  TypeInv'
    <2>1. "failed" \in CallStates  BY DEF CallStates
    <2> QED
      BY <1>6, <2>1, FinishType
      DEF RefuseAppend, Poison, WalTypeOK, RunningOK, WalStates, fileVars, closeVars
  <1>7. ASSUME NEW n \in 1..MaxRecordBytes, Write(n)
        PROVE  TypeInv'
    <2>1. left' \in Nat /\ n \in Nat  BY <1>7 DEF Write, WalTypeOK
    <2>2. FileSize \in Nat  BY EndType DEF FileSize, WalTypeOK
    <2>3. [id |-> line.id, seq |-> line.seq, end |-> FileSize + n] \in Line
      BY <2>1, <2>2 DEF WalTypeOK, Line
    <2>4. lines' \in Seq(Line) /\ durable' \in 0..Len(lines')
      <3> DEFINE l == [id |-> line.id, seq |-> line.seq, end |-> FileSize + n]
      <3>1. Append(lines, l) \in Seq(Line) /\ Len(Append(lines, l)) = Len(lines) + 1
        BY <2>3, AppendProperties DEF WalTypeOK
      <3>2. lines' = lines \/ lines' = Append(lines, l)  BY <1>7 DEF Write
      <3>3. durable' = durable /\ Len(lines) \in Nat  BY <1>7, LenProperties DEF Write, WalTypeOK
      <3>4. lines \in Seq(Line) /\ durable \in 0..Len(lines)  BY DEF WalTypeOK
      <3> HIDE DEF l
      <3>5. CASE lines' = lines  BY <3>3, <3>4, <3>5
      <3>6. CASE lines' = Append(lines, l)  BY <3>1, <3>3, <3>4, <3>6
      <3> QED  BY <3>2, <3>5, <3>6
    <2>5. torn' \in Nat /\ stage' \in Stages  BY <1>7, <2>1 DEF Write, WalTypeOK, Stages
    <2> QED
      BY <1>7, <2>1, <2>4, <2>5
      DEF Write, WalTypeOK, RunningOK, objVars, closeVars
  <1>8. CASE Sync
    BY <1>8, LenProperties DEF Sync, WalTypeOK, RunningOK, Stages, objVars, closeVars
  <1>9. CASE Commit
    <2>1. "ok" \in CallStates  BY DEF CallStates
    <2>2. chain # <<>>  BY <1>9 DEF Commit, RunningOK
    <2>3. Head(chain) \in Calls  BY <2>2, ChainType DEF WalTypeOK
    <2>4. acked' \in SUBSET [by : Calls, rec : Line]  BY <1>9, <2>3 DEF Commit, WalTypeOK
    <2>5. bytes' \in Nat  BY <1>9, EndType DEF Commit, FileSize, WalTypeOK
    <2>6. records' \in Seq(Line)  BY <1>9, AppendProperties DEF Commit, WalTypeOK
    <2>7. call' \in [Calls -> CallStates] /\ chain' \in Seq(Calls) /\ stage' = "idle"
          /\ stage' \in Stages /\ left' \in Nat
      BY <1>9, <2>1, <2>2, FinishType DEF Commit
    <2> QED
      BY <1>9, <2>4, <2>5, <2>6, <2>7
      DEF Commit, WalTypeOK, RunningOK, fileVars, closeVars
  <1>10. CASE IoFails
    <2>1. "failed" \in CallStates /\ chain # <<>>  BY <1>10 DEF CallStates, IoFails, RunningOK
    <2> QED
      BY <1>10, <2>1, FinishType
      DEF IoFails, Poison, WalTypeOK, RunningOK, WalStates, fileVars, closeVars
  <1>11. CASE Close
    <2>1. Range(chain) \subseteq Calls  BY LenProperties DEF Range, WalTypeOK
    <2>2. chain # <<>> => Head(chain) \in Range(chain)  BY ChainType DEF WalTypeOK
    <2> QED
      BY <1>11, <2>1, <2>2
      DEF Close, WalTypeOK, RunningOK, CloserStates, fileVars, objVars, runVars
  <1>12. CASE CloseDrained
    <2>1. chain # <<>> => Head(chain) \in Range(chain)  BY ChainType DEF WalTypeOK
    <2>2. stage = "idle"  BY <1>12, <2>1 DEF CloseDrained, RunningOK
    <2> QED
      BY <1>12, <2>2
      DEF CloseDrained, WalTypeOK, RunningOK, CloserStates, fileVars, objVars, runVars
  <1>13. ASSUME NEW ok \in BOOLEAN, CloseSync(ok)
         PROVE  TypeInv'
    BY <1>13, LenProperties
    DEF CloseSync, WalTypeOK, RunningOK, CloserStates, objVars, runVars
  <1>14. ASSUME NEW ok \in BOOLEAN, CloseFile(ok)
         PROVE  TypeInv'
    <2>1. wal' \in WalStates /\ closer' \in CloserStates
      BY <1>14 DEF CloseFile, WalTypeOK, WalStates, CloserStates
    <2>2. stage = "idle"  BY <1>14 DEF CloseFile, RunningOK
    <2> QED
      BY <1>14, <2>1, <2>2 DEF CloseFile, WalTypeOK, RunningOK, fileVars, runVars
  <1>15. CASE ProcessExit
    BY <1>15, ForgetType DEF ProcessExit, WalTypeOK, RunningOK, fileVars
  <1>16. ASSUME NEW kept \in 0..Len(lines), NEW partial \in 0..MaxRecordBytes,
                MachineStop(kept, partial)
         PROVE  TypeInv'
    <2>1. Len(lines) \in Nat /\ \A i \in 1..kept : lines[i] \in Line
      BY LenProperties, ElementOfSeq DEF WalTypeOK
    <2>2. kept \in Int /\ 1 \in Int  BY <2>1
    <2>3. lines' \in Seq(Line) /\ Len(lines') = kept
      BY <1>16, <2>1, <2>2, SubSeqProperties DEF MachineStop
    <2>4. torn' \in Nat /\ durable' \in 0..Len(lines')
      BY <1>16, <2>1, <2>3, WalAssumption DEF MachineStop
    <2> QED
      BY <1>16, <2>3, <2>4, ForgetType DEF MachineStop, WalTypeOK, RunningOK
  <1>17. CASE UNCHANGED walVars
    BY <1>17 DEF walVars, WalTypeOK, RunningOK
  <1> QED
    BY <1>1, <1>2, <1>3, <1>4, <1>5, <1>6, <1>7, <1>8, <1>9, <1>10, <1>11, <1>12, <1>13,
       <1>14, <1>15, <1>16, <1>17
    DEF WalNext, WalWork, WalCrash

(***************************************************************************)
(* Type correctness of the audit WAL (audit-wal.ts), with the fact it      *)
(* rests on: a running append heads the chain of a usable object, and      *)
(* close() gets past its wait only when none is running.                   *)
(***************************************************************************)
THEOREM TypeCorrect == WalSpec => [](WalTypeOK /\ RunningOK)
  <1>1. WalInit => TypeInv
    BY NoLineType, EmptySeq
    DEF WalInit, TypeInv, WalTypeOK, RunningOK, WalStates, Stages, CloserStates, CallStates
  <1>2. TypeInv => WalTypeOK /\ RunningOK
    BY DEF TypeInv
  <1> QED
    BY <1>1, <1>2, TypeStep, PTL DEF WalSpec

-----------------------------------------------------------------------------
(***************************************************************************)
(* Lemmas about logs.                                                      *)
(***************************************************************************)

\* The size of a log that grew by one line is the end of that line.
LEMMA EndOfAppend ==
  ASSUME NEW s \in Seq(Line), NEW l \in Line
  PROVE  EndOf(Append(s, l)) = l.end
  BY AppendProperties, LenProperties DEF EndOf

\* An intent id that is not among the ids of a log is the id of none of its lines.
LEMMA NewId ==
  ASSUME NEW s \in Seq(Line), NEW id \in Ids, id \notin IdsOf(s)
  PROVE  \A i \in 1..Len(s) : s[i].id # id
  BY DEF IdsOf

\* The length of the last line of a log that grew by one.
LEMMA LengthOfAppended ==
  ASSUME NEW s \in Seq(Line), NEW l \in Line
  PROVE  LengthAt(Append(s, l), Len(s) + 1) = l.end - EndOf(s)
  <1>1. Len(s) \in Nat /\ Append(s, l)[Len(s) + 1] = l
    BY AppendProperties, LenProperties
  <1>2. CASE s = <<>>
    <2>1. Len(s) = 0  BY <1>2, EmptySeq
    <2> QED  BY <1>1, <1>2, <2>1 DEF LengthAt, EndOf
  <1>3. CASE s # <<>>
    <2>1. Len(s) \in 1..Len(s) /\ Len(s) + 1 # 1  BY <1>1, <1>3, EmptySeq
    <2>2. Append(s, l)[Len(s)] = s[Len(s)]  BY <2>1, AppendProperties
    <2>3. (Len(s) + 1) - 1 = Len(s)  BY <1>1
    <2> QED  BY <1>1, <1>3, <2>1, <2>2, <2>3 DEF LengthAt, EndOf
  <1> QED  BY <1>2, <1>3

\* Two logs that agree up to a line give that line the same length.
LEMMA LengthAgrees ==
  ASSUME NEW s, NEW t, NEW n \in Nat, NEW i \in 1..n,
         \A j \in 1..n : s[j] = t[j]
  PROVE  LengthAt(s, i) = LengthAt(t, i)
  <1>1. i # 1 => i - 1 \in 1..n  OBVIOUS
  <1> QED  BY <1>1 DEF LengthAt

\* A line that passed the checks of #append() extends a good log to a good log.
LEMMA LogAppend ==
  ASSUME NEW s \in Seq(Line), LogOK(s), NEW l \in Line,
         Len(s) < MaxRecords, l.seq = Len(s), l.id \notin IdsOf(s),
         l.end <= MaxBytes, l.end - EndOf(s) \in 1..MaxRecordBytes
  PROVE  LogOK(Append(s, l))
  <1> DEFINE t == Append(s, l)
  <1>1. /\ Len(s) \in Nat /\ Len(t) = Len(s) + 1 /\ t[Len(s) + 1] = l
        /\ \A i \in 1..Len(s) : t[i] = s[i]
    BY AppendProperties, LenProperties
  <1>2. Len(t) <= MaxRecords  BY <1>1, WalAssumption
  <1>3. ASSUME NEW i \in 1..Len(t)
        PROVE  t[i].seq = i - 1 /\ t[i].end <= MaxBytes /\ LengthAt(t, i) \in 1..MaxRecordBytes
    <2>1. CASE i \in 1..Len(s)
      <3>1. LengthAt(t, i) = LengthAt(s, i)  BY <1>1, <2>1, LengthAgrees
      <3> QED  BY <1>1, <2>1, <3>1 DEF LogOK
    <2>2. CASE i = Len(s) + 1
      <3>1. LengthAt(t, i) = l.end - EndOf(s)  BY <2>2, LengthOfAppended
      <3> QED  BY <1>1, <2>2, <3>1
    <2> QED  BY <1>1, <1>3, <2>1, <2>2
  <1>4. ASSUME NEW i \in 1..Len(t), NEW j \in 1..Len(t), t[i].id = t[j].id
        PROVE  i = j
    <2>1. \A k \in 1..Len(s) : s[k].id # l.id  BY NewId DEF Line
    <2>2. CASE i \in 1..Len(s) /\ j \in 1..Len(s)  BY <1>1, <1>4, <2>2 DEF LogOK
    <2>3. CASE i \in 1..Len(s) /\ j = Len(s) + 1  BY <1>1, <1>4, <2>1, <2>3
    <2>4. CASE i = Len(s) + 1 /\ j \in 1..Len(s)  BY <1>1, <1>4, <2>1, <2>4
    <2>5. CASE i = Len(s) + 1 /\ j = Len(s) + 1  BY <2>5
    <2> QED  BY <1>1, <2>2, <2>3, <2>4, <2>5
  <1> HIDE DEF t
  <1>5. LogOK(t)  BY <1>2, <1>3, <1>4 DEF LogOK
  <1> QED  BY <1>5 DEF t

\* What a machine keeps of a good log is a good log.
LEMMA LogPrefix ==
  ASSUME NEW s \in Seq(Line), LogOK(s), NEW kept \in 0..Len(s)
  PROVE  /\ LogOK(SubSeq(s, 1, kept))
         /\ \A i \in 1..kept : SubSeq(s, 1, kept)[i] = s[i]
  <1> DEFINE t == SubSeq(s, 1, kept)
  <1>1. Len(s) \in Nat /\ \A i \in 1..kept : s[i] \in Line
    BY LenProperties, ElementOfSeq
  <1>2. Len(t) = kept /\ \A i \in 1..kept : t[i] = s[i]
    <2>1. kept \in Int /\ 1 \in Int  BY <1>1
    <2>2. /\ Len(t) = IF 1 <= kept THEN kept - 1 + 1 ELSE 0
          /\ \A i \in 1 .. kept - 1 + 1 : t[i] = s[1 + i - 1]
      BY <1>1, <2>1, SubSeqProperties
    <2> QED  BY <1>1, <2>2
  <1> HIDE DEF t
  <1>3. Len(t) <= MaxRecords  BY <1>1, <1>2, WalAssumption DEF LogOK
  <1>4. ASSUME NEW i \in 1..kept
        PROVE  t[i].seq = i - 1 /\ t[i].end <= MaxBytes /\ LengthAt(t, i) \in 1..MaxRecordBytes
    <2>1. LengthAt(t, i) = LengthAt(s, i)  BY <1>1, <1>2, LengthAgrees
    <2>2. i \in 1..Len(s) /\ t[i] = s[i]  BY <1>1, <1>2
    <2>3. s[i].seq = i - 1 /\ s[i].end <= MaxBytes /\ LengthAt(s, i) \in 1..MaxRecordBytes
      BY <2>2 DEF LogOK
    <2> QED  BY <2>1, <2>2, <2>3
  <1>5. ASSUME NEW i \in 1..kept, NEW j \in 1..kept, t[i].id = t[j].id
        PROVE  i = j
    <2>1. i \in 1..Len(s) /\ j \in 1..Len(s)  BY <1>1
    <2>2. s[i].id = s[j].id  BY <1>2, <1>5
    <2> QED  BY <2>1, <2>2 DEF LogOK
  <1> QED  BY <1>2, <1>3, <1>4, <1>5 DEF LogOK, t

\* recover() accepts every good log that ends with a complete line.
LEMMA GoodLogRecovers ==
  ASSUME NEW s \in Seq(Line), LogOK(s)
  PROVE  Recoverable(s, 0)
  <1>1. EndOf(s) <= MaxBytes
    <2>1. CASE s = <<>>  BY <2>1, WalAssumption DEF EndOf
    <2>2. CASE s # <<>>
      <3>1. Len(s) \in 1..Len(s)  BY <2>2, EmptySeq, LenProperties
      <3> QED  BY <2>2, <3>1 DEF EndOf, LogOK
    <2> QED  BY <2>1, <2>2
  <1>2. EndOf(s) \in Nat  BY EndType
  <1>3. \A i \in 1..Len(s) : LengthAt(s, i) <= MaxRecordBytes /\ s[i].seq = i - 1
    BY WalAssumption DEF LogOK
  <1> QED  BY <1>1, <1>2, <1>3, WalAssumption DEF Recoverable, LogOK

-----------------------------------------------------------------------------
(***************************************************************************)
(* The safety invariant.                                                   *)
(***************************************************************************)

\* When the append reaches verifyFile() the file has the size it expects, so the
\* guard of Commit never blocks a file that only this object writes.
LEMMA SizeAtStat ==
  ASSUME TypeInv, WalInv, stage \in {"sync", "stat"}
  PROVE  FileSize = line.end
  <1>1. wal = "open" /\ lines = Append(records, line) /\ torn = 0
    BY DEF TypeInv, RunningOK, WalInv, AheadOK
  <1>2. records \in Seq(Line) /\ line \in Line  BY DEF TypeInv, WalTypeOK
  <1>3. EndOf(lines) = line.end  BY <1>1, <1>2, EndOfAppend
  <1>4. line.end \in Nat  BY <1>2 DEF Line
  <1> QED  BY <1>1, <1>3, <1>4 DEF FileSize

\* A step that leaves the file, the acknowledged records and a line being
\* appended alone keeps what is said of them.
LEMMA QuietStep ==
  ASSUME WalInv, UNCHANGED <<lines, acked>>, durable' = durable
  PROVE  LogOK(lines)' /\ AckedDurable'
  BY DEF WalInv, LogOK, LengthAt, AckedDurable

\* WalInv is inductive relative to TypeInv.
LEMMA InvStep == TypeInv /\ TypeInv' /\ WalInv /\ [WalNext]_walVars => WalInv'
  <1> SUFFICES ASSUME TypeInv, TypeInv', WalInv, [WalNext]_walVars
               PROVE  WalInv'
    OBVIOUS
  <1>1. CASE Open
    <2>1. LogOK(lines)' /\ AckedDurable'  BY <1>1, QuietStep DEF Open, fileVars
    <2>2. stage = "idle" /\ stage' = "idle"
      BY <1>1 DEF Open, TypeInv, RunningOK, runVars
    <2>3. torn = 0  BY <1>1 DEF Open, Recoverable
    <2> QED
      BY <1>1, <2>1, <2>2, <2>3 DEF Open, WalInv, LineOK, AheadOK, SyncedOK, fileVars
  <1>2. CASE OpenFails
    <2>1. LogOK(lines)' /\ AckedDurable'  BY <1>2, QuietStep DEF OpenFails, fileVars
    <2> QED
      BY <1>2, <2>1
      DEF OpenFails, WalInv, LineOK, AheadOK, SyncedOK, fileVars, objVars, runVars, IdsOf, EndOf
  <1>3. ASSUME NEW c \in Calls, AppendCall(c)
        PROVE  WalInv'
    <2>1. LogOK(lines)' /\ AckedDurable'  BY <1>3, QuietStep DEF AppendCall, fileVars
    <2> QED
      BY <1>3, <2>1
      DEF AppendCall, WalInv, LineOK, AheadOK, SyncedOK, fileVars, objVars, IdsOf, EndOf
  <1>4. CASE AbortAppend
    <2>1. LogOK(lines)' /\ AckedDurable'  BY <1>4, QuietStep DEF AbortAppend, fileVars
    <2> QED
      BY <1>4, <2>1
      DEF AbortAppend, Finish, WalInv, LineOK, AheadOK, SyncedOK, fileVars, objVars, IdsOf, EndOf
  <1>5. ASSUME NEW id \in Ids, NEW length \in Lengths, BeginAppend(id, length)
        PROVE  WalInv'
    <2>1. LogOK(lines)' /\ AckedDurable'  BY <1>5, QuietStep DEF BeginAppend, fileVars
    <2>2. wal = "open" /\ stage = "idle"  BY <1>5 DEF BeginAppend, Ready
    <2>3. lines = records /\ torn = 0 /\ bytes = EndOf(records) /\ bytes \in Nat
      BY <2>2 DEF WalInv, AheadOK, TypeInv, WalTypeOK
    <2>4. length \in 1..MaxRecordBytes /\ bytes + length <= MaxBytes /\ Len(records) < MaxRecords
      BY <1>5, WalAssumption DEF BeginAppend, Fits, Lengths
    <2>5. /\ line'.seq = Len(records) /\ line'.id = id /\ line'.end = bytes + length
          /\ left' = length /\ stage' = "write"
          /\ id \notin IdsOf(records)
          /\ UNCHANGED <<lines, torn, durable, wal, records, bytes>>
      BY <1>5 DEF BeginAppend, fileVars, objVars
    <2>6. LineOK'
      <3>1. IdsOf(records)' = IdsOf(records)  BY <2>5 DEF IdsOf
      <3>2. line'.end - bytes' = length  BY <2>3, <2>4, <2>5
      <3> QED  BY <2>3, <2>4, <2>5, <3>1, <3>2 DEF LineOK
    <2>7. AheadOK'
      <3>1. EndOf(records)' = EndOf(records)  BY <2>5 DEF EndOf
      <3>2. left' # 0 /\ bytes' + torn' + left' = line'.end  BY <2>3, <2>4, <2>5
      <3> QED  BY <2>3, <2>5, <3>1, <3>2 DEF AheadOK
    <2> QED  BY <2>1, <2>5, <2>6, <2>7 DEF WalInv, SyncedOK
  <1>6. ASSUME NEW id \in Ids, NEW length \in Lengths, RefuseAppend(id, length)
        PROVE  WalInv'
    <2>1. LogOK(lines)' /\ AckedDurable'
      BY <1>6, QuietStep DEF RefuseAppend, Poison, fileVars
    <2> QED
      BY <1>6, <2>1
      DEF RefuseAppend, Poison, Finish, WalInv, LineOK, AheadOK, SyncedOK
  <1>7. ASSUME NEW n \in 1..MaxRecordBytes, Write(n)
        PROVE  WalInv'
    <2>1. /\ stage = "write" /\ wal = "open" /\ n \in 1..left
          /\ UNCHANGED <<durable, wal, records, bytes, line, acked>>
      BY <1>7 DEF Write, TypeInv, RunningOK, objVars
    <2>2. /\ lines = records /\ bytes = EndOf(records)
          /\ bytes + torn + left = line.end
      BY <2>1 DEF WalInv, AheadOK
    <2>3. /\ records \in Seq(Line) /\ line \in Line
          /\ bytes \in Nat /\ torn \in Nat /\ left \in Nat /\ durable \in 0..Len(lines)
      BY DEF TypeInv, WalTypeOK
    <2>4. LineOK'
      <3>1. IdsOf(records)' = IdsOf(records)  BY <2>1 DEF IdsOf
      <3> QED  BY <2>1, <3>1 DEF LineOK, WalInv
    <2>5. EndOf(records)' = EndOf(records)  BY <2>1 DEF EndOf
    <2>6. CASE n = left
      <3>1. FileSize + n = line.end  BY <2>2, <2>3, <2>6 DEF FileSize
      <3>2. lines' = Append(records, line) /\ torn' = 0 /\ stage' = "sync"
        <4>1. line = [id |-> line.id, seq |-> line.seq, end |-> line.end]
          BY <2>3 DEF Line
        <4> QED  BY <1>7, <2>2, <2>6, <3>1, <4>1 DEF Write
      <3>3. LogOK(lines')
        <4>1. LogOK(records) /\ Len(records) < MaxRecords /\ line.seq = Len(records)
              /\ line.id \notin IdsOf(records) /\ line.end <= MaxBytes
              /\ line.end - EndOf(records) \in 1..MaxRecordBytes
          BY <2>1, <2>2 DEF WalInv, LineOK
        <4> QED  BY <2>3, <3>2, <4>1, LogAppend
      <3>4. LogOK(lines)'  BY <3>3 DEF LogOK, LengthAt
      <3>5. AckedDurable'
        <4>1. \A i \in 1..Len(records) : lines'[i] = lines[i]
          BY <2>2, <2>3, <3>2, AppendProperties
        <4>2. Len(records) \in Nat  BY <2>3, LenProperties
        <4>3. \A a \in acked : a.rec.seq \in Nat
          BY DEF TypeInv, WalTypeOK, Line
        <4>4. \A a \in acked : a.rec.seq + 1 \in 1..Len(records)
          BY <2>2, <2>3, <4>2, <4>3 DEF WalInv, AckedDurable
        <4> QED  BY <2>1, <4>1, <4>4 DEF WalInv, AckedDurable
      <3>6. AheadOK'  BY <2>1, <2>2, <2>5, <3>2 DEF AheadOK
      <3> QED  BY <2>4, <3>2, <3>4, <3>5, <3>6 DEF WalInv, SyncedOK
    <2>7. CASE n # left
      <3>1. lines' = lines /\ stage' = "write" /\ torn' = torn + n /\ left' = left - n
        BY <1>7, <2>1, <2>7 DEF Write
      <3>2. LogOK(lines)' /\ AckedDurable'  BY <2>1, <3>1, QuietStep
      <3>3. left' # 0 /\ bytes' + torn' + left' = line'.end
        BY <2>1, <2>2, <2>3, <2>7, <3>1
      <3>4. AheadOK'  BY <2>1, <2>2, <2>5, <3>1, <3>3 DEF AheadOK
      <3> QED  BY <2>4, <3>1, <3>2, <3>4 DEF WalInv, SyncedOK
    <2> QED  BY <2>6, <2>7
  <1>8. CASE Sync
    <2>1. UNCHANGED <<lines, torn, wal, records, bytes, line, acked>> /\ stage' = "stat"
          /\ stage = "sync" /\ durable' = Len(lines)
      BY <1>8 DEF Sync, objVars
    <2>2. LogOK(lines)'  BY <2>1 DEF WalInv, LogOK, LengthAt
    <2>3. AckedDurable'
      <3>1. durable \in 0..Len(lines) /\ Len(lines) \in Nat
        BY LenProperties DEF TypeInv, WalTypeOK
      <3>2. \A a \in acked : a.rec.seq \in Nat  BY DEF TypeInv, WalTypeOK, Line
      <3> QED  BY <2>1, <3>1, <3>2 DEF WalInv, AckedDurable
    <2>4. LineOK' /\ AheadOK'  BY <2>1 DEF WalInv, LineOK, AheadOK, IdsOf, EndOf
    <2> QED  BY <2>1, <2>2, <2>3, <2>4 DEF WalInv, SyncedOK
  <1>9. CASE Commit
    <2>1. UNCHANGED <<lines, torn, durable, wal, line>> /\ stage' = "idle"
          /\ stage = "stat" /\ bytes' = FileSize /\ records' = Append(records, line)
          /\ acked' = acked \cup {[by |-> Head(chain), rec |-> line]}
      BY <1>9 DEF Commit, Finish, fileVars
    <2>2. wal = "open" /\ lines = Append(records, line) /\ torn = 0
          /\ line.seq = Len(records) /\ durable = Len(lines)
      BY <2>1 DEF TypeInv, RunningOK, WalInv, AheadOK, LineOK, SyncedOK
    <2>3. records \in Seq(Line) /\ line \in Line  BY DEF TypeInv, WalTypeOK
    <2>4. LogOK(lines)'  BY <2>1 DEF WalInv, LogOK, LengthAt
    <2>5. AckedDurable'
      <3>1. Len(lines) = Len(records) + 1 /\ lines[Len(records) + 1] = line
            /\ Len(records) \in Nat
        BY <2>2, <2>3, AppendProperties, LenProperties
      <3>2. line.seq < durable /\ lines[line.seq + 1] = line  BY <2>2, <3>1
      <3> QED  BY <2>1, <3>2 DEF WalInv, AckedDurable
    <2>6. LineOK'  BY <2>1 DEF LineOK
    <2>7. AheadOK'
      <3>1. bytes' = EndOf(records')
        BY <2>1, <2>3, SizeAtStat, EndOfAppend
      <3>2. EndOf(records)' = EndOf(records')  BY DEF EndOf
      <3> QED  BY <2>1, <2>2, <3>1, <3>2 DEF AheadOK
    <2> QED  BY <2>1, <2>4, <2>5, <2>6, <2>7 DEF WalInv, SyncedOK
  <1>10. CASE IoFails
    <2>1. LogOK(lines)' /\ AckedDurable'
      BY <1>10, QuietStep DEF IoFails, Poison, fileVars
    <2> QED
      BY <1>10, <2>1 DEF IoFails, Poison, Finish, WalInv, LineOK, AheadOK, SyncedOK
  <1>11. CASE Close
    <2>1. LogOK(lines)' /\ AckedDurable'  BY <1>11, QuietStep DEF Close, fileVars
    <2> QED
      BY <1>11, <2>1
      DEF Close, WalInv, LineOK, AheadOK, SyncedOK, fileVars, objVars, runVars, IdsOf, EndOf
  <1>12. CASE CloseDrained
    <2>1. LogOK(lines)' /\ AckedDurable'  BY <1>12, QuietStep DEF CloseDrained, fileVars
    <2> QED
      BY <1>12, <2>1
      DEF CloseDrained, WalInv, LineOK, AheadOK, SyncedOK, fileVars, objVars, runVars, IdsOf, EndOf
  <1>13. ASSUME NEW ok \in BOOLEAN, CloseSync(ok)
         PROVE  WalInv'
    <2>1. UNCHANGED <<lines, torn, wal, records, bytes, stage, line, left, acked>>
          /\ durable' \in {durable, Len(lines)}
      BY <1>13 DEF CloseSync, objVars, runVars
    <2>2. LogOK(lines)'  BY <2>1 DEF WalInv, LogOK, LengthAt
    <2>3. durable \in 0..Len(lines) /\ Len(lines) \in Nat
      BY LenProperties DEF TypeInv, WalTypeOK
    <2>4. AckedDurable'
      <3>1. \A a \in acked : a.rec.seq \in Nat  BY DEF TypeInv, WalTypeOK, Line
      <3> QED  BY <2>1, <2>3, <3>1 DEF WalInv, AckedDurable
    <2>5. LineOK' /\ AheadOK'  BY <2>1 DEF WalInv, LineOK, AheadOK, IdsOf, EndOf
    <2> QED  BY <2>1, <2>2, <2>4, <2>5 DEF WalInv, SyncedOK
  <1>14. ASSUME NEW ok \in BOOLEAN, CloseFile(ok)
         PROVE  WalInv'
    <2>1. UNCHANGED <<lines, torn, durable, records, bytes, stage, acked>>
          /\ stage = "idle" /\ wal' \in {wal, "poisoned"}
      BY <1>14 DEF CloseFile, fileVars, runVars, TypeInv, RunningOK
    <2>2. LogOK(lines)' /\ AckedDurable'  BY <2>1, QuietStep
    <2> QED  BY <2>1, <2>2 DEF WalInv, LineOK, AheadOK, SyncedOK, EndOf
  <1>15. CASE ProcessExit
    <2>1. LogOK(lines)' /\ AckedDurable'
      BY <1>15, QuietStep DEF ProcessExit, Forget, fileVars
    <2> QED
      BY <1>15, <2>1 DEF ProcessExit, Forget, WalInv, LineOK, AheadOK, SyncedOK
  <1>16. ASSUME NEW kept \in 0..Len(lines), NEW partial \in 0..MaxRecordBytes,
                MachineStop(kept, partial)
         PROVE  WalInv'
    <2>1. lines' = SubSeq(lines, 1, kept) /\ durable' = kept /\ kept \in durable..Len(lines)
          /\ wal' = "down" /\ stage' = "idle" /\ acked' = acked
      BY <1>16 DEF MachineStop, Forget
    <2>2. LogOK(lines') /\ \A i \in 1..kept : lines'[i] = lines[i]
      BY <2>1, LogPrefix DEF TypeInv, WalTypeOK, WalInv
    <2>3. LogOK(lines)'  BY <2>2 DEF LogOK, LengthAt
    <2>4. AckedDurable'
      <3>1. durable \in 0..Len(lines) /\ Len(lines) \in Nat
        BY LenProperties DEF TypeInv, WalTypeOK
      <3>2. \A a \in acked : a.rec.seq \in Nat  BY DEF TypeInv, WalTypeOK, Line
      <3>3. \A a \in acked : a.rec.seq < kept /\ a.rec.seq + 1 \in 1..kept
        BY <2>1, <3>1, <3>2 DEF WalInv, AckedDurable
      <3> QED  BY <2>1, <2>2, <3>3 DEF WalInv, AckedDurable
    <2> QED  BY <2>1, <2>3, <2>4 DEF WalInv, LineOK, AheadOK, SyncedOK
  <1>17. CASE UNCHANGED walVars
    <2>1. LogOK(lines)' /\ AckedDurable'  BY <1>17, QuietStep DEF walVars
    <2> QED
      BY <1>17, <2>1 DEF walVars, WalInv, LineOK, AheadOK, SyncedOK, IdsOf, EndOf
  <1> QED
    BY <1>1, <1>2, <1>3, <1>4, <1>5, <1>6, <1>7, <1>8, <1>9, <1>10, <1>11, <1>12, <1>13,
       <1>14, <1>15, <1>16, <1>17
    DEF WalNext, WalWork, WalCrash

\* The first state satisfies both parts of the invariant.
LEMMA InvInit == WalInit => TypeInv /\ WalInv
  <1> SUFFICES ASSUME WalInit PROVE TypeInv /\ WalInv
    OBVIOUS
  <1>1. TypeInv
    BY NoLineType, EmptySeq
    DEF WalInit, TypeInv, WalTypeOK, RunningOK, WalStates, Stages, CloserStates, CallStates
  <1>2. LogOK(lines)
    <2>1. lines = <<>> /\ Len(lines) = 0  BY EmptySeq DEF WalInit
    <2>2. 1..Len(lines) = {}  BY <2>1
    <2> QED  BY <2>1, <2>2, WalAssumption DEF LogOK
  <1>3. LineOK /\ AheadOK /\ SyncedOK /\ AckedDurable
    BY DEF WalInit, LineOK, AheadOK, SyncedOK, AckedDurable
  <1> QED  BY <1>1, <1>2, <1>3 DEF WalInv

\* The whole invariant holds of every behaviour.
LEMMA Invariant == WalSpec => [](TypeInv /\ WalInv)
  <1>1. WalInit => TypeInv /\ WalInv  BY InvInit
  <1>2. (TypeInv /\ WalInv) /\ [WalNext]_walVars => (TypeInv /\ WalInv)'
    BY TypeStep, InvStep
  <1> QED  BY <1>1, <1>2, PTL DEF WalSpec

(***************************************************************************)
(* Durability of #append(): what it resolved with survives, in place,      *)
(* every crash, failed append, restart and later append.                   *)
(***************************************************************************)
THEOREM Durability == WalSpec => []AckedDurable
  <1>1. TypeInv /\ WalInv => AckedDurable  BY DEF WalInv
  <1> QED  BY <1>1, Invariant, PTL

(***************************************************************************)
(* #current and #bytes describe the file exactly whenever an append could  *)
(* begin, so the sequence number, the duplicate check and the limits of    *)
(* #append() are decided on the file as it is.                             *)
(***************************************************************************)
THEOREM Mirroring == WalSpec => []MirrorsFile
  <1>1. TypeInv /\ WalInv => MirrorsFile
    BY EndType DEF TypeInv, WalTypeOK, WalInv, AheadOK, MirrorsFile, FileSize
  <1> QED  BY <1>1, Invariant, PTL

(***************************************************************************)
(* recover() refuses no file this code wrote but one that ends inside a    *)
(* line, whatever limits, failures and crashes came before.                *)
(***************************************************************************)
THEOREM Recovery == WalSpec => []OnlyTornRefused
  <1>1. TypeInv /\ WalInv => OnlyTornRefused
    BY GoodLogRecovers DEF TypeInv, WalTypeOK, WalInv, OnlyTornRefused
  <1> QED  BY <1>1, Invariant, PTL

(***************************************************************************)
(* All of it together, for every number of calls, ids, limits and process  *)
(* lifetimes: what the run checks on two appends over three lifetimes.     *)
(***************************************************************************)
THEOREM WalIsSafe == WalSpec => []WalSafe
  <1>1. (WalTypeOK /\ RunningOK) /\ AckedDurable /\ MirrorsFile /\ OnlyTornRefused => WalSafe
    BY DEF WalSafe
  <1> QED  BY <1>1, TypeCorrect, Durability, Mirroring, Recovery, PTL

(***************************************************************************)
(* Append-only (O_APPEND, no truncation in recover()): no step, a stop     *)
(* of the machine and the next open included, changes or removes a line    *)
(* that was fsynced.                                                       *)
(***************************************************************************)
AppendOnly ==
    [][ /\ durable <= durable'
        /\ \A i \in 1..durable : lines'[i] = lines[i] ]_walVars

\* No step, whatever it does to the rest of the file, touches the durable prefix.
LEMMA DurablePrefixStep ==
  ASSUME TypeInv, WalInv, [WalNext]_walVars
  PROVE  /\ durable <= durable'
         /\ \A i \in 1..durable : lines'[i] = lines[i]
  <1>1. durable \in 0..Len(lines) /\ Len(lines) \in Nat /\ lines \in Seq(Line)
    BY LenProperties DEF TypeInv, WalTypeOK
  <1>2. ASSUME NEW n \in 1..MaxRecordBytes, Write(n)
        PROVE  durable' = durable /\ \A i \in 1..Len(lines) : lines'[i] = lines[i]
    <2> DEFINE l == [id |-> line.id, seq |-> line.seq, end |-> FileSize + n]
    <2>1. FileSize \in Nat /\ line \in Line  BY EndType DEF TypeInv, WalTypeOK, FileSize
    <2>2. l \in Line  BY <2>1 DEF Line
    <2>3. \A i \in 1..Len(lines) : Append(lines, l)[i] = lines[i]
      BY <1>1, <2>2, AppendProperties
    <2>4. durable' = durable /\ (lines' = lines \/ lines' = Append(lines, l))
      BY <1>2 DEF Write
    <2> HIDE DEF l
    <2> QED  BY <2>3, <2>4
  <1>3. ASSUME NEW kept \in 0..Len(lines), NEW partial \in 0..MaxRecordBytes,
               MachineStop(kept, partial)
        PROVE  durable <= durable' /\ \A i \in 1..durable : lines'[i] = lines[i]
    <2>1. lines' = SubSeq(lines, 1, kept) /\ durable' = kept /\ kept \in durable..Len(lines)
      BY <1>3 DEF MachineStop
    <2>2. \A i \in 1..kept : lines'[i] = lines[i]
      BY <1>1, <2>1, LogPrefix DEF WalInv
    <2> QED  BY <1>1, <2>1, <2>2
  <1>4. CASE Sync \/ \E ok \in BOOLEAN : CloseSync(ok)
    BY <1>1, <1>4 DEF Sync, CloseSync
  <1>5. CASE UNCHANGED <<lines, durable>>  BY <1>1, <1>5
  <1>6. \/ \E n \in 1..MaxRecordBytes : Write(n)
        \/ \E kept \in 0..Len(lines), partial \in 0..MaxRecordBytes : MachineStop(kept, partial)
        \/ Sync \/ \E ok \in BOOLEAN : CloseSync(ok)
        \/ UNCHANGED <<lines, durable>>
    BY DEF WalNext, WalWork, WalCrash, Open, OpenFails, AppendCall, AbortAppend, BeginAppend,
           RefuseAppend, Poison, Commit, IoFails, Close, CloseDrained, CloseFile, ProcessExit,
           fileVars, walVars
  <1> QED  BY <1>1, <1>2, <1>3, <1>4, <1>5, <1>6

\* What fsync() covered is never rewritten: recovery neither truncates nor edits.
THEOREM DurablePrefixFixed == WalSpec => AppendOnly
  <1>1. TypeInv /\ WalInv /\ [WalNext]_walVars =>
           [ /\ durable <= durable'
             /\ \A i \in 1..durable : lines'[i] = lines[i] ]_walVars
    BY DurablePrefixStep
  <1> QED  BY <1>1, Invariant, PTL DEF WalSpec, AppendOnly

-----------------------------------------------------------------------------
(* The authorization server: it uses the audit WAL only as the WAL's own    *)
(* specification allows, so what is proved of the WAL holds of the          *)
(* composition, and write-ahead and custody follow.                         *)

(***************************************************************************)
(* The composition, seen through the WAL's variables, is the WAL: an       *)
(* admitted check is an append() and the manager's close a close(); every  *)
(* other step of the server leaves the WAL alone.                          *)
(***************************************************************************)
LEMMA AuthzStepIsWal ==
    ASSUME [AuthzNext]_authzVars
    PROVE  [WalNext]_walVars
  <1>1. CASE (Open \/ OpenFails \/ WalWork) /\ UNCHANGED srvVars
    BY <1>1 DEF WalNext
  <1>2. CASE StartServer \/ CloseServer \/ SrvWork
    BY <1>2 DEF StartServer, CloseServer, SrvWork, CheckResumes, SocketsDown, ServerRetired
  <1>3. ASSUME NEW c \in Calls, Cancel(c) \/ \E answer \in Replies : CheckReplies(c, answer)
        PROVE  [WalNext]_walVars
    BY <1>3 DEF Cancel, CheckReplies
  <1>4. ASSUME NEW c \in Calls, CheckAdmitted(c)
        PROVE  [WalNext]_walVars
    BY <1>4 DEF CheckAdmitted, WalNext
  <1>5. CASE CloseWal
    BY <1>5 DEF CloseWal, WalNext
  <1>6. CASE Crash
    BY <1>6 DEF Crash, WalNext
  <1>7. CASE UNCHANGED authzVars
    BY <1>7 DEF authzVars, walVars
  <1> QED  BY <1>1, <1>2, <1>3, <1>4, <1>5, <1>6, <1>7 DEF AuthzNext

\* So whatever is proved of the WAL holds of the server's log.
THEOREM ServerUsesWal == AuthzSpec => WalSpec
  <1>1. AuthzInit => WalInit
    BY DEF AuthzInit
  <1>2. [AuthzNext]_authzVars => [WalNext]_walVars
    BY AuthzStepIsWal
  <1> QED  BY <1>1, <1>2, PTL DEF AuthzSpec, WalSpec

-----------------------------------------------------------------------------
(***************************************************************************)
(* Write-ahead.                                                            *)
(***************************************************************************)

\* An append() that resolved left a record of its own.
OkAcked == \A c \in Calls : call[c] = "ok" => \E a \in acked : a.by = c

\* Only Commit resolves an append, and nothing takes an acknowledgement back.
LEMMA OkAckedStep == TypeInv /\ OkAcked /\ [WalNext]_walVars => OkAcked'
  <1> SUFFICES ASSUME TypeInv, OkAcked, [WalNext]_walVars PROVE OkAcked'
    OBVIOUS
  <1> USE DEF OkAcked, TypeInv, WalTypeOK, RunningOK
  <1>1. CASE Commit
    <2>1. Head(chain) \in Calls
      BY <1>1 DEF Commit
    <2>2. acked' = acked \cup {[by |-> Head(chain), rec |-> line]}
      BY <1>1 DEF Commit
    <2>3. ASSUME NEW c \in Calls, call'[c] = "ok"
          PROVE  \E a \in acked' : a.by = c
      <3>1. CASE c = Head(chain)
        <4>1. [by |-> c, rec |-> line] \in acked'
          BY <2>2, <3>1
        <4> QED  BY <4>1
      <3>2. CASE c # Head(chain)
        BY <1>1, <2>1, <2>2, <2>3, <3>2 DEF Commit, Finish
      <3> QED  BY <3>1, <3>2
    <2> QED  BY <2>3
  <1>2. ASSUME NEW outcome \in {"failed", "aborted"}, Finish(outcome), UNCHANGED acked
        PROVE  OkAcked'
    BY <1>2 DEF Finish
  <1>3. CASE Poison
    BY <1>3, <1>2 DEF Poison
  <1>4. CASE IoFails \/ AbortAppend
    BY <1>4, <1>2, <1>3 DEF IoFails, AbortAppend
  <1>5. ASSUME NEW id \in Ids, NEW length \in Lengths, RefuseAppend(id, length)
        PROVE  OkAcked'
    BY <1>5, <1>3 DEF RefuseAppend
  <1>6. ASSUME NEW c \in Calls, AppendCall(c) PROVE OkAcked'
    BY <1>6 DEF AppendCall
  <1>7. CASE WalCrash
    BY <1>7 DEF WalCrash, ProcessExit, MachineStop, Forget
  <1>8. CASE UNCHANGED <<call, acked>>
    BY <1>8
  <1>9. CASE WalWork
    <2>1. CASE \E id \in Ids, length \in Lengths : BeginAppend(id, length)
      BY <2>1, <1>8 DEF BeginAppend
    <2>2. CASE \E n \in 1..MaxRecordBytes : Write(n)
      BY <2>2, <1>8 DEF Write
    <2>3. CASE Sync \/ CloseDrained \/ \E ok \in BOOLEAN : CloseSync(ok) \/ CloseFile(ok)
      BY <2>3, <1>8 DEF Sync, CloseDrained, CloseSync, CloseFile
    <2> QED  BY <1>9, <2>1, <2>2, <2>3, <1>1, <1>4, <1>5 DEF WalWork
  <1>10. CASE Open \/ OpenFails \/ Close
    BY <1>10, <1>8 DEF Open, OpenFails, Close
  <1>11. CASE UNCHANGED walVars
    BY <1>11, <1>8 DEF walVars
  <1> QED  BY <1>4, <1>6, <1>7, <1>9, <1>10, <1>11 DEF WalNext

\* An allowed check holds such a record.
AllowAcked == \A c \in Calls : reply[c] = "allow" => \E a \in acked : a.by = c

\* No step of the WAL or a crash takes an acknowledgement back.
LEMMA AckedGrows == [WalNext]_walVars => acked \subseteq acked'
  <1> SUFFICES ASSUME [WalNext]_walVars PROVE acked \subseteq acked'
    OBVIOUS
  <1>1. CASE WalWork
    BY <1>1
    DEF WalWork, BeginAppend, RefuseAppend, Write, Sync, Commit, IoFails, Poison,
        CloseDrained, CloseSync, CloseFile
  <1>2. CASE WalCrash
    BY <1>2 DEF WalCrash, ProcessExit, MachineStop, Forget
  <1> QED
    BY <1>1, <1>2
    DEF WalNext, Open, OpenFails, AppendCall, AbortAppend, Close, walVars

\* A check is allowed only by CheckResumes, after its own append resolved.
LEMMA AllowAckedStep ==
    OkAcked /\ SrvTypeOK /\ AllowAcked /\ [AuthzNext]_authzVars /\ [WalNext]_walVars
        => AllowAcked'
  <1> SUFFICES ASSUME OkAcked, SrvTypeOK, AllowAcked, [AuthzNext]_authzVars, [WalNext]_walVars
               PROVE  AllowAcked'
    OBVIOUS
  <1>1. ASSUME NEW c \in Calls, reply'[c] = "allow", reply[c] # "allow"
        PROVE  call[c] = "ok"
    <2>1. CASE SrvWork
      BY <2>1, <1>1 DEF SrvWork, CheckResumes, SocketsDown, ServerRetired, SrvTypeOK
    <2>2. CASE \E d \in Calls, answer \in Replies : CheckReplies(d, answer)
      BY <2>2, <1>1 DEF CheckReplies, SrvTypeOK
    <2>3. CASE \E d \in Calls : Cancel(d) \/ CheckAdmitted(d)
      BY <2>3, <1>1 DEF Cancel, CheckAdmitted
    <2>4. CASE StartServer \/ CloseServer \/ CloseWal
      BY <2>4, <1>1 DEF StartServer, CloseServer, CloseWal, srvVars
    <2>5. CASE Crash
      BY <2>5, <1>1 DEF Crash
    <2>6. CASE UNCHANGED srvVars
      BY <2>6, <1>1 DEF srvVars
    <2> QED  BY <2>1, <2>2, <2>3, <2>4, <2>5, <2>6 DEF AuthzNext, authzVars, srvVars
  <1> QED  BY <1>1, AckedGrows DEF AllowAcked, OkAcked

-----------------------------------------------------------------------------
(***************************************************************************)
(* Custody.                                                                *)
(***************************************************************************)

\* The verifier lives as long as the server, checks are active only inside it,
\* and the WAL is closed only after it.
CustodyOK ==
    /\ verifier = "live" <=> srv \notin {"off", "closed", "failed"}
    /\ active # {} => verifier = "live"
    /\ closer # "none" => srv \in {"closed", "off"}

\* Custody and the server's types are preserved by every step.
LEMMA CustodyStep == SrvTypeOK /\ CustodyOK /\ [AuthzNext]_authzVars => SrvTypeOK' /\ CustodyOK'
  <1> SUFFICES ASSUME SrvTypeOK, CustodyOK, [AuthzNext]_authzVars PROVE SrvTypeOK' /\ CustodyOK'
    OBVIOUS
  <1> USE DEF SrvTypeOK, CustodyOK, SrvStates, Replies
  <1>1. CASE (Open \/ OpenFails) /\ UNCHANGED srvVars
    BY <1>1 DEF Open, OpenFails, closeVars, srvVars
  <1>2. CASE WalWork /\ UNCHANGED srvVars
    <2>1. closer = "none" => closer' = "none"
      BY <1>2
      DEF WalWork, BeginAppend, RefuseAppend, Write, Sync, Commit, IoFails, Poison,
          CloseDrained, CloseSync, CloseFile, closeVars
    <2> QED  BY <1>2, <2>1 DEF srvVars
  <1>3. CASE StartServer
    BY <1>3 DEF StartServer, Ready, walVars
  <1>4. ASSUME NEW c \in Calls, Cancel(c) PROVE SrvTypeOK' /\ CustodyOK'
    BY <1>4 DEF Cancel, walVars
  <1>5. ASSUME NEW c \in Calls, CheckAdmitted(c) PROVE SrvTypeOK' /\ CustodyOK'
    BY <1>5 DEF CheckAdmitted, Serving, AppendCall, closeVars
  <1>6. ASSUME NEW c \in Calls, NEW answer \in Replies, CheckReplies(c, answer)
        PROVE  SrvTypeOK' /\ CustodyOK'
    BY <1>6 DEF CheckReplies, walVars
  <1>7. ASSUME NEW c \in Calls, CheckResumes(c) PROVE SrvTypeOK' /\ CustodyOK'
    BY <1>7 DEF CheckResumes, walVars
  <1>8. ASSUME NEW ok \in BOOLEAN, SocketsDown(ok) PROVE SrvTypeOK' /\ CustodyOK'
    BY <1>8 DEF SocketsDown, walVars
  <1>9. CASE ServerRetired \/ CloseServer
    BY <1>9 DEF ServerRetired, CloseServer, walVars
  <1>10. CASE CloseWal
    BY <1>10 DEF CloseWal, srvVars
  <1>11. CASE Crash
    <2>1. closer' = "none"
      BY <1>11 DEF Crash, WalCrash, ProcessExit, MachineStop, Forget
    <2> QED  BY <1>11, <2>1 DEF Crash
  <1>12. CASE UNCHANGED authzVars
    BY <1>12 DEF authzVars
  <1> QED
    BY <1>1, <1>2, <1>3, <1>4, <1>5, <1>6, <1>7, <1>8, <1>9, <1>10, <1>11, <1>12
    DEF AuthzNext, SrvWork

-----------------------------------------------------------------------------
(***************************************************************************)
(* The theorems.                                                           *)
(***************************************************************************)

AuthzInv == OkAcked /\ AllowAcked /\ SrvTypeOK /\ CustodyOK

\* The invariant, together with those of the WAL, holds throughout.
LEMMA AuthzInvariant == AuthzSpec => [](AuthzInv /\ TypeInv /\ AckedDurable)
  <1>1. AuthzInit => AuthzInv
    <2> SUFFICES ASSUME AuthzInit PROVE AuthzInv
      OBVIOUS
    <2>1. OkAcked /\ AllowAcked
      BY DEF AuthzInit, WalInit, OkAcked, AllowAcked
    <2>2. SrvTypeOK
      BY DEF AuthzInit, SrvTypeOK, SrvStates, Replies
    <2>3. CustodyOK
      BY DEF AuthzInit, WalInit, CustodyOK
    <2> QED  BY <2>1, <2>2, <2>3 DEF AuthzInv
  <1>2. AuthzInv /\ TypeInv /\ [AuthzNext]_authzVars /\ [WalNext]_walVars => AuthzInv'
    BY OkAckedStep, AllowAckedStep, CustodyStep DEF AuthzInv
  <1>3. WalSpec => [](TypeInv /\ AckedDurable) /\ [][WalNext]_walVars
    BY TypeCorrect, Durability, PTL DEF TypeInv, WalSpec
  <1> QED  BY <1>1, <1>2, <1>3, ServerUsesWal, PTL DEF AuthzSpec

\* An allowed check's record is where the durable prefix has it.
LEMMA AckedIsAhead == AllowAcked /\ TypeInv /\ AckedDurable => AllowDurable
  <1> SUFFICES ASSUME AllowAcked, TypeInv, AckedDurable,
                      NEW c \in Calls, reply[c] = "allow"
               PROVE  \E i \in 1..durable : [by |-> c, rec |-> lines[i]] \in acked
    BY DEF AllowDurable
  <1>1. PICK a \in acked : a.by = c
    BY DEF AllowAcked
  <1>2. a \in [by : Calls, rec : Line] /\ a.rec \in Line /\ durable \in Nat
    BY DEF TypeInv, WalTypeOK
  <1>3. a.rec.seq \in Nat /\ a.rec.seq < durable /\ lines[a.rec.seq + 1] = a.rec
    BY <1>2 DEF AckedDurable, Line
  <1>4. [by |-> c, rec |-> lines[a.rec.seq + 1]] = a
    BY <1>1, <1>2, <1>3
  <1>5. a.rec.seq + 1 \in 1..durable
    BY <1>2, <1>3
  <1> QED  BY <1>4, <1>5

(***************************************************************************)
(* Write-ahead: Envoy is told to forward a request only when the intent of *)
(* that check is on stable storage, whatever happened during the await.    *)
(***************************************************************************)
THEOREM WriteAhead == AuthzSpec => []AllowDurable
  BY AckedIsAhead, AuthzInvariant, PTL DEF AuthzInv

\* Secrets and WAL stay with the server while any admitted check is running.
THEOREM ClosingKeepsCustody == AuthzSpec => []ChecksKeepCustody
  <1>1. CustodyOK => ChecksKeepCustody
    BY DEF CustodyOK, ChecksKeepCustody
  <1> QED  BY <1>1, AuthzInvariant, PTL DEF AuthzInv

-----------------------------------------------------------------------------
(* The completion queue over the authorization server and the audit WAL.    *)

(***************************************************************************)
(* The composition, seen through the variables of the server and the WAL,  *)
(* is theirs: the queue only reads the WAL's records.                      *)
(***************************************************************************)
LEMMA EgressStepIsAuthz ==
    ASSUME [EgressNext]_egressVars
    PROVE  [AuthzNext]_authzVars
  <1>1. CASE OpenWithQueue
    BY <1>1 DEF OpenWithQueue, AuthzNext
  <1>2. CASE OpenFails /\ UNCHANGED <<srvVars, queueVars>>
    BY <1>2 DEF AuthzNext
  <1>3. CASE ServerStep
    BY <1>3 DEF ServerStep, Forwarding, FileWork, AuthzNext
  <1>4. CASE ReleaseWal
    BY <1>4 DEF ReleaseWal, AuthzNext
  <1>5. CASE EgressCrash
    BY <1>5 DEF EgressCrash, AuthzNext
  <1>6. CASE \/ StartEnvoy \/ EnvoyExits \/ UncorrelatedLine
             \/ AskReady \/ CaptureFinal \/ CloseQueue
    BY <1>6
    DEF StartEnvoy, EnvoyExits, UncorrelatedLine, AskReady, CaptureFinal, CloseQueue,
        authzVars, walVars, srvVars
  <1>7. CASE \/ \E c \in Calls : ForwardedLine(c)
             \/ \E id \in Ids, sameRoute, parses \in BOOLEAN : ForeignLine(id, sameRoute, parses)
             \/ \E limit \in 1..Capacity : Drain(limit) \/ TakeFinal(limit)
    BY <1>7 DEF ForwardedLine, ForeignLine, Drain, TakeFinal, authzVars, walVars, srvVars
  <1>8. CASE UNCHANGED egressVars
    BY <1>8 DEF egressVars, authzVars
  <1> QED
    BY <1>1, <1>2, <1>3, <1>4, <1>5, <1>6, <1>7, <1>8 DEF EgressNext

\* The queue, Envoy's lines and the order of closing take no step of the server
\* or the WAL that these do not allow.
THEOREM EgressUsesServer == EgressSpec => AuthzSpec
  <1>1. EgressInit => AuthzInit
    BY DEF EgressInit
  <1>2. [EgressNext]_egressVars => [AuthzNext]_authzVars
    BY EgressStepIsAuthz
  <1> QED  BY <1>1, <1>2, PTL DEF EgressSpec, AuthzSpec

-----------------------------------------------------------------------------
(***************************************************************************)
(* The appends.                                                            *)
(***************************************************************************)

\* The appends in the chain are unfinished calls, each there once.
Chained ==
    \A i, j \in 1..Len(chain) :
        call[chain[i]] = "queued" /\ (chain[i] = chain[j] => i = j)

\* An append resolves once, and no two with the same position of the log; an
\* open object knows every acknowledged record.
AckedOnce ==
    /\ \A a \in acked : call[a.by] = "ok"
    /\ \A a, b \in acked : a.by = b.by \/ a.rec.seq = b.rec.seq => a = b
    /\ wal = "open" => \A a \in acked : a.rec.seq < Len(records)

LEMMA FinishChained ==
    ASSUME TypeInv, Chained, chain # <<>>, NEW outcome \in CallStates, Finish(outcome)
    PROVE  /\ Chained'
           /\ Head(chain) \in Calls /\ call[Head(chain)] = "queued"
           /\ \A c \in Calls \ {Head(chain)} : call'[c] = call[c]
           /\ call'[Head(chain)] = outcome
           /\ Range(chain') \subseteq Range(chain) \ {Head(chain)}
  <1>1. chain \in Seq(Calls) /\ call \in [Calls -> CallStates] /\ Len(chain) \in Nat \ {0}
    BY EmptySeq DEF TypeInv, WalTypeOK
  <1>2. Head(chain) = chain[1] /\ chain[1] \in Calls /\ 1 \in 1..Len(chain)
    BY <1>1
  <1>3. /\ chain' = Tail(chain) /\ Len(chain') = Len(chain) - 1
        /\ \A i \in 1..Len(chain') : chain'[i] = chain[i + 1] /\ i + 1 \in 1..Len(chain)
    BY <1>1 DEF Finish
  <1>4. \A i \in 1..Len(chain') : chain'[i] \in Calls /\ chain'[i] # Head(chain)
    BY <1>1, <1>2, <1>3 DEF Chained
  <1>5. call' = [call EXCEPT ![Head(chain)] = outcome]
    BY DEF Finish
  <1>6. Chained'
    BY <1>1, <1>3, <1>4, <1>5 DEF Chained
  <1>7. Range(chain') \subseteq Range(chain) \ {Head(chain)}
    <2>1. DOMAIN chain' = 1..Len(chain') /\ DOMAIN chain = 1..Len(chain)
      BY <1>1, <1>3
    <2> QED  BY <2>1, <1>3, <1>4 DEF Range
  <1> QED  BY <1>1, <1>2, <1>5, <1>6, <1>7 DEF Chained

\* An append that ends without a record leaves the acknowledged ones as they were.
LEMMA UnackedFinish ==
    ASSUME TypeInv, Chained, AckedOnce, chain # <<>>,
           NEW outcome \in {"failed", "aborted"}, Finish(outcome),
           acked' = acked, records' = records, wal' \in {wal, "poisoned"}
    PROVE  Chained' /\ AckedOnce'
  <1>1. outcome \in CallStates
    BY DEF CallStates
  <1>2. /\ Chained' /\ call[Head(chain)] = "queued"
        /\ \A c \in Calls \ {Head(chain)} : call'[c] = call[c]
    BY <1>1, FinishChained
  <1>3. \A a \in acked : a.by \in Calls /\ a.by # Head(chain)
    BY <1>2 DEF AckedOnce, TypeInv, WalTypeOK
  <1> QED  BY <1>2, <1>3 DEF AckedOnce

\* Commit publishes at a position no acknowledged record has.
LEMMA CommitAcks ==
    ASSUME TypeInv, WalInv, Chained, AckedOnce, Commit
    PROVE  Chained' /\ AckedOnce'
  <1> DEFINE new == [by |-> Head(chain), rec |-> line]
  <1>1. wal = "open" /\ chain # <<>> /\ line.seq = Len(records)
    BY DEF Commit, TypeInv, RunningOK, WalInv, LineOK
  <1>2. Finish("ok") /\ "ok" \in CallStates /\ wal' = wal
    BY DEF Commit, CallStates
  <1>3. /\ Chained' /\ call[Head(chain)] = "queued" /\ call'[Head(chain)] = "ok"
        /\ \A c \in Calls \ {Head(chain)} : call'[c] = call[c]
    BY <1>1, <1>2, FinishChained
  <1>4. \A a \in acked : /\ a.by \in Calls /\ a.by # Head(chain)
                         /\ a.rec.seq \in Nat /\ a.rec.seq < Len(records)
    BY <1>1, <1>3 DEF AckedOnce, TypeInv, WalTypeOK, Line
  <1>5. acked' = acked \cup {new} /\ new.by = Head(chain) /\ new.rec.seq = Len(records)
    BY <1>1 DEF Commit
  <1>6. Len(records') = Len(records) + 1 /\ Len(records) \in Nat
    BY DEF Commit, TypeInv, WalTypeOK
  <1> HIDE DEF new
  <1>7. \A a \in acked' : call'[a.by] = "ok" /\ a.rec.seq < Len(records')
    BY <1>3, <1>4, <1>5, <1>6 DEF AckedOnce
  <1>8. \A a, b \in acked' : a.by = b.by \/ a.rec.seq = b.rec.seq => a = b
    BY <1>4, <1>5, <1>6 DEF AckedOnce
  <1> QED  BY <1>3, <1>7, <1>8 DEF AckedOnce

\* Both are kept by every step of the WAL.
LEMMA AppendsStep ==
    ASSUME TypeInv, WalInv, Chained, AckedOnce, [WalNext]_walVars
    PROVE  Chained' /\ AckedOnce'
  <1>a. /\ chain \in Seq(Calls) /\ call \in [Calls -> CallStates] /\ Len(chain) \in Nat
        /\ acked \in SUBSET [by : Calls, rec : Line]
    BY DEF TypeInv, WalTypeOK
  <1>1. CASE Commit
    BY <1>1, CommitAcks
  <1>2. CASE AbortAppend
    BY <1>2, UnackedFinish DEF AbortAppend, objVars
  <1>3. CASE \E id \in Ids, length \in Lengths : RefuseAppend(id, length)
    BY <1>3, UnackedFinish DEF RefuseAppend, Poison
  <1>4. CASE IoFails
    BY <1>4, UnackedFinish DEF IoFails, Poison, TypeInv, RunningOK
  <1>5. ASSUME NEW c \in Calls, AppendCall(c) PROVE Chained' /\ AckedOnce'
    <2>1. /\ call' = [call EXCEPT ![c] = "queued"] /\ call[c] = "new"
          /\ UNCHANGED <<acked, wal, records>>
      BY <1>5 DEF AppendCall, objVars
    <2>2. /\ Len(chain') = Len(chain) + 1 /\ chain'[Len(chain) + 1] = c
          /\ \A i \in 1..Len(chain) : chain'[i] = chain[i] /\ chain[i] \in Calls /\ chain[i] # c
      BY <1>5, <1>a, <2>1 DEF AppendCall, Chained
    <2>3. Chained'
      BY <1>a, <2>1, <2>2 DEF Chained
    <2>4. \A a \in acked : a.by \in Calls /\ a.by # c
      BY <1>a, <2>1 DEF AckedOnce
    <2> QED  BY <1>a, <2>1, <2>3, <2>4 DEF AckedOnce
  <1>6. CASE WalCrash
    <2>1. /\ wal' = "down" /\ chain' = <<>> /\ acked' = acked
          /\ call' = [c \in Calls |-> IF call[c] = "queued" THEN "lost" ELSE call[c]]
      BY <1>6 DEF WalCrash, ProcessExit, MachineStop, Forget
    <2>2. Chained'
      BY <2>1 DEF Chained
    <2> QED  BY <1>a, <2>1, <2>2 DEF AckedOnce
  <1>7. CASE Open
    <2>1. \A a \in acked : a.rec.seq < Len(lines)
      <3>1. durable \in Nat /\ Len(lines) \in Nat /\ durable <= Len(lines)
        BY DEF TypeInv, WalTypeOK
      <3>2. \A a \in acked : a.rec.seq \in Nat /\ a.rec.seq < durable
        BY <1>a DEF WalInv, AckedDurable, Line
      <3> QED  BY <3>1, <3>2
    <2> QED  BY <1>7, <2>1 DEF Open, runVars, Chained, AckedOnce
  <1>8. CASE UNCHANGED <<chain, call, acked, records>> /\ wal' \in {wal, "poisoned"}
    BY <1>8 DEF Chained, AckedOnce
  <1>9. CASE \/ OpenFails \/ Close \/ Sync \/ CloseDrained
             \/ \E ok \in BOOLEAN : CloseSync(ok) \/ CloseFile(ok)
             \/ \E n \in 1..MaxRecordBytes : Write(n)
             \/ \E id \in Ids, length \in Lengths : BeginAppend(id, length)
    BY <1>8, <1>9
    DEF OpenFails, Close, Sync, CloseDrained, CloseSync, CloseFile, Write, BeginAppend,
        runVars, objVars
  <1> QED
    BY <1>1, <1>2, <1>3, <1>4, <1>5, <1>6, <1>7, <1>8, <1>9 DEF WalNext, WalWork, walVars

\* Acknowledged records have distinct ids: they are lines of one good log.
LEMMA AckedIds ==
    ASSUME TypeInv, WalInv, AckedOnce
    PROVE  \A a, b \in acked : a.rec.id = b.rec.id => a = b
  <1> SUFFICES ASSUME NEW a \in acked, NEW b \in acked, a.rec.id = b.rec.id
               PROVE  a = b
    OBVIOUS
  <1>1. a.rec \in Line /\ b.rec \in Line /\ a.rec.seq \in Nat /\ b.rec.seq \in Nat
    BY DEF TypeInv, WalTypeOK, Line
  <1>2. durable \in 0..Len(lines) /\ Len(lines) \in Nat
    BY DEF TypeInv, WalTypeOK
  <1>3. /\ a.rec.seq < durable /\ lines[a.rec.seq + 1] = a.rec
        /\ b.rec.seq < durable /\ lines[b.rec.seq + 1] = b.rec
    BY DEF WalInv, AckedDurable
  <1>4. a.rec.seq + 1 \in 1..Len(lines) /\ b.rec.seq + 1 \in 1..Len(lines)
    BY <1>1, <1>2, <1>3
  <1>5. a.rec.seq + 1 = b.rec.seq + 1
    BY <1>3, <1>4 DEF WalInv, LogOK
  <1> QED  BY <1>1, <1>5 DEF AckedOnce

\* So no two allowed requests share an intent (newIntentId() and the ids recovered
\* from the file).
LEMMA DistinctAllows ==
    ASSUME TypeInv, WalInv, AckedOnce
    PROVE  AllowsDistinct
  BY AckedIds DEF AllowsDistinct

-----------------------------------------------------------------------------
(***************************************************************************)
(* The checks.                                                             *)
(***************************************************************************)

\* The appends in the chain are of admitted checks, which have not been answered.
Admitted ==
    /\ Range(chain) \subseteq active
    /\ \A c \in active : call[c] # "new" /\ reply[c] = "none"

\* The WAL's own steps let appends leave the chain, and make none new again.
LEMMA WorkFinishes ==
    ASSUME TypeInv, Chained, WalWork
    PROVE  /\ Range(chain') \subseteq Range(chain)
           /\ \A c \in Calls : call[c] # "new" => call'[c] # "new"
  <1> DEFINE Goal == /\ Range(chain') \subseteq Range(chain)
                     /\ \A c \in Calls : call[c] # "new" => call'[c] # "new"
  <1>1. ASSUME chain # <<>>, NEW outcome \in {"ok", "failed"}, Finish(outcome)
        PROVE  Goal
    <2>1. outcome \in CallStates
      BY DEF CallStates
    <2> QED  BY <1>1, <2>1, FinishChained
  <1>2. CASE Commit
    BY <1>1, <1>2 DEF Commit, TypeInv, RunningOK
  <1>3. CASE IoFails
    BY <1>1, <1>3 DEF IoFails, Poison, TypeInv, RunningOK
  <1>4. CASE \E id \in Ids, length \in Lengths : RefuseAppend(id, length)
    BY <1>1, <1>4 DEF RefuseAppend, Poison
  <1>5. CASE UNCHANGED <<chain, call>>
    BY <1>5
  <1>6. CASE \/ Sync \/ CloseDrained
             \/ \E ok \in BOOLEAN : CloseSync(ok) \/ CloseFile(ok)
             \/ \E n \in 1..MaxRecordBytes : Write(n)
             \/ \E id \in Ids, length \in Lengths : BeginAppend(id, length)
    BY <1>5, <1>6 DEF Sync, CloseDrained, CloseSync, CloseFile, Write, BeginAppend, runVars
  <1> QED  BY <1>2, <1>3, <1>4, <1>6 DEF WalWork

\* Admission is kept by every step of the server.
LEMMA AdmittedStep ==
    ASSUME TypeInv, SrvTypeOK, Chained, Admitted, [AuthzNext]_authzVars
    PROVE  Admitted'
  <1>a. /\ chain \in Seq(Calls) /\ Len(chain) \in Nat /\ call \in [Calls -> CallStates]
        /\ DOMAIN chain = 1..Len(chain) /\ reply \in [Calls -> Replies]
        /\ active \subseteq Calls
    BY DEF TypeInv, WalTypeOK, SrvTypeOK
  <1>1. CASE (Open \/ OpenFails) /\ UNCHANGED srvVars
    BY <1>1 DEF Open, OpenFails, runVars, srvVars, Admitted
  <1>2. CASE WalWork /\ UNCHANGED srvVars
    BY <1>a, <1>2, WorkFinishes DEF srvVars, Admitted
  <1>3. ASSUME NEW c \in Calls, CheckAdmitted(c) PROVE Admitted'
    <2>1. /\ chain' = Append(chain, c) /\ active' = active \cup {c} /\ reply' = reply
          /\ reply[c] = "none" /\ call' = [call EXCEPT ![c] = "queued"]
      BY <1>3 DEF CheckAdmitted, AppendCall
    <2>2. Range(chain') \subseteq Range(chain) \cup {c}
      <3>1. /\ DOMAIN chain' = 1..Len(chain) + 1 /\ chain'[Len(chain) + 1] = c
            /\ \A i \in 1..Len(chain) : chain'[i] = chain[i]
        BY <1>a, <2>1
      <3> QED  BY <1>a, <3>1 DEF Range
    <2> QED  BY <1>a, <2>1, <2>2 DEF Admitted
  <1>4. ASSUME NEW c \in Calls, CheckResumes(c) PROVE Admitted'
    <2>1. c \notin Range(chain)
      BY <1>4, <1>a DEF CheckResumes, Chained, Range
    <2>2. /\ active' = active \ {c} /\ UNCHANGED <<chain, call>>
          /\ \A d \in Calls \ {c} : reply'[d] = reply[d]
      BY <1>4, <1>a DEF CheckResumes, walVars
    <2> QED  BY <1>a, <2>1, <2>2 DEF Admitted
  <1>5. ASSUME NEW c \in Calls, NEW answer \in Replies, CheckReplies(c, answer)
        PROVE  Admitted'
    <2>1. /\ c \notin active /\ UNCHANGED <<chain, call, active>>
          /\ \A d \in Calls \ {c} : reply'[d] = reply[d]
      BY <1>5, <1>a DEF CheckReplies, walVars, Admitted
    <2> QED  BY <1>a, <2>1 DEF Admitted
  <1>6. CASE UNCHANGED <<chain, call, active, reply>>
    BY <1>6 DEF Admitted
  <1>7. CASE \/ StartServer \/ CloseServer \/ ServerRetired \/ CloseWal
             \/ \E ok \in BOOLEAN : SocketsDown(ok)
             \/ \E c \in Calls : Cancel(c)
             \/ UNCHANGED authzVars
    BY <1>6, <1>7
    DEF StartServer, CloseServer, ServerRetired, CloseWal, Close, SocketsDown, Cancel,
        walVars, runVars, srvVars, authzVars
  <1>8. CASE Crash
    <2>1. chain' = <<>> /\ active' = {}
      BY <1>8 DEF Crash, WalCrash, ProcessExit, MachineStop, Forget
    <2>2. Range(chain') = {}
      BY <2>1 DEF Range
    <2> QED  BY <2>1, <2>2 DEF Admitted
  <1> QED
    BY <1>1, <1>2, <1>3, <1>4, <1>5, <1>7, <1>8 DEF AuthzNext, SrvWork

-----------------------------------------------------------------------------
(***************************************************************************)
(* Lemmas about the queue's sequences.                                     *)
(***************************************************************************)

\* The lesser of two bounds.
LEMMA MinPair ==
    ASSUME NEW a \in Nat, NEW b \in Nat
    PROVE  Min({a, b}) \in Nat /\ Min({a, b}) <= a /\ Min({a, b}) <= b
  <1>1. \E x \in {a, b} : \A y \in {a, b} : x <= y
    OBVIOUS
  <1> QED  BY <1>1 DEF Min

\* A sequence over a set is one over every larger set.
LEMMA SeqGrows ==
    ASSUME NEW S, NEW T, S \subseteq T, NEW s \in Seq(S)
    PROVE  s \in Seq(T)
  OBVIOUS

\* No element occurs twice in two sequences together.
Apart(s, t) ==
    /\ \A i, j \in 1..Len(s) : s[i] = s[j] => i = j
    /\ \A i, j \in 1..Len(t) : t[i] = t[j] => i = j
    /\ \A i \in 1..Len(s), j \in 1..Len(t) : s[i] # t[j]

LEMMA ApartInjective ==
    ASSUME NEW S, NEW s \in Seq(S), NEW t \in Seq(S), Apart(s, t)
    PROVE  IsInjective(s \o t)
  <1> DEFINE st == s \o t
  <1>1. /\ Len(s) \in Nat /\ Len(t) \in Nat /\ DOMAIN st = 1..Len(s) + Len(t)
        /\ \A i \in 1..Len(s) : st[i] = s[i]
        /\ \A i \in Len(s) + 1..Len(s) + Len(t) : st[i] = t[i - Len(s)]
    BY ConcatProperties
  <1> HIDE DEF st
  <1>2. ASSUME NEW i \in DOMAIN st, NEW j \in DOMAIN st, st[i] = st[j]
        PROVE  i = j
    <2>1. CASE i <= Len(s) /\ j <= Len(s)
      BY <1>1, <1>2, <2>1 DEF Apart
    <2>2. CASE i <= Len(s) /\ ~(j <= Len(s))
      <3>1. i \in 1..Len(s) /\ j - Len(s) \in 1..Len(t)
        BY <1>1, <2>2
      <3> QED  BY <1>1, <1>2, <2>2, <3>1 DEF Apart
    <2>3. CASE ~(i <= Len(s)) /\ j <= Len(s)
      <3>1. j \in 1..Len(s) /\ i - Len(s) \in 1..Len(t)
        BY <1>1, <2>3
      <3> QED  BY <1>1, <1>2, <2>3, <3>1 DEF Apart
    <2>4. CASE ~(i <= Len(s)) /\ ~(j <= Len(s))
      <3>1. i - Len(s) \in 1..Len(t) /\ j - Len(s) \in 1..Len(t)
        BY <1>1, <2>4
      <3>2. st[i] = t[i - Len(s)] /\ st[j] = t[j - Len(s)]
        BY <1>1, <2>4
      <3>3. i - Len(s) = j - Len(s)
        BY <1>2, <3>1, <3>2 DEF Apart
      <3> QED  BY <1>1, <3>3
    <2> QED  BY <2>1, <2>2, <2>3, <2>4
  <1> QED  BY <1>2 DEF IsInjective, st

\* A new element may be retained.
LEMMA ApartAppend ==
    ASSUME NEW S, NEW s \in Seq(S), NEW t \in Seq(S), Apart(s, t), NEW x, x \notin S
    PROVE  Apart(s, Append(t, x))
  <1> DEFINE u == Append(t, x)
  <1>1. /\ Len(u) = Len(t) + 1 /\ Len(t) \in Nat /\ u[Len(t) + 1] = x
        /\ \A i \in 1..Len(t) : u[i] = t[i] /\ t[i] \in S
        /\ \A i \in 1..Len(s) : s[i] \in S
    OBVIOUS
  <1> HIDE DEF u
  <1>2. \A i \in 1..Len(u) : i \in 1..Len(t) \/ (i = Len(t) + 1 /\ u[i] = x)
    BY <1>1
  <1>3. \A i, j \in 1..Len(u) : u[i] = u[j] => i = j
    BY <1>1, <1>2 DEF Apart
  <1>4. \A i \in 1..Len(s), j \in 1..Len(u) : s[i] # u[j]
    BY <1>1, <1>2 DEF Apart
  <1>5. Apart(s, u)
    BY <1>3, <1>4 DEF Apart
  <1> QED  BY <1>5 DEF u

\* drain() removes from the front of the retained ones.
LEMMA ApartDrop ==
    ASSUME NEW S, NEW s \in Seq(S), NEW t \in Seq(S), Apart(s, t), NEW n \in 0..Len(t)
    PROVE  /\ SubSeq(t, n + 1, Len(t)) \in Seq(S)
           /\ Len(SubSeq(t, n + 1, Len(t))) = Len(t) - n
           /\ Apart(s, SubSeq(t, n + 1, Len(t)))
           /\ Apart(t, s)
           /\ Apart(s, <<>>)
  <1> DEFINE u == SubSeq(t, n + 1, Len(t))
  <1>1. Len(t) \in Nat /\ n \in Nat /\ n <= Len(t)
    OBVIOUS
  <1>2. /\ u \in Seq(S) /\ Len(u) = Len(t) - n
        /\ \A i \in 1..Len(u) : u[i] = t[n + i] /\ n + i \in 1..Len(t)
    BY <1>1, SubSeqProperties
  <1> HIDE DEF u
  <1>3. \A i, j \in 1..Len(u) : u[i] = u[j] => i = j
    BY <1>1, <1>2 DEF Apart
  <1>4. Apart(s, u)
    BY <1>2, <1>3 DEF Apart
  <1>5. Apart(t, s) /\ Apart(s, <<>>)
    BY DEF Apart
  <1> QED  BY <1>2, <1>4, <1>5 DEF u

\* captureFinalCompletions() moves the front of the retained ones to the end of the
\* final ones.
LEMMA ApartMove ==
    ASSUME NEW S, NEW s \in Seq(S), NEW t \in Seq(S), Apart(s, t), NEW m \in 0..Len(t)
    PROVE  /\ s \o SubSeq(t, 1, m) \in Seq(S)
           /\ Len(SubSeq(t, 1, m)) = m
           /\ Len(s \o SubSeq(t, 1, m)) = Len(s) + m
           /\ Apart(s \o SubSeq(t, 1, m), SubSeq(t, m + 1, Len(t)))
           /\ Apart(s \o SubSeq(t, 1, m), <<>>)
  <1> DEFINE p == SubSeq(t, 1, m)
             u == SubSeq(t, m + 1, Len(t))
             v == s \o p
  <1>1. Len(t) \in Nat /\ m \in Nat /\ m <= Len(t) /\ Len(s) \in Nat
    OBVIOUS
  <1>2. /\ p \in Seq(S) /\ Len(p) = m
        /\ \A i \in 1..m : p[i] = t[i] /\ i \in 1..Len(t)
    BY <1>1, SubSeqProperties
  <1>3. /\ u \in Seq(S) /\ Len(u) = Len(t) - m
        /\ \A i \in 1..Len(u) : u[i] = t[m + i] /\ m + i \in 1..Len(t)
    BY <1>1, SubSeqProperties
  <1> HIDE DEF p, u
  <1>4. /\ v \in Seq(S) /\ Len(v) = Len(s) + m
        /\ \A i \in 1..Len(v) : v[i] = IF i <= Len(s) THEN s[i] ELSE p[i - Len(s)]
    BY <1>1, <1>2, ConcatProperties
  <1> HIDE DEF v
  <1>5. \A i \in 1..Len(v) : /\ i <= Len(s) => i \in 1..Len(s) /\ v[i] = s[i]
                             /\ ~(i <= Len(s)) => i - Len(s) \in 1..Len(t) /\ i - Len(s) <= m
                                                  /\ v[i] = t[i - Len(s)]
    BY <1>1, <1>2, <1>4
  <1>6. ASSUME NEW i \in 1..Len(v), NEW j \in 1..Len(v), v[i] = v[j] PROVE i = j
    <2>1. CASE i <= Len(s) /\ j <= Len(s)
      BY <1>5, <1>6, <2>1 DEF Apart
    <2>2. CASE (i <= Len(s)) # (j <= Len(s))
      BY <1>5, <1>6, <2>2 DEF Apart
    <2>3. CASE ~(i <= Len(s)) /\ ~(j <= Len(s))
      <3>1. i - Len(s) = j - Len(s)
        BY <1>5, <1>6, <2>3 DEF Apart
      <3> QED  BY <1>1, <1>4, <3>1
    <2> QED  BY <2>1, <2>2, <2>3
  <1>7. ASSUME NEW i \in 1..Len(v), NEW j \in 1..Len(u) PROVE v[i] # u[j]
    <2>1. j \in Nat /\ j >= 1 /\ u[j] = t[m + j] /\ m + j \in 1..Len(t)
      BY <1>1, <1>3
    <2>2. CASE i <= Len(s)
      BY <1>5, <2>1, <2>2 DEF Apart
    <2>3. CASE ~(i <= Len(s))
      <3>1. i - Len(s) # m + j
        BY <1>1, <1>4, <1>5, <2>1, <2>3
      <3> QED  BY <1>5, <2>1, <2>3, <3>1 DEF Apart
    <2> QED  BY <2>2, <2>3
  <1>8. \A i, j \in 1..Len(u) : u[i] = u[j] => i = j
    BY <1>1, <1>3 DEF Apart
  <1>9. Apart(v, u) /\ Apart(v, <<>>)
    BY <1>6, <1>7, <1>8 DEF Apart
  <1> QED  BY <1>2, <1>4, <1>9 DEF p, u, v

-----------------------------------------------------------------------------
(***************************************************************************)
(* The books of the queue.                                                 *)
(***************************************************************************)

Tally == [accepted : Nat, drained : Nat, dropped : Nat, uncorrelated : Nat]

\* What is drained, dropped, retained and kept as final adds up to what completed.
Books ==
    /\ completed \subseteq Completion /\ IsFiniteSet(completed)
    /\ retained \in Seq(completed) /\ final \in Seq(completed)
    /\ tally \in Tally
    /\ tally.accepted = Cardinality(completed)
    /\ tally.accepted = tally.drained + tally.dropped + Len(retained)
    /\ Len(retained) <= Capacity /\ Len(final) <= Capacity
    /\ Apart(final, retained)

bookVars == <<completed, retained, tally, final>>

\* The numbers of the books, apart from the sequences they count.
LEMMA BooksBalance ==
    ASSUME Books
    PROVE  /\ tally.accepted \in Nat /\ tally.drained \in Nat /\ tally.dropped \in Nat
           /\ Len(retained) \in Nat /\ Len(final) \in Nat
           /\ tally.accepted = tally.drained + tally.dropped + Len(retained)
           /\ Len(retained) <= Capacity /\ Len(final) <= Capacity
  <1>1. tally \in Tally /\ Len(retained) \in Nat /\ Len(final) \in Nat
    BY DEF Books
  <1>2. tally.accepted \in Nat /\ tally.drained \in Nat /\ tally.dropped \in Nat
    BY <1>1 DEF Tally
  <1> QED  BY <1>1, <1>2 DEF Books

\* One more accepted and one more retained leave the balance as it is.
LEMMA BalanceGrows ==
    ASSUME Books, Len(retained) < Capacity, Len(retained') = Len(retained) + 1,
           tally'.accepted = tally.accepted + 1, tally'.dropped = tally.dropped,
           tally'.drained = tally.drained
    PROVE  /\ tally'.accepted = tally'.drained + tally'.dropped + Len(retained')
           /\ Len(retained') <= Capacity
  <1>1. tally'.accepted = tally'.drained + tally'.dropped + Len(retained')
    BY BooksBalance
  <1>2. Len(retained') <= Capacity
    BY BooksBalance, QueueAssumption
  <1> QED  BY <1>1, <1>2

\* An accepted line adds one completion, which is new.
LEMMA AcceptLineBooks ==
    ASSUME Books, NEW id \in Ids, SequenceOf(id) \in Nat,
           id \notin {x.id : x \in completed}, AcceptLine(id), final' = final
    PROVE  Books'
  <1> DEFINE new == [id |-> id, seq |-> SequenceOf(id)]
  <1>1. new \in Completion /\ new.id = id
    BY DEF Completion
  <1>2. /\ completed' = completed \cup {new}
        /\ retained' = IF Len(retained) < Capacity THEN Append(retained, new) ELSE retained
        /\ tally' = [tally EXCEPT !.accepted = @ + 1,
                        !.dropped = IF Len(retained) < Capacity THEN @ ELSE @ + 1]
    BY DEF AcceptLine
  <1>3. new \notin completed
    BY <1>1
  <1> HIDE DEF new
  <1>4. /\ completed' \subseteq Completion /\ IsFiniteSet(completed')
        /\ Cardinality(completed') = Cardinality(completed) + 1
    BY <1>1, <1>2, <1>3, FS_AddElement DEF Books
  <1>5. /\ retained \in Seq(completed') /\ final' \in Seq(completed') /\ new \in completed'
    BY <1>2, SeqGrows DEF Books
  <1>6. tally \in Tally /\ Len(retained) \in Nat /\ Capacity \in Nat
    BY QueueAssumption DEF Books
  <1>7. CASE Len(retained) < Capacity
    <2>1. retained' = Append(retained, new) /\ Len(retained') = Len(retained) + 1
      BY <1>2, <1>5, <1>7
    <2>2. retained' \in Seq(completed')
      BY <1>5, <2>1
    <2>3. Apart(final, retained')
      BY <1>3, <2>1, ApartAppend DEF Books
    <2>4. /\ tally' \in Tally /\ tally'.accepted = tally.accepted + 1
          /\ tally'.dropped = tally.dropped /\ tally'.drained = tally.drained
      <3> DEFINE a == tally.accepted + 1
      <3>1. a \in Nat /\ tally.dropped \in Nat
        BY <1>6 DEF Tally
      <3>2. tally' = [tally EXCEPT !.accepted = a, !.dropped = tally.dropped]
        BY <1>2, <1>7
      <3> HIDE DEF a
      <3>3. /\ tally' \in Tally /\ tally'.accepted = a
            /\ tally'.dropped = tally.dropped /\ tally'.drained = tally.drained
        BY <1>6, <3>1, <3>2 DEF Tally
      <3> QED  BY <3>3 DEF a
    <2>5. /\ tally'.accepted = tally'.drained + tally'.dropped + Len(retained')
          /\ Len(retained') <= Capacity
      BY <1>7, <2>1, <2>4, BalanceGrows, Zenon
    <2> QED  BY <1>4, <1>5, <2>2, <2>3, <2>4, <2>5 DEF Books
  <1>8. CASE ~(Len(retained) < Capacity)
    <2>1. /\ tally' \in Tally /\ tally'.accepted = tally.accepted + 1
          /\ tally'.dropped = tally.dropped + 1 /\ tally'.drained = tally.drained
      <3> DEFINE a == tally.accepted + 1
                 p == tally.dropped + 1
      <3>1. a \in Nat /\ p \in Nat
        BY <1>6 DEF Tally
      <3>2. tally' = [tally EXCEPT !.accepted = a, !.dropped = p]
        BY <1>2, <1>8
      <3> HIDE DEF a, p
      <3>3. /\ tally' \in Tally /\ tally'.accepted = a
            /\ tally'.dropped = p /\ tally'.drained = tally.drained
        BY <1>6, <3>1, <3>2 DEF Tally
      <3> QED  BY <3>3 DEF a, p
    <2>2. retained' = retained
      BY <1>2, <1>8
    <2>3. tally'.accepted = tally'.drained + tally'.dropped + Len(retained')
      BY <2>1, <2>2, BooksBalance
    <2> QED  BY <1>4, <1>5, <2>1, <2>2, <2>3 DEF Books
  <1> QED  BY <1>7, <1>8

\* drain() of a usable queue takes the front of what is retained.
LEMMA DrainBooks ==
    ASSUME Books, NEW limit \in 1..Capacity, Drain(limit)
    PROVE  Books'
  <1>1. CASE QueueUsable
    <2> DEFINE n == Min({limit, Len(retained)})
    <2>1. Len(retained) \in Nat /\ tally \in Tally
      BY DEF Books
    <2>2. n \in 0..Len(retained)
      BY <2>1, MinPair
    <2>3. /\ retained' = SubSeq(retained, n + 1, Len(retained))
          /\ tally' = [tally EXCEPT !.drained = @ + n]
          /\ completed' = completed /\ final' = final
      BY <1>1 DEF Drain
    <2> HIDE DEF n
    <2>4. /\ retained' \in Seq(completed) /\ Len(retained') = Len(retained) - n
          /\ Apart(final, retained')
      BY <2>2, <2>3, ApartDrop DEF Books
    <2>5. /\ tally' \in Tally /\ tally'.drained = tally.drained + n
          /\ tally'.accepted = tally.accepted /\ tally'.dropped = tally.dropped
      <3> DEFINE d == tally.drained + n
      <3>1. d \in Nat /\ tally' = [tally EXCEPT !.drained = d]
        BY <2>1, <2>2, <2>3 DEF Tally
      <3> HIDE DEF d
      <3>2. /\ tally' \in Tally /\ tally'.drained = d
            /\ tally'.accepted = tally.accepted /\ tally'.dropped = tally.dropped
        BY <2>1, <3>1 DEF Tally
      <3> QED  BY <3>2 DEF d
    <2>6. /\ tally'.accepted = tally'.drained + tally'.dropped + Len(retained')
          /\ Len(retained') <= Capacity
      BY <2>2, <2>4, <2>5, BooksBalance, QueueAssumption
    <2> QED  BY <2>3, <2>4, <2>5, <2>6 DEF Books
  <1>2. CASE ~QueueUsable
    BY <1>2 DEF Drain, PoisonQueue, Books
  <1> QED  BY <1>1, <1>2

\* drainCompletions() takes the front of the final ones.
LEMMA TakeBooks ==
    ASSUME Books, NEW limit \in 1..Capacity, TakeFinal(limit)
    PROVE  Books'
  <1> DEFINE n == Min({limit, Len(final)})
  <1>1. Len(final) \in Nat /\ Apart(retained, final)
    BY ApartDrop DEF Books
  <1>2. n \in 0..Len(final)
    BY <1>1, MinPair
  <1>3. /\ final' = SubSeq(final, n + 1, Len(final))
        /\ UNCHANGED <<completed, retained, tally>>
    BY DEF TakeFinal
  <1> HIDE DEF n
  <1>4. final' \in Seq(completed) /\ Len(final') = Len(final) - n /\ Apart(retained, final')
    BY <1>1, <1>2, <1>3, ApartDrop DEF Books
  <1>5. Apart(final', retained)
    BY <1>4 DEF Apart
  <1>6. Len(final') <= Capacity
    BY <1>1, <1>2, <1>4, QueueAssumption DEF Books
  <1> QED  BY <1>3, <1>4, <1>5, <1>6 DEF Books

\* What is captured fits what the manager keeps.
LEMMA CapturedFits ==
    ASSUME Books
    PROVE  \E m \in 0..Len(retained) :
              /\ Captured = SubSeq(retained, 1, m) /\ Len(Captured) = m
              /\ Len(final) + m <= Capacity
  <1> DEFINE m == Min({Len(retained), Capacity - Len(final)})
  <1>1. Len(retained) \in Nat /\ Len(final) \in Nat /\ Capacity - Len(final) \in Nat
    BY QueueAssumption DEF Books
  <1>2. m \in 0..Len(retained) /\ m <= Capacity - Len(final)
    BY <1>1, MinPair
  <1>3. Captured = SubSeq(retained, 1, m)
    BY DEF Captured
  <1> HIDE DEF m
  <1>4. Len(Captured) = m
    BY <1>2, <1>3, ApartMove DEF Books
  <1> QED  BY <1>1, <1>2, <1>3, <1>4, QueueAssumption

\* Captured completions are drained from the queue into the final ones.
LEMMA CaptureBooks ==
    ASSUME Books, CaptureFinal
    PROVE  Books'
  <1>1. CASE QueueUsable
    <2>1. PICK m \in 0..Len(retained) :
              /\ Captured = SubSeq(retained, 1, m) /\ Len(Captured) = m
              /\ Len(final) + m <= Capacity
      BY CapturedFits
    <2>2. /\ final' = final \o SubSeq(retained, 1, m)
          /\ retained' = SubSeq(retained, m + 1, Len(retained))
          /\ tally' = [tally EXCEPT !.drained = @ + m] /\ completed' = completed
      BY <1>1, <2>1 DEF CaptureFinal
    <2>3. Len(retained) \in Nat /\ Len(final) \in Nat /\ tally \in Tally /\ m \in Nat
      BY DEF Books
    <2>4. /\ final' \in Seq(completed) /\ Len(final') = Len(final) + m
          /\ Apart(final', retained')
      BY <2>2, ApartMove DEF Books
    <2>5. retained' \in Seq(completed) /\ Len(retained') = Len(retained) - m
      BY <2>2, ApartDrop DEF Books
    <2>6. /\ tally' \in Tally /\ tally'.drained = tally.drained + m
          /\ tally'.accepted = tally.accepted /\ tally'.dropped = tally.dropped
      <3> DEFINE d == tally.drained + m
      <3>1. d \in Nat /\ tally' = [tally EXCEPT !.drained = d]
        BY <2>2, <2>3 DEF Tally
      <3> HIDE DEF d
      <3>2. /\ tally' \in Tally /\ tally'.drained = d
            /\ tally'.accepted = tally.accepted /\ tally'.dropped = tally.dropped
        BY <2>3, <3>1 DEF Tally
      <3> QED  BY <3>2 DEF d
    <2>7. /\ tally'.accepted = tally'.drained + tally'.dropped + Len(retained')
          /\ Len(retained') <= Capacity /\ Len(final') <= Capacity
      <3>1. m \in 0..Len(retained) /\ Len(final) + m <= Capacity
        BY <2>1
      <3>2. /\ tally'.drained = tally.drained + m /\ tally'.accepted = tally.accepted
            /\ tally'.dropped = tally.dropped /\ Len(retained') = Len(retained) - m
            /\ Len(final') = Len(final) + m
        BY <2>4, <2>5, <2>6
      <3>3. tally'.accepted = tally'.drained + tally'.dropped + Len(retained')
        BY <3>1, <3>2, BooksBalance
      <3>4. Len(retained') <= Capacity
        BY <3>1, <3>2, BooksBalance, QueueAssumption
      <3>5. Len(final') <= Capacity
        BY <3>1, <3>2
      <3> QED  BY <3>3, <3>4, <3>5
    <2> QED  BY <2>2, <2>4, <2>5, <2>6, <2>7 DEF Books
  <1>2. CASE ~QueueUsable
    BY <1>2 DEF CaptureFinal, PoisonQueue, Books
  <1> QED  BY <1>1, <1>2

\* close() drops what does not fit the final ones, or all of it when the queue has
\* failed.
LEMMA CloseBooks ==
    ASSUME Books, CloseQueue
    PROVE  Books'
  <1>1. CASE Ready
    <2>1. PICK m \in 0..Len(retained) :
              /\ final' = final \o SubSeq(retained, 1, m) /\ Len(final) + m <= Capacity
              /\ tally' = [tally EXCEPT !.drained = @ + m,
                                        !.dropped = @ + Len(retained) - m]
              /\ retained' = <<>> /\ completed' = completed
      <3>1. CASE poisoned
        <4>1. SubSeq(retained, 1, 0) = <<>> /\ Len(<<>>) = 0 /\ final \o <<>> = final
              /\ Len(final) \in Nat /\ Len(retained) \in Nat /\ 0 \in 0..Len(retained)
          BY SubSeqEmpty, EmptySeq, ConcatEmptySeq DEF Books
        <4>2. /\ final' = final \o <<>> /\ retained' = <<>> /\ completed' = completed
              /\ tally' = [tally EXCEPT !.drained = @ + Len(<<>>),
                                        !.dropped = @ + Len(retained) - Len(<<>>)]
          BY <1>1, <3>1 DEF CloseQueue
        <4>3. Len(final) + 0 <= Capacity
          BY <4>1, QueueAssumption DEF Books
        <4> QED  BY <4>1, <4>2, <4>3
      <3>2. CASE ~poisoned
        BY <1>1, <3>2, CapturedFits DEF CloseQueue
      <3> QED  BY <3>1, <3>2
    <2>2. /\ Len(retained) \in Nat /\ Len(final) \in Nat /\ tally \in Tally
          /\ m \in Nat /\ m <= Len(retained)
      BY DEF Books
    <2>3. /\ final' \in Seq(completed) /\ Len(final') = Len(final) + m
          /\ Apart(final', retained')
      BY <2>1, ApartMove DEF Books
    <2>4. retained' \in Seq(completed) /\ Len(retained') = 0
      BY <2>1, EmptySeq
    <2>5. /\ tally' \in Tally /\ tally'.drained = tally.drained + m
          /\ tally'.accepted = tally.accepted
          /\ tally'.dropped = tally.dropped + Len(retained) - m
      <3> DEFINE d == tally.drained + m
                 p == tally.dropped + Len(retained) - m
      <3>1. d \in Nat /\ p \in Nat /\ tally' = [tally EXCEPT !.drained = d, !.dropped = p]
        BY <2>1, <2>2 DEF Tally
      <3> HIDE DEF d, p
      <3>2. /\ tally' \in Tally /\ tally'.drained = d
            /\ tally'.accepted = tally.accepted /\ tally'.dropped = p
        BY <2>2, <3>1 DEF Tally
      <3> QED  BY <3>2 DEF d, p
    <2>6. /\ tally'.accepted = tally'.drained + tally'.dropped + Len(retained')
          /\ Len(retained') <= Capacity /\ Len(final') <= Capacity
      <3>1. m \in 0..Len(retained) /\ Len(final) + m <= Capacity
        BY <2>1
      <3>2. /\ tally'.drained = tally.drained + m /\ tally'.accepted = tally.accepted
            /\ tally'.dropped = tally.dropped + Len(retained) - m /\ Len(retained') = 0
            /\ Len(final') = Len(final) + m
        BY <2>3, <2>4, <2>5
      <3> QED  BY <3>1, <3>2, BooksBalance, QueueAssumption
    <2> QED  BY <2>1, <2>3, <2>4, <2>5, <2>6 DEF Books
  <1>2. CASE ~Ready
    BY <1>2 DEF CloseQueue, Books
  <1> QED  BY <1>1, <1>2

-----------------------------------------------------------------------------
(***************************************************************************)
(* The records of an open log, and a line that names one of them.          *)
(***************************************************************************)

\* #current is a prefix of the file, with its own positions and distinct ids.
LEMMA RecordsAreLines ==
    ASSUME TypeInv, WalInv, wal = "open"
    PROVE  /\ records \in Seq(Line) /\ Len(records) \in Nat /\ Len(records) <= MaxRecords
           /\ \A i \in 1..Len(records) :
                 /\ i \in 1..Len(lines) /\ records[i] = lines[i]
                 /\ records[i] \in Line /\ records[i].seq = i - 1
           /\ \A i, j \in 1..Len(records) : records[i].id = records[j].id => i = j
  <1>1. /\ records \in Seq(Line) /\ lines \in Seq(Line) /\ line \in Line
        /\ Len(records) \in Nat /\ Len(lines) \in Nat
    BY DEF TypeInv, WalTypeOK
  <1>2. lines = records \/ lines = Append(records, line)
    BY DEF WalInv, AheadOK, TypeInv, WalTypeOK, Stages
  <1>3. /\ Len(records) <= Len(lines)
        /\ \A i \in 1..Len(records) : i \in 1..Len(lines) /\ records[i] = lines[i]
    BY <1>1, <1>2
  <1>4. LogOK(lines) /\ MaxRecords \in Nat
    BY WalAssumption DEF WalInv
  <1>5. \A i \in 1..Len(records) : records[i] \in Line
    BY <1>1
  <1>6. \A i \in 1..Len(records) : records[i].seq = i - 1
    BY <1>3, <1>4 DEF LogOK
  <1>7. \A i, j \in 1..Len(records) : records[i].id = records[j].id => i = j
    BY <1>3, <1>4 DEF LogOK
  <1>8. Len(records) <= MaxRecords
    BY <1>1, <1>3, <1>4 DEF LogOK
  <1> QED  BY <1>1, <1>3, <1>5, <1>6, <1>7, <1>8

\* An acknowledged record is where its sequence number says.
LEMMA AckedIsRecord ==
    ASSUME TypeInv, WalInv, AckedOnce, wal = "open", NEW a \in acked
    PROVE  /\ a.rec \in Line /\ a.rec.seq \in Nat /\ a.by \in Calls
           /\ a.rec.seq + 1 \in 1..Len(records) /\ records[a.rec.seq + 1] = a.rec
  <1>1. a.rec \in Line /\ a.rec.seq \in Nat /\ a.by \in Calls
    BY DEF TypeInv, WalTypeOK, Line
  <1>2. a.rec.seq < Len(records) /\ lines[a.rec.seq + 1] = a.rec
    BY DEF AckedOnce, WalInv, AckedDurable
  <1>3. a.rec.seq + 1 \in 1..Len(records)
    BY <1>1, <1>2, RecordsAreLines
  <1> QED  BY <1>1, <1>2, <1>3, RecordsAreLines

\* matchRecord() finds the one record with that id.
LEMMA MatchedSequence ==
    ASSUME TypeInv, WalInv, wal = "open", NEW i \in 1..Len(records)
    PROVE  SequenceOf(records[i].id) = i - 1
  <1> DEFINE k == CHOOSE j \in 1..Len(records) : records[j].id = records[i].id
  <1>1. k \in 1..Len(records) /\ records[k].id = records[i].id
    OBVIOUS
  <1>2. k = i
    BY <1>1, RecordsAreLines
  <1>3. SequenceOf(records[i].id) = records[k].seq
    BY DEF SequenceOf
  <1> QED  BY <1>2, <1>3, RecordsAreLines

-----------------------------------------------------------------------------
(***************************************************************************)
(* The invariant of the queue.                                             *)
(***************************************************************************)

\* What is known of the server and the WAL below it.
BaseInv == TypeInv /\ WalInv /\ AuthzInv /\ Chained /\ AckedOnce /\ Admitted

\* A queue lives as long as the open log, and starts afresh with it.
Lifetime ==
    /\ queue \in {"none", "open", "closed"} /\ poisoned \in BOOLEAN /\ baseline \in Nat
    /\ envoy \in BOOLEAN /\ inflight \subseteq Calls /\ honest \in BOOLEAN
    /\ queue = "none" <=> wal = "down"
    /\ wal = "down" => closer = "none"
    /\ queue = "none" => srv = "off" /\ ~envoy /\ ~poisoned /\ completed = {}
    /\ queue = "closed" => ~envoy /\ active = {}
    /\ ~envoy => inflight = {}

\* The records past the baseline are acknowledged ones, and those of the requests
\* that are being checked or are in flight are past it.
Generation ==
    /\ wal = "open" => baseline <= Len(records)
    /\ wal = "open" => \A i \in baseline + 1..Len(records) : \E a \in acked : a.rec = records[i]
    /\ \A a \in acked : a.by \in active \cup inflight => a.rec.seq >= baseline
    /\ \A c \in inflight : reply[c] = "allow"

\* The second part of CompletionsCorrelate; Books has the first.
Correlated ==
    \A x \in completed :
        /\ x.seq \in baseline..durable - 1
        /\ lines[x.seq + 1].id = x.id
        /\ \E a \in acked : a.rec.id = x.id

\* Of Envoy's own lines, none of a request that is still to end has come.
Once ==
    honest => \A x \in completed : \A a \in acked :
        a.by \in active \cup inflight => a.rec.id # x.id

\* What an accepted line refers to.
LEMMA AcceptedRecord ==
    ASSUME BaseInv, Lifetime, Generation, NEW id \in Ids, NEW sameRoute \in BOOLEAN,
           Ready, Matches(id, sameRoute)
    PROVE  /\ SequenceOf(id) \in baseline..durable - 1
           /\ lines[SequenceOf(id) + 1].id = id
           /\ \E a \in acked : a.rec.id = id
  <1>1. TypeInv /\ WalInv /\ AckedOnce /\ wal = "open" /\ baseline \in Nat
    BY DEF BaseInv, Ready, Lifetime
  <1>2. PICK i \in 1..Len(records) : /\ {j \in 1..Len(records) : records[j].id = id} = {i}
                                     /\ records[i].seq >= baseline
    BY DEF Matches
  <1>3. /\ records[i].id = id /\ records[i].seq = i - 1
        /\ records[i] = lines[i] /\ Len(records) \in Nat
    BY <1>1, <1>2, RecordsAreLines
  <1>4. SequenceOf(id) = i - 1
    BY <1>1, <1>3, MatchedSequence
  <1>5. i \in baseline + 1..Len(records)
    BY <1>1, <1>2, <1>3
  <1>6. PICK a \in acked : a.rec = records[i]
    BY <1>1, <1>5 DEF Generation
  <1>7. i - 1 < durable /\ durable \in Nat
    BY <1>1, <1>3, <1>6 DEF WalInv, AckedDurable, TypeInv, WalTypeOK
  <1>8. i - 1 \in baseline..durable - 1 /\ (i - 1) + 1 = i
    BY <1>1, <1>5, <1>7
  <1> QED  BY <1>3, <1>4, <1>6, <1>8

\* The line of a request of this generation matches.
LEMMA OwnLineMatches ==
    ASSUME BaseInv, Ready, NEW a \in acked, a.rec.seq >= baseline
    PROVE  a.rec.id \in Ids /\ Matches(a.rec.id, TRUE)
  <1>1. TypeInv /\ WalInv /\ AckedOnce /\ wal = "open"
    BY DEF BaseInv, Ready
  <1> DEFINE i == a.rec.seq + 1
  <1>2. i \in 1..Len(records) /\ records[i] = a.rec /\ a.rec \in Line
    BY <1>1, AckedIsRecord
  <1>3. Len(records) <= MaxCompleted
    BY <1>1, RecordsAreLines, QueueAssumption, WalAssumption
  <1>4. {j \in 1..Len(records) : records[j].id = a.rec.id} = {i}
    BY <1>1, <1>2, RecordsAreLines
  <1>5. records[i].seq >= baseline
    BY <1>2
  <1> HIDE DEF i
  <1>6. Matches(a.rec.id, TRUE)
    BY <1>2, <1>3, <1>4, <1>5 DEF Matches
  <1> QED  BY <1>2, <1>6 DEF Line

\* A completion of an open log stands for one of its records.
LEMMA CompletionIsRecord ==
    ASSUME BaseInv, Correlated, completed \subseteq Completion, wal = "open", NEW x \in completed
    PROVE  x.seq + 1 \in 1..Len(records) /\ records[x.seq + 1].id = x.id
  <1>1. TypeInv /\ WalInv /\ AckedOnce /\ LogOK(lines)
    BY DEF BaseInv, WalInv
  <1>2. PICK a \in acked : a.rec.id = x.id
    BY DEF Correlated
  <1>3. /\ a.rec.seq + 1 \in 1..Len(records) /\ records[a.rec.seq + 1] = a.rec
        /\ a.rec.seq \in Nat
    BY <1>1, AckedIsRecord
  <1>4. a.rec.seq + 1 \in 1..Len(lines) /\ lines[a.rec.seq + 1] = a.rec
    BY <1>1, <1>3, RecordsAreLines
  <1>5. x.seq \in Nat /\ x.seq < durable /\ durable \in 0..Len(lines) /\ Len(lines) \in Nat
        /\ lines[x.seq + 1].id = x.id
    BY <1>1 DEF Correlated, Completion, TypeInv, WalTypeOK
  <1>6. x.seq + 1 \in 1..Len(lines)
    BY <1>5
  <1>7. x.seq + 1 = a.rec.seq + 1
    BY <1>1, <1>2, <1>4, <1>5, <1>6 DEF LogOK
  <1> QED  BY <1>2, <1>3, <1>7

\* So there is room for the completion of a record that has not completed.
LEMMA RoomToComplete ==
    ASSUME BaseInv, Correlated, Books, wal = "open",
           NEW a \in acked, a.rec.id \notin {x.id : x \in completed}
    PROVE  Cardinality(completed) < MaxCompleted
  <1> DEFINE n == Len(records)
             k == a.rec.seq + 1
             T == (1..n) \ {k}
             f == [x \in completed |-> x.seq + 1]
  <1>1. /\ TypeInv /\ WalInv /\ AckedOnce
        /\ completed \subseteq Completion /\ IsFiniteSet(completed)
    BY DEF BaseInv, Books
  <1>2. n \in Nat /\ n <= MaxRecords /\ k \in 1..n /\ records[k].id = a.rec.id
    BY <1>1, AckedIsRecord, RecordsAreLines
  <1>3. \A x \in completed : x.seq + 1 \in 1..n /\ records[x.seq + 1].id = x.id /\ x.seq \in Nat
    BY <1>1, CompletionIsRecord DEF Completion
  <1>4. \A x \in completed : x.seq + 1 \in T
    BY <1>2, <1>3
  <1>5. \A x, y \in completed : x.seq + 1 = y.seq + 1 => x = y
    <2> SUFFICES ASSUME NEW x \in completed, NEW y \in completed, x.seq + 1 = y.seq + 1
                 PROVE  x = y
      OBVIOUS
    <2>1. x.id = y.id /\ x.seq = y.seq
      BY <1>3
    <2>2. x = [id |-> x.id, seq |-> x.seq] /\ y = [id |-> y.id, seq |-> y.seq]
      BY <1>1 DEF Completion
    <2> QED  BY <2>1, <2>2
  <1>6. IsFiniteSet(T) /\ Cardinality(T) = n - 1
    <2> HIDE DEF n, k
    <2>1. 1 \in Int /\ n \in Int /\ ~(1 > n)
      BY <1>2
    <2>2. IsFiniteSet(1..n) /\ Cardinality(1..n) = IF 1 > n THEN 0 ELSE n - 1 + 1
      BY <2>1, FS_Interval
    <2>3. Cardinality(1..n) = n
      BY <2>1, <2>2
    <2> QED  BY <1>2, <2>2, <2>3, FS_RemoveElement
  <1> HIDE DEF T, n, k
  <1>7. f \in Injection(completed, T)
    BY <1>4, <1>5 DEF Injection, IsInjective
  <1>8. Cardinality(completed) <= n - 1
    BY <1>6, <1>7, FS_Injection
  <1>9. Cardinality(completed) \in Nat
    BY <1>1, FS_CardinalityType
  <1> QED  BY <1>2, <1>8, <1>9, QueueAssumption, WalAssumption

-----------------------------------------------------------------------------
(***************************************************************************)
(* The steps of the server and the WAL, as the queue sees them.            *)
(***************************************************************************)

\* The requests whose own line is still to come, if it comes at all.
Pending == active \cup inflight

\* Nothing runs without an open log, nor after the queue was closed.
LEMMA NothingRuns ==
    ASSUME BaseInv, Lifetime, wal = "down" \/ queue = "closed"
    PROVE  active = {} /\ chain = <<>> /\ stage = "idle"
  <1>1. active = {}
    BY DEF BaseInv, Lifetime, AuthzInv, CustodyOK
  <1>2. chain \in Seq(Calls) /\ (stage # "idle" => chain # <<>>)
    BY DEF BaseInv, TypeInv, WalTypeOK, RunningOK
  <1>3. Range(chain) = {}
    BY <1>1 DEF BaseInv, Admitted
  <1>4. chain = <<>>
    BY <1>2, <1>3, EmptySeq DEF Range
  <1> QED  BY <1>1, <1>2, <1>4

\* The WAL's own steps do not open it, and on one that is not open there are none.
LEMMA WorkKeepsOpen ==
    ASSUME BaseInv, Lifetime, WalWork
    PROVE  /\ wal # "down" /\ wal' # "down" /\ (wal' = "open" => wal = "open")
           /\ closer' = "none" => closer = "none"
  <1>1. wal # "down"
    BY NothingRuns
    DEF Lifetime, WalWork, BeginAppend, RefuseAppend, Write, Sync, Commit, IoFails,
        CloseDrained, CloseSync, CloseFile
  <1>2. wal' \in {wal, "poisoned"} /\ (closer' = "none" => closer = "none")
    BY DEF WalWork, BeginAppend, RefuseAppend, Write, Sync, Commit, IoFails, Poison,
           CloseDrained, CloseSync, CloseFile, objVars, closeVars
  <1> QED  BY <1>1, <1>2

\* The steps of the server leave the object and what it acknowledged alone.
LEMMA ServerKeepsRecords ==
    ASSUME \/ StartServer \/ CloseServer \/ SrvWork
           \/ \E c \in Calls : Cancel(c) \/ CheckAdmitted(c)
           \/ \E c \in Calls, answer \in Replies : CheckReplies(c, answer)
    PROVE  UNCHANGED <<wal, records, acked, closer>>
  BY DEF StartServer, CloseServer, SrvWork, CheckResumes, SocketsDown, ServerRetired,
         Cancel, CheckAdmitted, AppendCall, CheckReplies, walVars, objVars, closeVars

\* A step of the server leaves the queue alone, and keeps an open log as it is or
\* poisons it.
LEMMA ServerFrame ==
    ASSUME BaseInv, Lifetime, ServerStep
    PROVE  /\ UNCHANGED <<queue, poisoned, baseline, completed, retained, tally, final,
                          observed, envoy, honest>>
           /\ wal' = "down" <=> wal = "down"
           /\ wal' = "open" => wal = "open"
           /\ Ready' => Ready
           /\ wal = "down" => closer' = "none"
  <1>1. UNCHANGED <<queue, poisoned, baseline, completed, retained, tally, final,
                    observed, envoy, honest>>
    BY DEF ServerStep, Forwarding
  <1>2. CASE WalWork
    BY <1>1, <1>2, WorkKeepsOpen DEF Ready
  <1>3. CASE UNCHANGED <<wal, closer>>
    BY <1>1, <1>3 DEF Ready, Lifetime
  <1> QED
    BY <1>2, <1>3, ServerKeepsRecords DEF ServerStep, Forwarding, FileWork

\* A request is put in flight out of the admitted ones, and its answer stays.
LEMMA AllowsComeFromActive ==
    ASSUME BaseInv, ServerStep
    PROVE  /\ \A c \in Calls : reply'[c] = "allow" /\ reply[c] # "allow" => c \in active
           /\ \A c \in Calls : reply[c] = "allow" => reply'[c] = "allow"
  <1>1. reply \in [Calls -> Replies] /\ \A c \in active : reply[c] = "none"
    BY DEF BaseInv, AuthzInv, SrvTypeOK, Admitted
  <1>2. ASSUME NEW c \in Calls, CheckResumes(c)
        PROVE  /\ \A d \in Calls : reply'[d] = "allow" /\ reply[d] # "allow" => d \in active
               /\ \A d \in Calls : reply[d] = "allow" => reply'[d] = "allow"
    BY <1>1, <1>2 DEF CheckResumes
  <1>3. ASSUME NEW c \in Calls, NEW answer \in Replies, CheckReplies(c, answer)
        PROVE  /\ \A d \in Calls : reply'[d] = "allow" /\ reply[d] # "allow" => d \in active
               /\ \A d \in Calls : reply[d] = "allow" => reply'[d] = "allow"
    BY <1>1, <1>3 DEF CheckReplies
  <1>4. CASE reply' = reply
    BY <1>4
  <1>5. CASE \/ FileWork \/ StartServer \/ CloseServer \/ ServerRetired
             \/ \E ok \in BOOLEAN : SocketsDown(ok)
             \/ \E c \in Calls : Cancel(c) \/ CheckAdmitted(c)
    BY <1>4, <1>5
    DEF FileWork, srvVars, StartServer, CloseServer, ServerRetired, SocketsDown, Cancel,
        CheckAdmitted
  <1> QED  BY <1>2, <1>3, <1>5 DEF ServerStep, Forwarding, SrvWork

\* Which requests become pending, and which records the log gains: one, that of a
\* pending request, by Commit.
LEMMA ServerMoves ==
    ASSUME BaseInv, Lifetime, Generation, ServerStep
    PROVE  /\ \/ Commit /\ Pending' \subseteq Pending
              \/ UNCHANGED <<records, acked>>
           /\ \A c \in Pending' \ Pending : call[c] = "new" /\ envoy
           /\ \A c \in inflight' : c \in Calls /\ reply'[c] = "allow"
           /\ ~envoy => inflight' = {}
  <1> DEFINE news == {c \in Calls : reply'[c] = "allow" /\ reply[c] # "allow"}
  <1>1. inflight' = IF envoy THEN inflight \cup news ELSE {}
    BY DEF ServerStep, Forwarding
  <1>2. news \subseteq active /\ \A c \in news : reply'[c] = "allow"
    BY AllowsComeFromActive
  <1>3. \A c \in inflight : c \in Calls /\ reply'[c] = "allow"
    BY AllowsComeFromActive DEF Lifetime, Generation
  <1>4. inflight' \subseteq Pending
    BY <1>1, <1>2 DEF Pending
  <1>5. \A c \in inflight' : c \in Calls /\ reply'[c] = "allow"
    BY <1>1, <1>2, <1>3
  <1>6. CASE FileWork
    <2>1. active' = active
      BY <1>6 DEF FileWork, srvVars
    <2>2. Pending' \subseteq Pending
      BY <1>4, <2>1 DEF Pending
    <2>3. Commit \/ UNCHANGED <<records, acked>>
      BY <1>6
      DEF FileWork, WalWork, BeginAppend, RefuseAppend, Write, Sync, IoFails, Poison,
          CloseDrained, CloseSync, CloseFile, objVars
    <2> QED  BY <1>1, <1>5, <2>2, <2>3
  <1>7. ASSUME NEW c \in Calls, envoy, CheckAdmitted(c)
        PROVE  \A d \in active' : d \in active \/ (d = c /\ call[c] = "new")
    BY <1>7 DEF CheckAdmitted, AppendCall
  <1>8. CASE \E c \in Calls : envoy /\ CheckAdmitted(c)
    <2>1. \A c \in Pending' \ Pending : call[c] = "new" /\ envoy
      BY <1>4, <1>7, <1>8 DEF Pending
    <2> QED  BY <1>1, <1>5, <1>8, <2>1, ServerKeepsRecords
  <1>9. CASE \/ StartServer \/ CloseServer \/ SrvWork
             \/ \E c \in Calls : Cancel(c)
             \/ \E c \in Calls, answer \in Replies : CheckReplies(c, answer)
    <2>1. active' \subseteq active
      BY <1>9
      DEF StartServer, CloseServer, SrvWork, CheckResumes, SocketsDown, ServerRetired,
          Cancel, CheckReplies
    <2>2. Pending' \subseteq Pending
      BY <1>4, <2>1 DEF Pending
    <2> QED  BY <1>1, <1>5, <1>9, <2>2, ServerKeepsRecords
  <1> QED  BY <1>6, <1>8, <1>9 DEF ServerStep, Forwarding

-----------------------------------------------------------------------------
(***************************************************************************)
(* The steps of the queue.                                                 *)
(***************************************************************************)

QueueStep ==
    \/ StartEnvoy \/ EnvoyExits
    \/ \E c \in Calls : ForwardedLine(c)
    \/ UncorrelatedLine
    \/ \E id \in Ids, sameRoute, parses \in BOOLEAN : ForeignLine(id, sameRoute, parses)
    \/ \E limit \in 1..Capacity : Drain(limit) \/ TakeFinal(limit)
    \/ AskReady \/ CaptureFinal \/ CloseQueue

\* They read the server and the WAL, and only let requests go.
LEMMA QueueFrame ==
    ASSUME QueueStep
    PROVE  /\ UNCHANGED walVars /\ UNCHANGED srvVars /\ baseline' = baseline
           /\ inflight' \subseteq inflight
           /\ queue' = queue \/ CloseQueue
  <1>1. UNCHANGED walVars /\ UNCHANGED srvVars /\ baseline' = baseline
    BY DEF QueueStep, StartEnvoy, EnvoyExits, ForwardedLine, UncorrelatedLine, ForeignLine,
           Drain, TakeFinal, AskReady, CaptureFinal, CloseQueue
  <1>2. inflight' \subseteq inflight /\ (queue' = queue \/ CloseQueue)
    BY DEF QueueStep, StartEnvoy, EnvoyExits, ForwardedLine, UncorrelatedLine, ForeignLine,
           Drain, TakeFinal, AskReady, CaptureFinal, CloseQueue
  <1> QED  BY <1>1, <1>2

\* They never make a poisoned queue good.
LEMMA QueuePoisons ==
    ASSUME QueueStep, poisoned \in BOOLEAN
    PROVE  poisoned' \in BOOLEAN /\ (poisoned => poisoned')
  <1>1. ASSUME NEW id, NEW sameRoute, Accept(id, sameRoute)
        PROVE  poisoned' \in {poisoned, TRUE}
    BY <1>1 DEF Accept, AcceptLine, PoisonQueue
  <1>2. CASE \/ \E c \in Calls : ForwardedLine(c)
             \/ \E id \in Ids, sameRoute, parses \in BOOLEAN : ForeignLine(id, sameRoute, parses)
    BY <1>1, <1>2 DEF ForwardedLine, ForeignLine, PoisonQueue
  <1>3. CASE CloseQueue
    BY <1>3 DEF CloseQueue
  <1>4. CASE \/ StartEnvoy \/ EnvoyExits \/ UncorrelatedLine \/ AskReady \/ CaptureFinal
             \/ \E limit \in 1..Capacity : Drain(limit) \/ TakeFinal(limit)
    BY <1>4
    DEF StartEnvoy, EnvoyExits, UncorrelatedLine, AcceptUncorrelated, AskReady,
        CaptureFinal, Drain, TakeFinal, PoisonQueue
  <1> QED  BY <1>2, <1>3, <1>4 DEF QueueStep

\* The steps, by what they touch.
LEMMA StepKinds ==
    ASSUME [EgressNext]_egressVars
    PROVE  \/ OpenWithQueue \/ ServerStep \/ QueueStep \/ EgressCrash
           \/ (OpenFails /\ UNCHANGED <<srvVars, queueVars>>) \/ ReleaseWal
           \/ UNCHANGED egressVars
  BY DEF EgressNext, QueueStep

\* The three last kinds leave everything alone that the queue is about.
LEMMA QuietKinds ==
    ASSUME BaseInv,
           \/ (OpenFails /\ UNCHANGED <<srvVars, queueVars>>) \/ ReleaseWal
           \/ UNCHANGED egressVars
    PROVE  /\ UNCHANGED <<wal, records, acked, lines, durable>>
           /\ UNCHANGED <<srv, active, reply>>
           /\ UNCHANGED queueVars
           /\ (closer' = closer \/ (closer = "none" /\ closer' = "wait" /\ wal # "down"))
  BY DEF OpenFails, ReleaseWal, CloseWal, Close, fileVars, objVars, closeVars, srvVars,
         egressVars, queueVars

\* What a crash leaves.
LEMMA CrashForgets ==
    ASSUME EgressCrash
    PROVE  /\ wal' = "down" /\ closer' = "none" /\ srv' = "off" /\ active' = {}
           /\ queue' = "none" /\ poisoned' = FALSE /\ baseline' = 0 /\ completed' = {}
           /\ retained' = <<>> /\ tally' = NoTally /\ final' = <<>>
           /\ envoy' = FALSE /\ inflight' = {} /\ honest' = TRUE
  BY DEF EgressCrash, Crash, WalCrash, ProcessExit, MachineStop, Forget

\* The queue and the log live together.
LEMMA LifetimeStep ==
    ASSUME BaseInv, Lifetime, Generation, [EgressNext]_egressVars
    PROVE  Lifetime'
  <1>1. CASE OpenWithQueue
    <2>1. /\ wal = "down" /\ wal' = "open" /\ Len(lines) \in Nat /\ queue' = "open"
          /\ baseline' = Len(lines)
          /\ UNCHANGED <<poisoned, completed, envoy, inflight, honest>>
      BY <1>1 DEF OpenWithQueue, Open, BaseInv, TypeInv, WalTypeOK
    <2> QED  BY <2>1 DEF Lifetime
  <1>2. CASE ServerStep
    <2>1. inflight' \subseteq Calls /\ (~envoy' => inflight' = {})
      BY <1>2, ServerMoves, ServerFrame
    <2>2. queue = "none" => srv' = "off"
      <3> SUFFICES ASSUME queue = "none" PROVE srv' = "off"
        OBVIOUS
      <3>1. srv = "off" /\ ~envoy /\ wal = "down"
        BY DEF Lifetime
      <3> QED
        BY <1>2, <3>1
        DEF ServerStep, Forwarding, FileWork, srvVars, StartServer, Ready, SrvWork,
            CheckResumes, SocketsDown, ServerRetired, CloseServer, Cancel
    <2>3. queue = "closed" => active' = {}
      <3> SUFFICES ASSUME queue = "closed" PROVE active' = {}
        OBVIOUS
      <3>1. ~envoy /\ active = {}
        BY DEF Lifetime
      <3> QED
        BY <1>2, <3>1
        DEF ServerStep, Forwarding, FileWork, srvVars, StartServer, SrvWork,
            CheckResumes, SocketsDown, ServerRetired, CloseServer, Cancel
    <2> QED  BY <1>2, <2>1, <2>2, <2>3, ServerFrame DEF Lifetime
  <1>3. CASE QueueStep
    <2>1. UNCHANGED <<wal, closer, srv, active, baseline>> /\ inflight' \subseteq inflight
      BY <1>3, QueueFrame DEF walVars, srvVars
    <2>2. CASE CloseQueue
      <3>1. active = {}
        BY <2>2 DEF CloseQueue, BaseInv, AuthzInv, CustodyOK
      <3> QED  BY <2>1, <2>2, <3>1 DEF CloseQueue, Lifetime
    <2>3. CASE queue = "none"
      <3>1. \E limit \in 1..Capacity : TakeFinal(limit)
        BY <1>3, <2>3
        DEF QueueStep, StartEnvoy, EnvoyExits, ForwardedLine, UncorrelatedLine, ForeignLine,
            Drain, AskReady, CaptureFinal, CloseQueue, Lifetime
      <3>2. UNCHANGED <<queue, poisoned, completed, envoy, inflight, honest>>
        BY <3>1 DEF TakeFinal
      <3> QED  BY <2>1, <3>2 DEF Lifetime
    <2>4. CASE queue # "none" /\ queue' = queue
      <3>1. poisoned' \in BOOLEAN
        BY <1>3, QueuePoisons DEF Lifetime
      <3>2. honest' \in {honest, FALSE} /\ (envoy' \in {envoy, FALSE} \/ StartEnvoy)
        BY <1>3
        DEF QueueStep, EnvoyExits, StartEnvoy, ForwardedLine, UncorrelatedLine, ForeignLine,
            Drain, TakeFinal, AskReady, CaptureFinal, CloseQueue
      <3>4. envoy' \in BOOLEAN /\ honest' \in BOOLEAN /\ (queue = "closed" => ~envoy')
        <4>1. envoy \in BOOLEAN /\ honest \in BOOLEAN /\ (queue = "closed" => envoy = FALSE)
          BY DEF Lifetime
        <4>2. StartEnvoy => envoy' = TRUE /\ queue # "closed"
          BY DEF StartEnvoy
        <4>3. honest' \in BOOLEAN
          BY <3>2, <4>1
        <4>4. CASE StartEnvoy
          BY <4>2, <4>3, <4>4
        <4>5. CASE envoy' = envoy
          BY <4>1, <4>3, <4>5
        <4>6. CASE envoy' = FALSE
          BY <4>3, <4>6
        <4> QED  BY <3>2, <4>4, <4>5, <4>6
      <3>3. ~envoy' => inflight' = {}
        BY <1>3, <2>1
        DEF QueueStep, StartEnvoy, EnvoyExits, ForwardedLine, UncorrelatedLine, ForeignLine,
            Drain, TakeFinal, AskReady, CaptureFinal, CloseQueue, Lifetime
      <3> QED  BY <2>1, <2>4, <3>1, <3>3, <3>4 DEF Lifetime
    <2> QED  BY <1>3, <2>2, <2>3, <2>4, QueueFrame
  <1>4. CASE EgressCrash
    BY <1>4, CrashForgets DEF Lifetime
  <1>5. CASE \/ (OpenFails /\ UNCHANGED <<srvVars, queueVars>>) \/ ReleaseWal
             \/ UNCHANGED egressVars
    BY <1>5, QuietKinds DEF Lifetime, queueVars
  <1> QED  BY <1>1, <1>2, <1>3, <1>4, <1>5, StepKinds
-----------------------------------------------------------------------------
(***************************************************************************)
(* The parts of the invariant are kept.                                    *)
(***************************************************************************)

\* A line, accepted or not, leaves the books in order.
LEMMA AcceptBooks ==
    ASSUME BaseInv, Lifetime, Generation, Books, NEW id \in Ids, NEW sameRoute \in BOOLEAN,
           Accept(id, sameRoute), final' = final
    PROVE  Books'
  <1>1. CASE /\ QueueUsable /\ Matches(id, sameRoute) /\ id \notin {x.id : x \in completed}
             /\ Cardinality(completed) < MaxCompleted
    <2>1. SequenceOf(id) \in baseline..durable - 1 /\ baseline \in Nat /\ durable \in Nat
      BY <1>1, AcceptedRecord DEF QueueUsable, Lifetime, BaseInv, TypeInv, WalTypeOK
    <2>2. SequenceOf(id) \in Nat
      BY <2>1
    <2> QED  BY <1>1, <2>2, AcceptLineBooks DEF Accept
  <1>2. CASE PoisonQueue
    BY <1>2 DEF PoisonQueue, Books
  <1> QED  BY <1>1, <1>2 DEF Accept

\* The empty queue has its books in order.
LEMMA EmptyBooks ==
    completed = {} /\ retained = <<>> /\ tally = NoTally /\ final = <<>> => Books
  <1>1. IsFiniteSet({}) /\ Cardinality({}) = 0
    BY FS_EmptySet
  <1>2. /\ NoTally \in Tally /\ NoTally.accepted = 0
        /\ NoTally.drained = 0 /\ NoTally.dropped = 0
    BY DEF NoTally, Tally
  <1>3. Len(<<>>) = 0 /\ <<>> \in Seq({})
    BY EmptySeq
  <1>4. Apart(<<>>, <<>>)
    BY <1>3 DEF Apart
  <1> QED  BY <1>1, <1>2, <1>3, <1>4, QueueAssumption DEF Books

\* The books are in order after every step.
LEMMA BooksStep ==
    ASSUME BaseInv, Lifetime, Generation, Books, [EgressNext]_egressVars
    PROVE  Books'
  <1>1. CASE UNCHANGED bookVars
    BY <1>1 DEF bookVars, Books
  <1>2. CASE \/ OpenWithQueue \/ ServerStep \/ StartEnvoy \/ EnvoyExits \/ AskReady
             \/ (OpenFails /\ UNCHANGED <<srvVars, queueVars>>) \/ ReleaseWal
             \/ UNCHANGED egressVars
    BY <1>1, <1>2
    DEF bookVars, OpenWithQueue, ServerStep, Forwarding, StartEnvoy, EnvoyExits, AskReady,
        PoisonQueue, ReleaseWal, queueVars, egressVars
  <1>3. CASE \E c \in Calls : ForwardedLine(c)
    <2>1. PICK a \in acked : Accept(a.rec.id, TRUE) /\ final' = final
      BY <1>3 DEF ForwardedLine
    <2>2. a.rec.id \in Ids
      BY DEF BaseInv, TypeInv, WalTypeOK, Line
    <2> QED  BY <2>1, <2>2, AcceptBooks
  <1>4. ASSUME NEW id \in Ids, NEW sameRoute \in BOOLEAN, NEW parses \in BOOLEAN,
               ForeignLine(id, sameRoute, parses)
        PROVE  Books'
    <2>1. final' = final /\ (Accept(id, sameRoute) \/ PoisonQueue)
      BY <1>4 DEF ForeignLine
    <2>2. CASE PoisonQueue
      BY <2>1, <2>2 DEF PoisonQueue, Books
    <2> QED  BY <2>1, <2>2, AcceptBooks
  <1>5. CASE UncorrelatedLine
    <2>1. CASE AcceptUncorrelated
      <3> DEFINE u == tally.uncorrelated + 1
      <3>1. /\ UNCHANGED <<completed, retained, final>>
            /\ tally' = [tally EXCEPT !.uncorrelated = u]
        BY <1>5, <2>1 DEF UncorrelatedLine, AcceptUncorrelated
      <3>2. u \in Nat /\ tally \in Tally
        BY DEF Books, Tally
      <3> HIDE DEF u
      <3>3. /\ tally' \in Tally /\ tally'.accepted = tally.accepted
            /\ tally'.drained = tally.drained /\ tally'.dropped = tally.dropped
        BY <3>1, <3>2 DEF Tally
      <3> QED  BY <3>1, <3>3 DEF Books
    <2>2. CASE PoisonQueue
      BY <1>5, <2>2 DEF UncorrelatedLine, PoisonQueue, Books
    <2> QED  BY <1>5, <2>1, <2>2 DEF UncorrelatedLine
  <1>6. CASE EgressCrash
    <2>1. completed' = {} /\ retained' = <<>> /\ tally' = NoTally /\ final' = <<>>
      BY <1>6, CrashForgets
    <2>2. (completed = {} /\ retained = <<>> /\ tally = NoTally /\ final = <<>>)' => Books'
      BY EmptyBooks, PTL
    <2> QED  BY <2>1, <2>2
  <1>7. CASE \/ CaptureFinal \/ CloseQueue
             \/ \E limit \in 1..Capacity : Drain(limit) \/ TakeFinal(limit)
    BY <1>7, CaptureBooks, CloseBooks, DrainBooks, TakeBooks
  <1> QED  BY <1>2, <1>3, <1>4, <1>5, <1>6, <1>7, StepKinds DEF QueueStep

\* A record is acknowledged past the baseline, and only for a pending request.
LEMMA CommitsPending ==
    ASSUME BaseInv, Commit
    PROVE  /\ wal = "open" /\ Len(records) \in Nat /\ line \in Line
           /\ line.seq = Len(records) /\ line.id \notin IdsOf(records)
           /\ acked' = acked \cup {[by |-> Head(chain), rec |-> line]}
           /\ records' = Append(records, line) /\ wal' = wal
  BY DEF Commit, BaseInv, TypeInv, WalTypeOK, RunningOK, WalInv, LineOK

\* What is past the baseline was acknowledged in this lifetime.
LEMMA GenerationStep ==
    ASSUME BaseInv, Lifetime, Generation, [EgressNext]_egressVars
    PROVE  Generation'
  <1>a. /\ baseline \in Nat /\ \A a \in acked : call[a.by] = "ok" /\ a.rec.seq \in Nat
        /\ Len(records) \in Nat /\ records \in Seq(Line) /\ lines \in Seq(Line)
    BY DEF Lifetime, BaseInv, AckedOnce, TypeInv, WalTypeOK, Line
  <1>1. CASE OpenWithQueue
    <2>1. /\ wal = "down" /\ acked' = acked /\ records' = lines /\ baseline' = Len(lines)
          /\ UNCHANGED <<active, reply, inflight>>
      BY <1>1 DEF OpenWithQueue, Open, srvVars
    <2>2. active = {} /\ inflight = {} /\ Len(lines) \in Nat
      BY <1>a, <2>1, NothingRuns DEF Lifetime
    <2> QED  BY <2>1, <2>2 DEF Generation
  <1>2. CASE ServerStep
    <2>1. \A c \in inflight' : reply'[c] = "allow"
      BY <1>2, ServerMoves
    <2>2. baseline' = baseline /\ (wal' = "open" => wal = "open")
      BY <1>2, ServerFrame
    <2>3. CASE UNCHANGED <<records, acked>>
      <3>1. \A a \in acked : a.by \in Pending' => a.by \in Pending
        BY <1>2, <1>a, ServerMoves
      <3> QED  BY <2>1, <2>2, <2>3, <3>1 DEF Generation, Pending
    <2>4. CASE Commit /\ Pending' \subseteq Pending
      <3> DEFINE new == [by |-> Head(chain), rec |-> line]
      <3>1. /\ new.rec = line /\ line \in Line /\ line.seq = Len(records) /\ wal = "open"
            /\ records' = Append(records, line) /\ acked' = acked \cup {new}
        BY <2>4, CommitsPending
      <3> HIDE DEF new
      <3>2. /\ Len(records') = Len(records) + 1 /\ records'[Len(records) + 1] = line
            /\ \A i \in 1..Len(records) : records'[i] = records[i]
        BY <1>a, <3>1
      <3>3. baseline <= Len(records)
        BY <3>1 DEF Generation
      <3>4. ASSUME NEW i \in baseline + 1..Len(records')
            PROVE  \E a \in acked' : a.rec = records'[i]
        <4>1. CASE i = Len(records) + 1
          BY <3>1, <3>2, <4>1
        <4>2. CASE i # Len(records) + 1
          <5>1. i \in baseline + 1..Len(records) /\ i \in 1..Len(records)
            BY <1>a, <3>2, <4>2
          <5> QED  BY <3>1, <3>2, <5>1 DEF Generation
        <4> QED  BY <4>1, <4>2
      <3>5. \A a \in acked' : a.by \in active' \cup inflight' => a.rec.seq >= baseline
        BY <1>a, <2>4, <3>1, <3>3 DEF Generation, Pending
      <3>6. baseline <= Len(records')
        BY <1>a, <3>2, <3>3
      <3> QED  BY <2>1, <2>2, <3>4, <3>5, <3>6 DEF Generation
    <2> QED  BY <1>2, <2>3, <2>4, ServerMoves
  <1>3. CASE QueueStep
    <2>1. /\ UNCHANGED <<wal, records, acked, active, reply, baseline>>
          /\ inflight' \subseteq inflight
      BY <1>3, QueueFrame DEF walVars, srvVars
    <2> QED  BY <2>1 DEF Generation
  <1>4. CASE EgressCrash
    <2>1. wal' = "down" /\ active' = {} /\ inflight' = {}
      BY <1>4, CrashForgets
    <2> QED  BY <2>1 DEF Generation
  <1>5. CASE \/ (OpenFails /\ UNCHANGED <<srvVars, queueVars>>) \/ ReleaseWal
             \/ UNCHANGED egressVars
    BY <1>5, QuietKinds DEF Generation, queueVars
  <1> QED  BY <1>1, <1>2, <1>3, <1>4, <1>5, StepKinds

\* What a step adds to the completions: nothing, or what a line that matched says.
LEMMA NewCompletions ==
    ASSUME BaseInv, QueueStep
    PROVE  \/ completed' = completed
           \/ \E id \in Ids, sameRoute \in BOOLEAN :
                 /\ Ready /\ Matches(id, sameRoute)
                 /\ completed' = completed \cup {[id |-> id, seq |-> SequenceOf(id)]}
                 /\ \/ honest' = FALSE
                    \/ \E a \in acked : /\ a.by \in inflight /\ a.rec.id = id
                                        /\ inflight' = inflight \ {a.by}
  <1>1. ASSUME NEW id, NEW sameRoute, Accept(id, sameRoute)
        PROVE  \/ completed' = completed
               \/ /\ Ready /\ Matches(id, sameRoute)
                  /\ completed' = completed \cup {[id |-> id, seq |-> SequenceOf(id)]}
    BY <1>1 DEF Accept, AcceptLine, PoisonQueue, QueueUsable
  <1>2. ASSUME NEW c \in Calls, ForwardedLine(c)
        PROVE  \/ completed' = completed
               \/ \E a \in acked :
                     /\ a.by = c /\ Ready /\ Matches(a.rec.id, TRUE)
                     /\ completed' = completed \cup {[id |-> a.rec.id, seq |-> SequenceOf(a.rec.id)]}
                     /\ c \in inflight /\ inflight' = inflight \ {c}
    BY <1>1, <1>2 DEF ForwardedLine
  <1>3. \A a \in acked : a.rec.id \in Ids
    BY DEF BaseInv, TypeInv, WalTypeOK, Line
  <1>4. CASE \E c \in Calls : ForwardedLine(c)
    BY <1>2, <1>3, <1>4
  <1>5. ASSUME NEW id \in Ids, NEW sameRoute \in BOOLEAN, NEW parses \in BOOLEAN,
               ForeignLine(id, sameRoute, parses)
        PROVE  \/ completed' = completed
               \/ /\ Ready /\ Matches(id, sameRoute) /\ honest' = FALSE
                  /\ completed' = completed \cup {[id |-> id, seq |-> SequenceOf(id)]}
    BY <1>1, <1>5 DEF ForeignLine, PoisonQueue
  <1>6. CASE \/ StartEnvoy \/ EnvoyExits \/ UncorrelatedLine \/ AskReady \/ CaptureFinal
             \/ CloseQueue \/ \E limit \in 1..Capacity : Drain(limit) \/ TakeFinal(limit)
    BY <1>6
    DEF StartEnvoy, EnvoyExits, UncorrelatedLine, AcceptUncorrelated, AskReady, CloseQueue,
        CaptureFinal, Drain, TakeFinal, PoisonQueue
  <1> QED  BY <1>4, <1>5, <1>6 DEF QueueStep

\* Completions keep their durable intent, whatever happens to the rest of the log.
LEMMA CorrelatedStep ==
    ASSUME BaseInv, Lifetime, Generation, Books, Correlated, [EgressNext]_egressVars
    PROVE  Correlated'
  <1>1. /\ durable <= durable' /\ \A i \in 1..durable : lines'[i] = lines[i]
        /\ acked \subseteq acked'
    <2>1. [WalNext]_walVars
      BY EgressStepIsAuthz, AuthzStepIsWal
    <2> QED  BY <2>1, DurablePrefixStep, AckedGrows DEF BaseInv
  <1>2. durable \in Nat /\ baseline \in Nat /\ \A x \in completed : x.seq \in Nat
    BY DEF BaseInv, TypeInv, WalTypeOK, Lifetime, Books, Completion
  <1>3. durable' \in Nat
    <2>1. [WalNext]_walVars
      BY EgressStepIsAuthz, AuthzStepIsWal
    <2> QED  BY <2>1, TypeStep DEF BaseInv, TypeInv, WalTypeOK
  <1>4. CASE completed' = completed /\ baseline' = baseline
    <2> SUFFICES ASSUME NEW x \in completed
                 PROVE  /\ x.seq \in baseline..durable' - 1
                        /\ lines'[x.seq + 1].id = x.id
                        /\ \E a \in acked' : a.rec.id = x.id
      BY <1>4 DEF Correlated
    <2>1. /\ x.seq \in baseline..durable - 1 /\ lines[x.seq + 1].id = x.id
          /\ \E a \in acked : a.rec.id = x.id
      BY DEF Correlated
    <2>2. x.seq + 1 \in 1..durable /\ x.seq \in baseline..durable' - 1
      BY <1>1, <1>2, <1>3, <2>1
    <2> QED  BY <1>1, <2>1, <2>2
  <1>5. CASE completed' = {}
    BY <1>5 DEF Correlated
  <1>6. CASE OpenWithQueue
    BY <1>5, <1>6 DEF OpenWithQueue, Open, Lifetime
  <1>7. CASE QueueStep
    <2>1. baseline' = baseline /\ UNCHANGED <<durable, lines, acked>>
      BY <1>7, QueueFrame DEF walVars
    <2>2. ASSUME NEW id \in Ids, NEW sameRoute \in BOOLEAN, Ready, Matches(id, sameRoute),
                 completed' = completed \cup {[id |-> id, seq |-> SequenceOf(id)]}
          PROVE  Correlated'
      <3> DEFINE new == [id |-> id, seq |-> SequenceOf(id)]
      <3>1. new.id = id /\ new.seq = SequenceOf(id) /\ completed' = completed \cup {new}
        BY <2>2
      <3>2. /\ SequenceOf(id) \in baseline..durable - 1 /\ lines[SequenceOf(id) + 1].id = id
            /\ \E a \in acked : a.rec.id = id
        BY <2>2, AcceptedRecord
      <3> HIDE DEF new
      <3> QED  BY <2>1, <3>1, <3>2 DEF Correlated
    <2> QED  BY <1>4, <1>7, <2>1, <2>2, NewCompletions
  <1>8. CASE ServerStep
    BY <1>4, <1>8, ServerFrame
  <1>9. CASE EgressCrash
    BY <1>5, <1>9, CrashForgets
  <1>10. CASE \/ (OpenFails /\ UNCHANGED <<srvVars, queueVars>>) \/ ReleaseWal
              \/ UNCHANGED egressVars
    BY <1>4, <1>10, QuietKinds DEF queueVars
  <1> QED  BY <1>6, <1>7, <1>8, <1>9, <1>10, StepKinds

\* A request that is pending has no completion, as long as the lines are Envoy's.
LEMMA OnceStep ==
    ASSUME BaseInv, Lifetime, Generation, Books, Correlated, Once, [EgressNext]_egressVars
    PROVE  Once'
  <1>a. /\ \A a \in acked : call[a.by] = "ok" /\ a.by \in Calls
        /\ \A a, b \in acked : a.rec.id = b.rec.id => a = b
    BY AckedIds DEF BaseInv, AckedOnce, TypeInv, WalTypeOK
  <1>1. CASE completed' = {}
    BY <1>1 DEF Once
  <1>2. CASE /\ UNCHANGED <<completed, acked, honest>>
             /\ \A a \in acked : a.by \in Pending' => a.by \in Pending
    BY <1>2 DEF Once, Pending
  <1>3. CASE OpenWithQueue
    BY <1>1, <1>3 DEF OpenWithQueue, Open, Lifetime
  <1>4. CASE ServerStep
    <2>1. UNCHANGED <<completed, honest>>
      BY <1>4, ServerFrame
    <2>2. CASE UNCHANGED <<records, acked>>
      BY <1>2, <1>4, <1>a, <2>1, <2>2, ServerMoves
    <2>3. CASE Commit /\ Pending' \subseteq Pending
      <3> DEFINE new == [by |-> Head(chain), rec |-> line]
      <3>1. /\ new.rec = line /\ line.id \notin IdsOf(records) /\ wal = "open"
            /\ acked' = acked \cup {new}
        BY <2>3, CommitsPending
      <3> HIDE DEF new
      <3>2. \A x \in completed : line.id # x.id
        BY <3>1, CompletionIsRecord DEF IdsOf, Books
      <3> QED  BY <2>1, <2>3, <3>1, <3>2 DEF Once, Pending
    <2> QED  BY <1>4, <2>2, <2>3, ServerMoves
  <1>5. CASE QueueStep
    <2>1. UNCHANGED <<acked, active>> /\ inflight' \subseteq inflight
      BY <1>5, QueueFrame DEF walVars, srvVars
    <2>2. CASE honest' = FALSE
      BY <2>2 DEF Once
    <2>3. honest' = honest \/ honest' = FALSE
      BY <1>5
      DEF QueueStep, StartEnvoy, EnvoyExits, ForwardedLine, UncorrelatedLine, ForeignLine,
          Drain, TakeFinal, AskReady, CaptureFinal, CloseQueue
    <2>4. CASE completed' = completed /\ honest' = honest
      BY <1>2, <2>1, <2>4 DEF Pending
    <2>5. ASSUME NEW id, honest' = honest,
                 completed' = completed \cup {[id |-> id, seq |-> SequenceOf(id)]},
                 NEW b \in acked, b.by \in inflight, b.rec.id = id,
                 inflight' = inflight \ {b.by}
          PROVE  Once'
      <3> DEFINE new == [id |-> id, seq |-> SequenceOf(id)]
      <3>1. new.id = id /\ completed' = completed \cup {new}
        BY <2>5
      <3> HIDE DEF new
      <3>2. b.by \notin active
        BY <2>5 DEF Generation, BaseInv, Admitted
      <3>3. \A a \in acked : a.by \in active' \cup inflight' => a.rec.id # id
        BY <1>a, <2>1, <2>5, <3>2
      <3>4. \A a \in acked : a.by \in active' \cup inflight' => a.by \in active \cup inflight
        BY <2>1
      <3> QED  BY <2>1, <2>5, <3>1, <3>3, <3>4 DEF Once
    <2> QED  BY <1>5, <2>2, <2>3, <2>4, <2>5, NewCompletions
  <1>6. CASE EgressCrash
    BY <1>1, <1>6, CrashForgets
  <1>7. CASE \/ (OpenFails /\ UNCHANGED <<srvVars, queueVars>>) \/ ReleaseWal
             \/ UNCHANGED egressVars
    BY <1>2, <1>7, QuietKinds DEF queueVars, Pending
  <1> QED  BY <1>3, <1>4, <1>5, <1>6, <1>7, StepKinds

\* Envoy's own line for a pending request is accepted while the log is usable.
LEMMA OwnLineAccepted ==
    ASSUME BaseInv, Generation, Books, Correlated, Once, honest, ~poisoned, Ready,
           NEW c \in Calls, ForwardedLine(c)
    PROVE  poisoned' = poisoned
  <1>1. PICK a \in acked : a.by = c /\ Accept(a.rec.id, TRUE)
    BY DEF ForwardedLine
  <1>2. c \in inflight /\ QueueUsable
    BY DEF ForwardedLine, QueueUsable
  <1>3. a.rec.seq >= baseline
    BY <1>1, <1>2 DEF Generation
  <1>4. Matches(a.rec.id, TRUE)
    BY <1>3, OwnLineMatches
  <1>5. a.rec.id \notin {x.id : x \in completed}
    BY <1>1, <1>2 DEF Once
  <1>6. Cardinality(completed) < MaxCompleted
    BY <1>5, RoomToComplete DEF Ready
  <1> QED  BY <1>1, <1>2, <1>4, <1>5, <1>6 DEF Accept, AcceptLine

\* Only an unusable log, or a line that is not Envoy's, poisons the queue.
LEMMA PoisonStep ==
    ASSUME BaseInv, Lifetime, Generation, Books, Correlated, Once, HonestNeverPoisons,
           [EgressNext]_egressVars
    PROVE  HonestNeverPoisons'
  <1>1. CASE OpenWithQueue
    BY <1>1 DEF OpenWithQueue, Open, Lifetime, HonestNeverPoisons
  <1>2. CASE ServerStep
    BY <1>2, ServerFrame DEF HonestNeverPoisons
  <1>3. CASE QueueStep
    <2> SUFFICES ASSUME honest', poisoned', Ready PROVE FALSE
      BY <1>3, QueueFrame DEF HonestNeverPoisons, walVars, Ready
    <2>1. honest
      BY <1>3
      DEF QueueStep, StartEnvoy, EnvoyExits, ForwardedLine, UncorrelatedLine, ForeignLine,
          Drain, TakeFinal, AskReady, CaptureFinal, CloseQueue
    <2>2. ~poisoned
      BY <2>1 DEF HonestNeverPoisons
    <2>3. poisoned' = poisoned
      <3>1. CASE \E c \in Calls : ForwardedLine(c)
        BY <2>1, <2>2, <3>1, OwnLineAccepted
      <3>2. ~\E id \in Ids, sameRoute, parses \in BOOLEAN : ForeignLine(id, sameRoute, parses)
        BY DEF ForeignLine
      <3>3. CASE \/ StartEnvoy \/ EnvoyExits \/ UncorrelatedLine \/ AskReady \/ CaptureFinal
                 \/ CloseQueue \/ \E limit \in 1..Capacity : Drain(limit) \/ TakeFinal(limit)
        BY <2>2, <3>3
        DEF StartEnvoy, EnvoyExits, UncorrelatedLine, AcceptUncorrelated, AskReady,
            CaptureFinal, CloseQueue, Drain, TakeFinal, QueueUsable
      <3> QED  BY <1>3, <3>1, <3>2, <3>3 DEF QueueStep
    <2> QED  BY <2>2, <2>3
  <1>4. CASE EgressCrash
    BY <1>4, CrashForgets DEF HonestNeverPoisons
  <1>5. CASE \/ (OpenFails /\ UNCHANGED <<srvVars, queueVars>>) \/ ReleaseWal
             \/ UNCHANGED egressVars
    BY <1>5, QuietKinds DEF HonestNeverPoisons, queueVars, Ready
  <1> QED  BY <1>1, <1>2, <1>3, <1>4, <1>5, StepKinds

\* Nothing is appended and nothing completes after the observation was taken.
LEMMA ObservationStep ==
    ASSUME BaseInv, Lifetime, Generation, ObservationFinal, [EgressNext]_egressVars
    PROVE  ObservationFinal'
  <1>1. CASE OpenWithQueue
    BY <1>1 DEF OpenWithQueue, ObservationFinal
  <1>2. CASE ServerStep
    <2> SUFFICES ASSUME queue = "closed" PROVE ObservationFinal'
      BY <1>2, ServerFrame DEF ObservationFinal
    <2>1. stage = "idle"
      BY NothingRuns
    <2>2. records' = records
      BY <1>2, <2>1, ServerMoves DEF Commit
    <2> QED  BY <1>2, <2>2, ServerFrame DEF ObservationFinal
  <1>3. CASE QueueStep
    <2>1. records' = records
      BY <1>3, QueueFrame DEF walVars
    <2>2. CASE CloseQueue
      BY <2>1, <2>2 DEF CloseQueue, ObservationFinal
    <2>3. CASE queue' = queue
      <3> SUFFICES ASSUME queue = "closed" PROVE UNCHANGED <<observed, completed>>
        BY <2>1, <2>3 DEF ObservationFinal
      <3> QED
        BY <1>3
        DEF QueueStep, StartEnvoy, EnvoyExits, ForwardedLine, UncorrelatedLine, ForeignLine,
            Drain, TakeFinal, AskReady, CaptureFinal, CloseQueue
    <2> QED  BY <1>3, <2>2, <2>3, QueueFrame
  <1>4. CASE EgressCrash
    BY <1>4, CrashForgets DEF ObservationFinal
  <1>5. CASE \/ (OpenFails /\ UNCHANGED <<srvVars, queueVars>>) \/ ReleaseWal
             \/ UNCHANGED egressVars
    BY <1>5, QuietKinds DEF ObservationFinal, queueVars
  <1> QED  BY <1>1, <1>2, <1>3, <1>4, <1>5, StepKinds

-----------------------------------------------------------------------------
(***************************************************************************)
(* The theorems.                                                           *)
(***************************************************************************)

QueueInv ==
    /\ Lifetime /\ Generation /\ Books /\ Correlated /\ Once
    /\ HonestNeverPoisons /\ ObservationFinal

\* What the queue relies on: the invariants of the log and the server below it.
LEMMA BaseInvariant == EgressSpec => []BaseInv
  <1>1. AuthzInit => Chained /\ AckedOnce /\ Admitted
    BY DEF AuthzInit, WalInit, Chained, AckedOnce, Admitted, Range
  <1>2. TypeInv /\ WalInv /\ AuthzInv /\ Chained /\ AckedOnce /\ Admitted
          /\ [AuthzNext]_authzVars => Chained' /\ AckedOnce' /\ Admitted'
    BY AuthzStepIsWal, AppendsStep, AdmittedStep DEF AuthzInv
  <1>3. AuthzSpec => [](TypeInv /\ WalInv /\ AuthzInv)
    BY AuthzInvariant, ServerUsesWal, Invariant, PTL
  <1>4. AuthzSpec => []BaseInv
    BY <1>1, <1>2, <1>3, PTL DEF AuthzSpec, BaseInv
  <1> QED  BY <1>4, EgressUsesServer, PTL

\* The queue's own invariant is inductive relative to it.
LEMMA EgressInvariant == EgressSpec => [](BaseInv /\ QueueInv)
  <1>1. EgressInit => QueueInv
    <2> SUFFICES ASSUME EgressInit PROVE QueueInv
      OBVIOUS
    <2> USE DEF EgressInit, EmptyQueue, AuthzInit, WalInit
    <2>1. Lifetime
      BY DEF Lifetime
    <2>2. Generation /\ Correlated /\ Once /\ HonestNeverPoisons /\ ObservationFinal
      BY DEF Generation, Correlated, Once, HonestNeverPoisons, ObservationFinal
    <2>3. Books
      BY EmptyBooks
    <2> QED  BY <2>1, <2>2, <2>3 DEF QueueInv
  <1>2. BaseInv /\ QueueInv /\ [EgressNext]_egressVars => QueueInv'
    BY LifetimeStep, GenerationStep, BooksStep, CorrelatedStep, OnceStep, PoisonStep,
       ObservationStep DEF QueueInv
  <1> QED  BY <1>1, <1>2, BaseInvariant, PTL DEF EgressSpec

\* Sequences of completions hold completions.
LEMMA QueueTypes == BaseInv /\ QueueInv => QueueTypeOK
  <1> SUFFICES ASSUME BaseInv, QueueInv PROVE QueueTypeOK
    OBVIOUS
  <1>1. WalTypeOK /\ SrvTypeOK /\ Lifetime /\ Books
    BY DEF BaseInv, TypeInv, AuthzInv, QueueInv
  <1>2. Range(retained) \subseteq Completion /\ Range(final) \subseteq Completion
    BY <1>1 DEF Books, Range
  <1> QED  BY <1>1, <1>2 DEF QueueTypeOK, Lifetime, Books, Tally

(***************************************************************************)
(* The audit of forwarded requests is safe: a request is forwarded only on *)
(* its own durable intent, the checks keep the secrets and the log, and    *)
(* every completion is accounted to one intent of this lifetime, for any   *)
(* requests, lines, failures, closes and restarts.                         *)
(***************************************************************************)
THEOREM EgressIsSafe == EgressSpec => []EgressSafe
  <1>1. BaseInv /\ QueueInv => EgressSafe
    <2> SUFFICES ASSUME BaseInv, QueueInv PROVE EgressSafe
      OBVIOUS
    <2>1. /\ TypeInv /\ WalInv /\ AckedOnce /\ AllowAcked
          /\ CustodyOK /\ Admitted /\ AckedDurable
      BY DEF BaseInv, AuthzInv, WalInv
    <2>2. AllowDurable /\ AllowsDistinct
      BY <2>1, AckedIsAhead, DistinctAllows
    <2>3. QueueBounded /\ ChecksKeepCustody
      BY <2>1 DEF QueueBounded, Admitted, CustodyOK, ChecksKeepCustody
    <2>4. CompletionsCorrelate
      BY DEF QueueInv, Books, Correlated, CompletionsCorrelate
    <2>5. QueueAccounting
      BY ApartInjective DEF QueueInv, Books, QueueAccounting
    <2> QED  BY <2>2, <2>3, <2>4, <2>5, QueueTypes DEF EgressSafe, QueueInv
  <1> QED  BY <1>1, EgressInvariant, PTL
=============================================================================

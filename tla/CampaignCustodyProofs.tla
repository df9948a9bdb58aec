------------------------- MODULE CampaignCustodyProofs -------------------------
(***************************************************************************)
(* What is proved of the custody of a campaign root, for every number of   *)
(* cycles, every segment boundary and every bound on attempts and faults:  *)
(* LiveIsRecoverable, CertainZero and ClaimsAreJournaled, over any         *)
(* sequence of crashes, retries and commands that outlive their process.   *)
(*                                                                         *)
(* None of them is inductive.  ConsumeInv and ActiveInv say what the files *)
(* hold while an entry is at a control point, CommandInv that a command    *)
(* runs alone, ServedInv what a command may find even when the process     *)
(* that started it is gone, LiveInv what every live cycle keeps on disk,   *)
(* ZeroInv who has seen that nothing is live, and JournalInv that the      *)
(* intent row precedes the claim.                                          *)
(***************************************************************************)
EXTENDS CampaignCustody, TLAPS

-----------------------------------------------------------------------------
(***************************************************************************)
(* The inductive invariant.                                                *)
(***************************************************************************)

Operations == Effects \cup {"remote", "inventory", "final", "recover"}
Steps == {"start", "variables", "claim", "init", "backend", "act", "track", "write", "send",
          "observe", "intent", "invoke", "invocation", "destroy", "settle", "count", "ok",
          "fail", "uncertain"}
Commands == [op : Operations, ord : Cycles, state : States, at : Steps,
             owner : {"held", "stray"}]
Rows == {"batch", "cycle", "effect", "settled", "receipt", "cleanup"}
        \X (Operations \cup {"none", "consumed", "continued", "opened", "sealed", "uncertain",
                             "settled", "diagnostic", "candidate"})
        \X (0..LastCycle)

FlagInv ==
  /\ consumed \in BOOLEAN /\ anchor \in BOOLEAN /\ torn \in BOOLEAN
  /\ segment \in BOOLEAN /\ creds \in BOOLEAN /\ published \in BOOLEAN

FileInv ==
  /\ kindOfRoot \in RootKinds /\ journal \in Seq(Rows)
  /\ active \in {NoActive} \cup [ord : Cycles, state : States]
  /\ grants \subseteq Cycles /\ tfvars \subseteq Cycles /\ settled \subseteq Cycles
  /\ reconcile \in [Cycles -> [state : States \cup {"none"}, destroy : BOOLEAN]]
  /\ attempts \in [Cycles -> 0..MaxAttempts]
  /\ data \subseteq Cycles /\ backend \subseteq Cycles /\ partial \subseteq Unfinished \X Cycles
  /\ invoked \in [Cycles -> {"none", "plain", "ambiguous"}]

ProcInv ==
  /\ scope \in {"none", "dir", "marked", "unlinked"}
  /\ cmds \subseteq Commands /\ live \subseteq Cycles /\ tracked \subseteq Cycles
  /\ entry \in {"none", "run", "recover"} /\ op \in Operations \cup {"none"}
  /\ ord \in Cycles /\ mem \in States
  /\ clock \in 0..2 /\ faults \in 0..MaxFaults

\* Where the entry of an earlier process may have left a command.
Resting == {"idle", "consume", "handler", "retire", "drain", "abandon"}
Running == {"scope-dir", "scope-mark", "spawn", "wait", "scope-remove", "scope-unmark"}
Collecting == {"scope-remove", "scope-unmark"}
Settling == {"settle", "settle-journal", "settle-active"}
Recovering == {"drain", "admit", "inactive", "claim", "abandon"}
Effecting == {"grant", "intent", "active-slot", "settle-row", "receipt-row"}
Before == {"anchor", "first-row", "open", "open-active"}

\* Which entry is where, with which operation.
PointInv ==
  /\ entry = "none" <=> pc = "idle"
  /\ pc \in Recovering => entry = "recover"
  /\ entry = "recover" =>
       op = "recover" /\ pc \in Recovering \cup Running \cup Settling \cup {"retire"}
  /\ pc \in Effecting => op \in Effects
  /\ pc \in Running \cup {"deadline"} => op # "none"
  /\ pc \in Settling \cup {"uncertain-row"} => op = "recover"
  /\ pc \in {"deadline", "recClock"} \cup Before => op # "recover"
  /\ pc \in {"seal", "seal-active"} => op = "inventory"
  /\ pc \in Collecting => res \in {"ok", "fail", "uncertain"}
                          /\ (res = "uncertain" => op = "recover")
  /\ pc = "active-slot" => op # "destroy"
  /\ pc = "consume" => op = "none"

\* There is one command at a time; a process that waits, waits for its own.
CommandInv ==
  /\ \A c, d \in cmds : c = d
  /\ pc \notin Resting \cup {"wait"} => cmds = {}
  /\ pc = "wait" => \A c \in cmds : c.op = op /\ c.ord = ord /\ c.state = mem
  /\ \A c \in cmds : c.at = "uncertain" => c.op = "recover"

\* Nothing is certified, but for a diagnostic root that was found unconsumed.
Open == complete = NotComplete \/ (kindOfRoot = "diag" /\ complete = Unconsumed)
Certified == segment \/ published \/ ~Open

\* The entry that consumed the approval, up to its own certificate.
Attempt ==
  /\ entry = "run"
  /\ pc \notin {"consume", "handler", "retire", "settle-journal", "settle-active", "hand-off",
                "publish"}

Untried == \A o \in Cycles : reconcile[o] = NoIntent

\* What an approval that is not consumed excludes.
ConsumeInv ==
  /\ ~consumed =>
       /\ pc \in {"idle", "consume", "handler", "retire", "drain", "admit", "abandon"}
       /\ active = NoActive /\ cmds = {} /\ ~segment /\ ~published /\ Untried
       /\ complete \in {NotComplete, Unconsumed, Inactive}
       /\ pc = "consume" => Open
       /\ kindOfRoot = "diag" /\ (complete = Inactive \/ pc = "handler") => clock > 0 \/ ~creds
  /\ pc = "consume" => creds
  /\ Attempt => consumed /\ Open /\ ~segment /\ ~published /\ creds

InCycle == Effects \cup {"remote", "inventory"}
AfterPlan == InCycle \ {"plan"}
Ending == {"segment", "terminal", "certify", "hand-off", "publish", "retire", "inactive"}
Driving == {"grant", "intent", "deadline", "active-slot", "settle-row", "receipt-row", "seal",
            "seal-active"} \cup Running

\* Which cycle cleanup-active.json names, seen from the entry.
ActiveInv ==
  /\ pc \in Before \cup Ending => active = NoActive
  /\ Attempt /\ active # NoActive => active.ord = ord
  /\ Attempt /\ pc \in Driving /\ op \in InCycle => active # NoActive
  /\ Attempt /\ pc \in Driving /\ op = "final" => active = NoActive
  /\ Attempt /\ pc \in Driving /\ op \in AfterPlan => mem = "slot"
  /\ pc \in {"scope-dir", "scope-mark", "spawn", "wait"} /\ op = "apply" => active.state = "slot"
  /\ pc = "claim" => active # NoActive

\* What the provider's files of a cycle say of each other, whole or half-written.
RecordInv ==
  /\ backend \subseteq data
  /\ \A o \in Cycles :
       /\ Half("variables", o) => o \notin tfvars
       /\ Half("intent", o) => reconcile[o] = NoIntent
       /\ Half("invocation", o) => reconcile[o] # NoIntent /\ invoked[o] = "none"
       /\ invoked[o] # "none" => reconcile[o] # NoIntent
  /\ \A c \in cmds :
       /\ c.at = "backend" => c.ord \in data
       /\ c.at \in {"intent", "invoke", "invocation"} => c.op = "recover"
       /\ c.at \in {"invoke", "invocation"} => reconcile[c.ord] # NoIntent

\* What a command is allowed to find, the process that started it alive or not.
ServedInv ==
  \A c \in cmds :
    /\ c.op \in InCycle => c.ord = active.ord
    /\ c.op = "apply" => active.state = "slot" /\ creds /\ ~Certified
    /\ c.op = "apply" /\ c.at \notin {"start", "fail"} => c.ord \in grants
    /\ c.op = "apply" /\ c.at \notin {"start", "variables", "fail"} => c.ord \in tfvars
    /\ c.op = "apply" /\ c.at \in {"act", "track", "write", "ok"} => c.ord \in backend
    /\ c.op # "recover" => Untried
    /\ c.op = "recover" /\ live # {} => c.ord = active.ord /\ c.state = "slot"

\* What is live.
LiveInv ==
  /\ live \subseteq {active.ord}
  /\ live # {} =>
       /\ active.state = "slot" /\ creds /\ ~Certified
       /\ active.ord \in grants \cap tfvars \cap backend
       /\ reconcile[active.ord] \in {NoIntent, Reconciled("slot", DestroyClaimed(active.ord))}
       /\ invoked[active.ord] \in {"none", Ambiguity(active.ord)}
       /\ Attempt => mem = "slot"
       /\ entry = "recover" /\ pc \in Running => ord = active.ord /\ mem = "slot"
  /\ Attempt /\ op # "recover" => Untried

Observers == {"inventory", "final", "recover"}

\* Who has seen that nothing is live.
ZeroInv ==
  /\ \A c \in cmds : c.op \in Observers /\ c.at = "ok" => live = {}
  /\ pc \in Collecting /\ op \in Observers /\ res = "ok" => live = {}
  /\ pc \in Settling \cup {"seal", "seal-active"} => live = {}

Journaled(o, n) == \E i \in 1..Len(journal) : journal[i] = <<"effect", o, n>>

\* The intent row comes before the command and its claim.
JournalInv ==
  /\ \A c \in cmds : c.op \in Effects => Journaled(c.op, c.ord)
  /\ pc \in {"deadline", "scope-dir", "scope-mark", "spawn"} /\ op \in Effects => Journaled(op, ord)
  /\ \A x \in claims : x[1] \in Effects => Journaled(x[1], x[2])

CustodyInv ==
  /\ FlagInv /\ FileInv /\ ProcInv /\ PointInv /\ CommandInv /\ ConsumeInv
  /\ RecordInv /\ ActiveInv /\ ServedInv /\ LiveInv /\ ZeroInv /\ JournalInv

-----------------------------------------------------------------------------
(* The commands and the journal. *)

\* There is one command, so a step of it leaves that one, a step further.
Advanced(c, at) ==
  /\ cmds' \subseteq Commands
  /\ \A d, e \in cmds' : d = e
  /\ \A d \in cmds' : /\ d.op = c.op /\ d.ord = c.ord /\ d.state = c.state
                      /\ d.owner = c.owner /\ d.at = at

LEMMA StepFacts ==
    ASSUME ProcInv, CommandInv, NEW c \in cmds, NEW at \in Steps, Step(c, at)
    PROVE  Advanced(c, at)
  <1> DEFINE n == [c EXCEPT !.at = at]
  <1>1. c \in Commands
    BY DEF ProcInv
  <1>2. /\ n \in Commands /\ n.op = c.op /\ n.ord = c.ord /\ n.state = c.state
        /\ n.owner = c.owner /\ n.at = at
    BY <1>1 DEF Commands
  <1>3. cmds' = {n}
    BY DEF CommandInv, Step
  <1> HIDE DEF n
  <1>4. QED
    BY <1>2, <1>3 DEF Advanced

\* A crash leaves the command to itself.
Orphaned ==
  /\ cmds' \subseteq Commands
  /\ \A d, e \in cmds' : d = e
  /\ \A d \in cmds' : \E c \in cmds :
        d.op = c.op /\ d.ord = c.ord /\ d.state = c.state /\ d.at = c.at

LEMMA CrashFacts ==
    ASSUME ProcInv, CommandInv, Crash
    PROVE  Orphaned
  <1> DEFINE stray(c) == [c EXCEPT !.owner = "stray"]
  <1>1. ASSUME NEW c \in cmds
        PROVE  /\ stray(c) \in Commands /\ stray(c).op = c.op /\ stray(c).ord = c.ord
               /\ stray(c).state = c.state /\ stray(c).at = c.at
    BY DEF ProcInv, Commands
  <1>2. cmds' = {stray(c) : c \in cmds}
    BY DEF Crash
  <1>3. \A c, d \in cmds : c = d
    BY DEF CommandInv
  <1> HIDE DEF stray
  <1>4. QED
    BY <1>1, <1>2, <1>3 DEF Orphaned

\* Where a file that is filled lets its command go on.
LEMMA FilledFacts ==
    ASSUME NEW c, WriteOnce(c)
    PROVE  /\ Filled[c.at] \in {"claim", "act", "invoke", "destroy"} /\ Filled[c.at] \in Steps
           /\ Step(c, Filled[c.at])
           /\ Filled[c.at] = "act" => c.at = "backend"
           /\ Filled[c.at] = "claim" => c.at = "variables"
           /\ Filled[c.at] = "invoke" => c.at = "intent"
           /\ Filled[c.at] = "destroy" => c.at = "invocation"
  BY DEF WriteOnce, Filled, Steps

\* Rows are only added.
LEMMA AppendFacts ==
    ASSUME FileInv, NEW r \in Rows, journal' = Append(journal, r)
    PROVE  /\ journal' \in Seq(Rows)
           /\ \A o, n : Journaled(o, n) => Journaled(o, n)'
           /\ \A o, n : r = <<"effect", o, n>> => Journaled(o, n)'
  <1>1. /\ journal \in Seq(Rows) /\ Len(journal') = Len(journal) + 1 /\ Len(journal) \in Nat
        /\ journal' \in Seq(Rows) /\ journal'[Len(journal) + 1] = r
        /\ \A i \in 1..Len(journal) : journal'[i] = journal[i]
    BY DEF FileInv
  <1>2. QED
    BY <1>1 DEF Journaled

\* So a row that is recorded keeps what the journal says.
LEMMA RowFacts ==
    ASSUME FileInv, NEW row \in Rows, NEW next, NEW raised,
           AppendRow(row, next, raised)
    PROVE  /\ journal' \in Seq(Rows)
           /\ \A o, n : Journaled(o, n) => Journaled(o, n)'
           /\ pc' = next /\ next # raised => \A o, n : row = <<"effect", o, n>> => Journaled(o, n)'
  <1>1. CASE journal' = Append(journal, row)
    BY <1>1, AppendFacts
  <1>2. CASE journal' = journal /\ pc' = raised
    BY <1>2 DEF FileInv, Journaled
  <1>3. QED
    BY <1>1, <1>2 DEF AppendRow

\* A failure that is counted stays within its bound.
LEMMA FaultFacts == ProcInv /\ Fault => faults' \in 0..MaxFaults
  BY CustodyAssumption DEF ProcInv, Fault

-----------------------------------------------------------------------------
(* The steps: one lemma per part of the invariant, one case per action. *)

\* The Boolean files and the journal's torn tail keep their types.
LEMMA FlagStep == CustodyInv /\ [Next]_vars => FlagInv'
  <1> SUFFICES ASSUME CustodyInv, [Next]_vars PROVE FlagInv'
    OBVIOUS
  <1>a. FlagInv
    BY DEF CustodyInv
  <1>1. CASE StartRun
    BY <1>a, <1>1 DEF StartRun, rootVars, FlagInv
  <1>2. CASE StartRecover
    BY <1>a, <1>2 DEF StartRecover, rootVars, FlagInv
  <1>3. CASE Consume
    BY <1>a, <1>3 DEF Consume, FlagInv
  <1>4. CASE ImportAnchor
    BY <1>a, <1>4 DEF ImportAnchor, FlagInv
  <1>5. CASE RecordFirstRow
    BY <1>a, <1>5 DEF RecordFirstRow, RowVars, AppendRow, FlagInv
  <1>6. CASE OpenCycle
    BY <1>a, <1>6 DEF OpenCycle, RowVars, AppendRow, FlagInv
  <1>7. CASE OpenActive
    BY <1>a, <1>7 DEF OpenActive, KeepButActive, FlagInv
  <1>8. CASE EnsureGrant
    BY <1>a, <1>8 DEF EnsureGrant, rootVars, FlagInv
  <1>9. CASE RecordIntent
    BY <1>a, <1>9 DEF RecordIntent, RowVars, AppendRow, FlagInv
  <1>10. CASE EffectDeadline
    BY <1>a, <1>10 DEF EffectDeadline, KeepButActive, FlagInv
  <1>11. CASE MakeScope
    BY <1>a, <1>11 DEF MakeScope, KeepRun, rootVars, FlagInv
  <1>12. CASE MarkScope
    BY <1>a, <1>12 DEF MarkScope, KeepRun, rootVars, FlagInv
  <1>13. CASE Spawn
    BY <1>a, <1>13 DEF Spawn, KeepRun, rootVars, FlagInv
  <1>14. CASE Collect
    BY <1>a, <1>14 DEF Collect, KeepRun, rootVars, FlagInv
  <1>15. CASE RemoveScope
    BY <1>a, <1>15 DEF RemoveScope, KeepRun, rootVars, FlagInv
  <1>16. CASE UnmarkScope
    BY <1>a, <1>16 DEF UnmarkScope, KeepRun, rootVars, FlagInv
  <1>17. CASE EffectActive
    BY <1>a, <1>17 DEF EffectActive, KeepButActive, FlagInv
  <1>18. CASE RecordSettled
    BY <1>a, <1>18 DEF RecordSettled, RowVars, AppendRow, FlagInv
  <1>19. CASE RecordReceipt
    BY <1>a, <1>19 DEF RecordReceipt, RowVars, AppendRow, FlagInv
  <1>20. CASE SealCycle
    BY <1>a, <1>20 DEF SealCycle, RowVars, AppendRow, FlagInv
  <1>21. CASE SealActive
    BY <1>a, <1>21 DEF SealActive, KeepButActive, FlagInv
  <1>22. CASE StartCleanup
    BY <1>a, <1>22 DEF StartCleanup, rootVars, FlagInv
  <1>23. CASE RecordUncertain
    BY <1>a, <1>23 DEF RecordUncertain, RowVars, AppendRow, FlagInv
  <1>24. CASE SettleComplete
    BY <1>a, <1>24 DEF SettleComplete, FlagInv
  <1>25. CASE SettleJournal
    BY <1>a, <1>25 DEF SettleJournal, RowVars, AppendRow, FlagInv
  <1>26. CASE SettleActive
    BY <1>a, <1>26 DEF SettleActive, KeepButActive, FlagInv
  <1>27. CASE Handler
    BY <1>a, <1>27 DEF Handler, KeepButComplete, FlagInv
  <1>28. CASE Retire
    BY <1>a, <1>28 DEF Retire, KeepButCreds, FlagInv
  <1>29. CASE SegmentComplete
    BY <1>a, <1>29 DEF SegmentComplete, FlagInv
  <1>30. CASE Terminal
    BY <1>a, <1>30 DEF Terminal, RowVars, AppendRow, FlagInv
  <1>31. CASE Certify
    BY <1>a, <1>31 DEF Certify, KeepButComplete, FlagInv
  <1>32. CASE HandOff
    BY <1>a, <1>32 DEF HandOff, KeepButCreds, FlagInv
  <1>33. CASE Publish
    BY <1>a, <1>33 DEF Publish, FlagInv
  <1>34. CASE Drain
    BY <1>a, <1>34 DEF Drain, KeepRun, rootVars, FlagInv
  <1>35. CASE RecoverUnconsumed
    BY <1>a, <1>35 DEF RecoverUnconsumed, KeepButComplete, FlagInv
  <1>36. CASE RecoverAdmission
    BY <1>a, <1>36 DEF RecoverAdmission, FlagInv
  <1>37. CASE RecoverInactive
    BY <1>a, <1>37 DEF RecoverInactive, KeepButComplete, FlagInv
  <1>38. CASE RecoverActive
    BY <1>a, <1>38 DEF RecoverActive, rootVars, FlagInv
  <1>39. CASE Abandon
    BY <1>a, <1>39 DEF Abandon, rootVars, FlagInv
  <1>40. ASSUME NEW c \in cmds, EffectPrepare(c) PROVE FlagInv'
    BY <1>a, <1>40 DEF EffectPrepare, KeepCmd, rootVars, FlagInv
  <1>41. ASSUME NEW c \in cmds, EffectClaim(c) PROVE FlagInv'
    BY <1>a, <1>41 DEF EffectClaim, KeepCmd, rootVars, FlagInv
  <1>42. ASSUME NEW c \in cmds, EffectAct(c) PROVE FlagInv'
    BY <1>a, <1>42 DEF EffectAct, KeepCmd, rootVars, FlagInv
  <1>43. ASSUME NEW c \in cmds, EffectTrack(c) PROVE FlagInv'
    BY <1>a, <1>43 DEF EffectTrack, KeepCmd, rootVars, FlagInv
  <1>44. ASSUME NEW c \in cmds, EffectReceipt(c) PROVE FlagInv'
    BY <1>a, <1>44 DEF EffectReceipt, KeepCmd, rootVars, FlagInv
  <1>45. ASSUME NEW c \in cmds, Remote(c) PROVE FlagInv'
    BY <1>a, <1>45 DEF Remote, KeepCmd, rootVars, FlagInv
  <1>46. ASSUME NEW c \in cmds, Inventory(c) PROVE FlagInv'
    BY <1>a, <1>46 DEF Inventory, KeepCmd, rootVars, FlagInv
  <1>47. ASSUME NEW c \in cmds, RecoverIntent(c) PROVE FlagInv'
    BY <1>a, <1>47 DEF RecoverIntent, KeepCmd, rootVars, FlagInv
  <1>48. ASSUME NEW c \in cmds, RecoverDestroy(c) PROVE FlagInv'
    BY <1>a, <1>48 DEF RecoverDestroy, KeepCmd, rootVars, FlagInv
  <1>49. ASSUME NEW c \in cmds, RecoverSettle(c) PROVE FlagInv'
    BY <1>a, <1>49 DEF RecoverSettle, KeepCmd, rootVars, FlagInv
  <1>50. ASSUME NEW c \in cmds, RecoverInventory(c) PROVE FlagInv'
    BY <1>a, <1>50 DEF RecoverInventory, KeepCmd, rootVars, FlagInv
  <1>50a. ASSUME NEW c \in cmds, LocalBackend(c) PROVE FlagInv'
    BY <1>a, <1>50a DEF LocalBackend, KeepCmd, rootVars, FlagInv
  <1>50b. ASSUME NEW c \in cmds, RecoverInvoke(c) PROVE FlagInv'
    BY <1>a, <1>50b DEF RecoverInvoke, KeepCmd, rootVars, FlagInv
  <1>50c. ASSUME NEW c \in cmds, WriteOnce(c) PROVE FlagInv'
    BY <1>a, <1>50c DEF WriteOnce, KeepCmd, rootVars, FlagInv
  <1>51. CASE CommandFails
    BY <1>a, <1>51 DEF CommandFails, KeepCmd, rootVars, FlagInv
  <1>52. CASE Crash
    BY <1>a, <1>52 DEF Crash, FlagInv
  <1>53. CASE Tick
    BY <1>a, <1>53 DEF Tick, rootVars, FlagInv
  <1>54. CASE UNCHANGED vars
    BY <1>a, <1>54 DEF vars, rootVars, FlagInv
  <1>55. QED
    BY <1>1, <1>2, <1>3, <1>4, <1>5, <1>6, <1>7, <1>8, <1>9, <1>10, <1>11, <1>12, <1>13,
       <1>14, <1>15, <1>16, <1>17, <1>18, <1>19, <1>20, <1>21, <1>22, <1>23, <1>24, <1>25,
       <1>26, <1>27, <1>28, <1>29, <1>30, <1>31, <1>32, <1>33, <1>34, <1>35, <1>36, <1>37,
       <1>38, <1>39, <1>40, <1>41, <1>42, <1>43, <1>44, <1>45, <1>46, <1>47, <1>48, <1>49,
       <1>50, <1>50a, <1>50b, <1>50c, <1>51, <1>52, <1>53, <1>54 DEF Next, Proceed, Provide

\* Every file keeps its type: a step writes only rows, cycles and intents of the format.
LEMMA FileStep == CustodyInv /\ [Next]_vars => FileInv'
  <1> SUFFICES ASSUME CustodyInv, [Next]_vars PROVE FileInv'
    OBVIOUS
  <1>a. FileInv /\ ProcInv /\ CommandInv
    BY DEF CustodyInv
  <1>1. CASE StartRun
    BY <1>a, <1>1 DEF StartRun, provVars, rootVars, FileInv
  <1>2. CASE StartRecover
    BY <1>a, <1>2 DEF StartRecover, provVars, rootVars, FileInv
  <1>3. CASE Consume
    BY <1>a, <1>3 DEF Consume, provVars, FileInv
  <1>4. CASE ImportAnchor
    BY <1>a, <1>4 DEF ImportAnchor, provVars, FileInv
  <1>5. CASE RecordFirstRow
    <2>1. FirstRow \in Rows
      BY <1>a, CustodyAssumption DEF Rows, FileInv, FirstRow
    <2>2. journal' \in Seq(Rows)
      BY <1>a, <1>5, <2>1, RowFacts, AppendFacts DEF RecordFirstRow, FileInv
    <2>3. QED
      BY <1>a, <1>5, <2>2 DEF RecordFirstRow, RowVars, provVars, FileInv
  <1>6. CASE OpenCycle
    <2>1. <<"cycle", "opened", ord>> \in Rows
      BY <1>a DEF Rows, FileInv, ProcInv, Cycles
    <2>2. journal' \in Seq(Rows)
      BY <1>a, <1>6, <2>1, RowFacts, AppendFacts DEF OpenCycle, FileInv
    <2>3. QED
      BY <1>a, <1>6, <2>2 DEF OpenCycle, RowVars, provVars, FileInv
  <1>7. CASE OpenActive
    BY <1>a, <1>7 DEF OpenActive, KeepButActive, provVars, SetActive, Active, FileInv,
       States, ProcInv
  <1>8. CASE EnsureGrant
    BY <1>a, <1>8 DEF EnsureGrant, rootVars, FileInv, ProcInv
  <1>9. CASE RecordIntent
    <2>1. <<"effect", op, ord>> \in Rows
      BY <1>a DEF Rows, FileInv, ProcInv, Cycles
    <2>2. journal' \in Seq(Rows)
      BY <1>a, <1>9, <2>1, RowFacts, AppendFacts DEF RecordIntent, FileInv
    <2>3. QED
      BY <1>a, <1>9, <2>2 DEF RecordIntent, RowVars, provVars, FileInv
  <1>10. CASE EffectDeadline
    BY <1>a, <1>10 DEF EffectDeadline, KeepButActive, provVars, SetActive, Active, FileInv,
       States, ProcInv
  <1>11. CASE MakeScope
    BY <1>a, <1>11 DEF MakeScope, KeepRun, provVars, rootVars, FileInv
  <1>12. CASE MarkScope
    BY <1>a, <1>12 DEF MarkScope, KeepRun, provVars, rootVars, FileInv
  <1>13. CASE Spawn
    BY <1>a, <1>13 DEF Spawn, KeepRun, provVars, rootVars, FileInv
  <1>14. CASE Collect
    BY <1>a, <1>14 DEF Collect, KeepRun, provVars, rootVars, FileInv
  <1>15. CASE RemoveScope
    BY <1>a, <1>15 DEF RemoveScope, KeepRun, provVars, rootVars, FileInv
  <1>16. CASE UnmarkScope
    BY <1>a, <1>16 DEF UnmarkScope, KeepRun, provVars, rootVars, FileInv
  <1>17. CASE EffectActive
    BY <1>a, <1>17 DEF EffectActive, KeepButActive, provVars, SetActive, Active, FileInv,
       States, ProcInv
  <1>18. CASE RecordSettled
    <2>1. <<"settled", op, ord>> \in Rows
      BY <1>a DEF Rows, FileInv, ProcInv, Cycles
    <2>2. journal' \in Seq(Rows)
      BY <1>a, <1>18, <2>1, RowFacts, AppendFacts DEF RecordSettled, FileInv
    <2>3. QED
      BY <1>a, <1>18, <2>2 DEF RecordSettled, RowVars, provVars, FileInv
  <1>19. CASE RecordReceipt
    <2>1. <<"receipt", op, ord>> \in Rows
      BY <1>a DEF Rows, FileInv, ProcInv, Cycles
    <2>2. journal' \in Seq(Rows)
      BY <1>a, <1>19, <2>1, RowFacts, AppendFacts DEF RecordReceipt, FileInv
    <2>3. QED
      BY <1>a, <1>19, <2>2 DEF RecordReceipt, RowVars, provVars, FileInv
  <1>20. CASE SealCycle
    <2>1. <<"cycle", "sealed", ord>> \in Rows
      BY <1>a DEF Rows, FileInv, ProcInv, Cycles
    <2>2. journal' \in Seq(Rows)
      BY <1>a, <1>20, <2>1, RowFacts, AppendFacts DEF SealCycle, FileInv
    <2>3. QED
      BY <1>a, <1>20, <2>2 DEF SealCycle, RowVars, provVars, FileInv
  <1>21. CASE SealActive
    BY <1>a, <1>21 DEF SealActive, KeepButActive, provVars, FileInv
  <1>22. CASE StartCleanup
    BY <1>a, <1>22 DEF StartCleanup, provVars, rootVars, FileInv
  <1>23. CASE RecordUncertain
    <2>1. <<"cleanup", "uncertain", ord>> \in Rows
      BY <1>a DEF Rows, FileInv, ProcInv, Cycles
    <2>2. journal' \in Seq(Rows)
      BY <1>a, <1>23, <2>1, RowFacts, AppendFacts DEF RecordUncertain, FileInv
    <2>3. QED
      BY <1>a, <1>23, <2>2 DEF RecordUncertain, RowVars, provVars, FileInv
  <1>24. CASE SettleComplete
    BY <1>a, <1>24 DEF SettleComplete, provVars, FileInv
  <1>25. CASE SettleJournal
    <2>1. SettledRow \in Rows
      BY <1>a, CustodyAssumption DEF Rows, FileInv, Cycles, NoActive, Active, SettledRow
    <2>2. journal' \in Seq(Rows)
      BY <1>a, <1>25, <2>1, RowFacts, AppendFacts DEF SettleJournal, FileInv
    <2>3. QED
      BY <1>a, <1>25, <2>2 DEF SettleJournal, RowVars, provVars, FileInv
  <1>26. CASE SettleActive
    BY <1>a, <1>26 DEF SettleActive, KeepButActive, provVars, FileInv
  <1>27. CASE Handler
    BY <1>a, <1>27 DEF Handler, KeepButComplete, provVars, FileInv
  <1>28. CASE Retire
    BY <1>a, <1>28 DEF Retire, KeepButCreds, provVars, FileInv
  <1>29. CASE SegmentComplete
    BY <1>a, <1>29 DEF SegmentComplete, provVars, FileInv
  <1>30. CASE Terminal
    <2>1. TerminalRow \in Rows
      BY CustodyAssumption DEF Rows, FileInv, TerminalRow
    <2>2. journal' \in Seq(Rows)
      BY <1>a, <1>30, <2>1, RowFacts, AppendFacts DEF Terminal, FileInv
    <2>3. QED
      BY <1>a, <1>30, <2>2 DEF Terminal, RowVars, provVars, FileInv
  <1>31. CASE Certify
    BY <1>a, <1>31 DEF Certify, KeepButComplete, provVars, FileInv
  <1>32. CASE HandOff
    BY <1>a, <1>32 DEF HandOff, KeepButCreds, provVars, FileInv
  <1>33. CASE Publish
    BY <1>a, <1>33 DEF Publish, provVars, FileInv
  <1>34. CASE Drain
    BY <1>a, <1>34 DEF Drain, KeepRun, provVars, rootVars, FileInv
  <1>35. CASE RecoverUnconsumed
    BY <1>a, <1>35 DEF RecoverUnconsumed, KeepButComplete, provVars, FileInv
  <1>36. CASE RecoverAdmission
    <2>1. FirstRow \in Rows
      BY CustodyAssumption DEF Rows, FirstRow
    <2>2. <<FirstRow>> \in Seq(Rows)
      BY <2>1
    <2>3. journal' \in Seq(Rows)
      BY <1>a, <1>36, <2>2 DEF RecoverAdmission, FileInv
    <2>4. QED
      BY <1>a, <1>36, <2>3 DEF RecoverAdmission, provVars, FileInv
  <1>37. CASE RecoverInactive
    BY <1>a, <1>37 DEF RecoverInactive, KeepButComplete, provVars, FileInv
  <1>38. CASE RecoverActive
    BY <1>a, <1>38 DEF RecoverActive, provVars, rootVars, FileInv
  <1>39. CASE Abandon
    BY <1>a, <1>39 DEF Abandon, provVars, rootVars, FileInv
  <1>40. ASSUME NEW c \in cmds, EffectPrepare(c) PROVE FileInv'
    <2>1. c.ord \in Cycles
      BY <1>a DEF ProcInv, Commands
    <2>2. partial' \subseteq Unfinished \X Cycles
      BY <1>a, <1>40, <2>1 DEF EffectPrepare, Created, FileInv, Unfinished
    <2>3. QED
      BY <1>a, <1>40, <2>2 DEF EffectPrepare, KeepCmd, rootVars, FileInv
  <1>41. ASSUME NEW c \in cmds, EffectClaim(c) PROVE FileInv'
    BY <1>a, <1>41 DEF EffectClaim, KeepCmd, rootVars, FileInv
  <1>42. ASSUME NEW c \in cmds, EffectAct(c) PROVE FileInv'
    BY <1>a, <1>42 DEF EffectAct, provVars, KeepCmd, rootVars, FileInv
  <1>43. ASSUME NEW c \in cmds, EffectTrack(c) PROVE FileInv'
    BY <1>a, <1>43 DEF EffectTrack, provVars, KeepCmd, rootVars, FileInv
  <1>44. ASSUME NEW c \in cmds, EffectReceipt(c) PROVE FileInv'
    BY <1>a, <1>44 DEF EffectReceipt, KeepCmd, rootVars, FileInv
  <1>45. ASSUME NEW c \in cmds, Remote(c) PROVE FileInv'
    BY <1>a, <1>45 DEF Remote, KeepCmd, rootVars, FileInv
  <1>46. ASSUME NEW c \in cmds, Inventory(c) PROVE FileInv'
    BY <1>a, <1>46 DEF Inventory, KeepCmd, rootVars, FileInv
  <1>47. ASSUME NEW c \in cmds, RecoverIntent(c) PROVE FileInv'
    <2>1. c.ord \in Cycles
      BY <1>a DEF ProcInv, Commands
    <2>2. partial' \subseteq Unfinished \X Cycles
      BY <1>a, <1>47, <2>1 DEF RecoverIntent, Created, FileInv, Unfinished
    <2>3. QED
      BY <1>a, <1>47, <2>2 DEF RecoverIntent, KeepCmd, rootVars, FileInv
  <1>48. ASSUME NEW c \in cmds, RecoverDestroy(c) PROVE FileInv'
    BY <1>a, <1>48 DEF RecoverDestroy, provVars, KeepCmd, rootVars, FileInv
  <1>49. ASSUME NEW c \in cmds, RecoverSettle(c) PROVE FileInv'
    BY <1>a, <1>49 DEF RecoverSettle, KeepCmd, rootVars, FileInv, ProcInv, Commands
  <1>50. ASSUME NEW c \in cmds, RecoverInventory(c) PROVE FileInv'
    <2>1. c.ord \in Cycles /\ attempts[c.ord] \in 0..MaxAttempts
      BY <1>a DEF ProcInv, FileInv, Commands
    <2>2. \/ attempts' = attempts
          \/ /\ attempts[c.ord] < MaxAttempts
             /\ attempts' = [attempts EXCEPT ![c.ord] = @ + 1]
      BY <1>50 DEF RecoverInventory
    <2>3. attempts' \in [Cycles -> 0..MaxAttempts]
      <3>1. attempts[c.ord] < MaxAttempts => attempts[c.ord] + 1 \in 0..MaxAttempts
        BY <2>1, CustodyAssumption
      <3>2. attempts \in [Cycles -> 0..MaxAttempts]
        BY <1>a DEF FileInv
      <3>3. QED
        BY <2>1, <2>2, <3>1, <3>2
    <2>4. QED
      BY <1>a, <1>50, <2>3 DEF RecoverInventory, KeepCmd, rootVars, FileInv
  <1>50a. ASSUME NEW c \in cmds, LocalBackend(c) PROVE FileInv'
    BY <1>a, <1>50a DEF LocalBackend, KeepCmd, rootVars, FileInv, ProcInv, Commands
  <1>50b. ASSUME NEW c \in cmds, RecoverInvoke(c) PROVE FileInv'
    <2>1. c.ord \in Cycles
      BY <1>a DEF ProcInv, Commands
    <2>2. partial' \subseteq Unfinished \X Cycles
      BY <1>a, <1>50b, <2>1 DEF RecoverInvoke, Created, FileInv, Unfinished
    <2>3. QED
      BY <1>a, <1>50b, <2>2 DEF RecoverInvoke, KeepCmd, rootVars, FileInv
  <1>50c. ASSUME NEW c \in cmds, WriteOnce(c) PROVE FileInv'
    <2>1. c.ord \in Cycles /\ c.state \in States
      BY <1>a DEF ProcInv, Commands
    <2> DEFINE intent == Reconciled(c.state, DestroyClaimed(c.ord))
    <2>2. intent \in [state : States \cup {"none"}, destroy : BOOLEAN]
      BY <2>1 DEF Reconciled, DestroyClaimed
    <2>3. reconcile' \in {reconcile, [reconcile EXCEPT ![c.ord] = intent]}
      BY <1>50c DEF WriteOnce
    <2> HIDE DEF intent
    <2>4. reconcile' \in [Cycles -> [state : States \cup {"none"}, destroy : BOOLEAN]]
      BY <1>a, <2>1, <2>2, <2>3 DEF FileInv
    <2>5. invoked' \in [Cycles -> {"none", "plain", "ambiguous"}]
      <3>1. Ambiguity(c.ord) \in {"none", "plain", "ambiguous"}
        BY DEF Ambiguity
      <3>2. invoked' \in {invoked, [invoked EXCEPT ![c.ord] = Ambiguity(c.ord)]}
        BY <1>50c DEF WriteOnce
      <3>3. QED
        BY <1>a, <2>1, <3>1, <3>2 DEF FileInv
    <2>6. tfvars' \subseteq Cycles /\ backend' \subseteq Cycles
          /\ partial' \subseteq Unfinished \X Cycles
      BY <1>a, <1>50c, <2>1 DEF WriteOnce, FileInv
    <2>7. QED
      BY <1>a, <1>50c, <2>4, <2>5, <2>6 DEF WriteOnce, KeepCmd, rootVars, FileInv
  <1>51. CASE CommandFails
    BY <1>a, <1>51 DEF CommandFails, provVars, KeepCmd, rootVars, FileInv
  <1>52. CASE Crash
    BY <1>a, <1>52 DEF Crash, provVars, FileInv
  <1>53. CASE Tick
    BY <1>a, <1>53 DEF Tick, provVars, rootVars, FileInv
  <1>54. CASE UNCHANGED vars
    BY <1>a, <1>54 DEF vars, provVars, rootVars, FileInv
  <1>55. QED
    BY <1>1, <1>2, <1>3, <1>4, <1>5, <1>6, <1>7, <1>8, <1>9, <1>10, <1>11, <1>12, <1>13,
       <1>14, <1>15, <1>16, <1>17, <1>18, <1>19, <1>20, <1>21, <1>22, <1>23, <1>24, <1>25,
       <1>26, <1>27, <1>28, <1>29, <1>30, <1>31, <1>32, <1>33, <1>34, <1>35, <1>36, <1>37,
       <1>38, <1>39, <1>40, <1>41, <1>42, <1>43, <1>44, <1>45, <1>46, <1>47, <1>48, <1>49,
       <1>50, <1>50a, <1>50b, <1>50c, <1>51, <1>52, <1>53, <1>54 DEF Next, Proceed, Provide

\* The process, its command and the cloud keep their types.
LEMMA ProcStep == CustodyInv /\ [Next]_vars => ProcInv'
  <1> SUFFICES ASSUME CustodyInv, [Next]_vars PROVE ProcInv'
    OBVIOUS
  <1>a. FileInv /\ ProcInv /\ PointInv /\ CommandInv /\ ConsumeInv /\ ActiveInv
    BY DEF CustodyInv
  <1>b. \A c \in cmds, at \in Steps : Step(c, at) => Advanced(c, at)
    BY <1>a, StepFacts
  <1>1. CASE StartRun
    BY <1>a, <1>1, CustodyAssumption DEF StartRun, cloudVars, FirstCycle, ProcInv, States,
       Cycles
  <1>2. CASE StartRecover
    BY <1>a, <1>2 DEF StartRecover, cloudVars, ProcInv, Operations
  <1>3. CASE Consume
    BY <1>a, <1>3 DEF Consume, cloudVars, Goto, ProcInv
  <1>4. CASE ImportAnchor
    BY <1>a, <1>4 DEF ImportAnchor, cloudVars, Goto, ProcInv
  <1>5. CASE RecordFirstRow
    BY <1>a, <1>5, CustodyAssumption DEF RecordFirstRow, RowVars, cloudVars, AppendRow,
       Fault, ProcInv
  <1>6. CASE OpenCycle
    BY <1>a, <1>6, CustodyAssumption DEF OpenCycle, RowVars, cloudVars, AppendRow, Fault,
       ProcInv, States, Running, Effecting, Recovering, Open, Unconsumed
  <1>7. CASE OpenActive
    BY <1>a, <1>7 DEF OpenActive, KeepButActive, cloudVars, Do, ProcInv, Operations,
       Effects
  <1>8. CASE EnsureGrant
    BY <1>a, <1>8 DEF EnsureGrant, cloudVars, Goto, ProcInv
  <1>9. CASE RecordIntent
    BY <1>a, <1>9, CustodyAssumption DEF RecordIntent, RowVars, cloudVars, AppendRow,
       Fault, ProcInv, Collecting, Settling, Recovering, Open, Unconsumed, Complete,
       NotComplete, Attempt, Inactive, Untried, NoIntent, Reconciled, AfterPlan, InCycle,
       Driving, Ending
  <1>10. CASE EffectDeadline
    BY <1>a, <1>10 DEF EffectDeadline, KeepButActive, cloudVars, Raise, Goto, ProcInv
  <1>11. CASE MakeScope
    BY <1>a, <1>11 DEF MakeScope, KeepRun, cloudVars, Raise, Goto, ProcInv
  <1>12. CASE MarkScope
    BY <1>a, <1>12 DEF MarkScope, KeepRun, cloudVars, Goto, ProcInv
  <1>13. CASE Spawn
    BY <1>a, <1>13 DEF Spawn, KeepRun, cloudVars, Goto, ProcInv, Commands, Steps, PointInv,
       Running
  <1>14. CASE Collect
    BY <1>a, <1>14, CustodyAssumption DEF Collect, KeepRun, cloudVars, Fault, ProcInv
  <1>15. CASE RemoveScope
    BY <1>a, <1>15 DEF RemoveScope, KeepRun, cloudVars, Goto, ProcInv
  <1>16. CASE UnmarkScope
    BY <1>a, <1>16 DEF UnmarkScope, KeepRun, cloudVars, Goto, Do, Raise, ProcInv,
       Operations, Effects
  <1>17. CASE EffectActive
    BY <1>a, <1>17 DEF EffectActive, KeepButActive, cloudVars, Goto, ProcInv
  <1>18. CASE RecordSettled
    BY <1>a, <1>18, CustodyAssumption DEF RecordSettled, RowVars, cloudVars, AppendRow,
       Fault, ProcInv, Attempt, Inactive, Untried, NoIntent, Reconciled, AfterPlan,
       InCycle, Driving, Ending
  <1>19. CASE RecordReceipt
    <2>1. faults' \in 0..MaxFaults
      BY <1>a, <1>19, FaultFacts DEF RecordReceipt, AppendRow, ProcInv
    <2>2. NextOp[op] \in Operations
      BY <1>a, <1>19 DEF RecordReceipt, PointInv, Effecting, Effects, NextOp, Operations
    <2>3. op' \in Operations \cup {"none"} /\ mem' \in States
      BY <1>a, <1>19, <2>2 DEF RecordReceipt, ProcInv, States
    <2>4. QED
      BY <1>a, <1>19, <2>1, <2>3 DEF RecordReceipt, RowVars, cloudVars, ProcInv
  <1>20. CASE SealCycle
    <2>1. faults' \in 0..MaxFaults
      BY <1>a, <1>20, FaultFacts DEF SealCycle, AppendRow, ProcInv
    <2>2. QED
      BY <1>a, <1>20, <2>1 DEF SealCycle, RowVars, cloudVars, ProcInv
  <1>21. CASE SealActive
    BY <1>a, <1>21, CustodyAssumption DEF SealActive, KeepButActive, cloudVars, Do, Goto,
       FinalCycle, ProcInv, Cycles, Operations
  <1>22. CASE StartCleanup
    BY <1>a, <1>22 DEF StartCleanup, cloudVars, Do, ProcInv, Operations
  <1>23. CASE RecordUncertain
    BY <1>a, <1>23, CustodyAssumption DEF RecordUncertain, RowVars, cloudVars, AppendRow,
       Fault, ProcInv, Attempt
  <1>24. CASE SettleComplete
    BY <1>a, <1>24 DEF SettleComplete, cloudVars, Goto, ProcInv
  <1>25. CASE SettleJournal
    <2>1. faults' \in 0..MaxFaults
      BY <1>a, <1>25, FaultFacts DEF SettleJournal, AppendRow, ProcInv
    <2>2. QED
      BY <1>a, <1>25, <2>1 DEF SettleJournal, RowVars, cloudVars, ProcInv
  <1>26. CASE SettleActive
    BY <1>a, <1>26 DEF SettleActive, KeepButActive, cloudVars, Goto, ProcInv
  <1>27. CASE Handler
    BY <1>a, <1>27 DEF Handler, KeepButComplete, cloudVars, Leave, Goto, ProcInv
  <1>28. CASE Retire
    BY <1>a, <1>28 DEF Retire, KeepButCreds, cloudVars, Leave, ProcInv
  <1>29. CASE SegmentComplete
    BY <1>a, <1>29 DEF SegmentComplete, cloudVars, Goto, ProcInv
  <1>30. CASE Terminal
    BY <1>a, <1>30, CustodyAssumption DEF Terminal, RowVars, cloudVars, Fault, AppendRow,
       ProcInv
  <1>31. CASE Certify
    BY <1>a, <1>31 DEF Certify, KeepButComplete, cloudVars, Goto, ProcInv
  <1>32. CASE HandOff
    BY <1>a, <1>32 DEF HandOff, KeepButCreds, cloudVars, Goto, ProcInv
  <1>33. CASE Publish
    BY <1>a, <1>33, CustodyAssumption DEF Publish, cloudVars, Fault, Goto, Leave, ProcInv
  <1>34. CASE Drain
    BY <1>a, <1>34 DEF Drain, KeepRun, cloudVars, Goto, ProcInv
  <1>35. CASE RecoverUnconsumed
    BY <1>a, <1>35 DEF RecoverUnconsumed, KeepButComplete, cloudVars, Goto, ProcInv
  <1>36. CASE RecoverAdmission
    BY <1>a, <1>36 DEF RecoverAdmission, cloudVars, Goto, ProcInv
  <1>37. CASE RecoverInactive
    BY <1>a, <1>37 DEF RecoverInactive, KeepButComplete, cloudVars, Goto, ProcInv
  <1>38. CASE RecoverActive
    BY <1>a, <1>38 DEF RecoverActive, cloudVars, Goto, ProcInv, FileInv, ActiveInv
  <1>39. CASE Abandon
    BY <1>a, <1>39 DEF Abandon, cloudVars, Leave, ProcInv
  <1>40. ASSUME NEW c \in cmds, EffectPrepare(c) PROVE ProcInv'
    BY <1>a, <1>b, <1>40 DEF EffectPrepare, Created, cloudVars, KeepCmd, procVars, ProcInv, Steps,
       Advanced
  <1>41. ASSUME NEW c \in cmds, EffectClaim(c) PROVE ProcInv'
    BY <1>a, <1>b, <1>41 DEF EffectClaim, cloudVars, KeepCmd, procVars, ProcInv, Steps,
       Advanced
  <1>42. ASSUME NEW c \in cmds, EffectAct(c) PROVE ProcInv'
    BY <1>a, <1>b, <1>42 DEF EffectAct, KeepCmd, procVars, cloudVars, ProcInv, Commands,
       Steps, Advanced
  <1>43. ASSUME NEW c \in cmds, EffectTrack(c) PROVE ProcInv'
    <2>1. c.ord \in Cycles /\ cmds' \subseteq Commands
      BY <1>a, <1>b, <1>43 DEF EffectTrack, ProcInv, Commands, Advanced, Steps
    <2>2. QED
      BY <1>a, <1>43, <2>1 DEF EffectTrack, KeepCmd, procVars, ProcInv
  <1>44. ASSUME NEW c \in cmds, EffectReceipt(c) PROVE ProcInv'
    BY <1>a, <1>b, <1>44 DEF EffectReceipt, cloudVars, KeepCmd, procVars, ProcInv, Steps,
       Advanced
  <1>45. ASSUME NEW c \in cmds, Remote(c) PROVE ProcInv'
    BY <1>a, <1>b, <1>45 DEF Remote, cloudVars, KeepCmd, procVars, ProcInv, Steps, Advanced
  <1>46. ASSUME NEW c \in cmds, Inventory(c) PROVE ProcInv'
    BY <1>a, <1>b, <1>46 DEF Inventory, cloudVars, KeepCmd, procVars, ProcInv, Steps,
       Advanced
  <1>47. ASSUME NEW c \in cmds, RecoverIntent(c) PROVE ProcInv'
    BY <1>a, <1>b, <1>47 DEF RecoverIntent, Created, cloudVars, KeepCmd, procVars, ProcInv, Steps,
       Advanced
  <1>48. ASSUME NEW c \in cmds, RecoverDestroy(c) PROVE ProcInv'
    <2>1. cmds' \subseteq Commands
      BY <1>b, <1>48 DEF RecoverDestroy, Advanced, Steps
    <2>2. live' \subseteq live /\ tracked' \subseteq tracked
      BY <1>48 DEF RecoverDestroy, cloudVars
    <2>3. QED
      BY <1>a, <1>48, <2>1, <2>2 DEF RecoverDestroy, KeepCmd, procVars, ProcInv
  <1>49. ASSUME NEW c \in cmds, RecoverSettle(c) PROVE ProcInv'
    BY <1>a, <1>b, <1>49 DEF RecoverSettle, cloudVars, KeepCmd, procVars, ProcInv, Steps,
       Advanced
  <1>50. ASSUME NEW c \in cmds, RecoverInventory(c) PROVE ProcInv'
    BY <1>a, <1>b, <1>50 DEF RecoverInventory, cloudVars, KeepCmd, procVars, ProcInv,
       Steps, Advanced
  <1>50a. ASSUME NEW c \in cmds, LocalBackend(c) PROVE ProcInv'
    BY <1>a, <1>b, <1>50a DEF LocalBackend, cloudVars, KeepCmd, procVars, ProcInv, Steps,
       Advanced
  <1>50b. ASSUME NEW c \in cmds, RecoverInvoke(c) PROVE ProcInv'
    BY <1>a, <1>b, <1>50b DEF RecoverInvoke, Created, cloudVars, KeepCmd, procVars, ProcInv, Steps,
       Advanced
  <1>50c. ASSUME NEW c \in cmds, WriteOnce(c) PROVE ProcInv'
    BY <1>a, FilledFacts, <1>b, <1>50c DEF WriteOnce, cloudVars, KeepCmd, procVars, ProcInv, Steps,
       Advanced
  <1>51. CASE CommandFails
    BY <1>a, <1>b, <1>51, CustodyAssumption DEF CommandFails, cloudVars, KeepCmd, procVars,
       Fault, ProcInv, Steps, Advanced
  <1>52. CASE Crash
    <2>1. Orphaned /\ faults' \in 0..MaxFaults
      BY <1>a, <1>52, CrashFacts, FaultFacts DEF Crash
    <2>2. Leave /\ UNCHANGED <<scope, cloudVars, clock>>
      BY <1>52 DEF Crash
    <2>3. QED
      BY <1>a, <2>1, <2>2 DEF Orphaned, Leave, cloudVars, ProcInv
  <1>53. CASE Tick
    BY <1>a, <1>53 DEF Tick, procVars, cloudVars, ProcInv
  <1>54. CASE UNCHANGED vars
    BY <1>a, <1>54 DEF vars, procVars, cloudVars, ProcInv
  <1>55. QED
    BY <1>1, <1>2, <1>3, <1>4, <1>5, <1>6, <1>7, <1>8, <1>9, <1>10, <1>11, <1>12, <1>13,
       <1>14, <1>15, <1>16, <1>17, <1>18, <1>19, <1>20, <1>21, <1>22, <1>23, <1>24, <1>25,
       <1>26, <1>27, <1>28, <1>29, <1>30, <1>31, <1>32, <1>33, <1>34, <1>35, <1>36, <1>37,
       <1>38, <1>39, <1>40, <1>41, <1>42, <1>43, <1>44, <1>45, <1>46, <1>47, <1>48, <1>49,
       <1>50, <1>50a, <1>50b, <1>50c, <1>51, <1>52, <1>53, <1>54 DEF Next, Proceed, Provide

\* An entry is only ever at the control points of its own kind, with its own operation.
LEMMA PointStep == CustodyInv /\ [Next]_vars => PointInv'
  <1> SUFFICES ASSUME CustodyInv, [Next]_vars PROVE PointInv'
    OBVIOUS
  <1>a. ProcInv /\ PointInv /\ CommandInv
    BY DEF CustodyInv
  <1>1. CASE StartRun
    BY <1>1 DEF StartRun, PointInv, Collecting, Settling, Running, Effecting, Recovering
  <1>2. CASE StartRecover
    BY <1>2 DEF StartRecover, PointInv, Collecting, Before, Effecting, Recovering
  <1>3. CASE Consume
    BY <1>a, <1>3 DEF Consume, Goto, PointInv, Collecting, Settling, Running, Effecting,
       Recovering
  <1>4. CASE ImportAnchor
    BY <1>a, <1>4 DEF ImportAnchor, Goto, PointInv, Collecting, Before, Settling, Running,
       Effecting, Recovering
  <1>5. CASE RecordFirstRow
    BY <1>a, <1>5 DEF RecordFirstRow, RowVars, AppendRow, PointInv, Collecting, Before,
       Settling, Running, Effecting, Recovering
  <1>6. CASE OpenCycle
    BY <1>a, <1>6 DEF OpenCycle, RowVars, AppendRow, PointInv, Collecting, Before,
       Settling, Running, Effecting, Recovering
  <1>7. CASE OpenActive
    BY <1>a, <1>7 DEF OpenActive, Do, PointInv, Collecting, Before, Settling, Effects,
       Recovering
  <1>8. CASE EnsureGrant
    BY <1>a, <1>8 DEF EnsureGrant, Goto, PointInv, Collecting, Before, Settling, Running,
       Effecting, Recovering
  <1>9. CASE RecordIntent
    BY <1>a, <1>9 DEF RecordIntent, RowVars, AppendRow, PointInv, Collecting, Settling,
       Effects, Effecting, Recovering
  <1>10. CASE EffectDeadline
    BY <1>a, <1>10 DEF EffectDeadline, Raise, Raised, Goto, PointInv, Collecting, Settling,
       Effecting, Recovering
  <1>11. CASE MakeScope
    BY <1>a, <1>11 DEF MakeScope, Raise, Raised, Goto, PointInv, Collecting, Before,
       Settling, Running, Effecting, Recovering
  <1>12. CASE MarkScope
    BY <1>a, <1>12 DEF MarkScope, Goto, PointInv, Collecting, Before, Settling, Running,
       Effecting, Recovering
  <1>13. CASE Spawn
    BY <1>a, <1>13 DEF Spawn, Goto, PointInv, Collecting, Before, Settling, Running,
       Effecting, Recovering
  <1>14. CASE Collect
    BY <1>a, <1>14 DEF Collect, PointInv, Before, Settling, Running, Effecting, Recovering,
       CommandInv
  <1>15. CASE RemoveScope
    BY <1>a, <1>15 DEF RemoveScope, Goto, PointInv, Collecting, Before, Settling, Running,
       Effecting, Recovering
  <1>16. CASE UnmarkScope
    BY <1>a, <1>16 DEF UnmarkScope, Goto, Do, Raise, Raised, PointInv, Collecting, Before,
       Settling, Running, Effects, Effecting, Recovering, ProcInv, Operations
  <1>17. CASE EffectActive
    BY <1>a, <1>17 DEF EffectActive, Goto, PointInv, Collecting, Before, Settling, Running,
       Effecting, Recovering
  <1>18. CASE RecordSettled
    BY <1>a, <1>18 DEF RecordSettled, RowVars, AppendRow, PointInv, Collecting, Settling,
       Effects, Effecting, Recovering
  <1>19. CASE RecordReceipt
    BY <1>a, <1>19 DEF RecordReceipt, RowVars, NextOp, NextPc, AppendRow, PointInv,
       Collecting, Settling, Effects, Effecting, Recovering
  <1>20. CASE SealCycle
    BY <1>a, <1>20 DEF SealCycle, RowVars, AppendRow, PointInv, Collecting, Settling,
       Effecting, Recovering
  <1>21. CASE SealActive
    BY <1>a, <1>21 DEF SealActive, Do, Goto, PointInv, Collecting, Settling, Effecting,
       Recovering
  <1>22. CASE StartCleanup
    BY <1>a, <1>22 DEF StartCleanup, Do, PointInv, Collecting, Before, Effecting,
       Recovering
  <1>23. CASE RecordUncertain
    BY <1>a, <1>23 DEF RecordUncertain, RowVars, AppendRow, PointInv, Collecting, Before,
       Settling, Running, Effecting, Recovering
  <1>24. CASE SettleComplete
    BY <1>a, <1>24 DEF SettleComplete, Goto, PointInv, Collecting, Before, Settling,
       Effecting, Recovering
  <1>25. CASE SettleJournal
    BY <1>a, <1>25 DEF SettleJournal, RowVars, AppendRow, PointInv, Collecting, Before,
       Settling, Effecting, Recovering
  <1>26. CASE SettleActive
    BY <1>a, <1>26 DEF SettleActive, Goto, PointInv, Collecting, Before, Settling,
       Effecting, Recovering
  <1>27. CASE Handler
    BY <1>a, <1>27 DEF Handler, Leave, Goto, PointInv, Collecting, Before, Settling,
       Running, Effecting, Recovering
  <1>28. CASE Retire
    BY <1>28 DEF Retire, Leave, PointInv, Collecting, Settling, Running, Effecting,
       Recovering
  <1>29. CASE SegmentComplete
    BY <1>a, <1>29 DEF SegmentComplete, Goto, PointInv, Collecting, Before, Settling,
       Running, Effecting, Recovering
  <1>30. CASE Terminal
    BY <1>a, <1>30 DEF Terminal, RowVars, AppendRow, PointInv, Collecting, Before,
       Settling, Running, Effecting, Recovering
  <1>31. CASE Certify
    BY <1>a, <1>31 DEF Certify, Goto, PointInv, Collecting, Before, Settling, Running,
       Effecting, Recovering
  <1>32. CASE HandOff
    BY <1>a, <1>32 DEF HandOff, Goto, PointInv, Collecting, Before, Settling, Running,
       Effecting, Recovering
  <1>33. CASE Publish
    BY <1>a, <1>33 DEF Publish, Goto, Leave, PointInv, Collecting, Before, Settling,
       Running, Effecting, Recovering
  <1>34. CASE Drain
    BY <1>a, <1>34 DEF Drain, Goto, PointInv, Collecting, Before, Effecting, Recovering
  <1>35. CASE RecoverUnconsumed
    BY <1>a, <1>35 DEF RecoverUnconsumed, Goto, PointInv, Collecting, Before, Effecting,
       Recovering
  <1>36. CASE RecoverAdmission
    BY <1>a, <1>36 DEF RecoverAdmission, Goto, PointInv, Collecting, Before, Effecting,
       Recovering
  <1>37. CASE RecoverInactive
    BY <1>a, <1>37 DEF RecoverInactive, Goto, PointInv, Collecting, Before, Effecting,
       Recovering
  <1>38. CASE RecoverActive
    BY <1>a, <1>38 DEF RecoverActive, Goto, PointInv, Collecting, Before, Settling,
       Running, Effecting, Recovering
  <1>39. CASE Abandon
    BY <1>39 DEF Abandon, Leave, PointInv, Collecting, Settling, Running, Effecting,
       Recovering
  <1>40. ASSUME NEW c \in cmds, EffectPrepare(c) PROVE PointInv'
    BY <1>a, <1>40 DEF EffectPrepare, KeepCmd, procVars, PointInv
  <1>41. ASSUME NEW c \in cmds, EffectClaim(c) PROVE PointInv'
    BY <1>a, <1>41 DEF EffectClaim, KeepCmd, procVars, PointInv
  <1>42. ASSUME NEW c \in cmds, EffectAct(c) PROVE PointInv'
    BY <1>a, <1>42 DEF EffectAct, KeepCmd, procVars, PointInv
  <1>43. ASSUME NEW c \in cmds, EffectTrack(c) PROVE PointInv'
    BY <1>a, <1>43 DEF EffectTrack, KeepCmd, procVars, PointInv
  <1>44. ASSUME NEW c \in cmds, EffectReceipt(c) PROVE PointInv'
    BY <1>a, <1>44 DEF EffectReceipt, KeepCmd, procVars, PointInv
  <1>45. ASSUME NEW c \in cmds, Remote(c) PROVE PointInv'
    BY <1>a, <1>45 DEF Remote, KeepCmd, procVars, PointInv
  <1>46. ASSUME NEW c \in cmds, Inventory(c) PROVE PointInv'
    BY <1>a, <1>46 DEF Inventory, KeepCmd, procVars, PointInv
  <1>47. ASSUME NEW c \in cmds, RecoverIntent(c) PROVE PointInv'
    BY <1>a, <1>47 DEF RecoverIntent, KeepCmd, procVars, PointInv
  <1>48. ASSUME NEW c \in cmds, RecoverDestroy(c) PROVE PointInv'
    BY <1>a, <1>48 DEF RecoverDestroy, KeepCmd, procVars, PointInv
  <1>49. ASSUME NEW c \in cmds, RecoverSettle(c) PROVE PointInv'
    BY <1>a, <1>49 DEF RecoverSettle, KeepCmd, procVars, PointInv
  <1>50. ASSUME NEW c \in cmds, RecoverInventory(c) PROVE PointInv'
    BY <1>a, <1>50 DEF RecoverInventory, KeepCmd, procVars, PointInv
  <1>50a. ASSUME NEW c \in cmds, LocalBackend(c) PROVE PointInv'
    BY <1>a, <1>50a DEF LocalBackend, KeepCmd, procVars, PointInv
  <1>50b. ASSUME NEW c \in cmds, RecoverInvoke(c) PROVE PointInv'
    BY <1>a, <1>50b DEF RecoverInvoke, KeepCmd, procVars, PointInv
  <1>50c. ASSUME NEW c \in cmds, WriteOnce(c) PROVE PointInv'
    BY <1>a, <1>50c DEF WriteOnce, KeepCmd, procVars, PointInv
  <1>51. CASE CommandFails
    BY <1>a, <1>51 DEF CommandFails, KeepCmd, procVars, PointInv
  <1>52. CASE Crash
    BY <1>52 DEF Crash, Leave, PointInv, Collecting, Settling, Running, Effecting,
       Recovering
  <1>53. CASE Tick
    BY <1>a, <1>53 DEF Tick, procVars, PointInv
  <1>54. CASE UNCHANGED vars
    BY <1>a, <1>54 DEF vars, procVars, PointInv
  <1>55. QED
    BY <1>1, <1>2, <1>3, <1>4, <1>5, <1>6, <1>7, <1>8, <1>9, <1>10, <1>11, <1>12, <1>13,
       <1>14, <1>15, <1>16, <1>17, <1>18, <1>19, <1>20, <1>21, <1>22, <1>23, <1>24, <1>25,
       <1>26, <1>27, <1>28, <1>29, <1>30, <1>31, <1>32, <1>33, <1>34, <1>35, <1>36, <1>37,
       <1>38, <1>39, <1>40, <1>41, <1>42, <1>43, <1>44, <1>45, <1>46, <1>47, <1>48, <1>49,
       <1>50, <1>50a, <1>50b, <1>50c, <1>51, <1>52, <1>53, <1>54 DEF Next, Proceed, Provide

\* No entry starts a second command, and none goes on while an earlier one runs.
LEMMA CommandStep == CustodyInv /\ [Next]_vars => CommandInv'
  <1> SUFFICES ASSUME CustodyInv, [Next]_vars PROVE CommandInv'
    OBVIOUS
  <1>a. FileInv /\ ProcInv /\ CommandInv /\ ConsumeInv
    BY DEF CustodyInv
  <1>b. \A c \in cmds, at \in Steps : Step(c, at) => Advanced(c, at)
    BY <1>a, StepFacts
  <1>1. CASE StartRun
    BY <1>a, <1>1 DEF StartRun, CommandInv, Resting
  <1>2. CASE StartRecover
    BY <1>a, <1>2 DEF StartRecover, CommandInv, Resting
  <1>3. CASE Consume
    BY <1>a, <1>3 DEF Consume, Goto, CommandInv, Resting, ConsumeInv
  <1>4. CASE ImportAnchor
    BY <1>a, <1>4 DEF ImportAnchor, CommandInv, Resting
  <1>5. CASE RecordFirstRow
    BY <1>a, <1>5 DEF RecordFirstRow, RowVars, CommandInv, Resting
  <1>6. CASE OpenCycle
    BY <1>a, <1>6 DEF OpenCycle, RowVars, CommandInv, Resting
  <1>7. CASE OpenActive
    BY <1>a, <1>7 DEF OpenActive, KeepButActive, CommandInv, Resting
  <1>8. CASE EnsureGrant
    BY <1>a, <1>8 DEF EnsureGrant, CommandInv, Resting
  <1>9. CASE RecordIntent
    BY <1>a, <1>9 DEF RecordIntent, RowVars, CommandInv, Resting
  <1>10. CASE EffectDeadline
    BY <1>a, <1>10 DEF EffectDeadline, KeepButActive, CommandInv, Resting
  <1>11. CASE MakeScope
    BY <1>a, <1>11 DEF MakeScope, CommandInv, Resting
  <1>12. CASE MarkScope
    BY <1>a, <1>12 DEF MarkScope, CommandInv, Resting
  <1>13. CASE Spawn
    BY <1>a, <1>13 DEF Spawn, Goto, CommandInv, Resting
  <1>14. CASE Collect
    BY <1>a, <1>14 DEF Collect, CommandInv
  <1>15. CASE RemoveScope
    BY <1>a, <1>15 DEF RemoveScope, CommandInv, Resting
  <1>16. CASE UnmarkScope
    BY <1>a, <1>16 DEF UnmarkScope, CommandInv, Resting
  <1>17. CASE EffectActive
    BY <1>a, <1>17 DEF EffectActive, KeepButActive, CommandInv, Resting
  <1>18. CASE RecordSettled
    BY <1>a, <1>18 DEF RecordSettled, RowVars, CommandInv, Resting
  <1>19. CASE RecordReceipt
    BY <1>a, <1>19 DEF RecordReceipt, RowVars, CommandInv, Resting
  <1>20. CASE SealCycle
    BY <1>a, <1>20 DEF SealCycle, RowVars, CommandInv, Resting
  <1>21. CASE SealActive
    BY <1>a, <1>21 DEF SealActive, KeepButActive, CommandInv, Resting
  <1>22. CASE StartCleanup
    BY <1>a, <1>22 DEF StartCleanup, CommandInv, Resting
  <1>23. CASE RecordUncertain
    BY <1>a, <1>23 DEF RecordUncertain, RowVars, CommandInv, Resting
  <1>24. CASE SettleComplete
    BY <1>a, <1>24 DEF SettleComplete, CommandInv, Resting
  <1>25. CASE SettleJournal
    BY <1>a, <1>25 DEF SettleJournal, RowVars, CommandInv, Resting
  <1>26. CASE SettleActive
    BY <1>a, <1>26 DEF SettleActive, KeepButActive, CommandInv, Resting
  <1>27. CASE Handler
    BY <1>a, <1>27 DEF Handler, KeepButComplete, Leave, Goto, CommandInv, Resting
  <1>28. CASE Retire
    BY <1>a, <1>28 DEF Retire, KeepButCreds, Leave, CommandInv, Resting
  <1>29. CASE SegmentComplete
    BY <1>a, <1>29 DEF SegmentComplete, CommandInv, Resting
  <1>30. CASE Terminal
    BY <1>a, <1>30 DEF Terminal, RowVars, CommandInv, Resting
  <1>31. CASE Certify
    BY <1>a, <1>31 DEF Certify, KeepButComplete, CommandInv, Resting
  <1>32. CASE HandOff
    BY <1>a, <1>32 DEF HandOff, KeepButCreds, CommandInv, Resting
  <1>33. CASE Publish
    BY <1>a, <1>33 DEF Publish, CommandInv, Resting
  <1>34. CASE Drain
    BY <1>a, <1>34 DEF Drain, Goto, CommandInv, Resting
  <1>35. CASE RecoverUnconsumed
    BY <1>a, <1>35 DEF RecoverUnconsumed, KeepButComplete, CommandInv, Resting
  <1>36. CASE RecoverAdmission
    BY <1>a, <1>36 DEF RecoverAdmission, CommandInv, Resting
  <1>37. CASE RecoverInactive
    BY <1>a, <1>37 DEF RecoverInactive, KeepButComplete, CommandInv, Resting
  <1>38. CASE RecoverActive
    BY <1>a, <1>38 DEF RecoverActive, CommandInv, Resting
  <1>39. CASE Abandon
    BY <1>a, <1>39 DEF Abandon, Leave, CommandInv, Resting
  <1>40. ASSUME NEW c \in cmds, EffectPrepare(c) PROVE CommandInv'
    BY <1>a, <1>b, <1>40 DEF EffectPrepare, Created, KeepCmd, procVars, CommandInv, Steps, Advanced
  <1>41. ASSUME NEW c \in cmds, EffectClaim(c) PROVE CommandInv'
    BY <1>a, <1>b, <1>41 DEF EffectClaim, KeepCmd, procVars, CommandInv, Commands, Steps,
       Advanced
  <1>42. ASSUME NEW c \in cmds, EffectAct(c) PROVE CommandInv'
    BY <1>a, <1>b, <1>42 DEF EffectAct, KeepCmd, procVars, CommandInv, Commands, Steps,
       Advanced
  <1>43. ASSUME NEW c \in cmds, EffectTrack(c) PROVE CommandInv'
    BY <1>a, <1>b, <1>43 DEF EffectTrack, KeepCmd, procVars, CommandInv, Steps, Advanced
  <1>44. ASSUME NEW c \in cmds, EffectReceipt(c) PROVE CommandInv'
    BY <1>a, <1>b, <1>44 DEF EffectReceipt, KeepCmd, procVars, CommandInv, Commands, Steps,
       Advanced
  <1>45. ASSUME NEW c \in cmds, Remote(c) PROVE CommandInv'
    BY <1>a, <1>b, <1>45 DEF Remote, KeepCmd, procVars, CommandInv, Steps, Advanced
  <1>46. ASSUME NEW c \in cmds, Inventory(c) PROVE CommandInv'
    BY <1>a, <1>b, <1>46 DEF Inventory, KeepCmd, procVars, CommandInv, Steps, Advanced
  <1>47. ASSUME NEW c \in cmds, RecoverIntent(c) PROVE CommandInv'
    BY <1>a, <1>b, <1>47 DEF RecoverIntent, Created, KeepCmd, procVars, Reconciled, CommandInv,
       Steps, Advanced
  <1>48. ASSUME NEW c \in cmds, RecoverDestroy(c) PROVE CommandInv'
    BY <1>a, <1>b, <1>48 DEF RecoverDestroy, KeepCmd, procVars, CommandInv, Steps, Advanced
  <1>49. ASSUME NEW c \in cmds, RecoverSettle(c) PROVE CommandInv'
    BY <1>a, <1>b, <1>49 DEF RecoverSettle, KeepCmd, procVars, CommandInv, Steps, Advanced
  <1>50. ASSUME NEW c \in cmds, RecoverInventory(c) PROVE CommandInv'
    BY <1>a, <1>b, <1>50 DEF RecoverInventory, KeepCmd, procVars, At, CommandInv, Commands,
       Steps, Advanced
  <1>50a. ASSUME NEW c \in cmds, LocalBackend(c) PROVE CommandInv'
    BY <1>a, <1>b, <1>50a DEF LocalBackend, KeepCmd, procVars, CommandInv, Steps, Advanced
  <1>50b. ASSUME NEW c \in cmds, RecoverInvoke(c) PROVE CommandInv'
    BY <1>a, <1>b, <1>50b DEF RecoverInvoke, Created, KeepCmd, procVars, CommandInv, Steps, Advanced
  <1>50c. ASSUME NEW c \in cmds, WriteOnce(c) PROVE CommandInv'
    <2>1. Advanced(c, Filled[c.at]) /\ UNCHANGED procVars /\ Filled[c.at] # "uncertain"
      BY <1>b, <1>50c, FilledFacts DEF WriteOnce, KeepCmd
    <2>2. QED
      BY <1>a, <2>1 DEF procVars, CommandInv, Advanced
  <1>51. CASE CommandFails
    BY <1>a, <1>b, <1>51 DEF CommandFails, KeepCmd, procVars, At, CommandInv, Steps,
       Advanced
  <1>52. CASE Crash
    <2>1. Orphaned
      BY <1>a, <1>52, CrashFacts
    <2>2. Leave /\ UNCHANGED <<kindOfRoot, consumed, anchor, journal, active, complete, segment,
                               creds, published, scope, provVars, cloudVars, clock>>
      BY <1>52 DEF Crash
    <2>3. QED
      BY <1>a, <2>1, <2>2 DEF Leave, CommandInv, Resting, Orphaned
  <1>53. CASE Tick
    BY <1>a, <1>53 DEF Tick, procVars, CommandInv
  <1>54. CASE UNCHANGED vars
    BY <1>a, <1>54 DEF vars, procVars, CommandInv
  <1>55. QED
    BY <1>1, <1>2, <1>3, <1>4, <1>5, <1>6, <1>7, <1>8, <1>9, <1>10, <1>11, <1>12, <1>13,
       <1>14, <1>15, <1>16, <1>17, <1>18, <1>19, <1>20, <1>21, <1>22, <1>23, <1>24, <1>25,
       <1>26, <1>27, <1>28, <1>29, <1>30, <1>31, <1>32, <1>33, <1>34, <1>35, <1>36, <1>37,
       <1>38, <1>39, <1>40, <1>41, <1>42, <1>43, <1>44, <1>45, <1>46, <1>47, <1>48, <1>49,
       <1>50, <1>50a, <1>50b, <1>50c, <1>51, <1>52, <1>53, <1>54 DEF Next, Proceed, Provide

\* Before the approval is consumed nothing else is written; after, it is held to the end.
LEMMA ConsumeStep == CustodyInv /\ [Next]_vars => ConsumeInv'
  <1> SUFFICES ASSUME CustodyInv, [Next]_vars PROVE ConsumeInv'
    OBVIOUS
  <1>a. FileInv /\ ProcInv /\ PointInv /\ CommandInv /\ ConsumeInv
    BY DEF CustodyInv
  <1>b. \A c \in cmds, at \in Steps : Step(c, at) => Advanced(c, at)
    BY <1>a, StepFacts
  <1>1. CASE StartRun
    BY <1>a, <1>1 DEF StartRun, provVars, rootVars, Fresh, ConsumeInv, Open, Attempt,
       Untried, ProcInv
  <1>2. CASE StartRecover
    BY <1>a, <1>2 DEF StartRecover, provVars, rootVars, ConsumeInv, Attempt, Untried
  <1>3. CASE Consume
    BY <1>a, <1>3 DEF Consume, Goto, ConsumeInv, Open, Attempt
  <1>4. CASE ImportAnchor
    BY <1>a, <1>4 DEF ImportAnchor, Goto, ConsumeInv, Open, Attempt
  <1>5. CASE RecordFirstRow
    BY <1>a, <1>5 DEF RecordFirstRow, RowVars, AppendRow, ConsumeInv, Open, Attempt
  <1>6. CASE OpenCycle
    BY <1>a, <1>6 DEF OpenCycle, RowVars, AppendRow, ConsumeInv, Open, Attempt
  <1>7. CASE OpenActive
    BY <1>a, <1>7 DEF OpenActive, KeepButActive, Do, ConsumeInv, Open, Attempt
  <1>8. CASE EnsureGrant
    BY <1>a, <1>8 DEF EnsureGrant, rootVars, Goto, ConsumeInv, Open, Attempt
  <1>9. CASE RecordIntent
    BY <1>a, <1>9 DEF RecordIntent, RowVars, AppendRow, ConsumeInv, Open, Attempt
  <1>10. CASE EffectDeadline
    BY <1>a, <1>10 DEF EffectDeadline, KeepButActive, Raise, Raised, Goto, ConsumeInv,
       Open, Attempt
  <1>11. CASE MakeScope
    BY <1>a, <1>11 DEF MakeScope, KeepRun, rootVars, Raise, Raised, Goto, ConsumeInv, Open,
       Attempt
  <1>12. CASE MarkScope
    BY <1>a, <1>12 DEF MarkScope, KeepRun, rootVars, Goto, ConsumeInv, Open, Attempt
  <1>13. CASE Spawn
    BY <1>a, <1>13 DEF Spawn, KeepRun, rootVars, Goto, ConsumeInv, Open, Attempt
  <1>14. CASE Collect
    BY <1>a, <1>14 DEF Collect, KeepRun, rootVars, ConsumeInv, Open, Attempt
  <1>15. CASE RemoveScope
    BY <1>a, <1>15 DEF RemoveScope, KeepRun, rootVars, Goto, ConsumeInv, Open, Attempt
  <1>16. CASE UnmarkScope
    BY <1>a, <1>16 DEF UnmarkScope, KeepRun, rootVars, Goto, Do, Raise, Raised, ConsumeInv,
       Open, Attempt
  <1>17. CASE EffectActive
    BY <1>a, <1>17 DEF EffectActive, KeepButActive, Goto, ConsumeInv, Open, Attempt
  <1>18. CASE RecordSettled
    BY <1>a, <1>18 DEF RecordSettled, RowVars, AppendRow, ConsumeInv, Open, Attempt
  <1>19. CASE RecordReceipt
    BY <1>a, <1>19 DEF RecordReceipt, RowVars, NextPc, AppendRow, ConsumeInv, Open,
       Attempt, PointInv, Effects, Effecting
  <1>20. CASE SealCycle
    BY <1>a, <1>20 DEF SealCycle, RowVars, AppendRow, ConsumeInv, Open, Attempt
  <1>21. CASE SealActive
    BY <1>a, <1>21 DEF SealActive, KeepButActive, Do, Goto, ConsumeInv, Open, Attempt
  <1>22. CASE StartCleanup
    BY <1>a, <1>22 DEF StartCleanup, rootVars, Do, ConsumeInv, Open, Attempt
  <1>23. CASE RecordUncertain
    BY <1>a, <1>23 DEF RecordUncertain, RowVars, AppendRow, ConsumeInv, Attempt
  <1>24. CASE SettleComplete
    BY <1>a, <1>24 DEF SettleComplete, Goto, ConsumeInv, Attempt
  <1>25. CASE SettleJournal
    BY <1>a, <1>25 DEF SettleJournal, RowVars, AppendRow, ConsumeInv, Attempt
  <1>26. CASE SettleActive
    BY <1>a, <1>26 DEF SettleActive, KeepButActive, Goto, ConsumeInv, Attempt
  <1>27. CASE Handler
    BY <1>a, <1>27 DEF Handler, KeepButComplete, provVars, Leave, Goto, ConsumeInv,
       Attempt, Untried
  <1>28. CASE Retire
    BY <1>a, <1>28 DEF Retire, KeepButCreds, provVars, Leave, ConsumeInv, Attempt, Untried
  <1>29. CASE SegmentComplete
    BY <1>a, <1>29 DEF SegmentComplete, Goto, ConsumeInv, Attempt
  <1>30. CASE Terminal
    BY <1>a, <1>30 DEF Terminal, RowVars, AppendRow, ConsumeInv, Open, Attempt
  <1>31. CASE Certify
    BY <1>a, <1>31 DEF Certify, KeepButComplete, Goto, ConsumeInv, Attempt
  <1>32. CASE HandOff
    BY <1>a, <1>32 DEF HandOff, KeepButCreds, Goto, ConsumeInv, Attempt
  <1>33. CASE Publish
    BY <1>a, <1>33 DEF Publish, Goto, Leave, ConsumeInv, Attempt
  <1>34. CASE Drain
    BY <1>a, <1>34 DEF Drain, KeepRun, provVars, rootVars, Goto, ConsumeInv, Open, Attempt,
       Untried
  <1>35. CASE RecoverUnconsumed
    BY <1>a, <1>35 DEF RecoverUnconsumed, KeepButComplete, provVars, Goto, Unconsumed,
       Complete, ConsumeInv, Attempt, Inactive, Untried
  <1>36. CASE RecoverAdmission
    BY <1>a, <1>36 DEF RecoverAdmission, Goto, ConsumeInv, Open, Attempt
  <1>37. CASE RecoverInactive
    BY <1>a, <1>37 DEF RecoverInactive, KeepButComplete, Goto, ConsumeInv, Open, Attempt
  <1>38. CASE RecoverActive
    BY <1>a, <1>38 DEF RecoverActive, rootVars, Goto, ConsumeInv, Open, Attempt
  <1>39. CASE Abandon
    BY <1>a, <1>39 DEF Abandon, provVars, rootVars, Leave, ConsumeInv, Attempt, Untried
  <1>40. ASSUME NEW c \in cmds, EffectPrepare(c) PROVE ConsumeInv'
    BY <1>a, <1>40 DEF EffectPrepare, KeepCmd, procVars, rootVars, ConsumeInv, Open,
       Attempt
  <1>41. ASSUME NEW c \in cmds, EffectClaim(c) PROVE ConsumeInv'
    BY <1>a, <1>41 DEF EffectClaim, KeepCmd, procVars, rootVars, ConsumeInv, Open, Attempt
  <1>42. ASSUME NEW c \in cmds, EffectAct(c) PROVE ConsumeInv'
    BY <1>a, <1>42 DEF EffectAct, KeepCmd, procVars, rootVars, ConsumeInv, Open, Attempt
  <1>43. ASSUME NEW c \in cmds, EffectTrack(c) PROVE ConsumeInv'
    BY <1>a, <1>43 DEF EffectTrack, KeepCmd, procVars, rootVars, ConsumeInv, Open, Attempt
  <1>44. ASSUME NEW c \in cmds, EffectReceipt(c) PROVE ConsumeInv'
    BY <1>a, <1>44 DEF EffectReceipt, KeepCmd, procVars, rootVars, ConsumeInv, Open,
       Attempt
  <1>45. ASSUME NEW c \in cmds, Remote(c) PROVE ConsumeInv'
    BY <1>a, <1>45 DEF Remote, KeepCmd, procVars, rootVars, ConsumeInv, Open, Attempt
  <1>46. ASSUME NEW c \in cmds, Inventory(c) PROVE ConsumeInv'
    BY <1>a, <1>46 DEF Inventory, KeepCmd, procVars, rootVars, ConsumeInv, Open, Attempt
  <1>47. ASSUME NEW c \in cmds, RecoverIntent(c) PROVE ConsumeInv'
    BY <1>a, <1>47 DEF RecoverIntent, KeepCmd, procVars, rootVars, ConsumeInv, Open,
       Attempt
  <1>48. ASSUME NEW c \in cmds, RecoverDestroy(c) PROVE ConsumeInv'
    BY <1>a, <1>48 DEF RecoverDestroy, KeepCmd, procVars, rootVars, ConsumeInv, Open,
       Attempt
  <1>49. ASSUME NEW c \in cmds, RecoverSettle(c) PROVE ConsumeInv'
    BY <1>a, <1>49 DEF RecoverSettle, KeepCmd, procVars, rootVars, ConsumeInv, Open,
       Attempt
  <1>50. ASSUME NEW c \in cmds, RecoverInventory(c) PROVE ConsumeInv'
    BY <1>a, <1>50 DEF RecoverInventory, KeepCmd, procVars, rootVars, ConsumeInv, Open,
       Attempt
  <1>50a. ASSUME NEW c \in cmds, LocalBackend(c) PROVE ConsumeInv'
    BY <1>a, <1>50a DEF LocalBackend, KeepCmd, procVars, rootVars, ConsumeInv, Open,
       Attempt
  <1>50b. ASSUME NEW c \in cmds, RecoverInvoke(c) PROVE ConsumeInv'
    BY <1>a, <1>50b DEF RecoverInvoke, KeepCmd, procVars, rootVars, ConsumeInv, Open,
       Attempt
  <1>50c. ASSUME NEW c \in cmds, WriteOnce(c) PROVE ConsumeInv'
    BY <1>a, <1>50c DEF WriteOnce, KeepCmd, procVars, rootVars, ConsumeInv, Open,
       Attempt
  <1>51. CASE CommandFails
    BY <1>a, <1>51 DEF CommandFails, KeepCmd, procVars, rootVars, ConsumeInv, Open, Attempt
  <1>52. CASE Crash
    <2>1. Orphaned
      BY <1>a, <1>52, CrashFacts
    <2>2. Leave /\ UNCHANGED <<kindOfRoot, consumed, anchor, journal, active, complete, segment,
                               creds, published, scope, provVars, cloudVars, clock>>
      BY <1>52 DEF Crash
    <2>3. QED
      BY <1>a, <2>1, <2>2 DEF provVars, Leave, ConsumeInv, Attempt, Untried, Orphaned
  <1>53. CASE Tick
    BY <1>a, <1>53 DEF Tick, procVars, provVars, rootVars, ConsumeInv, Open, Attempt,
       Untried, ProcInv
  <1>54. CASE UNCHANGED vars
    BY <1>a, <1>54 DEF vars, procVars, provVars, rootVars, ConsumeInv, Open, Attempt,
       Untried
  <1>55. QED
    BY <1>1, <1>2, <1>3, <1>4, <1>5, <1>6, <1>7, <1>8, <1>9, <1>10, <1>11, <1>12, <1>13,
       <1>14, <1>15, <1>16, <1>17, <1>18, <1>19, <1>20, <1>21, <1>22, <1>23, <1>24, <1>25,
       <1>26, <1>27, <1>28, <1>29, <1>30, <1>31, <1>32, <1>33, <1>34, <1>35, <1>36, <1>37,
       <1>38, <1>39, <1>40, <1>41, <1>42, <1>43, <1>44, <1>45, <1>46, <1>47, <1>48, <1>49,
       <1>50, <1>50a, <1>50b, <1>50c, <1>51, <1>52, <1>53, <1>54 DEF Next, Proceed, Provide

\* What leaves the provider's files alone keeps what they say of each other.
Aside ==
  /\ UNCHANGED <<tfvars, data, backend, reconcile, invoked, partial>>
  /\ \A d \in cmds' : \/ d.at \in {"start", "fail", "uncertain"}
                       \/ \E c \in cmds : d.op = c.op /\ d.ord = c.ord /\ d.at = c.at

LEMMA AsideFacts == RecordInv /\ Aside => RecordInv'
  BY DEF RecordInv, Aside, Half

\* A file is whole only after its own command filled it, and recover's in their order.
LEMMA RecordStep == CustodyInv /\ [Next]_vars => RecordInv'
  <1> SUFFICES ASSUME CustodyInv, [Next]_vars PROVE RecordInv'
    OBVIOUS
  <1>a. FileInv /\ ProcInv /\ CommandInv /\ RecordInv
    BY DEF CustodyInv
  <1>b. \A c \in cmds, at \in Steps : Step(c, at) => Advanced(c, at)
    BY <1>a, StepFacts
  <1>1. CASE StartRun
    BY <1>a, <1>1, AsideFacts DEF StartRun, provVars, Aside
  <1>2. CASE StartRecover
    BY <1>a, <1>2, AsideFacts DEF StartRecover, provVars, Aside
  <1>3. CASE Consume
    BY <1>a, <1>3, AsideFacts DEF Consume, provVars, Aside
  <1>4. CASE ImportAnchor
    BY <1>a, <1>4, AsideFacts DEF ImportAnchor, provVars, Aside
  <1>5. CASE RecordFirstRow
    BY <1>a, <1>5, AsideFacts DEF RecordFirstRow, RowVars, provVars, Aside
  <1>6. CASE OpenCycle
    BY <1>a, <1>6, AsideFacts DEF OpenCycle, RowVars, provVars, Aside
  <1>7. CASE OpenActive
    BY <1>a, <1>7, AsideFacts DEF OpenActive, KeepButActive, provVars, Aside
  <1>8. CASE EnsureGrant
    BY <1>a, <1>8, AsideFacts DEF EnsureGrant, Aside
  <1>9. CASE RecordIntent
    BY <1>a, <1>9, AsideFacts DEF RecordIntent, RowVars, provVars, Aside
  <1>10. CASE EffectDeadline
    BY <1>a, <1>10, AsideFacts DEF EffectDeadline, KeepButActive, provVars, Aside
  <1>11. CASE MakeScope
    BY <1>a, <1>11, AsideFacts DEF MakeScope, KeepRun, provVars, Aside
  <1>12. CASE MarkScope
    BY <1>a, <1>12, AsideFacts DEF MarkScope, KeepRun, provVars, Aside
  <1>13. CASE Spawn
    BY <1>a, <1>13, AsideFacts DEF Spawn, KeepRun, provVars, Aside
  <1>14. CASE Collect
    BY <1>a, <1>14, AsideFacts DEF Collect, KeepRun, provVars, Aside
  <1>15. CASE RemoveScope
    BY <1>a, <1>15, AsideFacts DEF RemoveScope, KeepRun, provVars, Aside
  <1>16. CASE UnmarkScope
    BY <1>a, <1>16, AsideFacts DEF UnmarkScope, KeepRun, provVars, Aside
  <1>17. CASE EffectActive
    BY <1>a, <1>17, AsideFacts DEF EffectActive, KeepButActive, provVars, Aside
  <1>18. CASE RecordSettled
    BY <1>a, <1>18, AsideFacts DEF RecordSettled, RowVars, provVars, Aside
  <1>19. CASE RecordReceipt
    BY <1>a, <1>19, AsideFacts DEF RecordReceipt, RowVars, provVars, Aside
  <1>20. CASE SealCycle
    BY <1>a, <1>20, AsideFacts DEF SealCycle, RowVars, provVars, Aside
  <1>21. CASE SealActive
    BY <1>a, <1>21, AsideFacts DEF SealActive, KeepButActive, provVars, Aside
  <1>22. CASE StartCleanup
    BY <1>a, <1>22, AsideFacts DEF StartCleanup, provVars, Aside
  <1>23. CASE RecordUncertain
    BY <1>a, <1>23, AsideFacts DEF RecordUncertain, RowVars, provVars, Aside
  <1>24. CASE SettleComplete
    BY <1>a, <1>24, AsideFacts DEF SettleComplete, provVars, Aside
  <1>25. CASE SettleJournal
    BY <1>a, <1>25, AsideFacts DEF SettleJournal, RowVars, provVars, Aside
  <1>26. CASE SettleActive
    BY <1>a, <1>26, AsideFacts DEF SettleActive, KeepButActive, provVars, Aside
  <1>27. CASE Handler
    BY <1>a, <1>27, AsideFacts DEF Handler, KeepButComplete, provVars, Aside
  <1>28. CASE Retire
    BY <1>a, <1>28, AsideFacts DEF Retire, KeepButCreds, provVars, Aside
  <1>29. CASE SegmentComplete
    BY <1>a, <1>29, AsideFacts DEF SegmentComplete, provVars, Aside
  <1>30. CASE Terminal
    BY <1>a, <1>30, AsideFacts DEF Terminal, RowVars, provVars, Aside
  <1>31. CASE Certify
    BY <1>a, <1>31, AsideFacts DEF Certify, KeepButComplete, provVars, Aside
  <1>32. CASE HandOff
    BY <1>a, <1>32, AsideFacts DEF HandOff, KeepButCreds, provVars, Aside
  <1>33. CASE Publish
    BY <1>a, <1>33, AsideFacts DEF Publish, provVars, Aside
  <1>34. CASE Drain
    BY <1>a, <1>34, AsideFacts DEF Drain, KeepRun, provVars, Aside
  <1>35. CASE RecoverUnconsumed
    BY <1>a, <1>35, AsideFacts DEF RecoverUnconsumed, KeepButComplete, provVars, Aside
  <1>36. CASE RecoverAdmission
    BY <1>a, <1>36, AsideFacts DEF RecoverAdmission, provVars, Aside
  <1>37. CASE RecoverInactive
    BY <1>a, <1>37, AsideFacts DEF RecoverInactive, KeepButComplete, provVars, Aside
  <1>38. CASE RecoverActive
    BY <1>a, <1>38, AsideFacts DEF RecoverActive, provVars, Aside
  <1>39. CASE Abandon
    BY <1>a, <1>39, AsideFacts DEF Abandon, provVars, Aside
  <1>40. ASSUME NEW c \in cmds, EffectPrepare(c) PROVE RecordInv'
    <2>1. /\ UNCHANGED <<tfvars, data, backend, reconcile, invoked>>
          /\ \/ UNCHANGED partial /\ (Step(c, "fail") \/ Step(c, "claim"))
             \/ /\ Step(c, "variables") /\ partial' = partial \cup {<<"variables", c.ord>>}
                /\ c.ord \notin tfvars
      BY <1>40 DEF EffectPrepare, Created
    <2>2. c.op # "recover"
      BY <1>40 DEF EffectPrepare, At, Effects
    <2>3. CASE UNCHANGED partial /\ (Step(c, "fail") \/ Step(c, "claim"))
      BY <1>a, <1>b, <1>40, <2>1, <2>2, <2>3 DEF RecordInv, Advanced, Steps, Half, EffectPrepare
    <2>4. CASE /\ Step(c, "variables") /\ partial' = partial \cup {<<"variables", c.ord>>}
               /\ c.ord \notin tfvars
      BY <1>a, <1>b, <2>1, <2>2, <2>4 DEF RecordInv, Advanced, Steps, Half
    <2>5. QED
      BY <2>1, <2>3, <2>4
  <1>41. ASSUME NEW c \in cmds, EffectClaim(c) PROVE RecordInv'
    BY <1>a, <1>b, <1>41 DEF EffectClaim, RecordInv, Advanced, Steps, Half
  <1>42. ASSUME NEW c \in cmds, EffectAct(c) PROVE RecordInv'
    BY <1>a, <1>b, <1>42 DEF EffectAct, provVars, RecordInv, Advanced, Steps, Half
  <1>43. ASSUME NEW c \in cmds, EffectTrack(c) PROVE RecordInv'
    BY <1>a, <1>b, <1>43 DEF EffectTrack, provVars, RecordInv, Advanced, Steps, Half
  <1>44. ASSUME NEW c \in cmds, EffectReceipt(c) PROVE RecordInv'
    BY <1>a, <1>b, <1>44 DEF EffectReceipt, RecordInv, Advanced, Steps, Half
  <1>45. ASSUME NEW c \in cmds, Remote(c) PROVE RecordInv'
    BY <1>a, <1>b, <1>45 DEF Remote, RecordInv, Advanced, Steps, Half
  <1>46. ASSUME NEW c \in cmds, Inventory(c) PROVE RecordInv'
    BY <1>a, <1>b, <1>46 DEF Inventory, RecordInv, Advanced, Steps, Half
  <1>47. ASSUME NEW c \in cmds, RecoverIntent(c) PROVE RecordInv'
    <2>1. /\ UNCHANGED <<tfvars, data, backend, reconcile, invoked>>
          /\ \/ /\ UNCHANGED partial
                /\ Step(c, "fail") \/ (Step(c, "invoke") /\ reconcile[c.ord] # NoIntent)
             \/ /\ Step(c, "intent") /\ partial' = partial \cup {<<"intent", c.ord>>}
                /\ reconcile[c.ord] = NoIntent
      BY <1>47 DEF RecoverIntent, Created
    <2>2. c.op = "recover"
      BY <1>47 DEF RecoverIntent, At, Effects
    <2>3. CASE /\ UNCHANGED partial
               /\ Step(c, "fail") \/ (Step(c, "invoke") /\ reconcile[c.ord] # NoIntent)
      BY <1>a, <1>b, <2>1, <2>2, <2>3 DEF RecordInv, Advanced, Steps, Half
    <2>4. CASE /\ Step(c, "intent") /\ partial' = partial \cup {<<"intent", c.ord>>}
               /\ reconcile[c.ord] = NoIntent
      BY <1>a, <1>b, <2>1, <2>2, <2>4 DEF RecordInv, Advanced, Steps, Half
    <2>5. QED
      BY <2>1, <2>3, <2>4
  <1>48. ASSUME NEW c \in cmds, RecoverDestroy(c) PROVE RecordInv'
    BY <1>a, <1>b, <1>48 DEF RecoverDestroy, provVars, RecordInv, Advanced, Steps, Half
  <1>49. ASSUME NEW c \in cmds, RecoverSettle(c) PROVE RecordInv'
    BY <1>a, <1>b, <1>49 DEF RecoverSettle, RecordInv, Advanced, Steps, Half
  <1>50. ASSUME NEW c \in cmds, RecoverInventory(c) PROVE RecordInv'
    BY <1>a, <1>b, <1>50 DEF RecoverInventory, RecordInv, Advanced, Steps, Half
  <1>50a. ASSUME NEW c \in cmds, LocalBackend(c) PROVE RecordInv'
    BY <1>a, <1>b, <1>50a DEF LocalBackend, RecordInv, Advanced, Steps, Half
  <1>50b. ASSUME NEW c \in cmds, RecoverInvoke(c) PROVE RecordInv'
    <2>1. /\ UNCHANGED <<tfvars, data, backend, reconcile, invoked>>
          /\ \/ UNCHANGED partial /\ (Step(c, "fail") \/ Step(c, "destroy"))
             \/ /\ Step(c, "invocation") /\ partial' = partial \cup {<<"invocation", c.ord>>}
                /\ invoked[c.ord] = "none"
      BY <1>50b DEF RecoverInvoke, Created
    <2>2. c.op = "recover" /\ c.at = "invoke"
      BY <1>50b DEF RecoverInvoke, At
    <2>3. CASE UNCHANGED partial /\ (Step(c, "fail") \/ Step(c, "destroy"))
      BY <1>a, <1>b, <2>1, <2>2, <2>3 DEF RecordInv, Advanced, Steps, Half
    <2>4. CASE /\ Step(c, "invocation") /\ partial' = partial \cup {<<"invocation", c.ord>>}
               /\ invoked[c.ord] = "none"
      BY <1>a, <1>b, <2>1, <2>2, <2>4 DEF RecordInv, Advanced, Steps, Half
    <2>5. QED
      BY <2>1, <2>3, <2>4
  <1>50c. ASSUME NEW c \in cmds, WriteOnce(c) PROVE RecordInv'
    <2>1. c.ord \in Cycles /\ c.state \in States
      BY <1>a DEF ProcInv, Commands
    <2>2. Reconciled(c.state, DestroyClaimed(c.ord)) # NoIntent /\ Ambiguity(c.ord) # "none"
      BY <2>1 DEF Reconciled, NoIntent, States, Ambiguity
    <2>3. /\ Advanced(c, Filled[c.at]) /\ data' = data
          /\ \A f, o : Half(f, o)' <=> (Half(f, o) /\ ~(f = c.at /\ o = c.ord))
      BY <1>b, <1>50c, FilledFacts DEF WriteOnce, Half
    <2>4. CASE c.at = "variables"
      BY <1>a, <1>50c, <2>1, <2>3, <2>4, FilledFacts DEF WriteOnce, RecordInv, Advanced
    <2>5. CASE c.at = "backend"
      BY <1>a, <1>50c, <2>1, <2>3, <2>5, FilledFacts DEF WriteOnce, RecordInv, Advanced
    <2>6. CASE c.at = "intent"
      <3>1. /\ UNCHANGED <<tfvars, backend, invoked>> /\ reconcile'[c.ord] # NoIntent
            /\ \A o \in Cycles : o # c.ord => reconcile'[o] = reconcile[o]
        BY <1>a, <1>50c, <2>1, <2>2, <2>6 DEF WriteOnce, FileInv
      <3>2. QED
        BY <1>a, <1>50c, <2>1, <2>3, <2>6, <3>1, FilledFacts DEF RecordInv, Advanced
    <2>7. CASE c.at = "invocation"
      <3>1. /\ UNCHANGED <<tfvars, backend, reconcile>> /\ invoked'[c.ord] # "none"
            /\ \A o \in Cycles : o # c.ord => invoked'[o] = invoked[o]
        BY <1>a, <1>50c, <2>1, <2>2, <2>7 DEF WriteOnce, FileInv
      <3>2. QED
        BY <1>a, <1>50c, <2>1, <2>3, <2>7, <3>1, FilledFacts DEF RecordInv, Advanced
    <2>8. QED
      BY <1>50c, <2>4, <2>5, <2>6, <2>7 DEF WriteOnce, Filled
  <1>51. CASE CommandFails
    BY <1>a, <1>b, <1>51, AsideFacts DEF CommandFails, provVars, Aside, Advanced, Steps
  <1>52. CASE Crash
    BY <1>a, <1>52, CrashFacts, AsideFacts DEF Crash, provVars, Aside, Orphaned
  <1>53. CASE Tick
    BY <1>a, <1>53, AsideFacts DEF Tick, provVars, Aside
  <1>54. CASE UNCHANGED vars
    BY <1>a, <1>54, AsideFacts DEF vars, provVars, Aside
  <1>55. QED
    BY <1>1, <1>2, <1>3, <1>4, <1>5, <1>6, <1>7, <1>8, <1>9, <1>10, <1>11, <1>12, <1>13,
       <1>14, <1>15, <1>16, <1>17, <1>18, <1>19, <1>20, <1>21, <1>22, <1>23, <1>24, <1>25,
       <1>26, <1>27, <1>28, <1>29, <1>30, <1>31, <1>32, <1>33, <1>34, <1>35, <1>36, <1>37,
       <1>38, <1>39, <1>40, <1>41, <1>42, <1>43, <1>44, <1>45, <1>46, <1>47, <1>48, <1>49,
       <1>50, <1>50a, <1>50b, <1>50c, <1>51, <1>52, <1>53, <1>54 DEF Next, Proceed, Provide

\* cleanup-active.json names the cycle that the entry works on.
LEMMA ActiveStep == CustodyInv /\ [Next]_vars => ActiveInv'
  <1> SUFFICES ASSUME CustodyInv, [Next]_vars PROVE ActiveInv'
    OBVIOUS
  <1>a. ProcInv /\ PointInv /\ ConsumeInv /\ ActiveInv
    BY DEF CustodyInv
  <1>1. CASE StartRun
    BY <1>1 DEF StartRun, ActiveInv, Attempt, Ending, Before
  <1>2. CASE StartRecover
    BY <1>2 DEF StartRecover, ActiveInv, Attempt, Ending, Before
  <1>3. CASE Consume
    BY <1>a, <1>3 DEF Consume, Goto, ActiveInv, Driving, Running, Attempt, Ending, Before,
       ConsumeInv
  <1>4. CASE ImportAnchor
    BY <1>a, <1>4 DEF ImportAnchor, Goto, ActiveInv, Driving, Running, Before
  <1>5. CASE RecordFirstRow
    BY <1>a, <1>5 DEF RecordFirstRow, RowVars, AppendRow, ActiveInv, Driving, Running,
       Before
  <1>6. CASE OpenCycle
    BY <1>a, <1>6 DEF OpenCycle, RowVars, AppendRow, ActiveInv, Driving, Running, Before
  <1>7. CASE OpenActive
    BY <1>7 DEF OpenActive, Do, SetActive, Active, ActiveInv, NoActive, AfterPlan, Ending,
       Before
  <1>8. CASE EnsureGrant
    BY <1>a, <1>8 DEF EnsureGrant, rootVars, Goto, ActiveInv, Driving, Attempt, Ending,
       Before
  <1>9. CASE RecordIntent
    BY <1>a, <1>9 DEF RecordIntent, RowVars, AppendRow, ActiveInv, Driving, Attempt,
       Ending, Before
  <1>10. CASE EffectDeadline
    BY <1>a, <1>10 DEF EffectDeadline, SetActive, Active, Raise, Raised, Goto, Effects,
       ActiveInv, NoActive, Driving, Attempt, Ending, Before
  <1>11. CASE MakeScope
    BY <1>a, <1>11 DEF MakeScope, KeepRun, rootVars, Raise, Raised, Goto, ActiveInv,
       Driving, Running, Attempt, Ending, Before
  <1>12. CASE MarkScope
    BY <1>a, <1>12 DEF MarkScope, KeepRun, rootVars, Goto, ActiveInv, Driving, Running,
       Attempt, Ending, Before
  <1>13. CASE Spawn
    BY <1>a, <1>13 DEF Spawn, KeepRun, rootVars, Goto, ActiveInv, Driving, Running,
       Attempt, Ending, Before
  <1>14. CASE Collect
    BY <1>a, <1>14 DEF Collect, KeepRun, rootVars, ActiveInv, Driving, Running, Attempt,
       Ending, Before
  <1>15. CASE RemoveScope
    BY <1>a, <1>15 DEF RemoveScope, KeepRun, rootVars, Goto, ActiveInv, Driving, Running,
       Attempt, Ending, Before
  <1>16. CASE UnmarkScope
    BY <1>a, <1>16 DEF UnmarkScope, KeepRun, rootVars, Goto, Do, Raise, Raised, ActiveInv,
       AfterPlan, InCycle, Driving, Running, Attempt, Ending, Before, ProcInv, PointInv
  <1>17. CASE EffectActive
    BY <1>a, <1>17 DEF EffectActive, Goto, SetActive, Active, ActiveInv, NoActive, InCycle,
       Driving, Attempt, Ending, Before, PointInv, Effecting
  <1>18. CASE RecordSettled
    BY <1>a, <1>18 DEF RecordSettled, RowVars, AppendRow, ActiveInv, Driving, Attempt,
       Ending, Before
  <1>19. CASE RecordReceipt
    BY <1>a, <1>19 DEF RecordReceipt, RowVars, NextOp, NextPc, AppendRow, ActiveInv,
       InCycle, Effects, Driving, Attempt, Ending, Before, PointInv, Effecting
  <1>20. CASE SealCycle
    BY <1>a, <1>20 DEF SealCycle, RowVars, AppendRow, ActiveInv, Driving, Attempt, Ending,
       Before
  <1>21. CASE SealActive
    BY <1>21 DEF SealActive, Do, Goto, ActiveInv, AfterPlan, InCycle, Effects, Driving,
       Running
  <1>22. CASE StartCleanup
    BY <1>a, <1>22 DEF StartCleanup, rootVars, Do, ActiveInv, AfterPlan, InCycle, Effects,
       Attempt, Ending, Before
  <1>23. CASE RecordUncertain
    BY <1>23 DEF RecordUncertain, AppendRow, ActiveInv, Attempt, Ending, Before
  <1>24. CASE SettleComplete
    BY <1>24 DEF SettleComplete, Goto, ActiveInv, Attempt, Ending, Before
  <1>25. CASE SettleJournal
    BY <1>25 DEF SettleJournal, RowVars, AppendRow, ActiveInv, Attempt, Ending, Before
  <1>26. CASE SettleActive
    BY <1>26 DEF SettleActive, Goto, ActiveInv, Driving, Running
  <1>27. CASE Handler
    BY <1>27 DEF Handler, KeepButComplete, Leave, Goto, ActiveInv, Attempt, Ending, Before
  <1>28. CASE Retire
    BY <1>a, <1>28 DEF Retire, KeepButCreds, Leave, ActiveInv, AfterPlan, InCycle, Effects,
       Ending
  <1>29. CASE SegmentComplete
    BY <1>a, <1>29 DEF SegmentComplete, Goto, ActiveInv, Driving, Running, Ending
  <1>30. CASE Terminal
    BY <1>a, <1>30 DEF Terminal, RowVars, AppendRow, ActiveInv, Driving, Running, Ending
  <1>31. CASE Certify
    BY <1>a, <1>31 DEF Certify, KeepButComplete, Goto, ActiveInv, Driving, Running, Ending
  <1>32. CASE HandOff
    BY <1>a, <1>32 DEF HandOff, KeepButCreds, Goto, ActiveInv, Driving, Running, Ending
  <1>33. CASE Publish
    BY <1>a, <1>33 DEF Publish, Goto, Leave, ActiveInv, Driving, Running, Ending
  <1>34. CASE Drain
    BY <1>a, <1>34 DEF Drain, KeepRun, rootVars, Goto, ActiveInv, Driving, Running,
       Attempt, Ending, Before
  <1>35. CASE RecoverUnconsumed
    BY <1>a, <1>35 DEF RecoverUnconsumed, KeepButComplete, Goto, ActiveInv, Driving,
       Running, Attempt, Ending, Before
  <1>36. CASE RecoverAdmission
    BY <1>a, <1>36 DEF RecoverAdmission, Goto, ActiveInv, Driving, Running, Attempt,
       Ending, Before
  <1>37. CASE RecoverInactive
    BY <1>a, <1>37 DEF RecoverInactive, KeepButComplete, Goto, ActiveInv, Driving, Running,
       Ending
  <1>38. CASE RecoverActive
    BY <1>a, <1>38 DEF RecoverActive, Goto, ActiveInv, Attempt, Ending, Before, PointInv,
       Recovering
  <1>39. CASE Abandon
    BY <1>39 DEF Abandon, Leave, ActiveInv, Attempt, Ending, Before
  <1>40. ASSUME NEW c \in cmds, EffectPrepare(c) PROVE ActiveInv'
    BY <1>a, <1>40 DEF EffectPrepare, KeepCmd, procVars, rootVars, ActiveInv, Attempt
  <1>41. ASSUME NEW c \in cmds, EffectClaim(c) PROVE ActiveInv'
    BY <1>a, <1>41 DEF EffectClaim, KeepCmd, procVars, rootVars, ActiveInv, Attempt
  <1>42. ASSUME NEW c \in cmds, EffectAct(c) PROVE ActiveInv'
    BY <1>a, <1>42 DEF EffectAct, KeepCmd, procVars, rootVars, ActiveInv, Attempt
  <1>43. ASSUME NEW c \in cmds, EffectTrack(c) PROVE ActiveInv'
    BY <1>a, <1>43 DEF EffectTrack, KeepCmd, procVars, rootVars, ActiveInv, Attempt
  <1>44. ASSUME NEW c \in cmds, EffectReceipt(c) PROVE ActiveInv'
    BY <1>a, <1>44 DEF EffectReceipt, KeepCmd, procVars, rootVars, ActiveInv, Attempt
  <1>45. ASSUME NEW c \in cmds, Remote(c) PROVE ActiveInv'
    BY <1>a, <1>45 DEF Remote, KeepCmd, procVars, rootVars, ActiveInv, Attempt
  <1>46. ASSUME NEW c \in cmds, Inventory(c) PROVE ActiveInv'
    BY <1>a, <1>46 DEF Inventory, KeepCmd, procVars, rootVars, ActiveInv, Attempt
  <1>47. ASSUME NEW c \in cmds, RecoverIntent(c) PROVE ActiveInv'
    BY <1>a, <1>47 DEF RecoverIntent, KeepCmd, procVars, rootVars, ActiveInv, Attempt
  <1>48. ASSUME NEW c \in cmds, RecoverDestroy(c) PROVE ActiveInv'
    BY <1>a, <1>48 DEF RecoverDestroy, KeepCmd, procVars, rootVars, ActiveInv, Attempt
  <1>49. ASSUME NEW c \in cmds, RecoverSettle(c) PROVE ActiveInv'
    BY <1>a, <1>49 DEF RecoverSettle, KeepCmd, procVars, rootVars, ActiveInv, Attempt
  <1>50. ASSUME NEW c \in cmds, RecoverInventory(c) PROVE ActiveInv'
    BY <1>a, <1>50 DEF RecoverInventory, KeepCmd, procVars, rootVars, ActiveInv, Attempt
  <1>50a. ASSUME NEW c \in cmds, LocalBackend(c) PROVE ActiveInv'
    BY <1>a, <1>50a DEF LocalBackend, KeepCmd, procVars, rootVars, ActiveInv, Attempt
  <1>50b. ASSUME NEW c \in cmds, RecoverInvoke(c) PROVE ActiveInv'
    BY <1>a, <1>50b DEF RecoverInvoke, KeepCmd, procVars, rootVars, ActiveInv, Attempt
  <1>50c. ASSUME NEW c \in cmds, WriteOnce(c) PROVE ActiveInv'
    BY <1>a, <1>50c DEF WriteOnce, KeepCmd, procVars, rootVars, ActiveInv, Attempt
  <1>51. CASE CommandFails
    BY <1>a, <1>51 DEF CommandFails, KeepCmd, procVars, rootVars, ActiveInv, Attempt
  <1>52. CASE Crash
    BY <1>52 DEF Crash, Leave, ActiveInv, Attempt, Ending, Before
  <1>53. CASE Tick
    BY <1>a, <1>53 DEF Tick, procVars, rootVars, ActiveInv, Attempt
  <1>54. CASE UNCHANGED vars
    BY <1>a, <1>54 DEF vars, procVars, rootVars, ActiveInv, Attempt
  <1>55. QED
    BY <1>1, <1>2, <1>3, <1>4, <1>5, <1>6, <1>7, <1>8, <1>9, <1>10, <1>11, <1>12, <1>13,
       <1>14, <1>15, <1>16, <1>17, <1>18, <1>19, <1>20, <1>21, <1>22, <1>23, <1>24, <1>25,
       <1>26, <1>27, <1>28, <1>29, <1>30, <1>31, <1>32, <1>33, <1>34, <1>35, <1>36, <1>37,
       <1>38, <1>39, <1>40, <1>41, <1>42, <1>43, <1>44, <1>45, <1>46, <1>47, <1>48, <1>49,
       <1>50, <1>50a, <1>50b, <1>50c, <1>51, <1>52, <1>53, <1>54 DEF Next, Proceed, Provide

\* A command finds the files it was started for, whatever became of the process.
LEMMA ServedStep == CustodyInv /\ [Next]_vars => ServedInv'
  <1> SUFFICES ASSUME CustodyInv, [Next]_vars PROVE ServedInv'
    OBVIOUS
  <1>a. FileInv /\ ProcInv /\ PointInv /\ CommandInv /\ ConsumeInv /\ RecordInv /\ ActiveInv
        /\ ServedInv /\ LiveInv
    BY DEF CustodyInv
  <1>b. \A c \in cmds, at \in Steps : Step(c, at) => Advanced(c, at)
    BY <1>a, StepFacts
  <1>1. CASE StartRun
    BY <1>a, <1>1 DEF StartRun, cloudVars, provVars, rootVars, ServedInv, Untried,
       Certified, Open
  <1>2. CASE StartRecover
    BY <1>a, <1>2 DEF StartRecover, cloudVars, provVars, rootVars, ServedInv, Untried,
       Certified, Open
  <1>3. CASE Consume
    BY <1>a, <1>3 DEF Consume, cloudVars, provVars, ServedInv, Untried, Certified, Open
  <1>4. CASE ImportAnchor
    BY <1>a, <1>4 DEF ImportAnchor, cloudVars, provVars, ServedInv, Untried, Certified,
       Open
  <1>5. CASE RecordFirstRow
    BY <1>a, <1>5 DEF RecordFirstRow, RowVars, cloudVars, provVars, ServedInv, Untried,
       Certified, Open
  <1>6. CASE OpenCycle
    BY <1>a, <1>6 DEF OpenCycle, RowVars, cloudVars, provVars, ServedInv, Untried,
       Certified, Open
  <1>7. CASE OpenActive
    BY <1>a, <1>7 DEF OpenActive, KeepButActive, cloudVars, provVars, Active, ServedInv,
       Untried, Reconciled, Cycles, NoActive, ProcInv, ActiveInv, Commands, Before
  <1>8. CASE EnsureGrant
    BY <1>a, <1>8 DEF EnsureGrant, cloudVars, rootVars, ServedInv, Untried, Certified, Open
  <1>9. CASE RecordIntent
    BY <1>a, <1>9 DEF RecordIntent, RowVars, cloudVars, provVars, ServedInv, Untried,
       Certified, Open
  <1>10. CASE EffectDeadline
    BY <1>a, <1>10 DEF EffectDeadline, KeepButActive, ServedInv, CommandInv, Resting
  <1>11. CASE MakeScope
    BY <1>a, <1>11 DEF MakeScope, KeepRun, cloudVars, provVars, rootVars, ServedInv,
       Untried, Certified, Open
  <1>12. CASE MarkScope
    BY <1>a, <1>12 DEF MarkScope, KeepRun, cloudVars, provVars, rootVars, ServedInv,
       Untried, Certified, Open
  <1>13. CASE Spawn
    BY <1>a, <1>13 DEF Spawn, KeepRun, cloudVars, provVars, rootVars, ServedInv, Untried,
       Reconciled, Certified, Open, NoActive, Active, InCycle, Effects, ProcInv, PointInv,
       ConsumeInv, ActiveInv, LiveInv, Running, Attempt, Driving
  <1>14. CASE Collect
    BY <1>a, <1>14 DEF Collect, KeepRun, cloudVars, provVars, rootVars, ServedInv, Untried,
       Certified, Open
  <1>15. CASE RemoveScope
    BY <1>a, <1>15 DEF RemoveScope, KeepRun, cloudVars, provVars, rootVars, ServedInv,
       Untried, Certified, Open
  <1>16. CASE UnmarkScope
    BY <1>a, <1>16 DEF UnmarkScope, KeepRun, cloudVars, provVars, rootVars, ServedInv,
       Untried, Certified, Open
  <1>17. CASE EffectActive
    BY <1>a, <1>17 DEF EffectActive, KeepButActive, ServedInv, CommandInv, Resting
  <1>18. CASE RecordSettled
    BY <1>a, <1>18 DEF RecordSettled, RowVars, cloudVars, provVars, ServedInv, Untried,
       Certified, Open
  <1>19. CASE RecordReceipt
    BY <1>a, <1>19 DEF RecordReceipt, RowVars, cloudVars, provVars, ServedInv, Untried,
       Certified, Open
  <1>20. CASE SealCycle
    BY <1>a, <1>20 DEF SealCycle, RowVars, cloudVars, provVars, ServedInv, Untried,
       Certified, Open
  <1>21. CASE SealActive
    BY <1>a, <1>21 DEF SealActive, KeepButActive, ServedInv, CommandInv, Resting
  <1>22. CASE StartCleanup
    BY <1>a, <1>22 DEF StartCleanup, cloudVars, provVars, rootVars, ServedInv, Untried,
       Certified, Open
  <1>23. CASE RecordUncertain
    BY <1>a, <1>23 DEF RecordUncertain, RowVars, cloudVars, provVars, ServedInv, Untried,
       Certified, Open
  <1>24. CASE SettleComplete
    BY <1>a, <1>24 DEF SettleComplete, ServedInv, CommandInv, Resting
  <1>25. CASE SettleJournal
    BY <1>a, <1>25 DEF SettleJournal, RowVars, cloudVars, provVars, ServedInv, Untried,
       Certified, Open
  <1>26. CASE SettleActive
    BY <1>a, <1>26 DEF SettleActive, KeepButActive, ServedInv, CommandInv, Resting
  <1>27. CASE Handler
    BY <1>a, <1>27 DEF Handler, KeepButComplete, cloudVars, provVars, NoActive, Active,
       ServedInv, Untried, Reconciled, Certified, Open
  <1>28. CASE Retire
    BY <1>a, <1>28 DEF Retire, KeepButCreds, cloudVars, provVars, ServedInv, Untried,
       Reconciled, NoActive, Active, ActiveInv, Ending
  <1>29. CASE SegmentComplete
    BY <1>a, <1>29 DEF SegmentComplete, ServedInv, CommandInv, Resting
  <1>30. CASE Terminal
    BY <1>a, <1>30 DEF Terminal, RowVars, cloudVars, provVars, ServedInv, Untried,
       Certified, Open
  <1>31. CASE Certify
    BY <1>a, <1>31 DEF Certify, KeepButComplete, cloudVars, provVars, NoActive, Active,
       ServedInv, Untried, Certified, Open
  <1>32. CASE HandOff
    BY <1>a, <1>32 DEF HandOff, KeepButCreds, ServedInv, CommandInv, Resting
  <1>33. CASE Publish
    BY <1>a, <1>33 DEF Publish, ServedInv, CommandInv, Resting
  <1>34. CASE Drain
    BY <1>a, <1>34 DEF Drain, KeepRun, cloudVars, provVars, rootVars, ServedInv, Untried,
       Certified, Open
  <1>35. CASE RecoverUnconsumed
    BY <1>a, <1>35 DEF RecoverUnconsumed, KeepButComplete, cloudVars, provVars, NoActive,
       Active, ServedInv, Untried, Reconciled, Certified, Open
  <1>36. CASE RecoverAdmission
    BY <1>a, <1>36 DEF RecoverAdmission, cloudVars, provVars, ServedInv, Untried,
       Certified, Open
  <1>37. CASE RecoverInactive
    BY <1>a, <1>37 DEF RecoverInactive, KeepButComplete, ServedInv, CommandInv, Resting
  <1>38. CASE RecoverActive
    BY <1>a, <1>38 DEF RecoverActive, cloudVars, provVars, rootVars, ServedInv, Untried,
       Certified, Open
  <1>39. CASE Abandon
    BY <1>a, <1>39 DEF Abandon, cloudVars, provVars, rootVars, ServedInv, Untried,
       Certified, Open
  <1>40. ASSUME NEW c \in cmds, EffectPrepare(c) PROVE ServedInv'
    BY <1>a, <1>b, <1>40 DEF EffectPrepare, Created, cloudVars, KeepCmd, rootVars, ServedInv,
       Untried, Reconciled, Certified, Open, Steps, Advanced
  <1>41. ASSUME NEW c \in cmds, EffectClaim(c) PROVE ServedInv'
    BY <1>a, <1>b, <1>41 DEF EffectClaim, cloudVars, KeepCmd, rootVars, At, ServedInv,
       Untried, Reconciled, Certified, Open, Steps, Resting, Attempt, Inactive,
       DestroyClaimed, Advanced
  <1>42. ASSUME NEW c \in cmds, EffectAct(c) PROVE ServedInv'
    BY <1>a, <1>b, <1>42 DEF EffectAct, provVars, KeepCmd, rootVars, cloudVars, At,
       ServedInv, Untried, Certified, Open, Operations, Steps, Collecting, Before,
       Settling, Driving, Ending, Advanced
  <1>43. ASSUME NEW c \in cmds, EffectTrack(c) PROVE ServedInv'
    BY <1>a, <1>b, <1>43 DEF EffectTrack, provVars, KeepCmd, rootVars, At, ServedInv,
       Untried, Certified, Open, Steps, Advanced
  <1>44. ASSUME NEW c \in cmds, EffectReceipt(c) PROVE ServedInv'
    <2>1. Advanced(c, "ok") /\ c.at = "write"
      BY <1>b, <1>44 DEF EffectReceipt, At, Steps
    <2>2. UNCHANGED <<rootVars, grants, tfvars, backend, reconcile, live>>
      BY <1>44 DEF EffectReceipt, KeepCmd, cloudVars
    <2>3. QED
      BY <1>a, <2>1, <2>2 DEF ServedInv, Advanced, Certified, Open, Untried, rootVars
  <1>45. ASSUME NEW c \in cmds, Remote(c) PROVE ServedInv'
    BY <1>a, <1>b, <1>45 DEF Remote, KeepCmd, rootVars, At, ServedInv, Untried, Steps,
       Advanced
  <1>46. ASSUME NEW c \in cmds, Inventory(c) PROVE ServedInv'
    BY <1>a, <1>b, <1>46 DEF Inventory, KeepCmd, rootVars, At, ServedInv, Untried, Steps,
       Advanced
  <1>47. ASSUME NEW c \in cmds, RecoverIntent(c) PROVE ServedInv'
    BY <1>a, <1>b, <1>47 DEF RecoverIntent, Created, cloudVars, KeepCmd, rootVars, Reconciled, At,
       ServedInv, Steps, Advanced
  <1>48. ASSUME NEW c \in cmds, RecoverDestroy(c) PROVE ServedInv'
    BY <1>a, <1>b, <1>48 DEF RecoverDestroy, KeepCmd, rootVars, cloudVars, At, ServedInv,
       Reconciled, Operations, Steps, Advanced
  <1>49. ASSUME NEW c \in cmds, RecoverSettle(c) PROVE ServedInv'
    BY <1>a, <1>b, <1>49 DEF RecoverSettle, cloudVars, KeepCmd, rootVars, At, ServedInv,
       Commands, Steps, Advanced
  <1>50. ASSUME NEW c \in cmds, RecoverInventory(c) PROVE ServedInv'
    BY <1>a, <1>b, <1>50 DEF RecoverInventory, cloudVars, KeepCmd, rootVars, At, ServedInv,
       Steps, Advanced
  <1>50a. ASSUME NEW c \in cmds, LocalBackend(c) PROVE ServedInv'
    BY <1>a, <1>b, <1>50a DEF LocalBackend, At, cloudVars, KeepCmd, rootVars,
       ServedInv, Untried, Certified, Open, Steps, Advanced
  <1>50b. ASSUME NEW c \in cmds, RecoverInvoke(c) PROVE ServedInv'
    BY <1>a, <1>b, <1>50b DEF RecoverInvoke, Created, At, cloudVars, KeepCmd, rootVars,
       ServedInv, Untried, Certified, Open, Steps, Advanced
  <1>50c. ASSUME NEW c \in cmds, WriteOnce(c) PROVE ServedInv'
    <2>1. /\ UNCHANGED <<rootVars, grants, live>> /\ Advanced(c, Filled[c.at])
          /\ tfvars' = IF c.at = "variables" THEN tfvars \cup {c.ord} ELSE tfvars
          /\ backend' = IF c.at = "backend" THEN backend \cup {c.ord} ELSE backend
      BY <1>b, <1>50c, FilledFacts DEF WriteOnce, KeepCmd, cloudVars
    <2>2. c.op # "recover" => reconcile' = reconcile
      BY <1>a, <1>50c DEF WriteOnce, RecordInv
    <2>3. c.at \in {"variables", "backend", "intent", "invocation"}
      BY <1>50c DEF WriteOnce, Filled
    <2>4. QED
      BY <1>a, <1>50c, <2>1, <2>2, <2>3, FilledFacts DEF ServedInv, Untried, Certified, Open,
         rootVars, Advanced
  <1>51. CASE CommandFails
    BY <1>a, <1>b, <1>51 DEF CommandFails, cloudVars, provVars, KeepCmd, rootVars, At,
       ServedInv, Untried, Reconciled, Certified, Open, Steps, Advanced
  <1>52. CASE Crash
    <2>1. Orphaned
      BY <1>a, <1>52, CrashFacts
    <2>2. Leave /\ UNCHANGED <<kindOfRoot, consumed, anchor, journal, active, complete, segment,
                               creds, published, scope, provVars, cloudVars, clock>>
      BY <1>52 DEF Crash
    <2>3. QED
      BY <1>a, <2>1, <2>2 DEF cloudVars, provVars, ServedInv, Untried, Reconciled,
         Certified, Open, Orphaned
  <1>53. CASE Tick
    BY <1>a, <1>53 DEF Tick, cloudVars, provVars, rootVars, ServedInv, Untried, Certified,
       Open
  <1>54. CASE UNCHANGED vars
    BY <1>a, <1>54 DEF vars, cloudVars, provVars, rootVars, ServedInv, Untried, Certified,
       Open
  <1>55. QED
    BY <1>1, <1>2, <1>3, <1>4, <1>5, <1>6, <1>7, <1>8, <1>9, <1>10, <1>11, <1>12, <1>13,
       <1>14, <1>15, <1>16, <1>17, <1>18, <1>19, <1>20, <1>21, <1>22, <1>23, <1>24, <1>25,
       <1>26, <1>27, <1>28, <1>29, <1>30, <1>31, <1>32, <1>33, <1>34, <1>35, <1>36, <1>37,
       <1>38, <1>39, <1>40, <1>41, <1>42, <1>43, <1>44, <1>45, <1>46, <1>47, <1>48, <1>49,
       <1>50, <1>50a, <1>50b, <1>50c, <1>51, <1>52, <1>53, <1>54 DEF Next, Proceed, Provide

\* A step leaves live only the cycle that the active record names, recoverable.
LEMMA LiveStep == CustodyInv /\ [Next]_vars => LiveInv'
  <1> SUFFICES ASSUME CustodyInv, [Next]_vars PROVE LiveInv'
    OBVIOUS
  <1>a. FileInv /\ ProcInv /\ PointInv /\ CommandInv /\ ConsumeInv /\ RecordInv /\ ActiveInv
        /\ ServedInv /\ LiveInv /\ ZeroInv
    BY DEF CustodyInv
  <1>b. \A c \in cmds, at \in Steps : Step(c, at) => Advanced(c, at)
    BY <1>a, StepFacts
  <1>c. Untried => \A o \in Cycles : invoked[o] = "none"
    BY <1>a DEF Untried, RecordInv
  <1>1. CASE StartRun
    BY <1>a, <1>1 DEF StartRun, cloudVars, provVars, rootVars, LiveInv, Attempt,
       DestroyClaimed, Ambiguity, Certified, Open
  <1>2. CASE StartRecover
    BY <1>a, <1>2 DEF StartRecover, cloudVars, provVars, rootVars, LiveInv, Attempt,
       Running, DestroyClaimed, Ambiguity, Certified, Open
  <1>3. CASE Consume
    BY <1>a, <1>3 DEF Consume, cloudVars, provVars, Goto, LiveInv, Untried, Reconciled,
       Attempt, Running, DestroyClaimed, Ambiguity, Certified, Open, NoActive, Active, ConsumeInv
  <1>4. CASE ImportAnchor
    BY <1>a, <1>4 DEF ImportAnchor, cloudVars, provVars, Goto, LiveInv, Untried, Attempt,
       Running, DestroyClaimed, Ambiguity, Certified, Open
  <1>5. CASE RecordFirstRow
    BY <1>a, <1>5 DEF RecordFirstRow, RowVars, cloudVars, provVars, AppendRow, LiveInv,
       Untried, Attempt, Running, DestroyClaimed, Ambiguity, Certified, Open
  <1>6. CASE OpenCycle
    BY <1>a, <1>6 DEF OpenCycle, RowVars, cloudVars, provVars, LiveInv, Untried,
       Reconciled, Attempt, NoActive, Active, ActiveInv, Before
  <1>7. CASE OpenActive
    BY <1>a, <1>7 DEF OpenActive, KeepButActive, cloudVars, provVars, Do, Active, LiveInv,
       Untried, Reconciled, Attempt, NoActive, PointInv, ActiveInv, Before
  <1>8. CASE EnsureGrant
    BY <1>a, <1>8 DEF EnsureGrant, cloudVars, rootVars, Goto, LiveInv, Untried, Attempt,
       Running, DestroyClaimed, Ambiguity, Certified, Open
  <1>9. CASE RecordIntent
    BY <1>a, <1>9 DEF RecordIntent, RowVars, cloudVars, provVars, AppendRow, LiveInv,
       Untried, Attempt, Running, DestroyClaimed, Ambiguity, Certified, Open
  <1>10. CASE EffectDeadline
    BY <1>a, <1>c, <1>10 DEF EffectDeadline, KeepButActive, cloudVars, provVars, SetActive,
       Active, Raise, Goto, LiveInv, Untried, Reconciled, Attempt, Certified, Open,
       NoActive, ProcInv, PointInv, ActiveInv
  <1>11. CASE MakeScope
    BY <1>a, <1>11 DEF MakeScope, KeepRun, cloudVars, provVars, rootVars, Raise, Goto,
       LiveInv, Untried, Attempt, Running, DestroyClaimed, Ambiguity, Certified, Open
  <1>12. CASE MarkScope
    BY <1>a, <1>12 DEF MarkScope, KeepRun, cloudVars, provVars, rootVars, Goto, LiveInv,
       Untried, Attempt, Running, DestroyClaimed, Ambiguity, Certified, Open
  <1>13. CASE Spawn
    BY <1>a, <1>13 DEF Spawn, KeepRun, cloudVars, provVars, rootVars, Goto, LiveInv,
       Untried, Attempt, Running, DestroyClaimed, Ambiguity, Certified, Open
  <1>14. CASE Collect
    BY <1>a, <1>14 DEF Collect, KeepRun, cloudVars, provVars, rootVars, LiveInv, Untried,
       Attempt, Running, DestroyClaimed, Ambiguity, Certified, Open
  <1>15. CASE RemoveScope
    BY <1>a, <1>15 DEF RemoveScope, KeepRun, cloudVars, provVars, rootVars, Goto, LiveInv,
       Untried, Attempt, Running, DestroyClaimed, Ambiguity, Certified, Open
  <1>16. CASE UnmarkScope
    BY <1>a, <1>16 DEF UnmarkScope, KeepRun, cloudVars, provVars, rootVars, Goto, Do,
       Raise, LiveInv, Untried, Attempt, Running, DestroyClaimed, Ambiguity, Certified, Open
  <1>17. CASE EffectActive
    BY <1>a, <1>c, <1>17 DEF EffectActive, KeepButActive, cloudVars, provVars, Goto, SetActive,
       Active, LiveInv, Untried, Reconciled, Attempt, Certified, Open, NoActive, ProcInv,
       PointInv, ActiveInv, Effects, Effecting
  <1>18. CASE RecordSettled
    BY <1>a, <1>18 DEF RecordSettled, RowVars, cloudVars, provVars, AppendRow, LiveInv,
       Untried, Attempt, Running, DestroyClaimed, Ambiguity, Certified, Open
  <1>19. CASE RecordReceipt
    BY <1>a, <1>19 DEF RecordReceipt, RowVars, cloudVars, provVars, LiveInv, Untried,
       Attempt, DestroyClaimed, Ambiguity, Certified, Open, PointInv, Effects, Effecting
  <1>20. CASE SealCycle
    BY <1>a, <1>20 DEF SealCycle, RowVars, cloudVars, provVars, AppendRow, LiveInv,
       Untried, Attempt, Running, DestroyClaimed, Ambiguity, Certified, Open
  <1>21. CASE SealActive
    BY <1>a, <1>21 DEF SealActive, KeepButActive, cloudVars, provVars, Do, Goto, LiveInv,
       Untried, Attempt, PointInv, ZeroInv
  <1>22. CASE StartCleanup
    BY <1>a, <1>22 DEF StartCleanup, cloudVars, provVars, rootVars, Do, LiveInv, Attempt,
       DestroyClaimed, Ambiguity, Certified, Open, PointInv
  <1>23. CASE RecordUncertain
    BY <1>a, <1>23 DEF RecordUncertain, RowVars, cloudVars, provVars, AppendRow, LiveInv,
       Attempt, Running, DestroyClaimed, Ambiguity, Certified, Open
  <1>24. CASE SettleComplete
    BY <1>a, <1>24 DEF SettleComplete, cloudVars, Goto, LiveInv, Attempt, ZeroInv, Settling
  <1>25. CASE SettleJournal
    BY <1>a, <1>25 DEF SettleJournal, RowVars, cloudVars, provVars, AppendRow, LiveInv,
       Attempt, Running, DestroyClaimed, Ambiguity, Certified, Open
  <1>26. CASE SettleActive
    BY <1>a, <1>26 DEF SettleActive, KeepButActive, cloudVars, Goto, LiveInv, Attempt,
       ZeroInv, Settling
  <1>27. CASE Handler
    BY <1>a, <1>27 DEF Handler, KeepButComplete, cloudVars, provVars, Leave, Goto,
       NoActive, Active, LiveInv, Attempt, DestroyClaimed, Ambiguity, Certified, Open
  <1>28. CASE Retire
    BY <1>a, <1>28 DEF Retire, KeepButCreds, cloudVars, Leave, LiveInv, Reconciled,
       Attempt, NoActive, Active, ActiveInv, Ending
  <1>29. CASE SegmentComplete
    BY <1>a, <1>29 DEF SegmentComplete, cloudVars, Goto, LiveInv, Reconciled, Attempt,
       NoActive, Active, ActiveInv, Ending
  <1>30. CASE Terminal
    BY <1>a, <1>30 DEF Terminal, RowVars, cloudVars, provVars, AppendRow, LiveInv, Untried,
       Attempt, Running, DestroyClaimed, Ambiguity, Certified, Open
  <1>31. CASE Certify
    BY <1>a, <1>31 DEF Certify, KeepButComplete, cloudVars, provVars, Goto, NoActive,
       Active, LiveInv, Reconciled, Attempt, Running, DestroyClaimed, Ambiguity, Certified, Open
  <1>32. CASE HandOff
    BY <1>a, <1>32 DEF HandOff, KeepButCreds, cloudVars, Goto, LiveInv, Reconciled,
       Attempt, NoActive, Active, ActiveInv, Ending
  <1>33. CASE Publish
    BY <1>a, <1>33 DEF Publish, cloudVars, Goto, Leave, LiveInv, Attempt, NoActive, Active,
       ActiveInv, Ending
  <1>34. CASE Drain
    BY <1>a, <1>34 DEF Drain, KeepRun, cloudVars, provVars, rootVars, Goto, LiveInv,
       Untried, Attempt, Running, DestroyClaimed, Ambiguity, Certified, Open
  <1>35. CASE RecoverUnconsumed
    BY <1>a, <1>35 DEF RecoverUnconsumed, KeepButComplete, cloudVars, provVars, Goto,
       NoActive, Active, LiveInv, Untried, Reconciled, Attempt, Running, DestroyClaimed, Ambiguity,
       Certified, Open
  <1>36. CASE RecoverAdmission
    BY <1>a, <1>36 DEF RecoverAdmission, cloudVars, provVars, Goto, LiveInv, Untried,
       Attempt, Running, DestroyClaimed, Ambiguity, Certified, Open
  <1>37. CASE RecoverInactive
    BY <1>a, <1>37 DEF RecoverInactive, KeepButComplete, cloudVars, provVars, Goto,
       NoActive, Active, LiveInv, Untried, Attempt, ActiveInv, Ending
  <1>38. CASE RecoverActive
    BY <1>a, <1>38 DEF RecoverActive, cloudVars, provVars, rootVars, Goto, LiveInv,
       Untried, Attempt, Running, DestroyClaimed, Ambiguity, Certified, Open
  <1>39. CASE Abandon
    BY <1>a, <1>39 DEF Abandon, cloudVars, provVars, rootVars, Leave, LiveInv, Attempt,
       DestroyClaimed, Ambiguity, Certified, Open
  <1>40. ASSUME NEW c \in cmds, EffectPrepare(c) PROVE LiveInv'
    BY <1>a, <1>40 DEF EffectPrepare, Created, cloudVars, KeepCmd, procVars, rootVars, LiveInv,
       Untried, Attempt, DestroyClaimed, Ambiguity, Certified, Open
  <1>41. ASSUME NEW c \in cmds, EffectClaim(c) PROVE LiveInv'
    BY <1>a, <1>c, <1>41 DEF EffectClaim, cloudVars, KeepCmd, procVars, rootVars, Effects, At,
       LiveInv, ProcInv, Untried, Attempt, Certified, Open, FileInv, ServedInv
  <1>42. ASSUME NEW c \in cmds, EffectAct(c) PROVE LiveInv'
    <2>1. /\ UNCHANGED <<rootVars, procVars, provVars>> /\ c.at = "act"
          /\ \/ live' \subseteq live
             \/ c.op = "apply" /\ live' = live \cup {c.ord}
      BY <1>42 DEF EffectAct, KeepCmd, At, cloudVars
    <2>2. CASE live' \subseteq live
      BY <1>a, <2>1, <2>2 DEF provVars, procVars, rootVars, LiveInv, Untried, Attempt,
         DestroyClaimed, Ambiguity, Certified, Open
    <2>3. CASE c.op = "apply" /\ live' = live \cup {c.ord}
      <3>1. /\ c.ord = active.ord /\ active.state = "slot" /\ creds /\ ~Certified
            /\ c.ord \in grants \cap tfvars \cap backend /\ Untried
        BY <1>a, <2>1, <2>3 DEF ServedInv, InCycle, Effects
      <3>2. /\ pc \in Resting \cup {"wait"}
            /\ pc = "wait" => c.op = op /\ c.ord = ord /\ c.state = mem
        BY <1>a DEF CommandInv
      <3>3. reconcile[active.ord] = NoIntent /\ invoked[active.ord] = "none"
        BY <1>a, <3>1 DEF Untried, FileInv, RecordInv, ProcInv, Commands
      <3>4. Attempt => mem = "slot"
        BY <1>a, <2>3, <3>1, <3>2 DEF Attempt, ActiveInv, Resting, PointInv, Recovering,
           Driving, Running, AfterPlan, InCycle, Effects
      <3>5. ~(entry = "recover" /\ pc \in Running)
        BY <1>a, <2>3, <3>2 DEF PointInv, Resting, Running
      <3>6. live' \subseteq {active.ord}
        BY <1>a, <2>3, <3>1 DEF LiveInv
      <3> QED
        BY <1>a, <2>1, <3>1, <3>3, <3>4, <3>5, <3>6 DEF provVars, procVars, rootVars, LiveInv,
           Untried, Attempt, Certified, Open
    <2> QED
      BY <2>1, <2>2, <2>3
  <1>43. ASSUME NEW c \in cmds, EffectTrack(c) PROVE LiveInv'
    BY <1>a, <1>43 DEF EffectTrack, provVars, KeepCmd, procVars, rootVars, LiveInv,
       Untried, Attempt, DestroyClaimed, Ambiguity, Certified, Open
  <1>44. ASSUME NEW c \in cmds, EffectReceipt(c) PROVE LiveInv'
    BY <1>a, <1>44 DEF EffectReceipt, cloudVars, KeepCmd, procVars, rootVars, LiveInv,
       Untried, Attempt, DestroyClaimed, Ambiguity, Certified, Open
  <1>45. ASSUME NEW c \in cmds, Remote(c) PROVE LiveInv'
    BY <1>a, <1>45 DEF Remote, cloudVars, KeepCmd, procVars, rootVars, LiveInv, Untried,
       Attempt, DestroyClaimed, Ambiguity, Certified, Open
  <1>46. ASSUME NEW c \in cmds, Inventory(c) PROVE LiveInv'
    BY <1>a, <1>46 DEF Inventory, cloudVars, KeepCmd, procVars, rootVars, At, LiveInv,
       Untried, Attempt, DestroyClaimed, Ambiguity, Certified, Open
  <1>47. ASSUME NEW c \in cmds, RecoverIntent(c) PROVE LiveInv'
    BY <1>a, <1>47 DEF RecoverIntent, cloudVars, KeepCmd, procVars, rootVars, LiveInv,
       Untried, Attempt, DestroyClaimed, Ambiguity, Certified, Open
  <1>48. ASSUME NEW c \in cmds, RecoverDestroy(c) PROVE LiveInv'
    <2>1. live' \subseteq live
      BY <1>48 DEF RecoverDestroy, cloudVars
    <2>2. UNCHANGED <<rootVars, provVars, procVars>>
      BY <1>48 DEF RecoverDestroy, KeepCmd
    <2>3. QED
      BY <1>a, <2>1, <2>2 DEF LiveInv, Certified, Open, Untried, Attempt, DestroyClaimed, Ambiguity,
         rootVars, provVars, procVars
  <1>49. ASSUME NEW c \in cmds, RecoverSettle(c) PROVE LiveInv'
    BY <1>a, <1>49 DEF RecoverSettle, cloudVars, KeepCmd, procVars, rootVars, LiveInv,
       Untried, Attempt, DestroyClaimed, Ambiguity, Certified, Open
  <1>50. ASSUME NEW c \in cmds, RecoverInventory(c) PROVE LiveInv'
    BY <1>a, <1>50 DEF RecoverInventory, cloudVars, KeepCmd, procVars, rootVars, LiveInv,
       Untried, Attempt, DestroyClaimed, Ambiguity, Certified, Open
  <1>50a. ASSUME NEW c \in cmds, LocalBackend(c) PROVE LiveInv'
    BY <1>a, <1>50a DEF LocalBackend, cloudVars, KeepCmd, procVars, rootVars, LiveInv,
       Untried, Attempt, DestroyClaimed, Ambiguity, Certified, Open
  <1>50b. ASSUME NEW c \in cmds, RecoverInvoke(c) PROVE LiveInv'
    BY <1>a, <1>50b DEF RecoverInvoke, Created, cloudVars, KeepCmd, procVars, rootVars, LiveInv,
       Untried, Attempt, DestroyClaimed, Ambiguity, Certified, Open
  <1>50c. ASSUME NEW c \in cmds, WriteOnce(c) PROVE LiveInv'
    <2>1. /\ UNCHANGED <<rootVars, grants, claims, live, procVars>>
          /\ tfvars \subseteq tfvars' /\ backend \subseteq backend'
      BY <1>50c DEF WriteOnce, KeepCmd, cloudVars
    <2>2. c.op # "recover" => UNCHANGED <<reconcile, invoked>>
      BY <1>a, <1>50c DEF WriteOnce, RecordInv
    <2>3. c.op = "recover" => (Attempt => op = "recover")
      BY <1>a DEF Attempt, CommandInv, PointInv, Resting, Recovering
    <2>4. ASSUME live # {}, c.op = "recover"
          PROVE  /\ reconcile'[active.ord] \in
                      {NoIntent, Reconciled("slot", DestroyClaimed(active.ord))}
                 /\ invoked'[active.ord] \in {"none", Ambiguity(active.ord)}
      <3>1. c.ord = active.ord /\ c.state = "slot" /\ active.ord \in Cycles
        BY <1>a, <2>4 DEF ServedInv, ProcInv, Commands
      <3>2. reconcile' \in {reconcile, [reconcile EXCEPT ![active.ord] =
                                          Reconciled("slot", DestroyClaimed(active.ord))]}
        BY <1>50c, <3>1 DEF WriteOnce
      <3>3. invoked' \in {invoked, [invoked EXCEPT ![active.ord] = Ambiguity(active.ord)]}
        BY <1>50c, <3>1 DEF WriteOnce
      <3>4. QED
        BY <1>a, <2>4, <3>1, <3>2, <3>3 DEF LiveInv, FileInv
    <2>5. CASE c.op = "recover"
      BY <1>a, <2>1, <2>3, <2>4, <2>5 DEF LiveInv, Certified, Open, Attempt, DestroyClaimed,
         Ambiguity, rootVars, procVars
    <2>6. CASE c.op # "recover"
      BY <1>a, <2>1, <2>2, <2>6 DEF LiveInv, Certified, Open, Attempt, Untried, DestroyClaimed,
         Ambiguity, rootVars, procVars
    <2>7. QED
      BY <2>5, <2>6
  <1>51. CASE CommandFails
    BY <1>a, <1>51 DEF CommandFails, cloudVars, provVars, KeepCmd, procVars, rootVars,
       LiveInv, Untried, Attempt, DestroyClaimed, Ambiguity, Certified, Open
  <1>52. CASE Crash
    <2>1. Orphaned
      BY <1>a, <1>52, CrashFacts
    <2>2. Leave /\ UNCHANGED <<kindOfRoot, consumed, anchor, journal, active, complete, segment,
                               creds, published, scope, provVars, cloudVars, clock>>
      BY <1>52 DEF Crash
    <2>3. QED
      BY <1>a, <2>1, <2>2 DEF cloudVars, provVars, Leave, LiveInv, Attempt,
         DestroyClaimed, Ambiguity, Certified, Open
  <1>53. CASE Tick
    BY <1>a, <1>53 DEF Tick, procVars, cloudVars, provVars, rootVars, LiveInv, Untried,
       Attempt, DestroyClaimed, Ambiguity, Certified, Open
  <1>54. CASE UNCHANGED vars
    BY <1>a, <1>54 DEF vars, procVars, cloudVars, provVars, rootVars, LiveInv, Untried,
       Attempt, DestroyClaimed, Ambiguity, Certified, Open
  <1>55. QED
    BY <1>1, <1>2, <1>3, <1>4, <1>5, <1>6, <1>7, <1>8, <1>9, <1>10, <1>11, <1>12, <1>13,
       <1>14, <1>15, <1>16, <1>17, <1>18, <1>19, <1>20, <1>21, <1>22, <1>23, <1>24, <1>25,
       <1>26, <1>27, <1>28, <1>29, <1>30, <1>31, <1>32, <1>33, <1>34, <1>35, <1>36, <1>37,
       <1>38, <1>39, <1>40, <1>41, <1>42, <1>43, <1>44, <1>45, <1>46, <1>47, <1>48, <1>49,
       <1>50, <1>50a, <1>50b, <1>50c, <1>51, <1>52, <1>53, <1>54 DEF Next, Proceed, Provide

\* Nothing becomes live once it has been seen that nothing is.
LEMMA ZeroStep == CustodyInv /\ [Next]_vars => ZeroInv'
  <1> SUFFICES ASSUME CustodyInv, [Next]_vars PROVE ZeroInv'
    OBVIOUS
  <1>a. FileInv /\ ProcInv /\ PointInv /\ CommandInv /\ LiveInv /\ ZeroInv
    BY DEF CustodyInv
  <1>b. \A c \in cmds, at \in Steps : Step(c, at) => Advanced(c, at)
    BY <1>a, StepFacts
  <1>1. CASE StartRun
    BY <1>a, <1>1 DEF StartRun, cloudVars, ZeroInv, Settling
  <1>2. CASE StartRecover
    BY <1>a, <1>2 DEF StartRecover, cloudVars, ZeroInv, Settling
  <1>3. CASE Consume
    BY <1>a, <1>3 DEF Consume, cloudVars, Goto, ZeroInv, Settling, Collecting
  <1>4. CASE ImportAnchor
    BY <1>a, <1>4 DEF ImportAnchor, cloudVars, Goto, ZeroInv, Settling, Collecting
  <1>5. CASE RecordFirstRow
    BY <1>a, <1>5 DEF RecordFirstRow, RowVars, cloudVars, AppendRow, ZeroInv, Settling,
       Collecting
  <1>6. CASE OpenCycle
    BY <1>a, <1>6 DEF OpenCycle, RowVars, cloudVars, AppendRow, ZeroInv, Settling,
       Collecting
  <1>7. CASE OpenActive
    BY <1>a, <1>7 DEF OpenActive, KeepButActive, cloudVars, Do, ZeroInv, Settling,
       Observers
  <1>8. CASE EnsureGrant
    BY <1>a, <1>8 DEF EnsureGrant, cloudVars, Goto, ZeroInv, Settling, Collecting
  <1>9. CASE RecordIntent
    BY <1>a, <1>9 DEF RecordIntent, RowVars, cloudVars, AppendRow, ZeroInv, Settling,
       Collecting
  <1>10. CASE EffectDeadline
    BY <1>a, <1>10 DEF EffectDeadline, KeepButActive, cloudVars, Raise, Raised, Goto,
       ZeroInv, Settling, Collecting
  <1>11. CASE MakeScope
    BY <1>a, <1>11 DEF MakeScope, KeepRun, cloudVars, Raise, Raised, Goto, ZeroInv,
       Settling, Collecting
  <1>12. CASE MarkScope
    BY <1>a, <1>12 DEF MarkScope, KeepRun, cloudVars, Goto, ZeroInv, Settling, Collecting
  <1>13. CASE Spawn
    BY <1>a, <1>13 DEF Spawn, KeepRun, cloudVars, Goto, ZeroInv, Settling, Collecting
  <1>14. CASE Collect
    BY <1>a, <1>14 DEF Collect, KeepRun, cloudVars, ZeroInv, Settling, CommandInv
  <1>15. CASE RemoveScope
    BY <1>a, <1>15 DEF RemoveScope, KeepRun, cloudVars, Goto, ZeroInv, Settling, Collecting
  <1>16. CASE UnmarkScope
    BY <1>a, <1>16 DEF UnmarkScope, KeepRun, cloudVars, Goto, Do, Raise, Raised, ZeroInv,
       Settling, Observers, Collecting, ProcInv, PointInv, Operations, Effects, Running
  <1>17. CASE EffectActive
    BY <1>a, <1>17 DEF EffectActive, KeepButActive, cloudVars, Goto, ZeroInv, Settling,
       Collecting
  <1>18. CASE RecordSettled
    BY <1>a, <1>18 DEF RecordSettled, RowVars, cloudVars, AppendRow, ZeroInv, Settling,
       Collecting
  <1>19. CASE RecordReceipt
    BY <1>a, <1>19 DEF RecordReceipt, RowVars, cloudVars, NextPc, AppendRow, ZeroInv,
       Settling, Collecting, PointInv, Effects, Effecting
  <1>20. CASE SealCycle
    BY <1>a, <1>20 DEF SealCycle, RowVars, cloudVars, ZeroInv
  <1>21. CASE SealActive
    BY <1>a, <1>21 DEF SealActive, KeepButActive, cloudVars, ZeroInv
  <1>22. CASE StartCleanup
    BY <1>a, <1>22 DEF StartCleanup, cloudVars, Do, ZeroInv, Settling, Collecting
  <1>23. CASE RecordUncertain
    BY <1>a, <1>23 DEF RecordUncertain, RowVars, cloudVars, AppendRow, ZeroInv, Settling,
       Collecting
  <1>24. CASE SettleComplete
    BY <1>a, <1>24 DEF SettleComplete, cloudVars, ZeroInv, Settling
  <1>25. CASE SettleJournal
    BY <1>a, <1>25 DEF SettleJournal, RowVars, cloudVars, ZeroInv, Settling
  <1>26. CASE SettleActive
    BY <1>a, <1>26 DEF SettleActive, KeepButActive, cloudVars, ZeroInv, Settling
  <1>27. CASE Handler
    BY <1>a, <1>27 DEF Handler, KeepButComplete, cloudVars, Leave, Goto, ZeroInv, Settling,
       Collecting
  <1>28. CASE Retire
    BY <1>a, <1>28 DEF Retire, KeepButCreds, cloudVars, Leave, ZeroInv, Settling
  <1>29. CASE SegmentComplete
    BY <1>a, <1>29 DEF SegmentComplete, cloudVars, Goto, ZeroInv, Settling, Collecting
  <1>30. CASE Terminal
    BY <1>a, <1>30 DEF Terminal, RowVars, cloudVars, AppendRow, ZeroInv, Settling,
       Collecting
  <1>31. CASE Certify
    BY <1>a, <1>31 DEF Certify, KeepButComplete, cloudVars, Goto, ZeroInv, Settling,
       Collecting
  <1>32. CASE HandOff
    BY <1>a, <1>32 DEF HandOff, KeepButCreds, cloudVars, Goto, ZeroInv, Settling,
       Collecting
  <1>33. CASE Publish
    BY <1>a, <1>33 DEF Publish, cloudVars, Goto, Leave, ZeroInv, Settling, Collecting
  <1>34. CASE Drain
    BY <1>a, <1>34 DEF Drain, KeepRun, cloudVars, Goto, ZeroInv, Settling, Collecting
  <1>35. CASE RecoverUnconsumed
    BY <1>a, <1>35 DEF RecoverUnconsumed, KeepButComplete, cloudVars, Goto, ZeroInv,
       Settling, Collecting
  <1>36. CASE RecoverAdmission
    BY <1>a, <1>36 DEF RecoverAdmission, cloudVars, Goto, ZeroInv, Settling, Collecting
  <1>37. CASE RecoverInactive
    BY <1>a, <1>37 DEF RecoverInactive, KeepButComplete, cloudVars, Goto, ZeroInv,
       Settling, Collecting
  <1>38. CASE RecoverActive
    BY <1>a, <1>38 DEF RecoverActive, cloudVars, Complete, Goto, ZeroInv, Settling,
       Collecting, LiveInv, Reconciled, Certified, Open, Unconsumed
  <1>39. CASE Abandon
    BY <1>a, <1>39 DEF Abandon, cloudVars, Leave, ZeroInv, Settling
  <1>40. ASSUME NEW c \in cmds, EffectPrepare(c) PROVE ZeroInv'
    BY <1>a, <1>b, <1>40 DEF EffectPrepare, Created, cloudVars, KeepCmd, procVars, ZeroInv, Steps,
       Advanced
  <1>41. ASSUME NEW c \in cmds, EffectClaim(c) PROVE ZeroInv'
    BY <1>a, <1>b, <1>41 DEF EffectClaim, cloudVars, KeepCmd, procVars, ZeroInv, Steps,
       Advanced
  <1>42. ASSUME NEW c \in cmds, EffectAct(c) PROVE ZeroInv'
    BY <1>a, <1>b, <1>42 DEF EffectAct, KeepCmd, procVars, ZeroInv, Settling, Collecting,
       CommandInv, Steps, Resting, Advanced
  <1>43. ASSUME NEW c \in cmds, EffectTrack(c) PROVE ZeroInv'
    BY <1>a, <1>b, <1>43 DEF EffectTrack, KeepCmd, procVars, ZeroInv, Steps, Advanced
  <1>44. ASSUME NEW c \in cmds, EffectReceipt(c) PROVE ZeroInv'
    BY <1>a, <1>b, <1>44 DEF EffectReceipt, cloudVars, KeepCmd, procVars, Effects, At,
       ZeroInv, Observers, Steps, Advanced
  <1>45. ASSUME NEW c \in cmds, Remote(c) PROVE ZeroInv'
    BY <1>a, <1>b, <1>45 DEF Remote, cloudVars, KeepCmd, procVars, At, ZeroInv, Observers,
       Steps, Advanced
  <1>46. ASSUME NEW c \in cmds, Inventory(c) PROVE ZeroInv'
    BY <1>a, <1>b, <1>46 DEF Inventory, cloudVars, KeepCmd, procVars, ZeroInv, Steps,
       Advanced
  <1>47. ASSUME NEW c \in cmds, RecoverIntent(c) PROVE ZeroInv'
    BY <1>a, <1>b, <1>47 DEF RecoverIntent, Created, cloudVars, KeepCmd, procVars, ZeroInv, Steps,
       Advanced
  <1>48. ASSUME NEW c \in cmds, RecoverDestroy(c) PROVE ZeroInv'
    BY <1>a, <1>b, <1>48 DEF RecoverDestroy, KeepCmd, procVars, cloudVars, ZeroInv, Steps,
       Resting, Advanced
  <1>49. ASSUME NEW c \in cmds, RecoverSettle(c) PROVE ZeroInv'
    BY <1>a, <1>b, <1>49 DEF RecoverSettle, cloudVars, KeepCmd, procVars, ZeroInv, Steps,
       Advanced
  <1>50. ASSUME NEW c \in cmds, RecoverInventory(c) PROVE ZeroInv'
    BY <1>a, <1>b, <1>50 DEF RecoverInventory, cloudVars, KeepCmd, procVars, ZeroInv,
       Steps, Advanced
  <1>50a. ASSUME NEW c \in cmds, LocalBackend(c) PROVE ZeroInv'
    BY <1>a, <1>b, <1>50a DEF LocalBackend, cloudVars, KeepCmd, procVars, ZeroInv, Steps,
       Advanced
  <1>50b. ASSUME NEW c \in cmds, RecoverInvoke(c) PROVE ZeroInv'
    BY <1>a, <1>b, <1>50b DEF RecoverInvoke, Created, cloudVars, KeepCmd, procVars, ZeroInv, Steps,
       Advanced
  <1>50c. ASSUME NEW c \in cmds, WriteOnce(c) PROVE ZeroInv'
    <2>1. Advanced(c, Filled[c.at]) /\ UNCHANGED <<live, procVars>> /\ Filled[c.at] # "ok"
      BY <1>b, <1>50c, FilledFacts DEF WriteOnce, KeepCmd, cloudVars
    <2>2. QED
      BY <1>a, <2>1 DEF procVars, ZeroInv, Advanced
  <1>51. CASE CommandFails
    BY <1>a, <1>b, <1>51 DEF CommandFails, cloudVars, KeepCmd, procVars, ZeroInv, Steps,
       Advanced
  <1>52. CASE Crash
    <2>1. Orphaned
      BY <1>a, <1>52, CrashFacts
    <2>2. Leave /\ UNCHANGED <<kindOfRoot, consumed, anchor, journal, active, complete, segment,
                               creds, published, scope, provVars, cloudVars, clock>>
      BY <1>52 DEF Crash
    <2>3. QED
      BY <1>a, <2>1, <2>2 DEF cloudVars, Leave, ZeroInv, Settling, Orphaned
  <1>53. CASE Tick
    BY <1>a, <1>53 DEF Tick, procVars, cloudVars, ZeroInv
  <1>54. CASE UNCHANGED vars
    BY <1>a, <1>54 DEF vars, procVars, cloudVars, ZeroInv
  <1>55. QED
    BY <1>1, <1>2, <1>3, <1>4, <1>5, <1>6, <1>7, <1>8, <1>9, <1>10, <1>11, <1>12, <1>13,
       <1>14, <1>15, <1>16, <1>17, <1>18, <1>19, <1>20, <1>21, <1>22, <1>23, <1>24, <1>25,
       <1>26, <1>27, <1>28, <1>29, <1>30, <1>31, <1>32, <1>33, <1>34, <1>35, <1>36, <1>37,
       <1>38, <1>39, <1>40, <1>41, <1>42, <1>43, <1>44, <1>45, <1>46, <1>47, <1>48, <1>49,
       <1>50, <1>50a, <1>50b, <1>50c, <1>51, <1>52, <1>53, <1>54 DEF Next, Proceed, Provide

\* The intent row is in the journal before the command that claims the effect.
LEMMA JournalStep == CustodyInv /\ [Next]_vars => JournalInv'
  <1> SUFFICES ASSUME CustodyInv, [Next]_vars PROVE JournalInv'
    OBVIOUS
  <1>a. FileInv /\ ProcInv /\ PointInv /\ CommandInv /\ JournalInv
    BY DEF CustodyInv
  <1>b. \A c \in cmds, at \in Steps : Step(c, at) => Advanced(c, at)
    BY <1>a, StepFacts
  <1>1. CASE StartRun
    <2>1. \A o, n : Journaled(o, n) => Journaled(o, n)'
      <3>1. journal' = journal
        BY <1>1 DEF StartRun, rootVars
      <3>2. QED
        BY <3>1 DEF Journaled
    <2>2. QED
      BY <1>a, <1>1, <2>1 DEF StartRun, provVars, JournalInv
  <1>2. CASE StartRecover
    <2>1. \A o, n : Journaled(o, n) => Journaled(o, n)'
      <3>1. journal' = journal
        BY <1>2 DEF StartRecover, rootVars
      <3>2. QED
        BY <3>1 DEF Journaled
    <2>2. QED
      BY <1>a, <1>2, <2>1 DEF StartRecover, provVars, JournalInv
  <1>3. CASE Consume
    <2>1. \A o, n : Journaled(o, n) => Journaled(o, n)'
      <3>1. journal' = journal
        BY <1>3 DEF Consume
      <3>2. QED
        BY <3>1 DEF Journaled
    <2>2. QED
      BY <1>a, <1>3, <2>1 DEF Consume, provVars, Goto, JournalInv
  <1>4. CASE ImportAnchor
    <2>1. \A o, n : Journaled(o, n) => Journaled(o, n)'
      <3>1. journal' = journal
        BY <1>4 DEF ImportAnchor
      <3>2. QED
        BY <3>1 DEF Journaled
    <2>2. QED
      BY <1>a, <1>4, <2>1 DEF ImportAnchor, provVars, Goto, JournalInv
  <1>5. CASE RecordFirstRow
    <2>1. \A o, n : Journaled(o, n) => Journaled(o, n)'
      <3>1. FirstRow \in Rows
        BY CustodyAssumption DEF Rows, FirstRow
      <3>2. QED
        BY <1>a, <1>5, <3>1, RowFacts, AppendFacts DEF RecordFirstRow
    <2>2. QED
      BY <1>a, <1>5, <2>1 DEF RecordFirstRow, RowVars, provVars, AppendRow, JournalInv
  <1>6. CASE OpenCycle
    <2>1. \A o, n : Journaled(o, n) => Journaled(o, n)'
      <3>1. <<"cycle", "opened", ord>> \in Rows
        BY <1>a DEF Rows, ProcInv, Cycles
      <3>2. QED
        BY <1>a, <1>6, <3>1, RowFacts, AppendFacts DEF OpenCycle, Journaled
    <2>2. QED
      BY <1>a, <1>6, <2>1 DEF OpenCycle, RowVars, provVars, AppendRow, JournalInv
  <1>7. CASE OpenActive
    <2>1. \A o, n : Journaled(o, n) => Journaled(o, n)'
      <3>1. journal' = journal
        BY <1>7 DEF OpenActive, KeepButActive
      <3>2. QED
        BY <3>1 DEF Journaled
    <2>2. QED
      BY <1>a, <1>7, <2>1 DEF OpenActive, KeepButActive, provVars, Do, JournalInv
  <1>8. CASE EnsureGrant
    <2>1. \A o, n : Journaled(o, n) => Journaled(o, n)'
      <3>1. journal' = journal
        BY <1>8 DEF EnsureGrant, rootVars
      <3>2. QED
        BY <3>1 DEF Journaled
    <2>2. QED
      BY <1>a, <1>8, <2>1 DEF EnsureGrant, Goto, JournalInv
  <1>9. CASE RecordIntent
    <2>1. \A o, n : Journaled(o, n) => Journaled(o, n)'
      <3>1. <<"effect", op, ord>> \in Rows
        BY <1>a DEF Rows, ProcInv, Cycles
      <3>2. QED
        BY <1>a, <1>9, <3>1, RowFacts, AppendFacts DEF RecordIntent
    <2>i. pc' = "deadline" => Journaled(op, ord)'
      <3>1. <<"effect", op, ord>> \in Rows
        BY <1>a DEF Rows, ProcInv, Cycles
      <3>2. QED
        BY <1>a, <1>9, <3>1, RowFacts DEF RecordIntent
    <2>j. pc' \in {"deadline", "recClock"}
      BY <1>9 DEF RecordIntent, AppendRow
    <2>2. QED
      BY <1>a, <1>9, <2>1, <2>i, <2>j DEF RecordIntent, RowVars, provVars, JournalInv
  <1>10. CASE EffectDeadline
    <2>1. \A o, n : Journaled(o, n) => Journaled(o, n)'
      <3>1. journal' = journal
        BY <1>10 DEF EffectDeadline, KeepButActive
      <3>2. QED
        BY <3>1 DEF Journaled
    <2>2. QED
      BY <1>a, <1>10, <2>1 DEF EffectDeadline, KeepButActive, provVars, Raise, Goto,
         JournalInv
  <1>11. CASE MakeScope
    <2>1. \A o, n : Journaled(o, n) => Journaled(o, n)'
      <3>1. journal' = journal
        BY <1>11 DEF MakeScope, KeepRun, rootVars
      <3>2. QED
        BY <3>1 DEF Journaled
    <2>2. QED
      BY <1>a, <1>11, <2>1 DEF MakeScope, KeepRun, provVars, Raise, Goto, JournalInv
  <1>12. CASE MarkScope
    <2>1. \A o, n : Journaled(o, n) => Journaled(o, n)'
      <3>1. journal' = journal
        BY <1>12 DEF MarkScope, KeepRun, rootVars
      <3>2. QED
        BY <3>1 DEF Journaled
    <2>2. QED
      BY <1>a, <1>12, <2>1 DEF MarkScope, KeepRun, provVars, Goto, JournalInv
  <1>13. CASE Spawn
    <2>1. \A o, n : Journaled(o, n) => Journaled(o, n)'
      <3>1. journal' = journal
        BY <1>13 DEF Spawn, KeepRun, rootVars
      <3>2. QED
        BY <3>1 DEF Journaled
    <2>2. QED
      BY <1>a, <1>13, <2>1 DEF Spawn, KeepRun, provVars, Goto, JournalInv
  <1>14. CASE Collect
    <2>1. \A o, n : Journaled(o, n) => Journaled(o, n)'
      <3>1. journal' = journal
        BY <1>14 DEF Collect, KeepRun, rootVars
      <3>2. QED
        BY <3>1 DEF Journaled
    <2>2. QED
      BY <1>a, <1>14, <2>1 DEF Collect, KeepRun, provVars, JournalInv
  <1>15. CASE RemoveScope
    <2>1. \A o, n : Journaled(o, n) => Journaled(o, n)'
      <3>1. journal' = journal
        BY <1>15 DEF RemoveScope, KeepRun, rootVars
      <3>2. QED
        BY <3>1 DEF Journaled
    <2>2. QED
      BY <1>a, <1>15, <2>1 DEF RemoveScope, KeepRun, provVars, Goto, JournalInv
  <1>16. CASE UnmarkScope
    <2>1. \A o, n : Journaled(o, n) => Journaled(o, n)'
      <3>1. journal' = journal
        BY <1>16 DEF UnmarkScope, KeepRun, rootVars
      <3>2. QED
        BY <3>1 DEF Journaled
    <2>2. QED
      BY <1>a, <1>16, <2>1 DEF UnmarkScope, KeepRun, provVars, Goto, Do, Raise, Raised,
         JournalInv
  <1>17. CASE EffectActive
    <2>1. \A o, n : Journaled(o, n) => Journaled(o, n)'
      <3>1. journal' = journal
        BY <1>17 DEF EffectActive, KeepButActive
      <3>2. QED
        BY <3>1 DEF Journaled
    <2>2. QED
      BY <1>a, <1>17, <2>1 DEF EffectActive, KeepButActive, provVars, Goto, JournalInv
  <1>18. CASE RecordSettled
    <2>1. \A o, n : Journaled(o, n) => Journaled(o, n)'
      <3>1. <<"settled", op, ord>> \in Rows
        BY <1>a DEF Rows, ProcInv, Cycles
      <3>2. QED
        BY <1>a, <1>18, <3>1, RowFacts, AppendFacts DEF RecordSettled
    <2>2. QED
      BY <1>a, <1>18, <2>1 DEF RecordSettled, RowVars, provVars, AppendRow, JournalInv
  <1>19. CASE RecordReceipt
    <2>1. \A o, n : Journaled(o, n) => Journaled(o, n)'
      <3>1. <<"receipt", op, ord>> \in Rows
        BY <1>a DEF Rows, ProcInv, Cycles
      <3>2. QED
        BY <1>a, <1>19, <3>1, RowFacts, AppendFacts DEF RecordReceipt
    <2>2. QED
      BY <1>a, <1>19, <2>1 DEF RecordReceipt, RowVars, provVars, NextOp, NextPc, AppendRow,
         JournalInv, Effects, PointInv, Effecting
  <1>20. CASE SealCycle
    <2>1. \A o, n : Journaled(o, n) => Journaled(o, n)'
      <3>1. <<"cycle", "sealed", ord>> \in Rows
        BY <1>a DEF Rows, ProcInv, Cycles
      <3>2. QED
        BY <1>a, <1>20, <3>1, RowFacts, AppendFacts DEF SealCycle, Journaled
    <2>2. QED
      BY <1>a, <1>20, <2>1 DEF SealCycle, RowVars, provVars, AppendRow, JournalInv
  <1>21. CASE SealActive
    <2>1. \A o, n : Journaled(o, n) => Journaled(o, n)'
      <3>1. journal' = journal
        BY <1>21 DEF SealActive, KeepButActive
      <3>2. QED
        BY <3>1 DEF Journaled
    <2>2. QED
      BY <1>a, <1>21, <2>1 DEF SealActive, KeepButActive, provVars, Do, Goto, JournalInv,
         Effects
  <1>22. CASE StartCleanup
    <2>1. \A o, n : Journaled(o, n) => Journaled(o, n)'
      <3>1. journal' = journal
        BY <1>22 DEF StartCleanup, rootVars
      <3>2. QED
        BY <3>1 DEF Journaled
    <2>2. QED
      BY <1>a, <1>22, <2>1 DEF StartCleanup, provVars, Do, JournalInv, Effects
  <1>23. CASE RecordUncertain
    <2>1. \A o, n : Journaled(o, n) => Journaled(o, n)'
      <3>1. <<"cleanup", "uncertain", ord>> \in Rows
        BY <1>a DEF Rows, ProcInv, Cycles
      <3>2. QED
        BY <1>a, <1>23, <3>1, RowFacts, AppendFacts DEF RecordUncertain
    <2>2. QED
      BY <1>a, <1>23, <2>1 DEF RecordUncertain, RowVars, provVars, AppendRow, JournalInv
  <1>24. CASE SettleComplete
    <2>1. \A o, n : Journaled(o, n) => Journaled(o, n)'
      <3>1. journal' = journal
        BY <1>24 DEF SettleComplete
      <3>2. QED
        BY <3>1 DEF Journaled
    <2>2. QED
      BY <1>a, <1>24, <2>1 DEF SettleComplete, provVars, Goto, JournalInv
  <1>25. CASE SettleJournal
    <2>1. \A o, n : Journaled(o, n) => Journaled(o, n)'
      <3>1. SettledRow \in Rows
        BY <1>a, CustodyAssumption DEF Rows, FileInv, Cycles, NoActive, Active, SettledRow
      <3>2. QED
        BY <1>a, <1>25, <3>1, RowFacts, AppendFacts DEF SettleJournal, Journaled
    <2>2. QED
      BY <1>a, <1>25, <2>1 DEF SettleJournal, RowVars, provVars, AppendRow, JournalInv
  <1>26. CASE SettleActive
    <2>1. \A o, n : Journaled(o, n) => Journaled(o, n)'
      <3>1. journal' = journal
        BY <1>26 DEF SettleActive, KeepButActive
      <3>2. QED
        BY <3>1 DEF Journaled
    <2>2. QED
      BY <1>a, <1>26, <2>1 DEF SettleActive, KeepButActive, provVars, Goto, JournalInv
  <1>27. CASE Handler
    <2>1. \A o, n : Journaled(o, n) => Journaled(o, n)'
      <3>1. journal' = journal
        BY <1>27 DEF Handler, KeepButComplete
      <3>2. QED
        BY <3>1 DEF Journaled
    <2>2. QED
      BY <1>a, <1>27, <2>1 DEF Handler, KeepButComplete, provVars, Leave, Goto, JournalInv
  <1>28. CASE Retire
    <2>1. \A o, n : Journaled(o, n) => Journaled(o, n)'
      <3>1. journal' = journal
        BY <1>28 DEF Retire, KeepButCreds
      <3>2. QED
        BY <3>1 DEF Journaled
    <2>2. QED
      BY <1>a, <1>28, <2>1 DEF Retire, KeepButCreds, provVars, Leave, JournalInv
  <1>29. CASE SegmentComplete
    <2>1. \A o, n : Journaled(o, n) => Journaled(o, n)'
      <3>1. journal' = journal
        BY <1>29 DEF SegmentComplete
      <3>2. QED
        BY <3>1 DEF Journaled
    <2>2. QED
      BY <1>a, <1>29, <2>1 DEF SegmentComplete, provVars, Goto, JournalInv
  <1>30. CASE Terminal
    <2>1. \A o, n : Journaled(o, n) => Journaled(o, n)'
      <3>1. TerminalRow \in Rows
        BY CustodyAssumption DEF Rows, TerminalRow
      <3>2. QED
        BY <1>a, <1>30, <3>1, RowFacts, AppendFacts DEF Terminal, Journaled
    <2>2. QED
      BY <1>a, <1>30, <2>1 DEF Terminal, RowVars, provVars, AppendRow, JournalInv
  <1>31. CASE Certify
    <2>1. \A o, n : Journaled(o, n) => Journaled(o, n)'
      <3>1. journal' = journal
        BY <1>31 DEF Certify, KeepButComplete
      <3>2. QED
        BY <3>1 DEF Journaled
    <2>2. QED
      BY <1>a, <1>31, <2>1 DEF Certify, KeepButComplete, provVars, Goto, JournalInv
  <1>32. CASE HandOff
    <2>1. \A o, n : Journaled(o, n) => Journaled(o, n)'
      <3>1. journal' = journal
        BY <1>32 DEF HandOff, KeepButCreds
      <3>2. QED
        BY <3>1 DEF Journaled
    <2>2. QED
      BY <1>a, <1>32, <2>1 DEF HandOff, KeepButCreds, provVars, Goto, JournalInv
  <1>33. CASE Publish
    <2>1. \A o, n : Journaled(o, n) => Journaled(o, n)'
      <3>1. journal' = journal
        BY <1>33 DEF Publish
      <3>2. QED
        BY <3>1 DEF Journaled
    <2>2. QED
      BY <1>a, <1>33, <2>1 DEF Publish, provVars, Goto, Leave, JournalInv
  <1>34. CASE Drain
    <2>1. \A o, n : Journaled(o, n) => Journaled(o, n)'
      <3>1. journal' = journal
        BY <1>34 DEF Drain, KeepRun, rootVars
      <3>2. QED
        BY <3>1 DEF Journaled
    <2>2. QED
      BY <1>a, <1>34, <2>1 DEF Drain, KeepRun, provVars, Goto, JournalInv
  <1>35. CASE RecoverUnconsumed
    <2>1. \A o, n : Journaled(o, n) => Journaled(o, n)'
      <3>1. journal' = journal
        BY <1>35 DEF RecoverUnconsumed, KeepButComplete
      <3>2. QED
        BY <3>1 DEF Journaled
    <2>2. QED
      BY <1>a, <1>35, <2>1 DEF RecoverUnconsumed, KeepButComplete, provVars, Goto,
         JournalInv
  <1>36. CASE RecoverAdmission
    <2>1. \A o, n : Journaled(o, n) => Journaled(o, n)'
      BY <1>36, Len(<<>>) = 0 DEF RecoverAdmission, Journaled
    <2>2. QED
      BY <1>a, <1>36, <2>1 DEF RecoverAdmission, provVars, Goto, JournalInv
  <1>37. CASE RecoverInactive
    <2>1. \A o, n : Journaled(o, n) => Journaled(o, n)'
      <3>1. journal' = journal
        BY <1>37 DEF RecoverInactive, KeepButComplete
      <3>2. QED
        BY <3>1 DEF Journaled
    <2>2. QED
      BY <1>a, <1>37, <2>1 DEF RecoverInactive, KeepButComplete, provVars, Goto, JournalInv
  <1>38. CASE RecoverActive
    <2>1. \A o, n : Journaled(o, n) => Journaled(o, n)'
      <3>1. journal' = journal
        BY <1>38 DEF RecoverActive, rootVars
      <3>2. QED
        BY <3>1 DEF Journaled
    <2>2. QED
      BY <1>a, <1>38, <2>1 DEF RecoverActive, provVars, Goto, JournalInv, Effects,
         PointInv, Recovering
  <1>39. CASE Abandon
    <2>1. \A o, n : Journaled(o, n) => Journaled(o, n)'
      <3>1. journal' = journal
        BY <1>39 DEF Abandon, rootVars
      <3>2. QED
        BY <3>1 DEF Journaled
    <2>2. QED
      BY <1>a, <1>39, <2>1 DEF Abandon, provVars, Leave, JournalInv
  <1>40. ASSUME NEW c \in cmds, EffectPrepare(c) PROVE JournalInv'
    <2>1. \A o, n : Journaled(o, n) => Journaled(o, n)'
      <3>1. journal' = journal
        BY <1>40 DEF EffectPrepare, Created, KeepCmd, rootVars
      <3>2. QED
        BY <3>1 DEF Journaled
    <2>2. QED
      BY <1>a, <1>40, <2>1, <1>b DEF EffectPrepare, Created, KeepCmd, procVars, JournalInv, Steps,
         Advanced
  <1>41. ASSUME NEW c \in cmds, EffectClaim(c) PROVE JournalInv'
    <2>1. \A o, n : Journaled(o, n) => Journaled(o, n)'
      <3>1. journal' = journal
        BY <1>41 DEF EffectClaim, KeepCmd, rootVars
      <3>2. QED
        BY <3>1 DEF Journaled
    <2>2. QED
      BY <1>a, <1>41, <2>1, <1>b DEF EffectClaim, KeepCmd, procVars, JournalInv, Steps,
         Advanced
  <1>42. ASSUME NEW c \in cmds, EffectAct(c) PROVE JournalInv'
    <2>1. \A o, n : Journaled(o, n) => Journaled(o, n)'
      <3>1. journal' = journal
        BY <1>42 DEF EffectAct, KeepCmd, rootVars
      <3>2. QED
        BY <3>1 DEF Journaled
    <2>2. QED
      BY <1>a, <1>42, <2>1, <1>b DEF EffectAct, provVars, KeepCmd, procVars, JournalInv,
         Steps, Advanced
  <1>43. ASSUME NEW c \in cmds, EffectTrack(c) PROVE JournalInv'
    <2>1. \A o, n : Journaled(o, n) => Journaled(o, n)'
      <3>1. journal' = journal
        BY <1>43 DEF EffectTrack, KeepCmd, rootVars
      <3>2. QED
        BY <3>1 DEF Journaled
    <2>2. QED
      BY <1>a, <1>43, <2>1, <1>b DEF EffectTrack, provVars, KeepCmd, procVars, JournalInv,
         Steps, Advanced
  <1>44. ASSUME NEW c \in cmds, EffectReceipt(c) PROVE JournalInv'
    <2>1. \A o, n : Journaled(o, n) => Journaled(o, n)'
      <3>1. journal' = journal
        BY <1>44 DEF EffectReceipt, KeepCmd, rootVars
      <3>2. QED
        BY <3>1 DEF Journaled
    <2>2. QED
      BY <1>a, <1>44, <2>1, <1>b DEF EffectReceipt, KeepCmd, procVars, JournalInv, Steps,
         Advanced
  <1>45. ASSUME NEW c \in cmds, Remote(c) PROVE JournalInv'
    <2>1. \A o, n : Journaled(o, n) => Journaled(o, n)'
      <3>1. journal' = journal
        BY <1>45 DEF Remote, KeepCmd, rootVars
      <3>2. QED
        BY <3>1 DEF Journaled
    <2>2. QED
      BY <1>a, <1>45, <2>1, <1>b DEF Remote, KeepCmd, procVars, JournalInv, Effects, Steps,
         Advanced
  <1>46. ASSUME NEW c \in cmds, Inventory(c) PROVE JournalInv'
    <2>1. \A o, n : Journaled(o, n) => Journaled(o, n)'
      <3>1. journal' = journal
        BY <1>46 DEF Inventory, KeepCmd, rootVars
      <3>2. QED
        BY <3>1 DEF Journaled
    <2>2. QED
      BY <1>a, <1>46, <2>1, <1>b DEF Inventory, KeepCmd, procVars, JournalInv, Steps,
         Advanced
  <1>47. ASSUME NEW c \in cmds, RecoverIntent(c) PROVE JournalInv'
    <2>1. \A o, n : Journaled(o, n) => Journaled(o, n)'
      <3>1. journal' = journal
        BY <1>47 DEF RecoverIntent, Created, KeepCmd, rootVars
      <3>2. QED
        BY <3>1 DEF Journaled
    <2>2. QED
      BY <1>a, <1>47, <2>1, <1>b DEF RecoverIntent, Created, KeepCmd, procVars, JournalInv, Steps,
         Advanced
  <1>48. ASSUME NEW c \in cmds, RecoverDestroy(c) PROVE JournalInv'
    <2>1. \A o, n : Journaled(o, n) => Journaled(o, n)'
      <3>1. journal' = journal
        BY <1>48 DEF RecoverDestroy, KeepCmd, rootVars
      <3>2. QED
        BY <3>1 DEF Journaled
    <2>2. QED
      BY <1>a, <1>48, <2>1, <1>b DEF RecoverDestroy, provVars, KeepCmd, procVars,
         JournalInv, Steps, Advanced
  <1>49. ASSUME NEW c \in cmds, RecoverSettle(c) PROVE JournalInv'
    <2>1. \A o, n : Journaled(o, n) => Journaled(o, n)'
      <3>1. journal' = journal
        BY <1>49 DEF RecoverSettle, KeepCmd, rootVars
      <3>2. QED
        BY <3>1 DEF Journaled
    <2>2. QED
      BY <1>a, <1>49, <2>1, <1>b DEF RecoverSettle, KeepCmd, procVars, JournalInv, Steps,
         Advanced
  <1>50. ASSUME NEW c \in cmds, RecoverInventory(c) PROVE JournalInv'
    <2>1. \A o, n : Journaled(o, n) => Journaled(o, n)'
      <3>1. journal' = journal
        BY <1>50 DEF RecoverInventory, KeepCmd, rootVars
      <3>2. QED
        BY <3>1 DEF Journaled
    <2>2. QED
      BY <1>a, <1>50, <2>1, <1>b DEF RecoverInventory, KeepCmd, procVars, JournalInv,
         Steps, Advanced
  <1>50a. ASSUME NEW c \in cmds, LocalBackend(c) PROVE JournalInv'
    <2>1. \A o, n : Journaled(o, n) => Journaled(o, n)'
      <3>1. journal' = journal
        BY <1>50a DEF LocalBackend, KeepCmd, rootVars
      <3>2. QED
        BY <3>1 DEF Journaled
    <2>2. QED
      BY <1>a, <1>50a, <2>1, <1>b DEF LocalBackend, KeepCmd, procVars, JournalInv, Steps,
         Advanced
  <1>50b. ASSUME NEW c \in cmds, RecoverInvoke(c) PROVE JournalInv'
    <2>1. \A o, n : Journaled(o, n) => Journaled(o, n)'
      <3>1. journal' = journal
        BY <1>50b DEF RecoverInvoke, Created, KeepCmd, rootVars
      <3>2. QED
        BY <3>1 DEF Journaled
    <2>2. QED
      BY <1>a, <1>50b, <2>1, <1>b DEF RecoverInvoke, Created, KeepCmd, procVars, JournalInv, Steps,
         Advanced
  <1>50c. ASSUME NEW c \in cmds, WriteOnce(c) PROVE JournalInv'
    <2>1. \A o, n : Journaled(o, n) => Journaled(o, n)'
      <3>1. journal' = journal
        BY <1>50c DEF WriteOnce, KeepCmd, rootVars
      <3>2. QED
        BY <3>1 DEF Journaled
    <2>2. Advanced(c, Filled[c.at]) /\ UNCHANGED <<claims, procVars>>
      BY <1>b, <1>50c, FilledFacts DEF WriteOnce, KeepCmd
    <2>3. QED
      BY <1>a, <2>1, <2>2 DEF procVars, JournalInv, Advanced
  <1>51. CASE CommandFails
    <2>1. \A o, n : Journaled(o, n) => Journaled(o, n)'
      <3>1. journal' = journal
        BY <1>51 DEF CommandFails, KeepCmd, rootVars
      <3>2. QED
        BY <3>1 DEF Journaled
    <2>2. QED
      BY <1>a, <1>51, <2>1, <1>b DEF CommandFails, provVars, KeepCmd, procVars, JournalInv,
         Steps, Advanced
  <1>52. CASE Crash
    <2>1. \A o, n : Journaled(o, n) => Journaled(o, n)'
      <3>1. journal' = journal
        BY <1>52 DEF Crash
      <3>2. QED
        BY <3>1 DEF Journaled
    <2>2. QED
      BY <1>a, <1>52, <2>1, CrashFacts DEF Crash, Leave, Orphaned, JournalInv, provVars
  <1>53. CASE Tick
    <2>1. \A o, n : Journaled(o, n) => Journaled(o, n)'
      <3>1. journal' = journal
        BY <1>53 DEF Tick, rootVars
      <3>2. QED
        BY <3>1 DEF Journaled
    <2>2. QED
      BY <1>a, <1>53, <2>1 DEF Tick, procVars, provVars, JournalInv
  <1>54. CASE UNCHANGED vars
    <2>1. \A o, n : Journaled(o, n) => Journaled(o, n)'
      BY <1>54 DEF vars, rootVars, Journaled
    <2>2. QED
      BY <1>a, <1>54, <2>1 DEF vars, provVars, procVars, JournalInv
  <1>55. QED
    BY <1>1, <1>2, <1>3, <1>4, <1>5, <1>6, <1>7, <1>8, <1>9, <1>10, <1>11, <1>12, <1>13,
       <1>14, <1>15, <1>16, <1>17, <1>18, <1>19, <1>20, <1>21, <1>22, <1>23, <1>24, <1>25,
       <1>26, <1>27, <1>28, <1>29, <1>30, <1>31, <1>32, <1>33, <1>34, <1>35, <1>36, <1>37,
       <1>38, <1>39, <1>40, <1>41, <1>42, <1>43, <1>44, <1>45, <1>46, <1>47, <1>48, <1>49,
       <1>50, <1>50a, <1>50b, <1>50c, <1>51, <1>52, <1>53, <1>54 DEF Next, Proceed, Provide

-----------------------------------------------------------------------------
(* The theorems. *)

LEMMA InitInv == Init => CustodyInv
  <1> SUFFICES ASSUME Init PROVE CustodyInv
    OBVIOUS
  <1>1. FlagInv
    BY DEF Init, FlagInv
  <1>2. FileInv
    <2>1. NoIntent \in [state : States \cup {"none"}, destroy : BOOLEAN]
      BY DEF NoIntent, Reconciled
    <2>2. <<>> \in Seq(Rows) /\ 0 \in 0..MaxAttempts
      BY CustodyAssumption
    <2>3. QED
      BY <2>1, <2>2 DEF Init, FileInv
  <1>3. ProcInv
    BY CustodyAssumption DEF Init, ProcInv, Cycles, States, Operations
  <1>4. PointInv /\ CommandInv /\ ActiveInv /\ ServedInv /\ ZeroInv /\ JournalInv
    BY DEF Init, PointInv, CommandInv, ActiveInv, ServedInv, ZeroInv, JournalInv, Recovering,
       Effecting, Running, Settling, Collecting, Before, Ending, Driving, Resting, Attempt
  <1>5. Untried /\ RecordInv
    BY DEF Init, Untried, RecordInv, Half
  <1>6. ConsumeInv
    BY <1>5 DEF Init, ConsumeInv, Attempt, NotComplete, Inactive, Complete
  <1>7. LiveInv
    BY <1>5 DEF Init, LiveInv
  <1>8. QED
    BY <1>1, <1>2, <1>3, <1>4, <1>5, <1>6, <1>7 DEF CustodyInv

\* The custody of a root for any number of cycles, commands, failures and
\* crashes: what each file, command and control point may be relied on for.
THEOREM CustodyInvariant == Spec => []CustodyInv
  <1>1. CustodyInv /\ [Next]_vars => CustodyInv'
    BY FlagStep, FileStep, ProcStep, PointStep, CommandStep, ConsumeStep, RecordStep, ActiveStep,
       ServedStep, LiveStep, ZeroStep, JournalStep DEF CustodyInv
  <1>2. QED
    BY InitInv, <1>1, PTL DEF Spec

\* The variables keep their types.
THEOREM CustodyTypes == Spec => []CustodyTypeOK
  <1>1. CustodyInv => CustodyTypeOK
    BY DEF CustodyInv, FlagInv, FileInv, ProcInv, RecordInv, CustodyTypeOK
  <1>2. QED
    BY CustodyInvariant, <1>1, PTL

\* Whatever is live can be recovered: it is the cycle that cleanup-active.json
\* names, the credentials are there, and of the provider's files only one that a killed
\* recover was filling can make the next recover refuse it.
THEOREM LiveStaysRecoverable == Spec => []LiveIsRecoverable
  <1>1. CustodyInv => LiveIsRecoverable
    <2> SUFFICES ASSUME FileInv, ProcInv, RecordInv, LiveInv, live # {} PROVE LiveIsRecoverable
      BY DEF CustodyInv, LiveIsRecoverable
    <2>1. active.ord \in Cycles /\ live = {active.ord}
      BY DEF LiveInv, ProcInv
    <2>2. active # NoActive
      BY <2>1, CustodyAssumption DEF NoActive, Active, Cycles
    <2>3. QED
      BY <2>1, <2>2 DEF RecordInv, LiveInv, LiveIsRecoverable
  <1>2. QED
    BY CustodyInvariant, <1>1, PTL

\* What is certified as zero is zero, and stays so.
THEOREM ZeroIsCertain == Spec => []CertainZero
  <1>1. CustodyInv => CertainZero
    BY DEF CustodyInv, LiveInv, ServedInv, Certified, Open, CertainZero
  <1>2. QED
    BY CustodyInvariant, <1>1, PTL

\* No claim of an effect is without its row in the journal.
THEOREM ClaimsHaveRows == Spec => []ClaimsAreJournaled
  <1>1. CustodyInv => ClaimsAreJournaled
    BY DEF CustodyInv, JournalInv, Journaled, ClaimsAreJournaled
  <1>2. QED
    BY CustodyInvariant, <1>1, PTL

=============================================================================

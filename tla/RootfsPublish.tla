---------------------------- MODULE RootfsPublish ----------------------------
(***************************************************************************)
(* The publication of a built rootfs (completion_rootfs_publish.py): the   *)
(* files are linked one by one into a candidate directory that is renamed  *)
(* to "accepted" at the end, under a transaction kept as a snapshot file   *)
(* that is replaced by exchanging it with the next one.  A later process   *)
(* takes the transaction up wherever it finds it.                          *)
(***************************************************************************)
EXTENDS RootfsBuilder

CONSTANT PubFiles   \* how many files a publication has

ASSUME PubAssumption == PubFiles \in Nat \ {0}

VARIABLES
    txn,    \* the snapshot files [main, next]: sequences of records, <<>> when absent
    cand,   \* the candidate directory: [at, n, v], at \in {"none", "candidate", "accepted"}
    anon    \* what the running process holds: a prepared, still nameless file, the
            \* directory it has made and not recorded, or 0

OwnDirectory == -1
pubVars == <<txn, cand, anon>>

NoTxn == [main |-> <<>>, next |-> <<>>, torn |-> FALSE]
Rec(phase, n, id) == [phase |-> phase, n |-> n, id |-> id]

\* Last record, and the directory generation the transaction vouches for.
Tip == Last(txn.main)
Vouched == LET k == Max({j \in DOMAIN txn.main : txn.main[j].phase \in {"candidate", "candidate-generation"}})
           IN txn.main[k].id

Publishing == proc.job = "publish" /\ ~txn.torn
Whole == txn.next = <<>>   \* no half-replaced snapshot: the transaction is open

-----------------------------------------------------------------------------
(* The snapshot files. *)

\* The next snapshot is written and fsynced under its own name first.
Put(recs) == txn' = [txn EXCEPT !.next = recs]

\* The exchange (or the first rename) and the removal of the old snapshot.
ExchangeSnapshot ==
    /\ Publishing /\ Len(txn.next) > Len(txn.main)
    /\ txn' = IF txn.main = <<>> THEN [txn EXCEPT !.main = txn.next, !.next = <<>>]
              ELSE [txn EXCEPT !.main = txn.next, !.next = txn.main]
    /\ UNCHANGED <<builderVars, cand, anon>>

RemoveOldSnapshot ==
    /\ Publishing /\ txn.next # <<>> /\ Len(txn.next) < Len(txn.main)
    /\ txn' = [txn EXCEPT !.next = <<>>]
    /\ UNCHANGED <<builderVars, cand, anon>>

Ready == Publishing /\ Whole
Record(phase, n, id) == Put(Append(txn.main, Rec(phase, n, id)))

-----------------------------------------------------------------------------
(* The loop of _publish: one action per phase. *)

StartPublish ==
    /\ LockFree /\ route = "build" /\ built = 2 /\ Idle
    /\ proc' = [Nobody EXCEPT !.job = "publish"]
    /\ anon' = 0
    /\ UNCHANGED <<treeVars, boot, route, built, faults, txn, cand>>

PublishIntent ==
    /\ Ready /\ txn.main = <<>>
    /\ Record("intent", 0, 0)
    /\ UNCHANGED <<builderVars, cand, anon>>

CandidateIntent ==
    /\ Ready /\ txn.main # <<>> /\ Tip.phase = "intent" /\ cand.at = "none"
    /\ Record("candidate-intent", 0, 0)
    /\ UNCHANGED <<builderVars, cand, anon>>

MakeCandidate ==
    /\ Ready /\ txn.main # <<>> /\ Tip.phase = "candidate-intent" /\ cand.at = "none"
    /\ cand' = [at |-> "candidate", n |-> 0, v |-> 1]
    /\ anon' = OwnDirectory
    /\ UNCHANGED <<builderVars, txn>>

\* Only the process that made the directory records it; any other refuses it.
RecordCandidate ==
    /\ Ready /\ txn.main # <<>> /\ Tip.phase = "candidate-intent" /\ anon = OwnDirectory
    /\ Record("candidate", 0, cand.v)
    /\ anon' = 0
    /\ UNCHANGED <<builderVars, cand>>

AtCandidate(phases) ==
    /\ Ready /\ txn.main # <<>> /\ Tip.phase \in phases
    /\ cand.at = "candidate"

FileIntent ==
    /\ AtCandidate({"candidate", "candidate-generation"})
    /\ cand.v = Vouched /\ cand.n = Tip.n /\ Tip.n < PubFiles
    /\ Record("file-intent", Tip.n, cand.v)
    /\ UNCHANGED <<builderVars, cand, anon>>

\* A nameless file is prepared; a process that finds another's prepares its own.
PrepareFile ==
    /\ AtCandidate({"file-intent", "file-ready"})
    /\ cand.v = Vouched /\ cand.n = Tip.n
    /\ Tip.phase = "file-ready" => anon # Tip.id
    /\ anon' = Len(txn.main) + 1
    /\ Record("file-ready", Tip.n, anon')
    /\ UNCHANGED <<builderVars, cand>>

LinkFile ==
    /\ AtCandidate({"file-ready"})
    /\ cand.v = Vouched /\ cand.n = Tip.n /\ anon = Tip.id
    /\ cand' = [cand EXCEPT !.n = @ + 1, !.v = @ + 1]
    /\ UNCHANGED <<builderVars, txn, anon>>

\* Faulty variant: a linked file is counted from the disk.
RecordFileUnlinked ==
    /\ AtCandidate({"file-ready"})
    /\ Put(txn.main \o <<Rec("file", Tip.n + 1, Tip.id), Rec("candidate-generation", Tip.n + 1, cand.v)>>)
    /\ anon' = 0
    /\ UNCHANGED <<builderVars, cand>>

RecordFile ==
    /\ AtCandidate({"file-ready"})
    /\ cand.n = Tip.n + 1 /\ cand.v = Vouched + 1
    /\ Put(txn.main \o <<Rec("file", cand.n, Tip.id), Rec("candidate-generation", cand.n, cand.v)>>)
    /\ anon' = 0
    /\ UNCHANGED <<builderVars, cand>>

Prepare ==
    /\ AtCandidate({"candidate-generation"})
    /\ cand.v = Vouched /\ cand.n = PubFiles /\ Tip.n = PubFiles
    /\ Record("prepared", PubFiles, cand.v)
    /\ UNCHANGED <<builderVars, cand, anon>>

RenameIntent ==
    /\ AtCandidate({"prepared"})
    /\ cand.v = Vouched /\ cand.n = PubFiles
    /\ Record("rename", PubFiles, cand.v)
    /\ UNCHANGED <<builderVars, cand, anon>>

Rename ==
    /\ AtCandidate({"rename"})
    /\ cand.v = Vouched /\ cand.n = PubFiles
    /\ cand' = [cand EXCEPT !.at = "accepted"]
    /\ UNCHANGED <<builderVars, txn, anon>>

Accept ==
    /\ Ready /\ txn.main # <<>> /\ Tip.phase = "rename" /\ cand.at = "accepted"
    /\ cand.v = Vouched /\ cand.n = PubFiles
    /\ Record("accepted", PubFiles, cand.v)
    /\ UNCHANGED <<builderVars, cand, anon>>

Published ==
    /\ Ready /\ txn.main # <<>> /\ Tip.phase = "accepted" /\ cand.at = "accepted"
    /\ proc' = Nobody
    /\ built' = 3
    /\ UNCHANGED <<treeVars, boot, route, faults, pubVars>>

\* A failure between the making of the directory and its record removes it
\* again; every other failure leaves what is there.
PublishFails ==
    /\ Fails("publish")
    /\ proc' = Nobody
    /\ built' = 0
    /\ cand' = IF anon = OwnDirectory
               THEN [at |-> "none", n |-> 0, v |-> 0] ELSE cand
    /\ UNCHANGED <<treeVars, boot, route, txn, anon>>

\* The next snapshot is cut short: it parses as nothing and is refused.
TearSnapshot ==
    /\ Publishing /\ TornAppends /\ Whole
    /\ faults < MaxFaults /\ faults' = faults + 1
    /\ txn' = [txn EXCEPT !.torn = TRUE]
    /\ proc' = Nobody
    /\ built' = 0
    /\ UNCHANGED <<treeVars, boot, route, cand, anon>>

PublishInit == txn = NoTxn /\ cand = [at |-> "none", n |-> 0, v |-> 0] /\ anon = 0

PublishNext ==
    \/ StartPublish \/ ExchangeSnapshot \/ RemoveOldSnapshot
    \/ PublishIntent \/ CandidateIntent \/ MakeCandidate \/ RecordCandidate
    \/ FileIntent \/ PrepareFile \/ LinkFile \/ RecordFile
    \/ Prepare \/ RenameIntent \/ Rename \/ Accept \/ Published
    \/ PublishFails \/ TearSnapshot
=============================================================================

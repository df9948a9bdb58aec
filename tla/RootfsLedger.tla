---------------------------- MODULE RootfsLedger ----------------------------
(***************************************************************************)
(* The owned rootfs tree and the write-ahead ledger that describes it      *)
(* (completion_rootfs_ledger.py, the parts of completion_rootfs_fs.py it   *)
(* stands on).  Every name of the tree is announced by an intent record,   *)
(* made, observed and settled; a reader folds the records into the tree    *)
(* they promise and compares it, generation by generation, with the disk.  *)
(*                                                                         *)
(* A generation (inode, mode, sizes and times of an object) is a counter   *)
(* that every change of the object advances: a directory's by a change of  *)
(* its names, a file's by a metadata change or a new or a removed link.    *)
(* 0 is an absent object.                                                  *)
(***************************************************************************)
EXTENDS Integers, Sequences, SequencesExt

CONSTANTS
    Dirs, Files, Aliases, Symlinks,  \* the planned entries under rootfs, sequences in plan order
    ParentOf,                        \* the directory each of them is in
    LinkTarget,                      \* the file whose hardlinks the aliases are
    MaxFaults                        \* bound: failures and crashes of one behaviour

Planned == ToSet(Dirs) \cup ToSet(Files) \cup ToSet(Aliases) \cup ToSet(Symlinks)
Fixed   == {"sentinel", "rootfs", "manifest", "tar"}
Paths   == Planned \cup Fixed
Nodes   == Paths \cup {"op", "state"}

ASSUME PlanAssumption ==
    /\ Planned \cap (Fixed \cup {"op", "state"}) = {}
    /\ \A s \in {Dirs, Files, Aliases, Symlinks} : s \in Seq(ToSet(s)) /\ IsInjective(s)
    /\ ToSet(Aliases) \cap (ToSet(Dirs) \cup ToSet(Files) \cup ToSet(Symlinks)) = {}
    /\ ToSet(Files) \cap (ToSet(Dirs) \cup ToSet(Symlinks)) = {}
    /\ ParentOf \in [Planned -> ToSet(Dirs) \cup {"rootfs"}]
    /\ \A p \in Planned : ParentOf[p] # p
    /\ Aliases # <<>> => LinkTarget \in ToSet(Files)
    /\ MaxFaults \in Nat

VARIABLES
    disk,   \* the tree as every process sees it: generations
    safe,   \* the tree as the last fsync left it
    led     \* the fold of the ledger's records

Parent(p) == CASE p \in Planned -> ParentOf[p]
               [] p \in Fixed   -> "op"
               [] p = "op"      -> "state"

Depth == [p \in Paths |->
    IF p \in Fixed THEN 0
    ELSE IF ParentOf[p] = "rootfs" THEN 1 ELSE 2]

\* The names of one inode: the link target and its aliases.
Group(p) == IF Aliases # <<>> /\ p \in ToSet(Aliases) \cup {LinkTarget}
            THEN ToSet(Aliases) \cup {LinkTarget} ELSE {p}

Isdir(p) == p \in ToSet(Dirs) \cup {"rootfs", "op"}
Empty(d, p) == \A q \in Paths \cup {"op"} : Parent(q) = p => d[q] = 0

-----------------------------------------------------------------------------
(* The effects of system calls on the tree. *)

Made(d, p) == [d EXCEPT ![p] = 1, ![Parent(p)] = @ + 1]
Touched(d, p) == [d EXCEPT ![p] = @ + 1]
Linked(d, p) ==
    LET v == d[LinkTarget] + 1 IN
    [n \in Nodes |-> CASE n = p \/ (n \in Group(p) /\ d[n] # 0) -> v
                       [] n = Parent(p) -> d[n] + 1
                       [] OTHER -> d[n]]
Unlinked(d, p) ==
    [n \in Nodes |-> CASE n = p -> 0
                       [] n = Parent(p) -> d[n] + 1
                       [] n \in Group(p) \ {p} /\ d[n] # 0 -> d[n] + 1
                       [] OTHER -> d[n]]

Applied(d, op, p) ==
    CASE op \in {"operation", "create", "candidate-tar"} -> Made(d, p)
      [] op = "metadata" -> Touched(d, p)
      [] op = "hardlink-create" -> Linked(d, p)
      [] op \in {"remove", "operation-remove"} -> Unlinked(d, p)

\* What the system call itself requires: a new name must be free (mkdir,
\* O_EXCL, link), what is linked or changed must be there.
Possible(d, op, p) ==
    /\ op \in {"operation", "create", "candidate-tar", "hardlink-create"} => d[p] = 0
    /\ op = "hardlink-create" => d[LinkTarget] # 0
    /\ op = "metadata" => d[p] # 0

-----------------------------------------------------------------------------
(* The fold of the records. *)

\* The pending record: what is done to which name, with the generation of its
\* parent (as announced, then as observed) and of the object (as observed).
Kinds == {"operation", "create", "metadata", "hardlink-create", "candidate-tar", "remove", "operation-remove"}
Records == [op : Kinds \cup {"none"}, path : Paths \cup {"op"}, pv : Nat, cv : Nat]
NoPend == [op |-> "none", path |-> "op", pv |-> 0, cv |-> 0]
Grown == {"active", "release-authorized", "prestage-release-authorized"}

Phases == {"absent", "empty", "genesis", "ready", "aborted", "intent", "observed", "active", "leased",
           "release-authorized", "prestage-release-authorized", "operation-absent", "retired"}

\* The states a fold may be in.
LegalState(l) ==
    /\ l.phase \in Phases /\ l.pend \in Records /\ l.own \in [Nodes -> Nat]
    /\ (l.phase \in {"intent", "observed"}) <=> (l.pend.op # "none")
    /\ l.pend.op = "none" => l.ret = "none"
    /\ l.phase \in Grown \cup {"leased"} => l.own["op"] # 0
    /\ l.phase \in {"genesis", "ready", "aborted", "operation-absent", "retired"} => l.own["op"] = 0
    /\ l.links \in 0..Len(Aliases)
    /\ l.auth # "none" => l.leased
    /\ "active" \in {l.phase, l.ret} => ~l.leased

\* No ledger file.
Absent == [phase |-> "absent", pend |-> NoPend, ret |-> "none", own |-> [n \in Nodes |-> 0],
           links |-> 0, grouped |-> FALSE, imported |-> FALSE, leased |-> FALSE,
           auth |-> "none", torn |-> FALSE]

\* The tree the settlement of an observed change promises.
Settled(own, r) ==
    [n \in Nodes |->
        CASE n = r.path -> IF r.op \in {"remove", "operation-remove"} THEN 0 ELSE r.cv
          [] r.op # "metadata" /\ n = Parent(r.path) -> r.pv
          [] r.op \in {"hardlink-create", "remove"} /\ n \in Group(r.path) \ {r.path} /\ own[n] # 0 -> r.cv
          [] OTHER -> own[n]]

\* The tree an abort of an announced creation promises, as the disk shows it.
Withdrawn(own, r, d) ==
    [n \in Nodes |->
        CASE n = Parent(r.path) -> d[n]
          [] r.op = "hardlink-create" /\ n \in Group(r.path) /\ own[n] # 0 -> d[n]
          [] OTHER -> own[n]]

\* A name enters or leaves a directory only as the fold last saw the directory.
ParentContinues(l, p, d) == l.own[Parent(p)] # 0 /\ d[Parent(p)] = l.own[Parent(p)]

\* May the fold take an intent of this kind now (the writer folds a record
\* before it writes it)?
Acceptable(l, op, p, d) ==
  /\ op # "metadata" => ParentContinues(l, p, d)
  /\ CASE op = "operation" -> l.phase = "ready"
      [] op = "operation-remove" -> l.phase \in Grown /\ \A q \in Paths : l.own[q] = 0
      [] op = "remove" ->
            /\ l.phase \in Grown
            /\ p \in ToSet(Aliases) => l.links > 0 /\ p = Aliases[l.links]
      [] op = "hardlink-create" ->
            l.phase = "active" /\ l.grouped /\ l.links < Len(Aliases) /\ p = Aliases[l.links + 1]
      [] op = "candidate-tar" -> l.phase = "active" /\ ~l.leased /\ l.own[p] = 0
      [] OTHER -> l.phase = "active" /\ ~l.leased

Intended(l, op, p, d) ==
    [l EXCEPT !.phase = "intent", !.ret = l.phase,
              !.pend = [op |-> op, path |-> p, pv |-> d[Parent(p)], cv |-> 0]]

\* The generation an observation records of the object: of the remaining
\* links when an alias is removed.
ObservedOf(op, p, d) ==
    IF op = "remove" THEN (IF p \in ToSet(Aliases) THEN d[LinkTarget] ELSE 0) ELSE d[p]

Observed(l, d) ==
    [l EXCEPT !.phase = "observed",
              !.pend.pv = d[Parent(l.pend.path)],
              !.pend.cv = ObservedOf(l.pend.op, l.pend.path, d)]

Settlement(l) ==
    [l EXCEPT !.own = Settled(l.own, l.pend), !.pend = NoPend,
              !.phase = IF l.pend.op = "operation" THEN "active" ELSE l.ret, !.ret = "none",
              !.links = CASE l.pend.op = "hardlink-create" -> @ + 1
                          [] l.pend.op = "remove" /\ l.pend.path \in ToSet(Aliases) -> @ - 1
                          [] OTHER -> @]

Aborted(l, d) ==
    [l EXCEPT !.phase = IF l.pend.op = "operation" THEN "aborted" ELSE l.ret,
              !.own = IF l.pend.op \in {"create", "hardlink-create"} THEN Withdrawn(@, l.pend, d) ELSE @,
              !.pend = NoPend, !.ret = "none"]

\* The operation directory is gone: the record takes the state directory as
\* it is now.
OperationAbsent(l, d) ==
    [l EXCEPT !.phase = "operation-absent", !.pend = NoPend, !.ret = "none",
              !.own = Settled(@, [l.pend EXCEPT !.pv = d["state"]])]

-----------------------------------------------------------------------------
(* What a reader concludes from the fold and the disk (_reconcile_ledger). *)

\* Nothing pending: the tree must be the one the ledger owns.
SteadyStatus(l, d) ==
    IF d # l.own THEN "preserve"
    ELSE CASE l.phase = "genesis" -> "genesis-settleable"
           [] l.phase = "ready"   -> "genesis-abortable"
           [] l.phase \in {"aborted", "operation-absent"} -> "retirable"
           [] OTHER -> l.phase

\* Announced, and not known to be done.  A metadata change is never resumed.
IntentStatus(l, d) ==
    LET r == l.pend IN
    CASE r.op \in {"create", "hardlink-create"} /\ d = l.own -> "entry-absent"
      [] r.op \in {"operation", "candidate-tar"} /\ d = l.own -> "abortable"
      [] r.op = "candidate-tar" /\ d = Made(l.own, r.path) -> "observeable"
      [] r.op \in {"remove", "operation-remove"} /\ d = l.own -> "retry"
      [] r.op \in {"remove", "operation-remove"} /\ d = Unlinked(l.own, r.path) -> "absence-settleable"
      [] OTHER -> "preserve"

\* Every line of the file decodes, its records are a legal chain, and there
\* is at least one.
Readable(l) == l.phase \notin {"absent", "empty"} /\ ~l.torn

Status(l, d) ==
    IF ~Readable(l) THEN "preserve"
    ELSE CASE l.phase = "intent" -> IntentStatus(l, d)
           [] l.phase = "observed" -> IF d = Settled(l.own, l.pend) THEN "settleable" ELSE "preserve"
           [] OTHER -> SteadyStatus(l, d)

CleanupAllowed(l, d) == Status(l, d) \notin {"preserve", "leased"}

\* On whose authority the reader would let names be removed.
CleanupOrigin(l) == CASE l.auth = "release"  -> "release-authorized"
                      [] l.auth = "prestage" -> "prestage-authorized"
                      [] OTHER -> "prelease"
=============================================================================

---------------------------- MODULE RootfsProofs ----------------------------
(***************************************************************************)
(* What is proved of the owned rootfs tree, its ledger, its lease and its  *)
(* publication, for every plan, every number of files and every bound on   *)
(* the failures: LedgersAgree, NamesAreOwned, LeaseIsKept and              *)
(* AcceptedIsWhole.                                                        *)
(*                                                                         *)
(* None of them is inductive.  TreeInv says how the disk, what the last    *)
(* fsync left of it and the tree the ledger owns differ: not at all        *)
(* between two changes, in one name while a change is pending.  LeaseInv   *)
(* ties the phase of the ledger to the operation's journal and to what the *)
(* process that holds the lock is about to do.  PlanInv says how much of   *)
(* the plan a building process has done, and PubInv relates the candidate  *)
(* directory to the snapshots of the publication.                          *)
(***************************************************************************)
EXTENDS RootfsLease, TLAPS

-----------------------------------------------------------------------------
(* The inductive invariant. *)

Names == Paths \cup {"op"}
Trees == [Nodes -> Nat]
Same(d, e) == \A p \in Names : d[p] # 0 <=> e[p] # 0
SameBut(d, e, q) == \A p \in Names : p # q => (d[p] # 0 <=> e[p] # 0)
Bare(d) == \A p \in Names : d[p] = 0
Leaf(d, q) == \A p \in Paths : Parent(p) = q => d[p] = 0

Creations == {"operation", "create", "hardlink-create", "candidate-tar"}
Removals == {"remove", "operation-remove"}
Pending == {"intent", "observed"}
Unleased == {"absent", "empty", "genesis", "ready", "aborted"}
Jobs == {"none", "boot", "work", "undo", "open", "clean", "held", "authorize", "prestage", "publish"}
Ledgers == [phase : Phases, pend : Records, ret : Phases \cup {"none"}, own : Trees, links : 0..Len(Aliases),
            grouped : BOOLEAN, imported : BOOLEAN, leased : BOOLEAN, auth : {"none", "release", "prestage"},
            torn : BOOLEAN]
Procs == [job : Jobs, i : Nat, made : BOOLEAN,
          origin : {"none", "prelease", "release-authorized", "prestage-authorized"}]

TypeInv ==
    /\ disk \in Trees /\ safe \in Trees /\ led \in Ledgers /\ proc \in Procs
    /\ boot \in 0..3 /\ route \in {"prebuilt", "build"} /\ built \in Nat /\ faults \in Nat
    /\ kata \in {"absent", "begun", "admitted", "ready", "authorized", "settled"}

\* The tree the ledger owns: it hangs together, the aliases are there up to
\* the ledger's cursor, and nothing is owned before and after the operation
\* directory is there.
OwnInv(l) ==
    /\ \A p \in Paths : l.own[p] # 0 => l.own[Parent(p)] # 0
    /\ \A k \in 1..Len(Aliases) : l.own[Aliases[k]] # 0 <=> k <= l.links
    /\ l.links > 0 => l.own[LinkTarget] # 0
    /\ l.phase \in Unleased \cup {"operation-absent", "retired"} => Bare(l.own)
    /\ l.phase \in Grown \cup {"leased"} => l.own["op"] # 0
    /\ l.phase \in Pending <=> l.pend.op # "none"
    /\ l.pend.op = "none" => l.ret = "none"

\* The disk, the fsynced disk and the ledger between two changes.
QuietInv ==
    led.phase \notin Pending =>
        /\ Same(disk, led.own) /\ Same(safe, led.own)
        /\ led.phase # "empty" => safe = disk

\* What a pending change may be.
PendOK(l) ==
    LET q == l.pend.path IN
    l.pend.op # "none" =>
        /\ l.pend.op \in {"operation", "operation-remove"} <=> q = "op"
        /\ l.pend.op = "operation" => l.ret = "ready" /\ Bare(l.own)
        /\ l.pend.op # "operation" => l.ret \in Grown /\ l.own["op"] # 0
        /\ l.pend.op \notin Removals \cup {"operation"} => l.ret = "active"
        /\ l.pend.op # "metadata" /\ q # "op" => l.own[Parent(q)] # 0
        /\ l.pend.op = "candidate-tar" => l.own[q] = 0
        /\ l.pend.op = "hardlink-create" => l.links < Len(Aliases) /\ q = Aliases[l.links + 1]
        /\ l.pend.op \in {"create", "candidate-tar"} => q \notin ToSet(Aliases)
        /\ l.pend.op \in Removals => l.own[q] # 0
        /\ l.pend.op = "operation-remove" => \A p \in Paths : l.own[p] = 0
        /\ l.pend.op = "remove" =>
              IF q \in ToSet(Aliases) THEN l.links > 0 /\ q = Aliases[l.links] ELSE l.links = 0

\* The three trees while a change is announced and not observed.
IntentInv ==
    LET q == led.pend.path IN
    led.phase = "intent" =>
        /\ SameBut(disk, led.own, q) /\ SameBut(safe, led.own, q)
        /\ led.pend.op \in Creations =>
              /\ led.own[q] # 0 \/ disk[q] = 0 => safe = disk
              /\ led.own[q] # 0 => disk[q] # 0
              /\ led.pend.op = "hardlink-create" /\ disk[q] # 0 => led.own[LinkTarget] # 0
        /\ led.pend.op = "metadata" => Same(disk, led.own) /\ Same(safe, led.own)
        /\ led.pend.op \in Removals =>
              /\ Same(safe, led.own)
              /\ disk[q] = 0 => Leaf(led.own, q)
              /\ proc.job \notin {"work", "undo"}
        /\ proc.job \in {"work", "undo"} /\ proc.made /\ led.pend.op \in Creations => led.own[q] = 0
        /\ proc.job = "work" /\ proc.made => disk[q] # 0
        /\ proc.job = "work" /\ ~proc.made => safe = disk

\* The three trees while a change is observed and not settled.
ObservedInv ==
    LET q == led.pend.path IN
    led.phase = "observed" =>
        /\ SameBut(disk, led.own, q) /\ SameBut(safe, led.own, q)
        /\ led.pend.op # "operation-remove"
        /\ led.pend.op # "metadata" /\ q # "op" => led.pend.pv # 0
        /\ led.pend.op \in Creations =>
              /\ led.own[q] = 0 /\ led.pend.cv # 0
              /\ proc.job \in {"work", "clean"} => disk[q] # 0
              /\ led.pend.op = "hardlink-create" => led.own[LinkTarget] # 0
        /\ led.pend.op = "metadata" =>
              led.own[q] # 0 /\ led.pend.cv # 0 /\ Same(disk, led.own) /\ Same(safe, led.own)
        /\ led.pend.op \in Removals =>
              /\ disk[q] = 0 /\ safe[q] = 0 /\ Leaf(led.own, q)
              /\ q \in ToSet(Aliases) => led.pend.cv # 0
              /\ proc.job # "work"

TreeInv == OwnInv(led) /\ QuietInv /\ PendOK(led) /\ IntentInv /\ ObservedInv

\* The phases of the ledger and the authority it has recorded.
AuthInv(l) ==
    /\ l.leased /\ l.auth = "none" <=> l.phase = "leased"
    /\ l.auth # "none" => l.leased
    /\ l.phase \in Unleased \cup {"active"} \/ l.ret \in {"ready", "active"} => ~l.leased
    /\ l.auth = "release" /\ l.phase \in Grown => l.phase = "release-authorized"
    /\ l.auth = "prestage" /\ l.phase \in Grown => l.phase = "prestage-release-authorized"
    /\ l.auth = "release" /\ l.phase \in Pending => l.ret = "release-authorized"
    /\ l.auth = "prestage" /\ l.phase \in Pending => l.ret = "prestage-release-authorized"
    /\ "release-authorized" \in {l.phase, l.ret} => l.auth = "release"
    /\ "prestage-release-authorized" \in {l.phase, l.ret} => l.auth = "prestage"

\* What the process that holds the lock may find.
JobInv ==
    /\ boot < 3 \/ proc.job = "boot" => led.phase = "absent" /\ kata = "absent"
    /\ proc.job = "work" => led.phase \in {"empty", "genesis", "ready", "intent", "observed", "active"}
    /\ proc.job = "undo" => led.phase \in {"absent", "empty", "genesis", "ready", "intent", "observed", "active"}
    /\ proc.job \in {"work", "undo"} => ~led.leased /\ kata = "absent"
    /\ proc.job = "open" => ~led.leased \/ led.auth = "release"
    /\ proc.job = "held" => led.phase = "leased" /\ kata \in {"absent", "begun", "admitted"}
    /\ proc.job = "authorize" => kata = "ready"
    /\ proc.job = "prestage" => kata \in {"absent", "begun"} /\ (led.phase = "leased" \/ led.auth = "prestage")
    /\ proc.job = "clean" => led.phase # "leased" /\ (led.auth = "prestage" => kata = "absent")

\* What the operation's journal says of the ledger.
KataInv ==
    /\ kata # "absent" \/ led.leased => route = "prebuilt"
    /\ kata = "begun" => led.phase \in {"leased", "prestage-release-authorized"}
    /\ kata = "admitted" => led.phase = "leased"
    /\ kata = "ready" => led.phase \in {"leased", "absent"} \/ led.auth = "release"
    /\ kata = "authorized" => led.phase = "absent" \/ led.auth = "release"
    /\ kata = "settled" => led.phase = "absent"
    /\ led.auth = "release" => kata \in {"ready", "authorized"}
    /\ led.auth = "prestage" => kata \in {"absent", "begun"}

\* A tree that may be in use is whole, and fsynced.
WholeInv ==
    led.phase = "leased" \/ kata = "begun" =>
        safe = disk /\ disk = led.own /\ \A p \in Names : led.own[p] # 0

LeaseInv == AuthInv(led) /\ JobInv /\ KataInv /\ WholeInv

\* How far the building process is: what the plan has made so far is owned.
Done == \A j \in 1..Len(Plan) :
            j < proc.i /\ Plan[j].op \in {"create", "hardlink-create", "candidate-tar"} => led.own[Plan[j].path] # 0
PlanInv ==
    proc.job = "work" =>
        /\ proc.i \in Nat \ {0}
        /\ led.phase \in {"empty", "genesis", "ready"} \/ led.pend.op = "operation" => proc.i = 1
        /\ Done
        /\ led.pend.op \notin {"none", "operation"} =>
              proc.i <= Len(Plan) /\ Plan[proc.i] = Step(led.pend.op, led.pend.path)

RootfsInv == TypeInv /\ TreeInv /\ LeaseInv /\ PlanInv

-----------------------------------------------------------------------------

(* The paths of the plan. *)

\* Every planned name has a directory that is another name of the tree, and
\* the names of the linked file are no directories.
LEMMA PathFacts ==
    /\ Names \subseteq Nodes /\ "state" \in Nodes /\ "state" \notin Names
    /\ "op" \in Names /\ "op" \notin Paths /\ Paths \subseteq Names
    /\ \A p \in Paths : Parent(p) \in Names /\ Parent(p) # p
    /\ Parent("op") = "state"
    /\ \A p \in Paths : Parent(p) \notin ToSet(Aliases)
    /\ \A k \in 1..Len(Aliases) : Aliases[k] \in ToSet(Aliases) /\ Aliases[k] \in Paths
<1>1. Names \subseteq Nodes /\ "state" \in Nodes /\ Paths \subseteq Names /\ "op" \in Names
  BY DEF Names, Nodes
<1>2. "state" \notin Names /\ "op" \notin Paths
  BY PlanAssumption DEF Names, Paths, Fixed
<1>3. Parent("op") = "state"
  BY PlanAssumption DEF Parent, Fixed
<1>4. ASSUME NEW p \in Paths PROVE Parent(p) \in Names /\ Parent(p) # p /\ Parent(p) \notin ToSet(Aliases)
  <2>1. CASE p \in Planned
    <3>1. Parent(p) = ParentOf[p]
      BY <2>1, PlanAssumption DEF Parent, Fixed
    <3>2. ParentOf[p] \in ToSet(Dirs) \cup {"rootfs"} /\ ParentOf[p] # p
      BY <2>1, PlanAssumption
    <3>3. "rootfs" \in Fixed
      BY DEF Fixed
    <3> QED BY <3>1, <3>2, <3>3, PlanAssumption DEF Names, Paths, Planned
  <2>2. CASE p \in Fixed
    <3>1. Parent(p) = "op" /\ p # "op"
      BY <2>2, PlanAssumption DEF Parent, Fixed
    <3> QED BY <3>1, PlanAssumption DEF Names, Paths, Planned
  <2> QED BY <2>1, <2>2 DEF Paths
<1>5. ASSUME NEW k \in 1..Len(Aliases) PROVE Aliases[k] \in ToSet(Aliases) /\ Aliases[k] \in Paths
  <2>1. Aliases \in Seq(ToSet(Aliases))
    BY PlanAssumption
  <2> QED BY <2>1 DEF Paths, Planned
<1> QED BY <1>1, <1>2, <1>3, <1>4, <1>5

\* The aliases and the file they are names of.
LEMMA AliasFacts ==
    /\ Aliases \in Seq(ToSet(Aliases)) /\ Len(Aliases) \in Nat
    /\ ToSet(Aliases) \subseteq Paths
    /\ \A p \in ToSet(Aliases) : \E k \in 1..Len(Aliases) : p = Aliases[k]
    /\ \A j, k \in 1..Len(Aliases) : Aliases[j] = Aliases[k] => j = k
    /\ Aliases # <<>> =>
          LinkTarget \in Paths /\ LinkTarget \notin ToSet(Aliases) /\ \A p \in Paths : Parent(p) # LinkTarget
    /\ Aliases = <<>> => ToSet(Aliases) = {} /\ Len(Aliases) = 0
<1>1. Aliases \in Seq(ToSet(Aliases))
  BY PlanAssumption
<1>2. Len(Aliases) \in Nat /\ DOMAIN Aliases = 1..Len(Aliases)
  BY <1>1
<1>3. \A p \in ToSet(Aliases) : \E k \in 1..Len(Aliases) : p = Aliases[k]
  BY <1>2 DEF ToSet
<1>4. \A j, k \in 1..Len(Aliases) : Aliases[j] = Aliases[k] => j = k
  BY <1>2, PlanAssumption DEF IsInjective
<1>5. ToSet(Aliases) \subseteq Paths
  BY DEF Paths, Planned
<1>6. Aliases = <<>> => ToSet(Aliases) = {} /\ Len(Aliases) = 0
  BY DEF ToSet
<1>7. ASSUME Aliases # <<>>
      PROVE  LinkTarget \in Paths /\ LinkTarget \notin ToSet(Aliases) /\ \A p \in Paths : Parent(p) # LinkTarget
  <2>1. LinkTarget \in ToSet(Files) /\ LinkTarget \in Planned
    BY <1>7, PlanAssumption DEF Planned
  <2>2. LinkTarget \in Paths /\ LinkTarget \notin ToSet(Aliases)
    BY <2>1, PlanAssumption DEF Paths
  <2>3. ASSUME NEW p \in Paths PROVE Parent(p) # LinkTarget
    <3>1. CASE p \in Planned
      <4>1. Parent(p) = ParentOf[p]
        BY <3>1, PlanAssumption DEF Parent, Fixed
      <4>2. ParentOf[p] \in ToSet(Dirs) \cup {"rootfs"} /\ "rootfs" \in Fixed
        BY <3>1, PlanAssumption DEF Fixed
      <4> QED BY <4>1, <4>2, <2>1, PlanAssumption
    <3>2. CASE p \in Fixed
      <4>1. Parent(p) = "op"
        BY <3>2, PlanAssumption DEF Parent, Fixed
      <4> QED BY <4>1, <2>1, PlanAssumption
    <3> QED BY <3>1, <3>2 DEF Paths
  <2> QED BY <2>2, <2>3
<1> QED BY <1>1, <1>2, <1>3, <1>4, <1>5, <1>6, <1>7

\* The names of one inode are names of the tree, and none is a directory of
\* another.
LEMMA GroupFacts ==
    ASSUME NEW p \in Names
    PROVE  /\ Group(p) \subseteq Names /\ p \in Group(p)
           /\ p \in Paths => Parent(p) \notin Group(p)
           /\ Aliases = <<>> => Group(p) = {p}
<1>1. CASE Aliases # <<>> /\ p \in ToSet(Aliases) \cup {LinkTarget}
  BY <1>1, AliasFacts, PathFacts DEF Group
<1>2. CASE ~(Aliases # <<>> /\ p \in ToSet(Aliases) \cup {LinkTarget})
  BY <1>2, AliasFacts, PathFacts DEF Group
<1> QED BY <1>1, <1>2

(* What the system calls and the fold do to the names of a tree. *)

\* A made name is there, and nothing else comes or goes.
LEMMA MadeTree ==
    ASSUME NEW d \in Trees, NEW p \in Names, p # "op" => d[Parent(p)] # 0
    PROVE  Made(d, p) \in Trees /\ Made(d, p)[p] = 1 /\ SameBut(Made(d, p), d, p)
<1>1. p \in Nodes /\ Parent(p) \in Nodes /\ Parent(p) # p /\ (p = "op" => Parent(p) \notin Names)
  BY PathFacts DEF Names
<1>2. Made(d, p) = [d EXCEPT ![p] = 1, ![Parent(p)] = @ + 1]
  BY DEF Made
<1>3. Made(d, p) \in Trees /\ Made(d, p)[p] = 1
  BY <1>1, <1>2 DEF Trees
<1>4. ASSUME NEW n \in Names, n # p PROVE Made(d, p)[n] # 0 <=> d[n] # 0
  <2>1. n \in Nodes /\ d[n] \in Nat
    BY PathFacts DEF Trees
  <2>2. CASE n = Parent(p)
    BY <1>1, <1>2, <1>4, <2>1, <2>2 DEF Trees
  <2>3. CASE n # Parent(p)
    BY <1>1, <1>2, <1>4, <2>1, <2>3 DEF Trees
  <2> QED BY <2>2, <2>3
<1> QED BY <1>3, <1>4 DEF SameBut

\* Metadata changes no name.
LEMMA TouchedTree ==
    ASSUME NEW d \in Trees, NEW p \in Names, d[p] # 0
    PROVE  Touched(d, p) \in Trees /\ Touched(d, p)[p] # 0 /\ Same(Touched(d, p), d)
<1>1. p \in Nodes /\ d[p] \in Nat
  BY PathFacts DEF Trees
<1>2. Touched(d, p) = [d EXCEPT ![p] = @ + 1]
  BY DEF Touched
<1>3. Touched(d, p) \in Trees /\ Touched(d, p)[p] = d[p] + 1 /\ d[p] + 1 # 0
  BY <1>1, <1>2 DEF Trees
<1>4. ASSUME NEW n \in Names PROVE Touched(d, p)[n] # 0 <=> d[n] # 0
  <2>1. n \in Nodes
    BY PathFacts
  <2> QED BY <2>1, <1>1, <1>2, <1>3 DEF Trees
<1> QED BY <1>3, <1>4 DEF Same

\* A link is one more name.
LEMMA LinkedTree ==
    ASSUME NEW d \in Trees, NEW p \in ToSet(Aliases), d[Parent(p)] # 0
    PROVE  Linked(d, p) \in Trees /\ Linked(d, p)[p] # 0 /\ SameBut(Linked(d, p), d, p)
<1>1. p \in Paths /\ p \in Names /\ p \in Nodes /\ LinkTarget \in Nodes /\ d[LinkTarget] \in Nat
  BY AliasFacts, PathFacts DEF Trees
<1>2. Parent(p) \in Names /\ Parent(p) # p /\ Parent(p) \notin Group(p) /\ p \in Group(p)
  BY <1>1, PathFacts, GroupFacts
<1> DEFINE v == d[LinkTarget] + 1
<1>3. Linked(d, p) = [n \in Nodes |-> CASE n = p \/ (n \in Group(p) /\ d[n] # 0) -> v
                       [] n = Parent(p) -> d[n] + 1
                       [] OTHER -> d[n]]
  BY DEF Linked
<1>4. v \in Nat /\ v # 0
  BY <1>1
<1> HIDE DEF v
<1>5. \A n \in Nodes : d[n] \in Nat
  BY DEF Trees
<1>6. Linked(d, p) \in Trees
  BY <1>3, <1>4, <1>5 DEF Trees
<1>7. Linked(d, p)[p] = v
  BY <1>3, <1>1, <1>2
<1>8. ASSUME NEW n \in Names, n # p PROVE Linked(d, p)[n] # 0 <=> d[n] # 0
  <2>1. n \in Nodes
    BY PathFacts
  <2>2. CASE n \in Group(p) /\ d[n] # 0
    BY <2>1, <2>2, <1>3, <1>4, <1>2
  <2>3. CASE n = Parent(p)
    BY <2>1, <2>3, <1>3, <1>2, <1>5
  <2>4. CASE ~(n \in Group(p) /\ d[n] # 0) /\ n # Parent(p)
    BY <2>1, <2>4, <1>3, <1>8
  <2> QED BY <2>2, <2>3, <2>4
<1> QED BY <1>4, <1>6, <1>7, <1>8 DEF SameBut

\* An unlinked name is gone, and nothing else comes or goes.
LEMMA UnlinkedTree ==
    ASSUME NEW d \in Trees, NEW p \in Names, p # "op" => d[Parent(p)] # 0
    PROVE  Unlinked(d, p) \in Trees /\ Unlinked(d, p)[p] = 0 /\ SameBut(Unlinked(d, p), d, p)
<1>1. /\ p \in Nodes /\ Parent(p) # p /\ Parent(p) \notin Group(p)
      /\ p = "op" => Parent(p) \notin Names
      /\ p # "op" => Parent(p) \in Names
  BY PathFacts, GroupFacts DEF Names
<1>2. Unlinked(d, p) = [n \in Nodes |-> CASE n = p -> 0
                       [] n = Parent(p) -> d[n] + 1
                       [] n \in Group(p) \ {p} /\ d[n] # 0 -> d[n] + 1
                       [] OTHER -> d[n]]
  BY DEF Unlinked
<1>3. \A n \in Nodes : d[n] \in Nat /\ d[n] + 1 \in Nat /\ d[n] + 1 # 0
  BY DEF Trees
<1>4. Unlinked(d, p) \in Trees
  BY <1>2, <1>3 DEF Trees
<1>5. Unlinked(d, p)[p] = 0
  BY <1>1, <1>2
<1>6. ASSUME NEW n \in Names, n # p PROVE Unlinked(d, p)[n] # 0 <=> d[n] # 0
  <2>1. n \in Nodes
    BY PathFacts
  <2>2. CASE n = Parent(p)
    BY <2>1, <2>2, <1>1, <1>2, <1>3, <1>6
  <2>3. CASE n # Parent(p) /\ n \in Group(p) \ {p} /\ d[n] # 0
    BY <2>1, <2>3, <1>2, <1>3
  <2>4. CASE n # Parent(p) /\ ~(n \in Group(p) \ {p} /\ d[n] # 0)
    BY <2>1, <2>4, <1>2, <1>6
  <2> QED BY <2>2, <2>3, <2>4
<1> QED BY <1>4, <1>5, <1>6 DEF SameBut

\* A settlement changes one name only, when the observation behind it found
\* the directory and the remaining links.
LEMMA SettledTree ==
    ASSUME NEW own \in Trees, NEW r \in Records,
           r.op # "metadata" /\ r.path # "op" => own[Parent(r.path)] # 0 /\ r.pv # 0,
           r.op = "hardlink-create" => r.cv # 0,
           r.op = "remove" /\ r.cv = 0 => \A n \in Group(r.path) : n # r.path => own[n] = 0
    PROVE  /\ Settled(own, r) \in Trees
           /\ Settled(own, r)[r.path] = IF r.op \in {"remove", "operation-remove"} THEN 0 ELSE r.cv
           /\ SameBut(Settled(own, r), own, r.path)
<1> DEFINE q == r.path
           c == IF r.op \in {"remove", "operation-remove"} THEN 0 ELSE r.cv
<1>1. q \in Names /\ q \in Nodes /\ r.cv \in Nat /\ r.pv \in Nat /\ c \in Nat
  BY PathFacts DEF Records, Names
<1>2. /\ Parent(q) # q /\ Parent(q) \notin Group(q)
      /\ q = "op" => Parent(q) \notin Names
      /\ q # "op" => Parent(q) \in Names
  BY <1>1, PathFacts, GroupFacts DEF Names
<1>3. Settled(own, r) = [n \in Nodes |->
        CASE n = q -> c
          [] r.op # "metadata" /\ n = Parent(q) -> r.pv
          [] r.op \in {"hardlink-create", "remove"} /\ n \in Group(q) \ {q} /\ own[n] # 0 -> r.cv
          [] OTHER -> own[n]]
  BY DEF Settled
<1> HIDE DEF c
<1>4. \A n \in Nodes : own[n] \in Nat
  BY DEF Trees
<1>5. Settled(own, r) \in Trees
  BY <1>1, <1>3, <1>4 DEF Trees
<1>6. Settled(own, r)[q] = c
  <2> HIDE DEF q
  <2> QED BY <1>1, <1>2, <1>3
<1>7. ASSUME NEW n \in Names, n # q PROVE Settled(own, r)[n] # 0 <=> own[n] # 0
  <2>1. n \in Nodes
    BY PathFacts
  <2>2. CASE r.op # "metadata" /\ n = Parent(q)
    BY <2>1, <2>2, <1>2, <1>3, <1>7
  <2>3. CASE n # Parent(q) /\ r.op \in {"hardlink-create", "remove"} /\ n \in Group(q) /\ own[n] # 0
    BY <2>1, <2>3, <1>3, <1>7
  <2>4. CASE /\ ~(r.op # "metadata" /\ n = Parent(q))
             /\ ~(r.op \in {"hardlink-create", "remove"} /\ n \in Group(q) /\ own[n] # 0)
    BY <2>1, <2>4, <1>3, <1>7
  <2>5. CASE r.op = "metadata"
    BY <2>4, <2>5
  <2> QED BY <2>2, <2>3, <2>4, <2>5
<1> QED BY <1>5, <1>6, <1>7 DEF SameBut, c, q

\* An abort takes the generations of the disk for the names it keeps.
LEMMA WithdrawnTree ==
    ASSUME NEW own \in Trees, NEW d \in Trees, NEW r \in Records, r.path \in Paths,
           SameBut(d, own, r.path), own[r.path] # 0 => d[r.path] # 0
    PROVE  Withdrawn(own, r, d) \in Trees /\ Same(Withdrawn(own, r, d), own)
<1> DEFINE q == r.path
<1>1. q \in Names /\ Parent(q) \in Names /\ Parent(q) # q
  BY PathFacts
<1>2. Withdrawn(own, r, d) = [n \in Nodes |->
        CASE n = Parent(q) -> d[n]
          [] r.op = "hardlink-create" /\ n \in Group(q) /\ own[n] # 0 -> d[n]
          [] OTHER -> own[n]]
  BY DEF Withdrawn
<1>3. \A n \in Nodes : own[n] \in Nat /\ d[n] \in Nat
  BY DEF Trees
<1>4. Withdrawn(own, r, d) \in Trees
  BY <1>2, <1>3 DEF Trees
<1>5. ASSUME NEW n \in Names PROVE Withdrawn(own, r, d)[n] # 0 <=> own[n] # 0
  <2>1. n \in Nodes /\ (n # q => (d[n] # 0 <=> own[n] # 0)) /\ (own[q] # 0 => d[q] # 0)
    BY PathFacts DEF SameBut
  <2>2. CASE n = Parent(q)
    BY <2>1, <2>2, <1>1, <1>2
  <2>3. CASE n # Parent(q) /\ r.op = "hardlink-create" /\ n \in Group(q) /\ own[n] # 0
    BY <2>1, <2>3, <1>2
  <2>4. CASE n # Parent(q) /\ ~(r.op = "hardlink-create" /\ n \in Group(q) /\ own[n] # 0)
    BY <2>1, <2>4, <1>2
  <2> QED BY <2>2, <2>3, <2>4
<1> QED BY <1>4, <1>5 DEF Same

(* What a reader may conclude from the status it computes. *)

\* The status of an announced change says how the disk differs from the tree
\* the ledger owns.
LEMMA IntentStatusFacts ==
    ASSUME NEW l \in Ledgers, NEW d
    PROVE  /\ IntentStatus(l, d) = "entry-absent" => l.pend.op \in {"create", "hardlink-create"} /\ d = l.own
           /\ IntentStatus(l, d) = "abortable" => l.pend.op \in {"operation", "candidate-tar"} /\ d = l.own
           /\ IntentStatus(l, d) = "observeable" =>
                 l.pend.op = "candidate-tar" /\ d = Made(l.own, l.pend.path)
           /\ IntentStatus(l, d) = "retry" => l.pend.op \in Removals /\ d = l.own
           /\ IntentStatus(l, d) = "absence-settleable" =>
                 l.pend.op \in Removals /\ d = Unlinked(l.own, l.pend.path)
           /\ IntentStatus(l, d) \in {"entry-absent", "abortable", "observeable", "retry", "absence-settleable",
                                      "preserve"}
<1> DEFINE r == l.pend
           a == r.op \in {"create", "hardlink-create"} /\ d = l.own
           b == r.op \in {"operation", "candidate-tar"} /\ d = l.own
           c == r.op = "candidate-tar" /\ d = Made(l.own, r.path)
           e == r.op \in {"remove", "operation-remove"} /\ d = l.own
           f == r.op \in {"remove", "operation-remove"} /\ d = Unlinked(l.own, r.path)
<1>1. IntentStatus(l, d) = CASE a -> "entry-absent" [] b -> "abortable" [] c -> "observeable"
                             [] e -> "retry" [] f -> "absence-settleable" [] OTHER -> "preserve"
  BY DEF IntentStatus
<1>2. (a => r.op \in {"create", "hardlink-create"} /\ d = l.own) /\ (b => r.op \in {"operation", "candidate-tar"} /\ d = l.own)
      /\ (c => r.op = "candidate-tar" /\ d = Made(l.own, r.path)) /\ (e => r.op \in Removals /\ d = l.own)
      /\ (f => r.op \in Removals /\ d = Unlinked(l.own, r.path))
  BY DEF Removals
<1> HIDE DEF a, b, c, e, f
<1> QED BY <1>1, <1>2

\* What the status says of the phase.
LEMMA StatusFacts ==
    ASSUME NEW l \in Ledgers, NEW d
    PROVE  /\ Status(l, d) = "leased" => l.phase = "leased" /\ d = l.own
           /\ Status(l, d) = "active" => l.phase = "active" /\ d = l.own
           /\ Status(l, d) = "release-authorized" => l.phase = "release-authorized" /\ d = l.own
           /\ Status(l, d) = "retirable" => l.phase \in {"aborted", "operation-absent"} /\ d = l.own
           /\ Status(l, d) = "retired" => l.phase = "retired" /\ d = l.own
           /\ CleanupAllowed(l, d) =>
                 /\ l.phase \notin {"absent", "empty", "leased"}
                 /\ l.phase = "observed" => d = Settled(l.own, l.pend)
<1>1. CASE ~Readable(l)
  <2>1. Status(l, d) = "preserve"
    BY <1>1 DEF Status
  <2> QED BY <2>1 DEF CleanupAllowed
<1>2. CASE Readable(l) /\ l.phase = "intent"
  <2>1. Status(l, d) = IntentStatus(l, d)
    BY <1>2 DEF Status
  <2> QED BY <2>1, <1>2, IntentStatusFacts DEF CleanupAllowed
<1>3. CASE Readable(l) /\ l.phase = "observed"
  <2>1. Status(l, d) = IF d = Settled(l.own, l.pend) THEN "settleable" ELSE "preserve"
    BY <1>3 DEF Status
  <2> QED BY <2>1, <1>3 DEF CleanupAllowed
<1>4. CASE Readable(l) /\ l.phase \notin {"intent", "observed"}
  <2>1. Status(l, d) = SteadyStatus(l, d)
    BY <1>4 DEF Status
  <2>2. l.phase \notin {"absent", "empty"} /\ l.phase \in Phases
    BY <1>4 DEF Readable, Ledgers
  <2>3. CASE d # l.own
    <3>1. SteadyStatus(l, d) = "preserve"
      BY <2>3 DEF SteadyStatus
    <3> QED BY <2>1, <3>1 DEF CleanupAllowed
  <2>4. CASE d = l.own
    <3>1. SteadyStatus(l, d) = CASE l.phase = "genesis" -> "genesis-settleable"
           [] l.phase = "ready"   -> "genesis-abortable"
           [] l.phase \in {"aborted", "operation-absent"} -> "retirable"
           [] OTHER -> l.phase
      BY <2>4 DEF SteadyStatus
    <3>2. /\ l.phase = "genesis" => SteadyStatus(l, d) = "genesis-settleable"
          /\ l.phase = "ready" => SteadyStatus(l, d) = "genesis-abortable"
          /\ l.phase \in {"aborted", "operation-absent"} => SteadyStatus(l, d) = "retirable"
          /\ l.phase \notin {"genesis", "ready", "aborted", "operation-absent"} => SteadyStatus(l, d) = l.phase
      BY <3>1
    <3> QED BY <2>1, <2>2, <2>4, <3>2, <1>4 DEF CleanupAllowed, Phases
  <2> QED BY <2>3, <2>4
<1> QED BY <1>1, <1>2, <1>3, <1>4

(* The plan of a build. *)

\* What a step of a plan may be: an alias is only ever linked.
PlanSteps == {s \in [op : {"create", "metadata", "group", "hardlink-create", "import", "candidate-tar"}, path : Paths] :
                 s.op \in {"create", "candidate-tar"} => s.path \notin ToSet(Aliases)}
Has(s, p) == \E k \in 1..Len(s) : s[k].op \in {"create", "hardlink-create"} /\ s[k].path = p

\* A plan is put together from plans.
LEMMA HasConcat ==
    ASSUME NEW s \in Seq(PlanSteps), NEW t \in Seq(PlanSteps), NEW p, Has(s, p) \/ Has(t, p)
    PROVE  Has(s \o t, p)
<1>1. CASE Has(s, p)
  <2>1. PICK k \in 1..Len(s) : s[k].op \in {"create", "hardlink-create"} /\ s[k].path = p
    BY <1>1 DEF Has
  <2>2. k \in 1..Len(s \o t) /\ (s \o t)[k] = s[k]
    OBVIOUS
  <2> QED BY <2>1, <2>2 DEF Has
<1>2. CASE Has(t, p)
  <2>1. PICK k \in 1..Len(t) : t[k].op \in {"create", "hardlink-create"} /\ t[k].path = p
    BY <1>2 DEF Has
  <2>2. k + Len(s) \in 1..Len(s \o t) /\ (s \o t)[k + Len(s)] = t[k]
    OBVIOUS
  <2> QED BY <2>1, <2>2 DEF Has
<1> QED BY <1>1, <1>2

\* One step for each name of a sequence.
LEMMA EachPlan ==
    ASSUME NEW P, P \subseteq Paths, NEW s \in Seq(P), NEW op \in {"create", "metadata", "hardlink-create"},
           op = "create" => P \cap ToSet(Aliases) = {}
    PROVE  /\ Each(op, s) \in Seq(PlanSteps)
           /\ op # "metadata" => \A k \in 1..Len(s) : Has(Each(op, s), s[k])
<1>1. DOMAIN s = 1..Len(s) /\ Len(s) \in Nat /\ \A k \in 1..Len(s) : s[k] \in P
  OBVIOUS
<1>2. Each(op, s) = [k \in 1..Len(s) |-> [op |-> op, path |-> s[k]]]
  BY <1>1 DEF Each, Step
<1>3. \A k \in 1..Len(s) : [op |-> op, path |-> s[k]] \in PlanSteps
  BY <1>1 DEF PlanSteps
<1>4. Each(op, s) \in Seq(PlanSteps) /\ Len(Each(op, s)) = Len(s)
  BY <1>1, <1>2, <1>3
<1>5. ASSUME op # "metadata", NEW k \in 1..Len(s) PROVE Has(Each(op, s), s[k])
  <2>1. k \in 1..Len(Each(op, s)) /\ Each(op, s)[k] = [op |-> op, path |-> s[k]]
    BY <1>2, <1>4
  <2> QED BY <2>1, <1>5 DEF Has
<1> QED BY <1>4, <1>5

\* The same with the metadata of each name.
LEMMA MetadataPlan ==
    ASSUME NEW P, P \subseteq Paths, NEW s \in Seq(P), P \cap ToSet(Aliases) = {}
    PROVE  /\ WithMetadata("create", s) \in Seq(PlanSteps)
           /\ \A k \in 1..Len(s) : Has(WithMetadata("create", s), s[k])
<1> DEFINE w == WithMetadata("create", s)
<1>1. Len(s) \in Nat /\ \A k \in 1..Len(s) : s[k] \in P
  OBVIOUS
<1>2. w = [k \in 1..2 * Len(s) |-> IF k % 2 = 1 THEN [op |-> "create", path |-> s[(k + 1) \div 2]]
                                   ELSE [op |-> "metadata", path |-> s[k \div 2]]]
  BY DEF WithMetadata, Step
<1>3. ASSUME NEW k \in 1..2 * Len(s)
      PROVE  /\ k % 2 = 1 => (k + 1) \div 2 \in 1..Len(s)
             /\ k % 2 # 1 => k \div 2 \in 1..Len(s)
  BY <1>1
<1>4. \A k \in 1..Len(s) : [op |-> "create", path |-> s[k]] \in PlanSteps /\ [op |-> "metadata", path |-> s[k]] \in PlanSteps
  BY <1>1 DEF PlanSteps
<1>5. \A k \in 1..2 * Len(s) : w[k] \in PlanSteps
  BY <1>2, <1>3, <1>4
<1>6. w \in Seq(PlanSteps) /\ Len(w) = 2 * Len(s)
  BY <1>1, <1>2, <1>5
<1>7. ASSUME NEW k \in 1..Len(s) PROVE Has(w, s[k])
  <2>1. 2 * k - 1 \in 1..2 * Len(s) /\ (2 * k - 1) % 2 = 1 /\ ((2 * k - 1) + 1) \div 2 = k
    BY <1>1
  <2>2. w[2 * k - 1] = [op |-> "create", path |-> s[k]]
    BY <1>2, <2>1
  <2>3. 2 * k - 1 \in 1..Len(w)
    BY <1>6, <2>1
  <2> HIDE DEF w
  <2> QED BY <2>2, <2>3 DEF Has
<1> QED BY <1>6, <1>7

\* The plan's own sequences.
LEMMA Sequences4 ==
    /\ Dirs \in Seq(ToSet(Dirs)) /\ ToSet(Dirs) \subseteq Paths /\ ToSet(Dirs) \cap ToSet(Aliases) = {}
    /\ Files \in Seq(ToSet(Files)) /\ ToSet(Files) \subseteq Paths /\ ToSet(Files) \cap ToSet(Aliases) = {}
    /\ Symlinks \in Seq(ToSet(Symlinks)) /\ ToSet(Symlinks) \subseteq Paths /\ ToSet(Symlinks) \cap ToSet(Aliases) = {}
    /\ Fixed \subseteq Paths /\ Fixed \cap ToSet(Aliases) = {}
    /\ Reverse(Dirs) \in Seq(ToSet(Dirs))
<1>1. Dirs \in Seq(ToSet(Dirs)) /\ Files \in Seq(ToSet(Files)) /\ Symlinks \in Seq(ToSet(Symlinks))
  BY PlanAssumption
<1>2. ToSet(Dirs) \subseteq Paths /\ ToSet(Files) \subseteq Paths /\ ToSet(Symlinks) \subseteq Paths /\ Fixed \subseteq Paths
  BY DEF Paths, Planned
<1>3. /\ ToSet(Dirs) \cap ToSet(Aliases) = {} /\ ToSet(Files) \cap ToSet(Aliases) = {}
      /\ ToSet(Symlinks) \cap ToSet(Aliases) = {} /\ Fixed \cap ToSet(Aliases) = {}
  BY PlanAssumption DEF Planned
<1>4. Reverse(Dirs) \in Seq(ToSet(Dirs))
  <2>1. Reverse(Dirs) = [i \in 1..Len(Dirs) |-> Dirs[(Len(Dirs) - i) + 1]]
    BY DEF Reverse
  <2>2. Len(Dirs) \in Nat /\ \A i \in 1..Len(Dirs) : Dirs[(Len(Dirs) - i) + 1] \in ToSet(Dirs)
    BY <1>1
  <2> QED BY <2>1, <2>2
<1> QED BY <1>1, <1>2, <1>3, <1>4

\* The part of the plan that both routes share makes every planned name.
LEMMA MaterialFacts ==
    MaterialPlan \in Seq(PlanSteps) /\ \A p \in Planned : Has(MaterialPlan, p)
<1> DEFINE a == Each("create", Dirs)
           b == WithMetadata("create", Files)
           c == IF Aliases = <<>> THEN <<>> ELSE <<Step("group", LinkTarget)>> \o Each("hardlink-create", Aliases)
           e == WithMetadata("create", Symlinks)
           f == Each("metadata", Reverse(Dirs))
           g == <<Step("metadata", "rootfs")>>
<1>1. a \in Seq(PlanSteps) /\ \A k \in 1..Len(Dirs) : Has(a, Dirs[k])
  BY EachPlan, Sequences4
<1>2. b \in Seq(PlanSteps) /\ \A k \in 1..Len(Files) : Has(b, Files[k])
  BY MetadataPlan, Sequences4
<1>3. c \in Seq(PlanSteps) /\ \A k \in 1..Len(Aliases) : Has(c, Aliases[k])
  <2>1. CASE Aliases = <<>>
    <3>1. c = <<>> /\ Len(Aliases) = 0
      BY <2>1
    <3> QED BY <3>1
  <2>2. CASE Aliases # <<>>
    <3> DEFINE h == Each("hardlink-create", Aliases)
               t == <<Step("group", LinkTarget)>>
    <3>1. c = t \o h
      BY <2>2
    <3>2. h \in Seq(PlanSteps) /\ \A k \in 1..Len(Aliases) : Has(h, Aliases[k])
      BY EachPlan, AliasFacts
    <3>3. Step("group", LinkTarget) \in PlanSteps
      BY <2>2, AliasFacts DEF Step, PlanSteps
    <3>4. t \in Seq(PlanSteps)
      BY <3>3
    <3> HIDE DEF h, t, c
    <3>5. c \in Seq(PlanSteps)
      BY <3>1, <3>2, <3>4
    <3> QED BY <3>1, <3>2, <3>4, <3>5, HasConcat
  <2> QED BY <2>1, <2>2
<1>4. e \in Seq(PlanSteps) /\ \A k \in 1..Len(Symlinks) : Has(e, Symlinks[k])
  BY MetadataPlan, Sequences4
<1>5. f \in Seq(PlanSteps)
  BY EachPlan, Sequences4
<1>6. g \in Seq(PlanSteps)
  <2>1. Step("metadata", "rootfs") \in PlanSteps
    BY Sequences4 DEF Step, PlanSteps, Fixed
  <2> QED BY <2>1
<1>7. MaterialPlan = a \o b \o c \o e \o f \o g
  BY DEF MaterialPlan
<1> HIDE DEF a, b, c, e, f, g
<1>8. /\ a \o b \in Seq(PlanSteps) /\ a \o b \o c \in Seq(PlanSteps) /\ a \o b \o c \o e \in Seq(PlanSteps)
      /\ a \o b \o c \o e \o f \in Seq(PlanSteps) /\ MaterialPlan \in Seq(PlanSteps)
  BY <1>1, <1>2, <1>3, <1>4, <1>5, <1>6, <1>7
<1>9. ASSUME NEW p, Has(a, p) \/ Has(b, p) \/ Has(c, p) \/ Has(e, p) PROVE Has(MaterialPlan, p)
  <2>1. Has(a, p) \/ Has(b, p) => Has(a \o b, p)
    BY <1>1, <1>2, HasConcat
  <2>2. Has(a \o b, p) \/ Has(c, p) => Has(a \o b \o c, p)
    BY <1>8, <1>3, HasConcat
  <2>3. Has(a \o b \o c, p) \/ Has(e, p) => Has(a \o b \o c \o e, p)
    BY <1>8, <1>4, HasConcat
  <2>4. Has(a \o b \o c \o e, p) => Has(a \o b \o c \o e \o f, p)
    BY <1>8, <1>5, HasConcat
  <2>5. Has(a \o b \o c \o e \o f, p) => Has(MaterialPlan, p)
    BY <1>8, <1>6, <1>7, HasConcat
  <2> QED BY <1>9, <2>1, <2>2, <2>3, <2>4, <2>5
<1>10. /\ \A p \in ToSet(Dirs) : \E k \in 1..Len(Dirs) : p = Dirs[k]
       /\ \A p \in ToSet(Files) : \E k \in 1..Len(Files) : p = Files[k]
       /\ \A p \in ToSet(Symlinks) : \E k \in 1..Len(Symlinks) : p = Symlinks[k]
  <2>1. DOMAIN Dirs = 1..Len(Dirs) /\ DOMAIN Files = 1..Len(Files) /\ DOMAIN Symlinks = 1..Len(Symlinks)
    BY Sequences4
  <2> QED BY <2>1 DEF ToSet
<1>11. ASSUME NEW p \in Planned PROVE Has(MaterialPlan, p)
  <2>1. CASE p \in ToSet(Dirs)
    BY <2>1, <1>1, <1>9, <1>10
  <2>2. CASE p \in ToSet(Files)
    BY <2>2, <1>2, <1>9, <1>10
  <2>3. CASE p \in ToSet(Aliases)
    BY <2>3, <1>3, <1>9, AliasFacts
  <2>4. CASE p \in ToSet(Symlinks)
    BY <2>4, <1>4, <1>9, <1>10
  <2> QED BY <2>1, <2>2, <2>3, <2>4 DEF Planned
<1> QED BY <1>8, <1>11

\* Both plans are plans, and the imported tree's makes every name.
LEMMA PlanFacts ==
    /\ Plan \in Seq(PlanSteps)
    /\ route = "prebuilt" => \A p \in Paths : Has(Plan, p)
<1> DEFINE a == <<Step("create", "sentinel"), Step("create", "rootfs")>>
           b == <<Step("import", "rootfs")>>
           c == <<Step("create", "manifest"), Step("create", "tar")>>
           e == <<Step("create", "manifest"), Step("candidate-tar", "tar")>>
<1>1. /\ Step("create", "sentinel") \in PlanSteps /\ Step("create", "rootfs") \in PlanSteps
      /\ Step("import", "rootfs") \in PlanSteps /\ Step("create", "manifest") \in PlanSteps
      /\ Step("create", "tar") \in PlanSteps /\ Step("candidate-tar", "tar") \in PlanSteps
  BY Sequences4 DEF Step, PlanSteps, Fixed
<1>2. a \in Seq(PlanSteps) /\ b \in Seq(PlanSteps) /\ c \in Seq(PlanSteps) /\ e \in Seq(PlanSteps)
  BY <1>1
<1>3. Has(a, "sentinel") /\ Has(a, "rootfs") /\ Has(c, "manifest") /\ Has(c, "tar")
  BY DEF Has, Step
<1>4. PrebuiltPlan = a \o b \o MaterialPlan \o c /\ BuildPlan = a \o MaterialPlan \o e
  BY DEF PrebuiltPlan, BuildPlan, BeginPlan
<1> HIDE DEF a, b, c, e
<1>5. /\ a \o b \in Seq(PlanSteps) /\ a \o b \o MaterialPlan \in Seq(PlanSteps)
      /\ PrebuiltPlan \in Seq(PlanSteps) /\ BuildPlan \in Seq(PlanSteps)
  BY <1>2, <1>4, MaterialFacts
<1>6. ASSUME NEW p, Has(a, p) \/ Has(MaterialPlan, p) \/ Has(c, p) PROVE Has(PrebuiltPlan, p)
  <2>1. Has(a, p) => Has(a \o b, p)
    BY <1>2, HasConcat
  <2>2. Has(a \o b, p) \/ Has(MaterialPlan, p) => Has(a \o b \o MaterialPlan, p)
    BY <1>5, MaterialFacts, HasConcat
  <2>3. Has(a \o b \o MaterialPlan, p) \/ Has(c, p) => Has(PrebuiltPlan, p)
    BY <1>2, <1>4, <1>5, HasConcat
  <2> QED BY <1>6, <2>1, <2>2, <2>3
<1>7. ASSUME NEW p \in Paths PROVE Has(PrebuiltPlan, p)
  BY <1>3, <1>6, MaterialFacts DEF Paths, Fixed
<1> QED BY <1>5, <1>7 DEF Plan

-----------------------------------------------------------------------------
(* Steps that leave the tree and the ledger alone. *)

\* A step that gives the lock to a process that neither builds nor removes.
LEMMA TreeRests ==
    ASSUME TreeInv, UNCHANGED treeVars, proc'.job \notin {"work", "undo", "clean"}
    PROVE  TreeInv'
<1>1. disk' = disk /\ safe' = safe /\ led' = led
  BY DEF treeVars
<1>2. OwnInv(led)' /\ QuietInv' /\ PendOK(led)'
  BY <1>1 DEF TreeInv, OwnInv, QuietInv, PendOK, Same, Bare
<1>3. IntentInv'
  BY <1>1 DEF TreeInv, IntentInv, Same, SameBut, Leaf
<1>4. ObservedInv'
  BY <1>1 DEF TreeInv, ObservedInv, Same, SameBut, Leaf
<1> QED BY <1>2, <1>3, <1>4 DEF TreeInv

\* A process that may remove names starts from a disk that agrees.
LEMMA TreeOpens ==
    ASSUME TypeInv, TreeInv, UNCHANGED treeVars, proc'.job = "clean", CleanupAllowed(led, disk)
    PROVE  TreeInv'
<1>1. disk' = disk /\ safe' = safe /\ led' = led
  BY DEF treeVars
<1>2. OwnInv(led)' /\ QuietInv' /\ PendOK(led)'
  BY <1>1 DEF TreeInv, OwnInv, QuietInv, PendOK, Same, Bare
<1>3. IntentInv'
  BY <1>1 DEF TreeInv, IntentInv, Same, SameBut, Leaf
<1>4. ASSUME led.phase = "observed", led.pend.op \in Creations PROVE disk[led.pend.path] # 0
  <2>1. disk = Settled(led.own, led.pend)
    BY <1>4, StatusFacts DEF TypeInv
  <2>2. led.pend.cv # 0 /\ led.pend \in Records /\ led.pend.op \notin {"remove", "operation-remove"}
    BY <1>4 DEF TreeInv, ObservedInv, TypeInv, Ledgers, Creations
  <2>3. led.pend.path \in Nodes
    BY <2>2, PathFacts DEF Records, Names
  <2>4. Settled(led.own, led.pend)[led.pend.path] = led.pend.cv
    <3>1. /\ led.pend.path \in Names
          /\ led.pend.path \in Paths => Parent(led.pend.path) # led.pend.path
      BY <2>2, PathFacts DEF Records, Names
    <3>2. Parent(led.pend.path) # led.pend.path
      BY <3>1, PathFacts DEF Names
    <3> QED BY <2>2, <2>3, <3>2 DEF Settled
  <2> QED BY <2>1, <2>2, <2>4
<1>5. ObservedInv'
  BY <1>1, <1>4 DEF TreeInv, ObservedInv, Same, SameBut, Leaf
<1> QED BY <1>2, <1>3, <1>5 DEF TreeInv

\* A building process that fails keeps what it knows of its step.
LEMMA TreeFails ==
    ASSUME TreeInv, UNCHANGED treeVars, proc.job = "work", proc'.job = "undo", proc'.made = proc.made
    PROVE  TreeInv'
<1>1. disk' = disk /\ safe' = safe /\ led' = led
  BY DEF treeVars
<1>2. OwnInv(led)' /\ QuietInv' /\ PendOK(led)'
  BY <1>1 DEF TreeInv, OwnInv, QuietInv, PendOK, Same, Bare
<1>3. IntentInv'
  BY <1>1 DEF TreeInv, IntentInv, Same, SameBut, Leaf
<1>4. ObservedInv'
  BY <1>1 DEF TreeInv, ObservedInv, Same, SameBut, Leaf
<1> QED BY <1>2, <1>3, <1>4 DEF TreeInv

\* A process gives the lock up, or takes it to publish.
LEMMA RestKeeps ==
    ASSUME RootfsInv, UNCHANGED <<treeVars, boot, route, kata>>, proc' \in Procs, proc'.job \in {"none", "publish"},
           built' \in Nat, faults' \in Nat
    PROVE  RootfsInv'
<1>1. disk' = disk /\ safe' = safe /\ led' = led
  BY DEF treeVars
<1>2. TypeInv'
  BY <1>1 DEF RootfsInv, TypeInv
<1>3. TreeInv'
  BY TreeRests DEF RootfsInv
<1>4. LeaseInv'
  BY <1>1 DEF RootfsInv, LeaseInv, AuthInv, JobInv, KataInv, WholeInv
<1>5. PlanInv'
  BY DEF PlanInv
<1> QED BY <1>2, <1>3, <1>4, <1>5 DEF RootfsInv

\* A process opens a removal session.  The operation's journal is gone when
\* the removal is that of an unused lease.
LEMMA OpenKeeps ==
    ASSUME RootfsInv, UNCHANGED <<treeVars, boot, route>>, proc' \in Procs, proc'.job = "clean",
           CleanupAllowed(led, disk), built' \in Nat, faults' \in Nat,
           led.auth = "prestage" => kata' = "absent",
           kata' = kata \/ (kata' = "absent" /\ led.auth = "prestage")
    PROVE  RootfsInv'
<1>1. disk' = disk /\ safe' = safe /\ led' = led
  BY DEF treeVars
<1>2. TypeInv'
  BY <1>1 DEF RootfsInv, TypeInv
<1>3. TreeInv'
  BY TreeOpens DEF RootfsInv
<1>4. led.phase \notin {"absent", "empty", "leased"}
  BY StatusFacts DEF RootfsInv, TypeInv
<1>5. LeaseInv'
  BY <1>1, <1>4 DEF RootfsInv, LeaseInv, AuthInv, JobInv, KataInv, WholeInv
<1>6. PlanInv'
  BY DEF PlanInv
<1> QED BY <1>2, <1>3, <1>5, <1>6 DEF RootfsInv

\* Without the prestage key nobody opens an unused lease.
LEMMA OpensFacts ==
    ASSUME OpensFor("none")
    PROVE  CleanupAllowed(led, disk) /\ led.auth # "prestage"
BY DEF OpensFor, CleanupOrigin

\* The authority of a session is one of three.
LEMMA SessionProc ==
    /\ Session(RecoveryOrigin(led)) \in Procs /\ Session(RecoveryOrigin(led)).job = "clean"
    /\ Nobody \in Procs /\ Nobody.job = "none"
    /\ \A j \in Jobs : [Nobody EXCEPT !.job = j] \in Procs /\ [Nobody EXCEPT !.job = j].job = j
<1>1. RecoveryOrigin(led) \in {"prestage-authorized", "release-authorized", "prelease"}
  BY DEF RecoveryOrigin
<1>2. Nobody \in Procs /\ Nobody.job = "none"
  BY DEF Procs, Jobs, Nobody
<1>3. Session(RecoveryOrigin(led)) \in Procs /\ Session(RecoveryOrigin(led)).job = "clean"
  BY <1>1 DEF Session, Nobody, Procs, Jobs
<1>4. ASSUME NEW j \in Jobs PROVE [Nobody EXCEPT !.job = j] \in Procs /\ [Nobody EXCEPT !.job = j].job = j
  BY DEF Nobody, Procs
<1> QED BY <1>2, <1>3, <1>4

\* The bootstrap of the state directory comes before everything else.
LEMMA BootstrapKeeps ==
    ASSUME RootfsInv, UNCHANGED kata, Bootstrap \/ BootstrapStep \/ BootstrapFails
    PROVE  RootfsInv'
<1>a. TypeInv /\ TreeInv /\ LeaseInv /\ PlanInv
  BY DEF RootfsInv
<1>1. CASE Bootstrap \/ BootstrapStep
  <2>1. UNCHANGED treeVars /\ disk' = disk /\ safe' = safe /\ led' = led /\ route' = route
    BY <1>a, <1>1 DEF Bootstrap, BootstrapStep, treeVars
  <2>2. boot < 3 \/ proc.job = "boot"
    BY <1>a, <1>1 DEF Bootstrap, BootstrapStep
  <2>3. proc' \in Procs /\ proc'.job = "boot" /\ boot' \in 0..3 /\ built' = built /\ faults' = faults
    <3>1. CASE Bootstrap
      <4>1. proc' = [Nobody EXCEPT !.job = "boot"] /\ "boot" \in Jobs
        BY <3>1 DEF Bootstrap, Jobs
      <4> QED BY <3>1, <4>1, SessionProc DEF Bootstrap
    <3>2. CASE BootstrapStep
      BY <1>a, <3>2 DEF BootstrapStep, TypeInv
    <3> QED BY <1>a, <1>1, <3>1, <3>2
  <2>4. led.phase = "absent" /\ kata = "absent"
    BY <1>a, <2>2 DEF LeaseInv, JobInv
  <2>5. TypeInv'
    BY <1>a, <2>1, <2>3 DEF TypeInv
  <2>6. TreeInv'
    BY <1>a, <2>1, <2>3, TreeRests
  <2>7. LeaseInv'
    BY <1>a, <2>1, <2>3, <2>4 DEF LeaseInv, AuthInv, JobInv, KataInv, WholeInv
  <2>8. PlanInv'
    BY <1>a, <2>3 DEF PlanInv
  <2> QED BY <1>a, <2>5, <2>6, <2>7, <2>8 DEF RootfsInv
<1>2. CASE BootstrapFails
  <2>1. UNCHANGED <<treeVars, boot, route, kata>> /\ proc' = Nobody /\ built' = built /\ faults' = faults + 1
    BY <1>a, <1>2 DEF BootstrapFails, Fails
  <2>2. built' \in Nat /\ faults' \in Nat
    BY <1>a, <2>1 DEF TypeInv
  <2> QED BY <1>a, <2>1, <2>2, RestKeeps, SessionProc
<1> QED BY <1>a, <1>1, <1>2

\* A build ends, or fails: the same process goes on to remove the tree.
LEMMA EndKeeps ==
    ASSUME RootfsInv, UNCHANGED kata, BuildDone \/ Fail \/ Undone \/ UndoFails \/ OpenSession \/ RecoverOwned \/ CleanFails
    PROVE  RootfsInv'
<1>a. TypeInv /\ TreeInv /\ LeaseInv /\ PlanInv
  BY DEF RootfsInv
<1>0. built \in Nat /\ faults \in Nat /\ faults + 1 \in Nat /\ built + 1 \in Nat /\ led \in Ledgers
  BY <1>a DEF TypeInv
<1>1. CASE BuildDone
  <2>1. UNCHANGED <<treeVars, boot, route>> /\ built' \in Nat /\ faults' \in Nat /\ kata' = kata
    BY <1>a, <1>1, <1>0 DEF BuildDone
  <2>2. proc' \in Procs /\ proc'.job = "clean"
    BY <1>a, <1>1 DEF BuildDone, Nobody, Procs, Jobs
  <2>3. Status(led, disk) = "active"
    BY <1>a, <1>1 DEF BuildDone, Postwalk
  <2>4. CleanupAllowed(led, disk)
    BY <1>a, <2>3 DEF CleanupAllowed
  <2>5. led.auth # "prestage"
    BY <1>a, <1>1 DEF BuildDone, LeaseInv, AuthInv, JobInv
  <2> QED BY <1>a, <2>1, <2>2, <2>4, <2>5, OpenKeeps
<1>2. CASE Fail
  <2>1. UNCHANGED treeVars /\ disk' = disk /\ safe' = safe /\ led' = led /\ route' = route /\ boot' = boot
    BY <1>a, <1>2 DEF Fail, treeVars
  <2>2. proc.job = "work" /\ proc' \in Procs /\ proc'.job = "undo" /\ proc'.made = proc.made
    BY <1>a, <1>2 DEF Fail, Fails, TypeInv, Procs, Jobs
  <2>3. built' \in Nat /\ faults' \in Nat
    BY <1>a, <1>2, <1>0 DEF Fail, Fails
  <2>4. TypeInv'
    BY <1>a, <2>1, <2>2, <2>3 DEF TypeInv
  <2>5. TreeInv'
    BY <1>a, <2>1, <2>2, TreeFails
  <2>6. LeaseInv'
    BY <1>a, <2>1, <2>2 DEF LeaseInv, AuthInv, JobInv, KataInv, WholeInv
  <2>7. PlanInv'
    BY <1>a, <2>2 DEF PlanInv
  <2> QED BY <1>a, <2>4, <2>5, <2>6, <2>7 DEF RootfsInv
<1>3. CASE Undone \/ UndoFails
  <2>1. UNCHANGED treeVars /\ disk' = disk /\ safe' = safe /\ led' = led /\ route' = route /\ boot' = boot
    BY <1>a, <1>3 DEF Undone, UndoFails, treeVars
  <2>2. proc.job = "undo" /\ proc' \in Procs /\ proc'.job = "open"
    <3>1. proc.job = "undo" /\ proc' = [Nobody EXCEPT !.job = "open"] /\ "open" \in Jobs
      BY <1>3 DEF Undone, UndoFails, Fails, Jobs
    <3> QED BY <3>1, SessionProc
  <2>3. built' \in Nat /\ faults' \in Nat
    BY <1>a, <1>3, <1>0 DEF Undone, UndoFails, Fails
  <2>4. TypeInv'
    BY <1>a, <2>1, <2>2, <2>3 DEF TypeInv
  <2>5. TreeInv'
    BY <1>a, <2>1, <2>2, TreeRests
  <2>6. LeaseInv'
    BY <1>a, <2>1, <2>2 DEF LeaseInv, AuthInv, JobInv, KataInv, WholeInv
  <2>7. PlanInv'
    BY <1>a, <2>2 DEF PlanInv
  <2> QED BY <1>a, <2>4, <2>5, <2>6, <2>7 DEF RootfsInv
<1>4. CASE OpenSession \/ RecoverOwned
  <2>1. UNCHANGED <<treeVars, boot, route, kata>> /\ built' \in Nat /\ faults' \in Nat /\ kata' = kata
    BY <1>a, <1>4, <1>0 DEF OpenSession, RecoverOwned
  <2>2. CASE OpensFor("none")
    <3>1. proc' = Session(RecoveryOrigin(led))
      BY <1>a, <1>4, <2>2 DEF OpenSession, RecoverOwned
    <3>2. proc' \in Procs /\ proc'.job = "clean"
      BY <1>a, <3>1, SessionProc
    <3> QED BY <1>a, <2>1, <2>2, <3>2, OpensFacts, OpenKeeps
  <2>3. CASE ~OpensFor("none")
    <3>1. proc' = Nobody
      BY <1>a, <1>4, <2>3 DEF OpenSession, RecoverOwned
    <3> QED BY <1>a, <2>1, <3>1, SessionProc, RestKeeps
  <2> QED BY <1>a, <2>2, <2>3
<1>5. CASE CleanFails
  <2>1. UNCHANGED <<treeVars, boot, route, kata>> /\ built' \in Nat /\ faults' \in Nat /\ proc' = Nobody
    BY <1>a, <1>5, <1>0 DEF CleanFails, Fails
  <2> QED BY <1>a, <2>1, SessionProc, RestKeeps
<1> QED BY <1>a, <1>1, <1>2, <1>3, <1>4, <1>5

\* Custody of a lease begins and ends with the operation's journal.
LEMMA HoldKeeps ==
    ASSUME RootfsInv,
           \/ MarkLeasedFails \/ KataBegin \/ KataAdmit \/ Abandon \/ KataReady \/ ReopenLease \/ SettleRelease
           \/ ReleaseFails \/ ResumeRelease \/ ProveAbsence \/ PrestageOpen \/ SettlePrestage
    PROVE  RootfsInv'
<1>a. TypeInv /\ TreeInv /\ LeaseInv /\ PlanInv
  BY DEF RootfsInv
<1>0. built \in Nat /\ faults \in Nat /\ faults + 1 \in Nat /\ led \in Ledgers
  BY <1>a DEF TypeInv
<1>1. CASE MarkLeasedFails \/ Abandon \/ ReleaseFails
  <2>1. UNCHANGED <<treeVars, boot, route, kata>> /\ built' \in Nat /\ faults' \in Nat /\ proc' = Nobody
    BY <1>a, <1>1, <1>0 DEF MarkLeasedFails, Abandon, ReleaseFails, Fails
  <2> QED BY <1>a, <2>1, SessionProc, RestKeeps
<1>2. CASE KataBegin \/ KataAdmit \/ KataReady \/ ProveAbsence
  <2>1. /\ UNCHANGED treeVars /\ disk' = disk /\ safe' = safe /\ led' = led /\ route' = route /\ boot' = boot
        /\ proc' = proc /\ built' = built /\ faults' = faults
    BY <1>a, <1>2 DEF KataBegin, KataAdmit, KataReady, ProveAbsence, builderVars, procVars, treeVars
  <2>2. proc'.job \in {"held", "none"}
    BY <1>a, <1>2, <2>1 DEF KataBegin, KataAdmit, KataReady, ProveAbsence, LockFree
  <2>3. TypeInv'
    BY <1>a, <1>2, <2>1 DEF TypeInv, KataBegin, KataAdmit, KataReady, ProveAbsence
  <2>4. TreeInv'
    BY <1>a, <2>1, <2>2, TreeRests
  <2>5. proc.job = "held" => led.phase = "leased"
    BY <1>a DEF LeaseInv, JobInv
  <2>7. led.phase = "leased" => route = "prebuilt"
    BY <1>a DEF LeaseInv, AuthInv, KataInv
  <2>8. LeaseInv'
    <3>1. CASE KataBegin
      BY <1>a, <3>1, <2>1, <2>2, <2>5, <2>7 DEF KataBegin, LeaseInv, AuthInv, JobInv, KataInv, WholeInv
    <3>2. CASE KataAdmit
      BY <1>a, <3>2, <2>1, <2>2, <2>5 DEF KataAdmit, LeaseInv, AuthInv, JobInv, KataInv, WholeInv
    <3>3. CASE KataReady
      BY <1>a, <3>3, <2>1 DEF KataReady, LockFree, LeaseInv, AuthInv, JobInv, KataInv, WholeInv
    <3>4. CASE ProveAbsence
      BY <1>a, <3>4, <2>1 DEF ProveAbsence, LockFree, Idle, LeaseInv, AuthInv, JobInv, KataInv, WholeInv, Unleased
    <3> QED BY <1>a, <1>2, <3>1, <3>2, <3>3, <3>4
  <2>9. PlanInv'
    BY <1>a, <2>2 DEF PlanInv
  <2> QED BY <1>a, <2>3, <2>4, <2>8, <2>9 DEF RootfsInv
<1>3. CASE ReopenLease \/ PrestageOpen
  <2>1. UNCHANGED treeVars /\ disk' = disk /\ safe' = safe /\ led' = led /\ route' = route /\ boot' = boot /\ kata' = kata
    BY <1>a, <1>3 DEF ReopenLease, PrestageOpen, treeVars
  <2>2. proc' \in Procs /\ proc'.job \in {"authorize", "prestage"} /\ built' = built /\ faults' = faults
    <3>1. CASE ReopenLease
      <4>1. proc' = [Nobody EXCEPT !.job = "authorize"] /\ "authorize" \in Jobs
        BY <3>1 DEF ReopenLease, Jobs
      <4> QED BY <3>1, <4>1, SessionProc DEF ReopenLease
    <3>2. CASE PrestageOpen
      <4>1. proc' = [Nobody EXCEPT !.job = "prestage"] /\ "prestage" \in Jobs
        BY <3>2 DEF PrestageOpen, Jobs
      <4> QED BY <3>2, <4>1, SessionProc DEF PrestageOpen
    <3> QED BY <1>3, <3>1, <3>2
  <2>3. TypeInv'
    BY <1>a, <2>1, <2>2 DEF TypeInv
  <2>4. TreeInv'
    BY <1>a, <2>1, <2>2, TreeRests
  <2>5. LeaseInv'
    <3>1. CASE ReopenLease
      <4>1. proc'.job = "authorize" /\ kata = "ready"
        BY <1>a, <3>1 DEF ReopenLease, Nobody
      <4> QED BY <1>a, <4>1, <2>1 DEF LeaseInv, AuthInv, JobInv, KataInv, WholeInv
    <3>2. CASE PrestageOpen
      <4>1. proc'.job = "prestage" /\ kata \in {"absent", "begun"} /\ boot = 3
        BY <1>a, <3>2 DEF PrestageOpen, Nobody
      <4>2. led.phase = "leased" \/ led.auth = "prestage"
        BY <1>a, <3>2, <1>0, StatusFacts DEF PrestageOpen, CleanupOrigin, Ledgers
      <4> QED BY <1>a, <4>1, <4>2, <2>1 DEF LeaseInv, AuthInv, JobInv, KataInv, WholeInv
    <3> QED BY <1>a, <1>3, <3>1, <3>2
  <2>6. PlanInv'
    BY <1>a, <2>2 DEF PlanInv
  <2> QED BY <1>a, <2>3, <2>4, <2>5, <2>6 DEF RootfsInv
<1>4. CASE SettleRelease
  <2>1. UNCHANGED treeVars /\ disk' = disk /\ safe' = safe /\ led' = led /\ route' = route /\ boot' = boot
    BY <1>a, <1>4 DEF SettleRelease, treeVars
  <2>2. proc' \in Procs /\ proc'.job = "open" /\ built' = built /\ faults' = faults /\ kata' = "authorized" /\ proc.job = "authorize"
    BY <1>a, <1>4 DEF SettleRelease, Nobody, Procs, Jobs
  <2>3. led.phase = "release-authorized"
    BY <1>a, <1>4, <1>0, StatusFacts DEF SettleRelease
  <2>4. TypeInv'
    BY <1>a, <2>1, <2>2 DEF TypeInv
  <2>5. TreeInv'
    BY <1>a, <2>1, <2>2, TreeRests
  <2>6. LeaseInv'
    BY <1>a, <2>1, <2>2, <2>3 DEF LeaseInv, AuthInv, JobInv, KataInv, WholeInv
  <2>7. PlanInv'
    BY <1>a, <2>2 DEF PlanInv
  <2> QED BY <1>a, <2>4, <2>5, <2>6, <2>7 DEF RootfsInv
<1>5. CASE ResumeRelease
  <2>1. UNCHANGED <<treeVars, boot, route>> /\ built' \in Nat /\ faults' \in Nat /\ kata' = kata
    BY <1>a, <1>5, <1>0 DEF ResumeRelease
  <2>2. proc' = Session(RecoveryOrigin(led)) /\ OpensFor("none")
    BY <1>a, <1>5 DEF ResumeRelease
  <2>3. proc' \in Procs /\ proc'.job = "clean"
    BY <1>a, <2>2, SessionProc
  <2> QED BY <1>a, <2>1, <2>2, <2>3, OpensFacts, OpenKeeps
<1>6. CASE SettlePrestage
  <2>1. /\ UNCHANGED <<treeVars, boot, route>> /\ built' \in Nat /\ faults' \in Nat /\ kata' = "absent"
        /\ led.auth = "prestage" /\ proc.job = "prestage"
    BY <1>a, <1>6, <1>0 DEF SettlePrestage
  <2>2. CASE OpensFor("prestage")
    <3>1. proc' = Session(RecoveryOrigin(led)) /\ CleanupAllowed(led, disk)
      BY <1>a, <1>6, <2>2 DEF SettlePrestage, OpensFor
    <3>2. proc' \in Procs /\ proc'.job = "clean"
      BY <1>a, <3>1, SessionProc
    <3> QED BY <1>a, <2>1, <3>1, <3>2, OpenKeeps
  <2>3. CASE ~OpensFor("prestage")
    <3>1. proc' = Nobody
      BY <1>a, <1>6, <2>3 DEF SettlePrestage
    <3>2. disk' = disk /\ safe' = safe /\ led' = led /\ proc' \in Procs /\ proc'.job = "none"
      BY <1>a, <2>1, <3>1, SessionProc DEF treeVars
    <3>3. TypeInv'
      BY <1>a, <2>1, <3>2 DEF TypeInv
    <3>4. TreeInv'
      BY <1>a, <2>1, <3>2, TreeRests
    <3>5. LeaseInv'
      BY <1>a, <2>1, <3>2 DEF LeaseInv, AuthInv, JobInv, KataInv, WholeInv
    <3>6. PlanInv'
      BY <1>a, <3>2 DEF PlanInv
    <3> QED BY <1>a, <3>3, <3>4, <3>5, <3>6 DEF RootfsInv
  <2> QED BY <1>a, <2>2, <2>3
<1> QED BY <1>a, <1>1, <1>2, <1>3, <1>4, <1>5, <1>6

-----------------------------------------------------------------------------
(* Steps that write a record, or change the tree. *)

\* What the type invariant says of the parts.
LEMMA PartTypes ==
    ASSUME TypeInv
    PROVE  /\ led \in Ledgers /\ led.phase \in Phases /\ led.pend \in Records /\ led.own \in Trees
           /\ led.pend.path \in Names /\ led.pend.op \in Kinds \cup {"none"} /\ led.pend.pv \in Nat /\ led.pend.cv \in Nat
           /\ led.links \in 0..Len(Aliases) /\ led.ret \in Phases \cup {"none"}
           /\ disk \in Trees /\ safe \in Trees /\ proc \in Procs
           /\ \A n \in Nodes : disk[n] \in Nat /\ safe[n] \in Nat /\ led.own[n] \in Nat
BY DEF TypeInv, Ledgers, Records, Names, Trees

\* A record that moves the ledger from one quiet phase to another.
LEMMA TreePhase ==
    ASSUME TypeInv, TreeInv, disk' = disk, safe' = safe,
           led.phase \notin Pending \cup {"empty"}, led'.phase \in Phases, led'.phase \notin Pending \cup {"empty"},
           led'.own = led.own, led'.pend = led.pend, led'.ret = led.ret, led'.links = led.links,
           led'.phase \in Unleased \cup {"operation-absent", "retired"} => Bare(led.own),
           led'.phase \in Grown \cup {"leased"} => led.own["op"] # 0
    PROVE  TreeInv'
<1>1. led.pend.op = "none"
  BY DEF TreeInv, OwnInv
<1>2. OwnInv(led')
  BY <1>1 DEF TreeInv, OwnInv, Bare
<1>3. QuietInv'
  BY DEF TreeInv, QuietInv, Same
<1>4. PendOK(led')
  BY <1>1 DEF PendOK
<1>5. IntentInv' /\ ObservedInv'
  BY DEF IntentInv, ObservedInv, Pending
<1> QED BY <1>2, <1>3, <1>4, <1>5 DEF TreeInv

\* A ledger that owns nothing, over a tree without a name.
LEMMA TreeBare ==
    ASSUME Bare(disk'), Bare(safe'), Bare(led'.own), led'.phase \in Unleased, led'.pend.op = "none",
           led'.ret = "none", led'.links = 0, led'.phase # "empty" => safe' = disk'
    PROVE  TreeInv'
<1>1. led'.phase \notin Pending \cup Grown \cup {"leased"}
  BY DEF Unleased, Pending, Grown
<1>2. \A k \in 1..Len(Aliases) : led'.own[Aliases[k]] = 0 /\ ~(k <= led'.links)
  BY PathFacts DEF Bare
<1>3. OwnInv(led')
  BY <1>1, <1>2, PathFacts DEF OwnInv, Bare
<1>4. QuietInv'
  BY DEF QuietInv, Same, Bare
<1>5. PendOK(led')
  BY DEF PendOK
<1>6. IntentInv' /\ ObservedInv'
  BY <1>1 DEF IntentInv, ObservedInv, Pending
<1> QED BY <1>3, <1>4, <1>5, <1>6 DEF TreeInv

\* A change is announced.
LEMMA TreeIntends ==
    ASSUME TypeInv, TreeInv, disk' = disk, safe' = safe, led.phase \notin Pending \cup {"empty"},
           NEW op \in Kinds, NEW p \in Names, Acceptable(led, op, p, disk),
           led' = Intended(led, op, p, disk),
           op \in {"operation", "operation-remove"} <=> p = "op",
           op \in {"create", "candidate-tar"} => p \notin ToSet(Aliases),
           op \in Removals => led.own[p] # 0 /\ proc'.job \notin {"work", "undo"},
           op = "remove" /\ p \notin ToSet(Aliases) => led.links = 0,
           proc'.job \in {"work", "undo"} => proc'.made = FALSE
    PROVE  TreeInv' /\ led' \in Ledgers
<1>1. /\ led'.phase = "intent" /\ led'.ret = led.phase /\ led'.own = led.own /\ led'.links = led.links
      /\ led'.pend.op = op /\ led'.pend.path = p
  BY PartTypes DEF Intended, Ledgers
<1>2. led' \in Ledgers
  <2>1. disk[Parent(p)] \in Nat
    <3>1. Parent(p) \in Nodes
      BY PathFacts DEF Names
    <3> QED BY <3>1, PartTypes
  <2>2. [op |-> op, path |-> p, pv |-> disk[Parent(p)], cv |-> 0] \in Records
    BY <2>1 DEF Records, Names
  <2> QED BY <2>2, PartTypes DEF Intended, Ledgers, Phases
<1>3. led.pend.op = "none" /\ led.ret = "none"
  BY DEF TreeInv, OwnInv
<1>4. Same(disk, led.own) /\ Same(safe, led.own) /\ safe = disk
  BY DEF TreeInv, QuietInv
<1>5. op \in Kinds /\ op # "none"
  BY DEF Kinds
<1>6. OwnInv(led')
  BY <1>1, <1>5 DEF TreeInv, OwnInv, Pending, Unleased, Grown
<1>7. QuietInv'
  BY <1>1 DEF QuietInv, Pending
<1>8. PendOK(led')
  <2>1. op = "operation" => led.phase = "ready" /\ Bare(led.own)
    BY DEF Acceptable, TreeInv, OwnInv, Unleased
  <2>2. op # "operation" => led.phase \in Grown
    BY <1>5 DEF Acceptable, Kinds, Grown
  <2>3. op # "operation" => led.own["op"] # 0
    BY <2>2 DEF TreeInv, OwnInv
  <2>4. op \notin Removals \cup {"operation"} => led.phase = "active"
    BY <1>5 DEF Acceptable, Kinds, Removals
  <2>5. op # "metadata" /\ p # "op" => led.own[Parent(p)] # 0
    BY DEF Acceptable, ParentContinues
  <2>6. op = "candidate-tar" => led.own[p] = 0
    BY DEF Acceptable
  <2>7. op = "hardlink-create" => led.links < Len(Aliases) /\ p = Aliases[led.links + 1]
    BY DEF Acceptable
  <2>8. op = "operation-remove" => \A q \in Paths : led.own[q] = 0
    BY DEF Acceptable
  <2>9. op = "remove" => IF p \in ToSet(Aliases) THEN led.links > 0 /\ p = Aliases[led.links] ELSE led.links = 0
    BY DEF Acceptable
  <2> QED BY <1>1, <2>1, <2>2, <2>3, <2>4, <2>5, <2>6, <2>7, <2>8, <2>9 DEF PendOK, Bare
<1>9. IntentInv'
  <2>1. op = "hardlink-create" => led.own[p] = 0
    <3>1. op = "hardlink-create" => led.links + 1 \in 1..Len(Aliases) /\ p = Aliases[led.links + 1]
      BY PartTypes, AliasFacts DEF Acceptable
    <3>2. led.links \in Nat /\ \A k \in 1..Len(Aliases) : led.own[Aliases[k]] # 0 <=> k <= led.links
      BY PartTypes DEF TreeInv, OwnInv
    <3> QED BY <3>1, <3>2
  <2>2. op = "hardlink-create" => disk[p] = 0
    BY <2>1, <1>4 DEF Same
  <2>3. op \in Removals => disk[p] # 0
    BY <1>4 DEF Same
  <2>4. SameBut(disk, led.own, p) /\ SameBut(safe, led.own, p) /\ (led.own[p] # 0 => disk[p] # 0)
    BY <1>4 DEF Same, SameBut
  <2> QED BY <1>1, <1>4, <2>2, <2>3, <2>4 DEF IntentInv, Same, SameBut
<1>10. ObservedInv'
  BY <1>1 DEF ObservedInv
<1> QED BY <1>2, <1>6, <1>7, <1>8, <1>9, <1>10 DEF TreeInv

\* The directory of a name that comes or goes is there.
LEMMA ParentThere ==
    ASSUME TypeInv, TreeInv, led.phase \in Pending, led.pend.op # "metadata", led.pend.path # "op"
    PROVE  led.pend.path \in Paths /\ led.own[Parent(led.pend.path)] # 0 /\ disk[Parent(led.pend.path)] # 0
<1>1. led.pend.op # "none"
  BY DEF TreeInv, OwnInv
<1>2. led.pend.path \in Paths
  BY PartTypes DEF Names
<1>3. led.own[Parent(led.pend.path)] # 0
  BY <1>1 DEF TreeInv, PendOK
<1>4. Parent(led.pend.path) \in Names /\ Parent(led.pend.path) # led.pend.path
  BY <1>2, PathFacts
<1>5. SameBut(disk, led.own, led.pend.path)
  BY DEF TreeInv, IntentInv, ObservedInv, Pending
<1> QED BY <1>2, <1>3, <1>4, <1>5 DEF SameBut

\* The announced change is made.
LEMMA TreeMutates ==
    ASSUME TypeInv, TreeInv, led' = led, safe' = safe, led.phase = "intent", proc.job = "work", proc.made = FALSE,
           Possible(disk, led.pend.op, led.pend.path), disk' = Applied(disk, led.pend.op, led.pend.path),
           proc'.job = "work", proc'.made = TRUE
    PROVE  TreeInv' /\ disk' \in Trees
<1> DEFINE q == led.pend.path
           op == led.pend.op
<1>1. q \in Names /\ op \in Kinds /\ disk \in Trees /\ op # "none"
  BY PartTypes DEF TreeInv, OwnInv, Pending
<1>2. op \notin Removals /\ safe = disk /\ SameBut(disk, led.own, q)
  BY DEF TreeInv, IntentInv
<1>3. op # "metadata" /\ q # "op" => q \in Paths /\ disk[Parent(q)] # 0
  BY ParentThere DEF Pending
<1>4. op = "hardlink-create" => q \in ToSet(Aliases) /\ q # "op"
  <2>1. op = "hardlink-create" => led.links + 1 \in 1..Len(Aliases) /\ q = Aliases[led.links + 1]
    <3>1. op = "hardlink-create" => led.links < Len(Aliases) /\ q = Aliases[led.links + 1]
      BY <1>1 DEF TreeInv, PendOK
    <3>2. led.links \in 0..Len(Aliases) /\ Len(Aliases) \in Nat
      BY PartTypes, AliasFacts
    <3> QED BY <3>1, <3>2
  <2> QED BY <2>1, PathFacts
<1>5. CASE op \in Creations
  <2>1. disk[q] = 0 /\ (op = "hardlink-create" => disk[LinkTarget] # 0)
    BY <1>5 DEF Possible, Creations
  <2>2. disk' \in Trees /\ disk'[q] # 0 /\ SameBut(disk', disk, q)
    <3>1. CASE op = "hardlink-create"
      <4>1. disk' = Linked(disk, q)
        BY <3>1 DEF Applied
      <4> QED BY <4>1, <3>1, <1>1, <1>3, <1>4, LinkedTree
    <3>2. CASE op \in {"operation", "create", "candidate-tar"}
      <4>1. disk' = Made(disk, q)
        BY <3>2 DEF Applied
      <4>2. q # "op" => disk[Parent(q)] # 0
        BY <3>2, <1>3
      <4> QED BY <4>1, <4>2, <1>1, MadeTree
    <3> QED BY <1>5, <3>1, <3>2 DEF Creations
  <2>3. led.own[q] = 0
    BY <1>5, <2>1 DEF TreeInv, IntentInv
  <2>4. op = "hardlink-create" => led.own[LinkTarget] # 0
    <3>1. op = "hardlink-create" => LinkTarget \in Names /\ LinkTarget # q
      BY <1>4, AliasFacts, PathFacts
    <3> QED BY <3>1, <2>1, <1>2 DEF SameBut
  <2>5. SameBut(disk', led.own, q) /\ SameBut(safe, led.own, q)
    BY <1>2, <2>2 DEF SameBut
  <2>6. op \notin Removals \cup {"metadata"}
    BY <1>5 DEF Creations, Removals
  <2>7. IntentInv'
    BY <2>2, <2>3, <2>4, <2>5, <2>6 DEF IntentInv, SameBut
  <2> QED BY <2>2, <2>7 DEF TreeInv, OwnInv, QuietInv, PendOK, ObservedInv, Pending, Bare
<1>6. CASE op = "metadata"
  <2>1. disk[q] # 0 /\ disk' = Touched(disk, q)
    BY <1>6 DEF Possible, Applied
  <2>2. disk' \in Trees /\ disk'[q] # 0 /\ Same(disk', disk)
    BY <2>1, <1>1, TouchedTree
  <2>3. Same(disk, led.own) /\ Same(safe, led.own)
    BY <1>6 DEF TreeInv, IntentInv
  <2>4. Same(disk', led.own) /\ SameBut(disk', led.own, q) /\ SameBut(safe, led.own, q)
    BY <2>2, <2>3 DEF Same, SameBut
  <2>5. op \notin Removals \cup Creations
    BY <1>6 DEF Creations, Removals
  <2>6. IntentInv'
    BY <2>2, <2>3, <2>4, <2>5 DEF IntentInv, Same, SameBut
  <2> QED BY <2>2, <2>6 DEF TreeInv, OwnInv, QuietInv, PendOK, ObservedInv, Pending, Bare
<1> QED BY <1>1, <1>2, <1>5, <1>6 DEF Kinds, Creations, Removals

\* The changed tree is fsynced.
LEMMA TreeSyncs ==
    ASSUME TypeInv, TreeInv, led' = led, disk' = disk, safe' = disk, led.phase \in Pending, proc.job = "work",
           led.phase = "intent" => proc.made = TRUE, proc' = proc
    PROVE  TreeInv'
<1>1. OwnInv(led)' /\ PendOK(led)'
  BY DEF TreeInv, OwnInv, PendOK, Bare
<1>2. QuietInv'
  BY DEF QuietInv
<1>3. IntentInv'
  BY DEF TreeInv, IntentInv, Same, SameBut
<1>4. ObservedInv'
  BY DEF TreeInv, ObservedInv, Same, SameBut
<1> QED BY <1>1, <1>2, <1>3, <1>4 DEF TreeInv

\* The change is observed: the disk has it.
LEMMA TreeObserves ==
    ASSUME TypeInv, TreeInv, led' = Observed(led, disk), disk' = disk, safe' = safe \/ safe' = disk,
           led.phase = "intent", proc' = proc,
           \/ proc.job = "work" /\ proc.made = TRUE
           \/ proc.job = "clean" /\ led.pend.op = "candidate-tar" /\ disk[led.pend.path] # 0 /\ safe' = disk
           \/ proc.job = "clean" /\ led.pend.op = "remove" /\ disk[led.pend.path] = 0 /\ safe' = disk
    PROVE  TreeInv' /\ led' \in Ledgers
<1> DEFINE q == led.pend.path
           op == led.pend.op
           pv == disk[Parent(q)]
           cv == ObservedOf(op, q, disk)
<1>1. q \in Names /\ q \in Nodes /\ Parent(q) \in Nodes /\ op \in Kinds /\ op # "none" /\ disk \in Trees
  BY PartTypes, PathFacts DEF TreeInv, OwnInv, Pending, Names
<1>2. pv \in Nat /\ disk[q] \in Nat
  BY <1>1, PartTypes
<1>3. q \in ToSet(Aliases) => LinkTarget \in Names /\ LinkTarget # q
  BY AliasFacts, PathFacts
<1>4. cv \in Nat /\ (op # "remove" => cv = disk[q]) /\ (op = "remove" /\ q \in ToSet(Aliases) => cv = disk[LinkTarget])
  <2>1. q \in ToSet(Aliases) => disk[LinkTarget] \in Nat
    BY <1>3, PathFacts, PartTypes
  <2> QED BY <2>1, <1>2 DEF ObservedOf
<1>5. /\ led'.phase = "observed" /\ led'.own = led.own /\ led'.ret = led.ret /\ led'.links = led.links
      /\ led'.pend.op = op /\ led'.pend.path = q /\ led'.pend.pv = pv /\ led'.pend.cv = cv /\ led' \in Ledgers
  <2> HIDE DEF pv, cv
  <2>1. led' = [led EXCEPT !.phase = "observed", !.pend.pv = pv, !.pend.cv = cv]
    BY DEF Observed, pv, cv
  <2>2. led'.pend = [[led.pend EXCEPT !.pv = pv] EXCEPT !.cv = cv]
    BY <2>1, PartTypes DEF Ledgers
  <2>3. led'.pend \in Records /\ led'.pend.op = op /\ led'.pend.path = q
        /\ led'.pend.pv = pv /\ led'.pend.cv = cv
    <3>1. led.pend \in Records
      BY PartTypes
    <3> QED BY <2>2, <3>1, <1>2, <1>4 DEF Records
  <2>4. /\ led'.phase = "observed" /\ led'.own = led.own /\ led'.ret = led.ret
        /\ led'.links = led.links /\ led' = [led EXCEPT !.phase = "observed", !.pend = led'.pend]
    BY <2>1, <2>2, PartTypes DEF Ledgers
  <2>5. led' \in Ledgers
    <3> DEFINE r == led'.pend
    <3>1. r \in Records /\ led' = [led EXCEPT !.phase = "observed", !.pend = r]
      BY <2>3, <2>4
    <3> HIDE DEF r
    <3>2. led \in Ledgers
      BY PartTypes
    <3> QED BY <3>1, <3>2 DEF Ledgers, Phases
  <2> QED BY <2>3, <2>4, <2>5
<1>6. op # "metadata" /\ q # "op" => pv # 0
  BY ParentThere DEF Pending
<1>7. SameBut(disk, led.own, q) /\ SameBut(safe', led.own, q)
  BY DEF TreeInv, IntentInv
<1>8. op \in Creations => led.own[q] = 0 /\ disk[q] # 0 /\ (op = "hardlink-create" => led.own[LinkTarget] # 0)
  <2>1. CASE proc.job = "work"
    BY <2>1 DEF TreeInv, IntentInv
  <2>2. CASE proc.job = "clean"
    BY <2>2 DEF TreeInv, PendOK, Creations
  <2> QED BY <2>1, <2>2
<1>9. op = "metadata" => led.own[q] # 0 /\ disk[q] # 0 /\ Same(disk, led.own) /\ Same(safe', led.own)
  BY <1>1 DEF TreeInv, IntentInv, Same
<1>10. op \in Removals => /\ op = "remove" /\ disk[q] = 0 /\ safe' = disk /\ proc.job = "clean"
                          /\ Leaf(led.own, q)
  BY DEF TreeInv, IntentInv, Removals
<1>11. op \in Removals /\ q \in ToSet(Aliases) => cv # 0
  <2> SUFFICES ASSUME op \in Removals, q \in ToSet(Aliases) PROVE disk[LinkTarget] # 0
    BY <1>4, <1>10
  <2>1. led.links > 0 /\ led.own[LinkTarget] # 0
    BY <1>10 DEF TreeInv, PendOK, OwnInv
  <2> QED BY <2>1, <1>3, <1>7 DEF SameBut
<1> HIDE DEF pv, cv
<1>12. OwnInv(led')
  BY <1>5 DEF TreeInv, OwnInv, Pending, Unleased, Grown
<1>13. PendOK(led')
  BY <1>5 DEF TreeInv, PendOK, Bare
<1>14. ObservedInv'
  BY <1>4, <1>5, <1>6, <1>7, <1>8, <1>9, <1>10, <1>11 DEF ObservedInv, Creations, Removals, SameBut, Same, Leaf
<1>15. QuietInv' /\ IntentInv'
  BY <1>5 DEF QuietInv, IntentInv, Pending
<1> QED BY <1>5, <1>12, <1>13, <1>14, <1>15 DEF TreeInv

\* The change is settled: the ledger owns what the disk has.
LEMMA TreeSettles ==
    ASSUME TypeInv, TreeInv, led' = Settlement(led), disk' = disk, safe' = disk, led.phase = "observed",
           proc.job \in {"work", "clean"}
    PROVE  /\ TreeInv' /\ led' \in Ledgers /\ led'.pend.op = "none" /\ led'.phase \in Grown
           /\ \A p \in Names : led.pend.op \notin Removals /\ led.own[p] # 0 => led'.own[p] # 0
           /\ led.pend.op \in Creations => led'.own[led.pend.path] # 0
<1> DEFINE q == led.pend.path
           op == led.pend.op
           own == Settled(led.own, led.pend)
<1>1. q \in Names /\ op \in Kinds /\ op # "none" /\ led.pend \in Records /\ led.own \in Trees
  BY PartTypes DEF TreeInv, OwnInv, Pending
<1>2. PendOK(led) /\ OwnInv(led) /\ ObservedInv
  BY DEF TreeInv
<1>3. op \in Creations \cup {"metadata", "remove"} /\ op # "operation-remove"
  BY <1>1, <1>2 DEF ObservedInv, Kinds, Creations
<1>4. op # "metadata" /\ q # "op" => q \in Paths /\ led.own[Parent(q)] # 0 /\ led.pend.pv # 0
  BY <1>2, ParentThere DEF Pending, ObservedInv
<1>5. op = "remove" /\ led.pend.cv = 0 => \A n \in Group(q) : n # q => led.own[n] = 0
  <2> SUFFICES ASSUME op = "remove", led.pend.cv = 0, NEW n \in Group(q), n # q PROVE led.own[n] = 0
    OBVIOUS
  <2>1. q \notin ToSet(Aliases) /\ led.links = 0
    BY <1>2 DEF ObservedInv, PendOK, Removals
  <2>2. Aliases # <<>> /\ q = LinkTarget /\ n \in ToSet(Aliases)
    BY <2>1 DEF Group
  <2>3. PICK k \in 1..Len(Aliases) : n = Aliases[k]
    BY <2>2, AliasFacts
  <2> QED BY <2>1, <2>3, <1>2 DEF OwnInv
<1>6. op = "hardlink-create" => led.pend.cv # 0
  BY <1>2 DEF ObservedInv, Creations
<1>7. own \in Trees /\ own[q] = (IF op \in {"remove", "operation-remove"} THEN 0 ELSE led.pend.cv) /\ SameBut(own, led.own, q)
  BY <1>1, <1>4, <1>5, <1>6, SettledTree
<1>8. (op \in Creations \cup {"metadata"} => own[q] # 0) /\ (op = "remove" => own[q] = 0)
  BY <1>2, <1>7 DEF ObservedInv, Creations
<1> HIDE DEF own
<1>9. led'.own = own /\ led'.pend = NoPend /\ led'.ret = "none"
  BY PartTypes DEF Settlement, Ledgers, own
<1>10. led'.phase = (IF op = "operation" THEN "active" ELSE led.ret)
  BY PartTypes DEF Settlement, Ledgers
<1>11. led'.phase \in Grown
  BY <1>1, <1>2, <1>10 DEF PendOK, Grown
<1>12. /\ op = "hardlink-create" => led'.links = led.links + 1
       /\ op = "remove" /\ q \in ToSet(Aliases) => led'.links = led.links - 1
       /\ op # "hardlink-create" /\ ~(op = "remove" /\ q \in ToSet(Aliases)) => led'.links = led.links
  BY PartTypes DEF Settlement, Ledgers
<1>13. led.links \in Nat /\ Len(Aliases) \in Nat /\ led.links <= Len(Aliases)
  BY PartTypes, AliasFacts
<1>14. /\ op = "hardlink-create" => led.links < Len(Aliases) /\ q = Aliases[led.links + 1]
       /\ op = "remove" /\ q \in ToSet(Aliases) => led.links > 0 /\ q = Aliases[led.links]
       /\ op = "remove" /\ q \notin ToSet(Aliases) => led.links = 0
       /\ op \in {"create", "candidate-tar", "operation"} => q \notin ToSet(Aliases)
  BY <1>1, <1>2, PathFacts, AliasFacts DEF PendOK
<1>15. led'.links \in 0..Len(Aliases)
  BY <1>12, <1>13, <1>14
<1>16. led' \in Ledgers
  <2>1. NoPend \in Records
    BY DEF NoPend, Records
  <2>2. led'.phase \in Phases
    BY <1>11 DEF Grown, Phases
  <2> QED BY <2>1, <2>2, <1>7, <1>9, <1>15, PartTypes DEF Settlement, Ledgers
<1>17. \A p \in Names : op \notin Removals /\ led.own[p] # 0 => own[p] # 0
  BY <1>3, <1>7, <1>8 DEF SameBut, Removals
<1>18. OwnInv(led')
  <2>1. ASSUME NEW p \in Paths, own[p] # 0 PROVE own[Parent(p)] # 0
    <3>1. p \in Names /\ Parent(p) \in Names /\ Parent(p) # p
      BY PathFacts
    <3>2. CASE p = q
      BY <2>1, <3>1, <3>2, <1>3, <1>4, <1>7, <1>8, PathFacts, <1>2 DEF SameBut, OwnInv, ObservedInv
    <3>3. CASE p # q
      <4>1. led.own[p] # 0 /\ led.own[Parent(p)] # 0
        BY <2>1, <3>1, <3>3, <1>7, <1>2 DEF SameBut, OwnInv
      <4>2. op = "remove" => Parent(p) # q
        BY <4>1, <1>2 DEF ObservedInv, Leaf, Removals
      <4> QED BY <4>1, <4>2, <3>1, <1>3, <1>7, <1>8 DEF SameBut
    <3> QED BY <3>2, <3>3
  <2>2. ASSUME NEW k \in 1..Len(Aliases) PROVE own[Aliases[k]] # 0 <=> k <= led'.links
    <3>1. Aliases[k] \in ToSet(Aliases) /\ Aliases[k] \in Names /\ (led.own[Aliases[k]] # 0 <=> k <= led.links)
      BY PathFacts, <1>2 DEF OwnInv
    <3>2. Aliases[k] # q => (own[Aliases[k]] # 0 <=> led.own[Aliases[k]] # 0)
      BY <3>1, <1>7 DEF SameBut
    <3>3. CASE op = "hardlink-create"
      <4>1. led.links + 1 \in 1..Len(Aliases)
        BY <3>3, <1>13, <1>14
      <4>2. Aliases[k] = q <=> k = led.links + 1
        BY <3>3, <4>1, <1>14, AliasFacts
      <4>3. own[q] # 0
        BY <3>3, <1>8 DEF Creations
      <4> QED BY <3>1, <3>2, <3>3, <4>2, <4>3, <1>12, <1>13
    <3>4. CASE op = "remove" /\ q \in ToSet(Aliases)
      <4>1. led.links \in 1..Len(Aliases)
        BY <3>4, <1>13, <1>14
      <4>2. Aliases[k] = q <=> k = led.links
        BY <3>4, <4>1, <1>14, AliasFacts
      <4>3. own[q] = 0
        BY <3>4, <1>8
      <4> QED BY <3>1, <3>2, <3>4, <4>2, <4>3, <1>12, <1>13
    <3>5. CASE op = "metadata"
      <4>1. own[q] # 0 /\ led.own[q] # 0
        BY <3>5, <1>2, <1>8 DEF ObservedInv
      <4> QED BY <3>1, <3>2, <3>5, <4>1, <1>12
    <3>6. CASE op \in {"create", "candidate-tar", "operation"} \/ (op = "remove" /\ q \notin ToSet(Aliases))
      <4>1. Aliases[k] # q
        BY <3>6, <3>1, <1>14
      <4> QED BY <3>1, <3>2, <3>6, <4>1, <1>12
    <3> QED BY <3>3, <3>4, <3>5, <3>6, <1>3 DEF Creations
  <2>3. led'.links > 0 => own[LinkTarget] # 0
    <3> SUFFICES ASSUME led'.links > 0 PROVE own[LinkTarget] # 0
      OBVIOUS
    <3>1. Aliases # <<>>
      BY <1>15, AliasFacts
    <3>2. LinkTarget \in Names /\ LinkTarget \notin ToSet(Aliases)
      BY <3>1, AliasFacts, PathFacts
    <3>3. led.own[LinkTarget] # 0
      BY <1>2, <1>12, <1>13 DEF OwnInv, ObservedInv, Creations
    <3>4. op = "remove" => LinkTarget # q
      BY <3>2, <1>12, <1>14
    <3> QED BY <3>2, <3>3, <3>4, <1>3, <1>7, <1>8 DEF SameBut
  <2>4. own["op"] # 0
    <3>1. op = "operation" => q = "op"
      BY <1>1, <1>2 DEF PendOK
    <3>2. op # "operation" => led.own["op"] # 0 /\ q # "op"
      BY <1>1, <1>2, <1>3 DEF PendOK, Creations
    <3> QED BY <3>1, <3>2, <1>7, <1>8, PathFacts DEF SameBut, Creations
  <2>5. led'.phase \notin Unleased \cup {"operation-absent", "retired"} \cup Pending /\ led'.pend.op = "none"
    BY <1>9, <1>11 DEF Grown, Unleased, Pending, NoPend
  <2> QED BY <1>9, <2>1, <2>2, <2>3, <2>4, <2>5 DEF OwnInv
<1>19. Same(disk, own)
  <2>1. SameBut(disk, led.own, q)
    BY <1>2 DEF ObservedInv
  <2>2. disk[q] # 0 <=> own[q] # 0
    BY <1>1, <1>2, <1>3, <1>8 DEF ObservedInv, Same, Removals
  <2> QED BY <2>1, <2>2, <1>7 DEF Same, SameBut
<1>20. QuietInv'
  BY <1>9, <1>19 DEF QuietInv, Same
<1>21. led'.pend.op = "none" /\ led'.phase \notin Pending
  BY <1>9, <1>11 DEF NoPend, Grown, Pending
<1>22. PendOK(led') /\ IntentInv' /\ ObservedInv'
  BY <1>21 DEF PendOK, IntentInv, ObservedInv, Pending
<1> QED BY <1>8, <1>9, <1>11, <1>16, <1>17, <1>18, <1>20, <1>21, <1>22 DEF TreeInv

\* The announced creation is taken back: the name is not there.
LEMMA TreeAborts ==
    ASSUME TypeInv, TreeInv, led' = Aborted(led, disk), disk' = disk, safe' = safe, led.phase = "intent",
           \/ led.pend.op \in {"create", "hardlink-create"} /\ disk[led.pend.path] = 0
           \/ led.pend.op \in Creations /\ disk = led.own
    PROVE  TreeInv' /\ led' \in Ledgers /\ led'.pend.op = "none"
           /\ led'.phase = (IF led.pend.op = "operation" THEN "aborted" ELSE "active")
<1> DEFINE q == led.pend.path
           op == led.pend.op
           own == IF op \in {"create", "hardlink-create"} THEN Withdrawn(led.own, led.pend, disk) ELSE led.own
<1>1. q \in Names /\ op \in Creations /\ op # "none" /\ led.pend \in Records /\ led.own \in Trees /\ disk \in Trees
  BY PartTypes DEF Creations
<1>2. PendOK(led) /\ OwnInv(led) /\ IntentInv
  BY DEF TreeInv
<1>3. SameBut(disk, led.own, q) /\ (led.own[q] # 0 => disk[q] # 0)
  BY <1>1, <1>2 DEF IntentInv
<1>4. Same(disk, led.own)
  BY <1>3 DEF SameBut, Same
<1>5. safe = disk
  BY <1>1, <1>2 DEF IntentInv
<1>6. own \in Trees /\ Same(own, led.own)
  <2>1. CASE op \in {"create", "hardlink-create"}
    <3>1. q \in Paths
      BY <2>1, <1>1, <1>2 DEF PendOK, Names
    <3> QED BY <2>1, <3>1, <1>1, <1>3, WithdrawnTree
  <2>2. CASE op \notin {"create", "hardlink-create"}
    BY <2>2, <1>1 DEF Same
  <2> QED BY <2>1, <2>2
<1> HIDE DEF own
<1>7. /\ led'.own = own /\ led'.pend = NoPend /\ led'.ret = "none" /\ led'.links = led.links
      /\ led'.phase = (IF op = "operation" THEN "aborted" ELSE led.ret)
  BY PartTypes DEF Aborted, Ledgers, own
<1>8. op # "operation" => led.ret = "active"
  BY <1>1, <1>2 DEF PendOK, Creations, Removals
<1>9. led' \in Ledgers
  <2>1. NoPend \in Records
    BY DEF NoPend, Records
  <2>2. led'.phase \in Phases
    BY <1>7, <1>8 DEF Phases
  <2> QED BY <2>1, <2>2, <1>6, <1>7, PartTypes DEF Aborted, Ledgers
<1>10. OwnInv(led')
  <2>1. ASSUME NEW p \in Paths, own[p] # 0 PROVE own[Parent(p)] # 0
    BY <2>1, <1>2, <1>6, PathFacts DEF OwnInv, Same
  <2>2. ASSUME NEW k \in 1..Len(Aliases) PROVE own[Aliases[k]] # 0 <=> k <= led.links
    BY <1>2, <1>6, PathFacts DEF OwnInv, Same
  <2>3. led.links > 0 => own[LinkTarget] # 0
    BY <1>2, <1>6, PathFacts, AliasFacts, PartTypes DEF OwnInv, Same
  <2>4. op = "operation" => Bare(own)
    BY <1>1, <1>2, <1>6 DEF PendOK, Bare, Same
  <2>5. op # "operation" => own["op"] # 0
    BY <1>1, <1>2, <1>6, PathFacts DEF PendOK, Same
  <2>6. op = "operation" => led'.phase \notin Pending \cup Grown \cup {"leased"}
    BY <1>7 DEF Pending, Grown
  <2>7. op # "operation" => led'.phase \notin Pending \cup Unleased \cup {"operation-absent", "retired"}
    BY <1>7, <1>8 DEF Pending, Unleased
  <2> QED BY <1>7, <2>1, <2>2, <2>3, <2>4, <2>5, <2>6, <2>7 DEF OwnInv, NoPend
<1>11. led'.pend.op = "none" /\ led'.phase \notin Pending
  BY <1>7, <1>8 DEF NoPend, Pending
<1>12. QuietInv'
  BY <1>4, <1>5, <1>6, <1>7 DEF QuietInv, Same
<1>13. PendOK(led') /\ IntentInv' /\ ObservedInv'
  BY <1>11 DEF PendOK, IntentInv, ObservedInv, Pending
<1> QED BY <1>7, <1>8, <1>9, <1>10, <1>11, <1>12, <1>13 DEF TreeInv

\* A failed step takes its own name back.
LEMMA TreeUndoes ==
    ASSUME TypeInv, TreeInv, led' = led, led.phase = "intent", proc.job = "undo", proc' = proc,
           led.pend.op \in {"operation", "create", "hardlink-create"}, proc.made = TRUE,
           disk' = Unlinked(disk, led.pend.path), safe' = disk'
    PROVE  TreeInv' /\ disk' \in Trees
<1> DEFINE q == led.pend.path
<1>1. q \in Names /\ led.pend.op \in Creations /\ disk \in Trees /\ led.pend.op \notin Removals \cup {"metadata"}
  BY PartTypes DEF Creations, Removals
<1>2. q # "op" => disk[Parent(q)] # 0
  BY ParentThere DEF Pending
<1>3. disk' \in Trees /\ disk'[q] = 0 /\ SameBut(disk', disk, q)
  BY <1>1, <1>2, UnlinkedTree
<1>4. SameBut(disk, led.own, q) /\ led.own[q] = 0
  BY <1>1 DEF TreeInv, IntentInv
<1>5. SameBut(disk', led.own, q)
  BY <1>3, <1>4 DEF SameBut
<1>6. IntentInv'
  BY <1>1, <1>3, <1>4, <1>5 DEF IntentInv, SameBut
<1> QED BY <1>3, <1>6 DEF TreeInv, OwnInv, QuietInv, PendOK, ObservedInv, Pending, Bare

\* A name of the tree that no other is under is removed.
LEMMA TreeRemoves ==
    ASSUME TypeInv, TreeInv, led' = led, led.phase = "intent", proc.job = "clean", proc' = proc, safe' = safe,
           led.pend.op \in Removals, disk = led.own,
           Isdir(led.pend.path) => Empty(disk, led.pend.path),
           disk' = Unlinked(disk, led.pend.path)
    PROVE  TreeInv' /\ disk' \in Trees
<1> DEFINE q == led.pend.path
<1>1. q \in Names /\ disk \in Trees /\ led.pend.op \notin Creations \cup {"metadata"}
  BY PartTypes DEF Creations, Removals
<1>2. q # "op" => disk[Parent(q)] # 0
  BY ParentThere, <1>1 DEF Pending
<1>3. disk' \in Trees /\ disk'[q] = 0 /\ SameBut(disk', disk, q)
  BY <1>1, <1>2, UnlinkedTree
<1>4. SameBut(disk', led.own, q) /\ SameBut(safe, led.own, q) /\ Same(safe, led.own)
  BY <1>3 DEF TreeInv, IntentInv, SameBut
<1>5. Leaf(led.own, q)
  <2> SUFFICES ASSUME NEW p \in Paths, Parent(p) = q PROVE led.own[p] = 0
    BY DEF Leaf
  <2>1. Isdir(q)
    <3>1. CASE p \in Planned
      <4>1. Parent(p) = ParentOf[p] /\ ParentOf[p] \in ToSet(Dirs) \cup {"rootfs"}
        BY <3>1, PlanAssumption DEF Parent, Fixed
      <4> QED BY <4>1 DEF Isdir
    <3>2. CASE p \in Fixed
      <4>1. Parent(p) = "op"
        BY <3>2, PlanAssumption DEF Parent, Fixed
      <4> QED BY <4>1 DEF Isdir
    <3> QED BY <3>1, <3>2 DEF Paths
  <2> QED BY <2>1 DEF Empty
<1>6. IntentInv'
  BY <1>1, <1>3, <1>4, <1>5 DEF IntentInv, SameBut, Same, Leaf
<1> QED BY <1>3, <1>6 DEF TreeInv, OwnInv, QuietInv, PendOK, ObservedInv, Pending, Bare

\* The operation directory is gone, and with it the last name.
LEMMA TreeEnds ==
    ASSUME TypeInv, TreeInv, led.phase = "intent", led.pend.op = "operation-remove",
           disk = Unlinked(led.own, led.pend.path), disk' = disk, safe' = disk, led' = OperationAbsent(led, disk)
    PROVE  TreeInv' /\ led' \in Ledgers
<1> DEFINE r == [led.pend EXCEPT !.pv = disk["state"]]
           own == Settled(led.own, r)
<1>1. led.pend.path = "op" /\ led.own \in Trees /\ led.own["op"] # 0 /\ \A p \in Paths : led.own[p] = 0
  BY PartTypes DEF TreeInv, PendOK, Removals
<1>2. r \in Records /\ r.op = "operation-remove" /\ r.path = "op"
  <2>1. disk["state"] \in Nat
    BY PathFacts, PartTypes
  <2> QED BY <2>1, <1>1, PartTypes DEF Records
<1> HIDE DEF r
<1>3. own \in Trees /\ own["op"] = 0 /\ SameBut(own, led.own, "op")
  <2>1. Settled(led.own, r) \in Trees /\ Settled(led.own, r)[r.path] = 0 /\ SameBut(Settled(led.own, r), led.own, r.path)
    BY <1>1, <1>2, SettledTree
  <2> QED BY <2>1, <1>2
<1>4. Bare(own)
  BY <1>1, <1>3, PathFacts DEF Bare, SameBut, Names
<1>5. Bare(disk)
  <2>1. disk["op"] = 0 /\ SameBut(disk, led.own, "op")
    BY <1>1, UnlinkedTree, PathFacts
  <2> QED BY <2>1, <1>1, PathFacts DEF Bare, SameBut, Names
<1> HIDE DEF own
<1>6. led'.own = own /\ led'.pend = NoPend /\ led'.ret = "none" /\ led'.phase = "operation-absent" /\ led'.links = led.links
  BY PartTypes DEF OperationAbsent, Ledgers, own, r
<1>7. led.links = 0
  <2> SUFFICES ASSUME led.links # 0 PROVE FALSE
    OBVIOUS
  <2>1. led.links \in 1..Len(Aliases) /\ led.links <= led.links
    BY PartTypes, AliasFacts
  <2>2. led.own[Aliases[led.links]] # 0
    BY <2>1 DEF TreeInv, OwnInv
  <2> QED BY <2>1, <2>2, <1>1, PathFacts
<1>8. led' \in Ledgers
  <2>1. NoPend \in Records /\ "operation-absent" \in Phases
    BY DEF NoPend, Records, Phases
  <2> QED BY <2>1, <1>3, <1>6, PartTypes DEF OperationAbsent, Ledgers
<1>9. OwnInv(led')
  <2>1. \A k \in 1..Len(Aliases) : own[Aliases[k]] = 0 /\ ~(k <= 0)
    BY <1>4, PathFacts DEF Bare
  <2> QED BY <1>4, <1>6, <1>7, <2>1, PathFacts DEF OwnInv, Bare, NoPend, Pending, Grown
<1>10. QuietInv'
  BY <1>4, <1>5, <1>6 DEF QuietInv, Same, Bare
<1>11. PendOK(led') /\ IntentInv' /\ ObservedInv'
  BY <1>6 DEF PendOK, IntentInv, ObservedInv, NoPend
<1> QED BY <1>8, <1>9, <1>10, <1>11 DEF TreeInv

\* A death loses what was not fsynced.
LEMMA TreeCrashes ==
    ASSUME TypeInv, TreeInv, led' = led, led.phase # "empty", disk' = safe, safe' = safe, proc'.job = "none"
    PROVE  TreeInv'
<1>1. OwnInv(led)' /\ PendOK(led)'
  BY DEF TreeInv, OwnInv, PendOK, Bare
<1>2. QuietInv'
  BY DEF TreeInv, QuietInv, Same
<1>3. IntentInv'
  <2> DEFINE q == led.pend.path
  <2> SUFFICES ASSUME led.phase = "intent" PROVE IntentInv'
    BY DEF IntentInv
  <2>1. led.pend.op # "none" /\ q \in Names
    BY PartTypes DEF TreeInv, OwnInv, Pending
  <2>2. led.pend.op \in Creations /\ led.own[q] # 0 => safe[q] # 0
    BY DEF TreeInv, IntentInv
  <2>3. led.pend.op = "hardlink-create" /\ safe[q] # 0 => led.own[LinkTarget] # 0
    BY DEF TreeInv, IntentInv, Creations
  <2>4. led.pend.op \in Removals => safe[q] # 0
    BY <2>1 DEF TreeInv, IntentInv, PendOK, Same
  <2> QED BY <2>1, <2>2, <2>3, <2>4 DEF TreeInv, IntentInv, Same, SameBut
<1>4. ObservedInv'
  BY DEF TreeInv, ObservedInv, Same, SameBut, Leaf
<1> QED BY <1>1, <1>2, <1>3, <1>4 DEF TreeInv

-----------------------------------------------------------------------------
(* The actions of a building process. *)

\* A ledger that owns nothing has no link.
LEMMA BareLinks ==
    ASSUME TypeInv, TreeInv, Bare(led.own)
    PROVE  led.links = 0
<1> SUFFICES ASSUME led.links # 0 PROVE FALSE
  OBVIOUS
<1>1. led.links \in 1..Len(Aliases) /\ led.links <= led.links
  BY PartTypes, AliasFacts
<1>2. led.own[Aliases[led.links]] # 0
  BY <1>1 DEF TreeInv, OwnInv
<1> QED BY <1>1, <1>2, PathFacts DEF Bare

\* What a building process writes changes nothing for the operation's journal.
LEMMA LeaseWorks ==
    ASSUME LeaseInv, proc.job \in {"work", "undo"}, proc'.job = proc.job, UNCHANGED <<boot, route, kata>>,
           led.phase # "absent", led'.leased = led.leased, led'.auth = led.auth,
           led'.phase \in {"empty", "genesis", "ready", "intent", "observed", "active"},
           led'.ret \in {"none", "ready", "active"}
    PROVE  LeaseInv'
<1>1. ~led.leased /\ kata = "absent" /\ led.auth = "none" /\ ~(boot < 3)
  BY DEF LeaseInv, JobInv, AuthInv
<1>2. AuthInv(led')
  BY <1>1 DEF LeaseInv, JobInv, AuthInv, Unleased, Grown, Pending
<1>3. JobInv'
  BY <1>1 DEF LeaseInv, JobInv, AuthInv
<1>4. KataInv' /\ WholeInv'
  BY <1>1 DEF LeaseInv, JobInv, AuthInv, KataInv, WholeInv
<1> QED BY <1>2, <1>3, <1>4 DEF LeaseInv

\* A build begins with an empty ledger and a genesis record.
LEMMA BeginKeeps ==
    ASSUME RootfsInv, UNCHANGED kata, Begin \/ WriteGenesis
    PROVE  RootfsInv'
<1>a. TypeInv /\ TreeInv /\ LeaseInv /\ PlanInv
  BY DEF RootfsInv
<1>b. led.phase \in {"absent", "empty"} /\ UNCHANGED <<boot, route, built, faults>>
  BY DEF Begin, WriteGenesis, Idle, procVars
<1>c. Bare(led.own) /\ led.pend.op = "none" /\ led.ret = "none" /\ led.phase \notin Pending
  BY <1>a, <1>b DEF TreeInv, OwnInv, Unleased, Pending
<1>d. Bare(disk) /\ Bare(safe)
  BY <1>a, <1>c DEF TreeInv, QuietInv, Same, Bare
<1>1. CASE Begin
  <2>1. led' = [Absent EXCEPT !.phase = "empty"] /\ proc' = Working /\ safe' = safe /\ disk' = [disk EXCEPT !["state"] = @ + 1]
    BY <1>1 DEF Begin
  <2>2. disk' \in Trees /\ Bare(disk') /\ Bare(safe')
    <3>1. disk["state"] + 1 \in Nat
      BY <1>a, PartTypes, PathFacts
    <3> QED BY <2>1, <3>1, <1>a, <1>d, PartTypes, PathFacts DEF Trees, Bare
  <2>3. led'.phase = "empty" /\ led'.pend = NoPend /\ led'.ret = "none" /\ led'.links = 0 /\ ~led'.leased /\ led'.auth = "none"
    BY <2>1 DEF Absent
  <2>4. led' \in Ledgers /\ Bare(led'.own)
    <3>1. NoPend \in Records /\ 0 \in 0..Len(Aliases) /\ [n \in Nodes |-> 0] \in Trees /\ Bare([n \in Nodes |-> 0])
      BY AliasFacts, PathFacts DEF NoPend, Records, Trees, Bare
    <3> QED BY <2>1, <3>1 DEF Absent, Ledgers, Phases
  <2>5. proc' \in Procs /\ proc'.job = "work" /\ proc'.i = 1
    BY <2>1 DEF Working, Procs, Jobs
  <2>6. kata = "absent"
    BY <1>a, <1>1 DEF Begin, LeaseInv, JobInv, KataInv
  <2>7. TypeInv'
    BY <1>a, <1>b, <2>1, <2>2, <2>4, <2>5 DEF TypeInv
  <2>8. TreeInv'
    BY <2>2, <2>3, <2>4, TreeBare DEF NoPend, Unleased
  <2>9. LeaseInv'
    <3>1. boot = 3
      BY <1>1 DEF Begin, Idle
    <3> QED BY <3>1, <1>b, <2>3, <2>5, <2>6 DEF LeaseInv, AuthInv, JobInv, KataInv, WholeInv, Grown, Pending, Unleased
  <2>10. PlanInv'
    <3>1. led'.pend.op = "none"
      BY <2>3 DEF NoPend
    <3> QED BY <2>5, <3>1 DEF PlanInv, Done
  <2> QED BY <2>7, <2>8, <2>9, <2>10 DEF RootfsInv
<1>2. CASE WriteGenesis
  <2>1. led' = [led EXCEPT !.phase = "genesis", !.own = disk] /\ disk' = disk /\ safe' = disk /\ proc' = proc /\ proc.job = "work"
    BY <1>2 DEF WriteGenesis, procVars
  <2>2. /\ led'.phase = "genesis" /\ led'.own = disk /\ led'.pend = led.pend /\ led'.ret = "none" /\ led'.links = 0
        /\ led'.leased = led.leased /\ led'.auth = led.auth
    BY <1>a, <1>c, <2>1, BareLinks, PartTypes DEF Ledgers
  <2>3. led' \in Ledgers
    BY <1>a, <2>1, PartTypes DEF Ledgers, Phases
  <2>4. TypeInv'
    BY <1>a, <1>b, <2>1, <2>3 DEF TypeInv
  <2>5. TreeInv'
    BY <1>c, <1>d, <2>1, <2>2, TreeBare DEF Unleased
  <2>6. led.phase # "absent"
    BY <1>a, <2>1 DEF LeaseInv, JobInv
  <2>7. LeaseInv'
    BY <1>a, <1>b, <2>1, <2>2, <2>6, LeaseWorks
  <2>8. PlanInv'
    <3>1. led.phase = "empty" /\ proc.i = 1
      BY <1>a, <1>b, <2>1, <2>6 DEF PlanInv
    <3> QED BY <1>c, <2>1, <2>2, <3>1 DEF PlanInv, Done
  <2> QED BY <2>4, <2>5, <2>7, <2>8 DEF RootfsInv
<1> QED BY <1>1, <1>2

\* The records that change no name.
LEMMA NoteKeeps ==
    ASSUME RootfsInv, UNCHANGED kata, Note
    PROVE  RootfsInv'
<1>a. TypeInv /\ TreeInv /\ LeaseInv /\ PlanInv
  BY DEF RootfsInv
<1>1. /\ proc.job = "work" /\ led.phase = "active" /\ proc.i <= Len(Plan) /\ Now.op \in {"import", "group"}
      /\ proc' = [proc EXCEPT !.i = @ + 1]
      /\ led' = IF Now.op = "import" THEN [led EXCEPT !.imported = TRUE] ELSE [led EXCEPT !.grouped = TRUE]
      /\ disk' = disk /\ safe' = safe /\ UNCHANGED <<boot, route, built, faults>>
  BY DEF Note
<1>2. /\ led' \in Ledgers /\ led'.phase = led.phase /\ led'.own = led.own /\ led'.pend = led.pend /\ led'.ret = led.ret
      /\ led'.links = led.links /\ led'.leased = led.leased /\ led'.auth = led.auth
  BY <1>a, <1>1, PartTypes DEF Ledgers
<1>3. proc' \in Procs /\ proc'.job = "work" /\ proc'.i = proc.i + 1 /\ proc.i \in Nat
  BY <1>a, <1>1, PartTypes DEF Procs
<1>4. led.own["op"] # 0 /\ led.ret = "none" /\ led.pend.op = "none"
  BY <1>a, <1>1 DEF TreeInv, OwnInv, Grown, Pending
<1>5. TypeInv'
  BY <1>a, <1>1, <1>2, <1>3 DEF TypeInv
<1>6. TreeInv'
  BY <1>a, <1>1, <1>2, <1>4, TreePhase DEF Pending, Unleased, Phases
<1>7. LeaseInv'
  BY <1>a, <1>1, <1>2, <1>3, <1>4, LeaseWorks
<1>8. PlanInv'
  <2>1. Plan' = Plan /\ proc.i \in Nat \ {0} /\ Done
    BY <1>a, <1>1 DEF PlanInv, Plan
  <2>2. Now = Plan[proc.i]
    BY <1>1 DEF Now
  <2>3. ASSUME NEW j \in 1..Len(Plan), j < proc.i + 1, Plan[j].op \in {"create", "hardlink-create", "candidate-tar"}
        PROVE  led.own[Plan[j].path] # 0
    <3>1. j # proc.i
      BY <2>2, <2>3, <1>1
    <3>2. j < proc.i
      BY <3>1, <2>3, <2>1, PlanFacts
    <3> QED BY <3>2, <2>1, <2>3 DEF Done
  <2> HIDE DEF Plan
  <2>4. Done'
    BY <1>2, <1>3, <2>1, <2>3 DEF Done
  <2> QED BY <1>1, <1>2, <1>3, <1>4, <2>4 DEF PlanInv
<1> QED BY <1>5, <1>6, <1>7, <1>8 DEF RootfsInv

\* A step of the plan is announced.
LEMMA IntendKeeps ==
    ASSUME RootfsInv, UNCHANGED kata, Intend
    PROVE  RootfsInv'
<1>a. TypeInv /\ TreeInv /\ LeaseInv /\ PlanInv
  BY DEF RootfsInv
<1>1. /\ proc.job = "work" /\ led.phase \in {"ready", "active"} /\ proc.i <= Len(Plan) /\ Now.op \notin {"import", "group"}
      /\ Acceptable(led, Now.op, Now.path, disk) /\ led' = Intended(led, Now.op, Now.path, disk)
      /\ proc' = [proc EXCEPT !.made = FALSE] /\ disk' = disk /\ safe' = safe /\ UNCHANGED <<boot, route, built, faults>>
  BY DEF Intend
<1>2. proc' \in Procs /\ proc'.job = "work" /\ proc'.i = proc.i /\ proc'.made = FALSE /\ proc.i \in Nat \ {0}
  BY <1>a, <1>1, PartTypes DEF Procs, PlanInv
<1>3. led.phase = "active" => Now = Plan[proc.i] /\ Plan[proc.i] \in PlanSteps
  <2>1. led.phase = "active" => Now = Plan[proc.i]
    BY DEF Now
  <2>2. proc.i \in 1..Len(Plan)
    BY <1>1, <1>2, PlanFacts
  <2> QED BY <2>1, <2>2, PlanFacts
<1>4. led.phase = "ready" => Now.op = "operation" /\ Now.path = "op"
  BY DEF Now, Step
<1>5. Now.op \in Kinds \ Removals /\ Now.path \in Names
  BY <1>1, <1>3, <1>4, PathFacts DEF PlanSteps, Kinds, Removals
<1>6. Now.op \in {"operation", "operation-remove"} <=> Now.path = "op"
  BY <1>1, <1>3, <1>4, PathFacts DEF PlanSteps
<1>7. Now.op \in {"create", "candidate-tar"} => Now.path \notin ToSet(Aliases)
  BY <1>1, <1>3, <1>4 DEF PlanSteps
<1>8. TreeInv' /\ led' \in Ledgers
  <2>1. led.phase \notin Pending \cup {"empty"} /\ Now.op # "remove"
    BY <1>1, <1>5 DEF Pending, Removals
  <2> QED BY <1>a, <1>1, <1>2, <1>5, <1>6, <1>7, <2>1, TreeIntends
<1>9. /\ led'.phase = "intent" /\ led'.ret = led.phase /\ led'.own = led.own
      /\ led'.pend.op = Now.op /\ led'.pend.path = Now.path /\ led'.leased = led.leased /\ led'.auth = led.auth
  BY <1>a, <1>1, PartTypes DEF Intended, Ledgers
<1>10. TypeInv'
  BY <1>a, <1>1, <1>2, <1>8 DEF TypeInv
<1>11. LeaseInv'
  BY <1>a, <1>1, <1>2, <1>9, LeaseWorks
<1>12. PlanInv'
  <2>1. Plan' = Plan /\ Done
    BY <1>a, <1>1 DEF PlanInv, Plan
  <2>2. led.phase = "ready" => proc.i = 1
    BY <1>a, <1>1 DEF PlanInv
  <2>3. led.phase = "active" => Plan[proc.i] = Step(Now.op, Now.path) /\ Now.op # "operation"
    BY <1>3 DEF Step, PlanSteps
  <2> HIDE DEF Plan
  <2>4. Done'
    BY <1>2, <1>9, <2>1 DEF Done
  <2> QED BY <1>1, <1>2, <1>4, <1>9, <2>1, <2>2, <2>3, <2>4 DEF PlanInv
<1> QED BY <1>8, <1>10, <1>11, <1>12 DEF RootfsInv

\* The step is made, fsynced and observed.
LEMMA MakeKeeps ==
    ASSUME RootfsInv, UNCHANGED kata, Mutate \/ Sync \/ Observe
    PROVE  RootfsInv'
<1>a. TypeInv /\ TreeInv /\ LeaseInv /\ PlanInv
  BY DEF RootfsInv
<1>b. proc.job = "work" /\ led.phase \in Pending /\ UNCHANGED <<boot, route, built, faults>> /\ Plan' = Plan
  BY DEF Mutate, Sync, Observe, Pending, procVars, Plan
<1>c. /\ led.ret \in {"ready", "active"} /\ led.pend.op # "none" /\ led.pend.op \notin Removals
      /\ proc.i \in Nat \ {0} /\ proc.made \in BOOLEAN
  <2>1. led.pend.op # "none"
    BY <1>a, <1>b DEF TreeInv, OwnInv
  <2>2. led.pend.op \notin Removals
    BY <1>a, <1>b DEF TreeInv, IntentInv, ObservedInv, Pending
  <2> QED BY <1>a, <1>b, <2>1, <2>2, PartTypes DEF TreeInv, PendOK, PlanInv, Procs
<1>1. CASE Mutate
  <2>1. /\ led' = led /\ safe' = safe /\ led.phase = "intent" /\ proc.made = FALSE
        /\ Possible(disk, led.pend.op, led.pend.path) /\ disk' = Applied(disk, led.pend.op, led.pend.path)
        /\ proc' = [proc EXCEPT !.made = TRUE]
    BY <1>1, <1>c DEF Mutate
  <2>2. proc' \in Procs /\ proc'.job = "work" /\ proc'.i = proc.i /\ proc'.made = TRUE
    BY <1>a, <1>b, <2>1, PartTypes DEF Procs
  <2>3. TreeInv' /\ disk' \in Trees
    BY <1>a, <1>b, <2>1, <2>2, TreeMutates
  <2>4. TypeInv'
    BY <1>a, <1>b, <2>1, <2>2, <2>3 DEF TypeInv
  <2>5. LeaseInv'
    BY <1>a, <1>b, <1>c, <2>1, <2>2, LeaseWorks
  <2>6. PlanInv'
    BY <1>a, <1>b, <2>1, <2>2 DEF PlanInv, Done
  <2> QED BY <2>3, <2>4, <2>5, <2>6 DEF RootfsInv
<1>2. CASE Sync
  <2>1. led' = led /\ disk' = disk /\ safe' = disk /\ proc' = proc /\ (led.phase = "intent" => proc.made = TRUE)
    BY <1>2, <1>c DEF Sync, procVars
  <2>2. TreeInv'
    BY <1>a, <1>b, <2>1, TreeSyncs
  <2>3. TypeInv'
    BY <1>a, <1>b, <2>1 DEF TypeInv
  <2>4. LeaseInv'
    BY <1>a, <1>b, <1>c, <2>1, LeaseWorks DEF Pending
  <2>5. PlanInv'
    BY <1>a, <1>b, <2>1 DEF PlanInv, Done
  <2> QED BY <2>2, <2>3, <2>4, <2>5 DEF RootfsInv
<1>3. CASE Observe
  <2>1. led.phase = "intent" /\ proc.made = TRUE /\ led' = Observed(led, disk) /\ disk' = disk /\ safe' = safe /\ proc' = proc
    BY <1>3, <1>c DEF Observe, procVars
  <2>2. TreeInv' /\ led' \in Ledgers
    BY <1>a, <1>b, <2>1, TreeObserves
  <2>3. /\ led'.phase = "observed" /\ led'.ret = led.ret /\ led'.own = led.own /\ led'.leased = led.leased /\ led'.auth = led.auth
        /\ led'.pend.op = led.pend.op /\ led'.pend.path = led.pend.path
    BY <1>a, <2>1, PartTypes DEF Observed, Ledgers, Records
  <2>4. TypeInv'
    BY <1>a, <1>b, <2>1, <2>2 DEF TypeInv
  <2>5. LeaseInv'
    BY <1>a, <1>b, <1>c, <2>1, <2>3, LeaseWorks
  <2>6. PlanInv'
    BY <1>a, <1>b, <2>1, <2>3 DEF PlanInv, Done
  <2> QED BY <2>2, <2>4, <2>5, <2>6 DEF RootfsInv
<1> QED BY <1>1, <1>2, <1>3

\* The step is settled and the next one is up.
LEMMA SettleKeeps ==
    ASSUME RootfsInv, UNCHANGED kata, Settle
    PROVE  RootfsInv'
<1>a. TypeInv /\ TreeInv /\ LeaseInv /\ PlanInv
  BY DEF RootfsInv
<1>1. /\ proc.job = "work" /\ led.phase = "observed" /\ safe = disk /\ led' = Settlement(led)
      /\ proc' = [proc EXCEPT !.made = FALSE, !.i = IF led.pend.op = "operation" THEN @ ELSE @ + 1]
      /\ disk' = disk /\ safe' = disk /\ UNCHANGED <<boot, route, built, faults>> /\ Plan' = Plan
  BY DEF Settle, Plan
<1>2. /\ proc' \in Procs /\ proc'.job = "work" /\ proc.i \in Nat \ {0}
      /\ proc'.i = IF led.pend.op = "operation" THEN proc.i ELSE proc.i + 1
  <2>1. proc.i \in Nat \ {0}
    BY <1>a, <1>1 DEF PlanInv
  <2>2. (IF led.pend.op = "operation" THEN proc.i ELSE proc.i + 1) \in Nat
    BY <2>1
  <2> QED BY <1>a, <1>1, <2>1, <2>2, PartTypes DEF Procs
<1>3. led.pend.op # "none" /\ led.pend.op \notin Removals
  BY <1>a, <1>1 DEF TreeInv, OwnInv, ObservedInv, Pending
<1>4. /\ TreeInv' /\ led' \in Ledgers /\ led'.pend.op = "none"
      /\ \A p \in Names : led.own[p] # 0 => led'.own[p] # 0
      /\ led.pend.op \in Creations => led'.own[led.pend.path] # 0
  BY <1>a, <1>1, <1>3, TreeSettles
<1>5. led'.phase = "active" /\ led'.ret = "none" /\ led'.leased = led.leased /\ led'.auth = led.auth
  <2>1. led.pend.op # "operation" => led.ret = "active"
    BY <1>a, <1>3 DEF TreeInv, PendOK
  <2> QED BY <1>a, <1>1, <2>1, PartTypes DEF Settlement, Ledgers
<1>6. TypeInv'
  BY <1>a, <1>1, <1>2, <1>4 DEF TypeInv
<1>7. LeaseInv'
  BY <1>a, <1>1, <1>2, <1>5, LeaseWorks
<1>8. PlanInv'
  <2>1. Done /\ (led.pend.op # "operation" => proc.i <= Len(Plan) /\ Plan[proc.i] = Step(led.pend.op, led.pend.path))
    BY <1>a, <1>1, <1>3 DEF PlanInv
  <2>2. ASSUME NEW j \in 1..Len(Plan), j < proc'.i, Plan[j].op \in {"create", "hardlink-create", "candidate-tar"}
        PROVE  led'.own[Plan[j].path] # 0
    <3>0. Len(Plan) \in Nat /\ Plan[j] \in PlanSteps
      BY PlanFacts
    <3>1. CASE j < proc.i
      <4>1. led.own[Plan[j].path] # 0
        BY <2>1, <2>2, <3>1 DEF Done
      <4>2. Plan[j].path \in Names
        BY <3>0, PathFacts DEF PlanSteps
      <4> QED BY <4>1, <4>2, <1>4
    <3>2. CASE ~(j < proc.i)
      <4>1. led.pend.op # "operation" /\ j = proc.i
        BY <2>2, <3>2, <1>2
      <4>2. Plan[j].op = led.pend.op /\ Plan[j].path = led.pend.path
        BY <4>1, <2>1 DEF Step
      <4> QED BY <4>2, <2>2, <1>4 DEF Creations
    <3> QED BY <3>1, <3>2
  <2> HIDE DEF Plan
  <2>3. Done'
    BY <1>1, <2>2 DEF Done
  <2> QED BY <1>2, <1>4, <1>5, <2>3 DEF PlanInv
<1> QED BY <1>4, <1>6, <1>7, <1>8 DEF RootfsInv

\* A failed step is undone.
LEMMA UndoKeeps ==
    ASSUME RootfsInv, UNCHANGED kata, UndoName \/ UndoAbort
    PROVE  RootfsInv'
<1>a. TypeInv /\ TreeInv /\ LeaseInv /\ PlanInv
  BY DEF RootfsInv
<1>b. proc.job = "undo" /\ proc' = proc /\ UNCHANGED <<boot, route, built, faults>> /\ proc.made \in BOOLEAN
  BY <1>a, PartTypes DEF UndoName, UndoAbort, procVars, Procs
<1>c. PlanInv'
  BY <1>b DEF PlanInv
<1>1. CASE UndoName /\ led.phase = "empty"
  <2>1. led' = Absent /\ disk' = [disk EXCEPT !["state"] = 1] /\ safe' = disk'
    BY <1>1 DEF UndoName
  <2>2. Bare(disk)
    BY <1>a, <1>1 DEF TreeInv, QuietInv, OwnInv, Unleased, Pending, Same, Bare
  <2>3. disk' \in Trees /\ Bare(disk')
    BY <1>a, <2>1, <2>2, PartTypes, PathFacts DEF Trees, Bare
  <2>4. led'.phase = "absent" /\ led'.pend = NoPend /\ led'.ret = "none" /\ led'.links = 0 /\ ~led'.leased /\ led'.auth = "none"
    BY <2>1 DEF Absent
  <2>5. led' \in Ledgers /\ Bare(led'.own)
    <3>1. NoPend \in Records /\ 0 \in 0..Len(Aliases) /\ [n \in Nodes |-> 0] \in Trees /\ Bare([n \in Nodes |-> 0])
      BY AliasFacts, PathFacts DEF NoPend, Records, Trees, Bare
    <3> QED BY <2>1, <3>1 DEF Absent, Ledgers, Phases
  <2>6. TypeInv'
    BY <1>a, <1>b, <2>1, <2>3, <2>5 DEF TypeInv
  <2>7. TreeInv'
    BY <2>1, <2>3, <2>4, <2>5, TreeBare DEF NoPend, Unleased
  <2>8. LeaseInv'
    BY <1>a, <1>b, <1>1, <2>4 DEF LeaseInv, AuthInv, JobInv, KataInv, WholeInv, Grown, Pending, Unleased
  <2> QED BY <1>c, <2>6, <2>7, <2>8 DEF RootfsInv
<1>2. CASE UndoName /\ led.phase # "empty"
  <2>1. /\ led' = led /\ disk' = Unlinked(disk, led.pend.path) /\ safe' = disk' /\ led.phase = "intent"
        /\ led.pend.op \in {"operation", "create", "hardlink-create"} /\ proc.made = TRUE
    BY <1>2, <1>b DEF UndoName, Undoable
  <2>2. TreeInv' /\ disk' \in Trees
    BY <1>a, <1>b, <2>1, TreeUndoes
  <2>3. TypeInv'
    BY <1>a, <1>b, <2>1, <2>2 DEF TypeInv
  <2>4. led.ret \in {"ready", "active"}
    BY <1>a, <2>1 DEF TreeInv, PendOK, Removals
  <2>5. LeaseInv'
    BY <1>a, <1>b, <2>1, <2>4, LeaseWorks
  <2> QED BY <1>c, <2>2, <2>3, <2>5 DEF RootfsInv
<1>3. CASE UndoAbort
  <2>1. /\ led' = Aborted(led, disk) /\ disk' = disk /\ safe' = safe /\ led.phase = "intent"
        /\ led.pend.op \in {"create", "hardlink-create"} /\ disk[led.pend.path] = 0
    BY <1>3 DEF UndoAbort, AbortsInPlace
  <2>2. TreeInv' /\ led' \in Ledgers /\ led'.pend.op = "none" /\ led'.phase = "active"
    BY <1>a, <2>1, TreeAborts
  <2>3. TypeInv'
    BY <1>a, <1>b, <2>1, <2>2 DEF TypeInv
  <2>4. led'.ret = "none" /\ led'.leased = led.leased /\ led'.auth = led.auth
    BY <1>a, <2>1, PartTypes DEF Aborted, Ledgers
  <2>5. LeaseInv'
    BY <1>a, <1>b, <2>1, <2>2, <2>4, LeaseWorks
  <2> QED BY <1>c, <2>2, <2>3, <2>5 DEF RootfsInv
<1> QED BY <1>1, <1>2, <1>3

-----------------------------------------------------------------------------
(* The actions of a removal session. *)

\* What a removal session writes changes nothing for the operation's journal.
LEMMA LeaseCleans ==
    ASSUME LeaseInv, proc.job = "clean", proc' = proc, UNCHANGED <<boot, route, kata>>,
           led.phase \notin {"absent", "leased"}, led'.leased = led.leased, led'.auth = led.auth,
           led'.phase \notin {"absent", "leased"}, AuthInv(led')
    PROVE  LeaseInv'
<1>1. ~(boot < 3) /\ kata \notin {"begun", "admitted", "settled"}
  BY DEF LeaseInv, JobInv, KataInv, AuthInv
<1>2. JobInv'
  BY <1>1 DEF LeaseInv, JobInv
<1>3. KataInv' /\ WholeInv'
  BY <1>1 DEF LeaseInv, KataInv, WholeInv
<1> QED BY <1>2, <1>3 DEF LeaseInv

\* The frame of every step of a session that goes on.
LEMMA CleanFrame ==
    ASSUME RootfsInv, proc.job = "clean", proc' = proc, UNCHANGED <<boot, route, built, faults, kata>>,
           disk' \in Trees, safe' \in Trees, led' \in Ledgers, TreeInv',
           led.phase \notin {"absent", "leased"}, led'.leased = led.leased, led'.auth = led.auth,
           led'.phase \notin {"absent", "leased"}, AuthInv(led')
    PROVE  RootfsInv'
<1>a. TypeInv /\ TreeInv /\ LeaseInv /\ PlanInv
  BY DEF RootfsInv
<1>1. TypeInv'
  BY <1>a DEF TypeInv
<1>2. LeaseInv'
  BY <1>a, LeaseCleans
<1>3. PlanInv'
  BY DEF PlanInv
<1> QED BY <1>1, <1>2, <1>3 DEF RootfsInv

\* Genesis is settled, by the building process or by its recovery.
LEMMA GenesisKeeps ==
    ASSUME RootfsInv, UNCHANGED kata, SettleGenesis
    PROVE  RootfsInv'
<1>a. TypeInv /\ TreeInv /\ LeaseInv /\ PlanInv
  BY DEF RootfsInv
<1>1. /\ led.phase = "genesis" /\ led' = [led EXCEPT !.phase = "ready"] /\ disk' = disk /\ safe' = safe
      /\ proc' = proc /\ UNCHANGED <<boot, route, built, faults>> /\ proc.job \in {"work", "clean"}
  BY DEF SettleGenesis, procVars
<1>2. /\ led' \in Ledgers /\ led'.phase = "ready" /\ led'.own = led.own /\ led'.pend = led.pend /\ led'.ret = led.ret
      /\ led'.links = led.links /\ led'.leased = led.leased /\ led'.auth = led.auth
  BY <1>a, <1>1, PartTypes DEF Ledgers, Phases
<1>3. Bare(led.own) /\ led.ret = "none" /\ led.pend.op = "none"
  BY <1>a, <1>1 DEF TreeInv, OwnInv, Unleased, Pending
<1>4. TreeInv'
  BY <1>a, <1>1, <1>2, <1>3, TreePhase DEF Pending, Phases, Grown
<1>5. disk' \in Trees /\ safe' \in Trees
  BY <1>a, <1>1, PartTypes
<1>6. CASE proc.job = "clean"
  <2>1. AuthInv(led')
    BY <1>a, <1>1, <1>2, <1>3 DEF LeaseInv, AuthInv, Unleased, Grown, Pending
  <2> QED BY <1>1, <1>2, <1>4, <1>5, <1>6, <2>1, CleanFrame
<1>7. CASE proc.job = "work"
  <2>1. TypeInv'
    BY <1>a, <1>1, <1>2 DEF TypeInv
  <2>2. LeaseInv'
    BY <1>a, <1>1, <1>2, <1>3, <1>7, LeaseWorks
  <2>3. proc.i = 1 /\ Plan' = Plan
    BY <1>a, <1>1, <1>7 DEF PlanInv, Plan
  <2>4. PlanInv'
    BY <1>1, <1>2, <1>3, <1>7, <2>3 DEF PlanInv, Done
  <2> QED BY <1>4, <2>1, <2>2, <2>4 DEF RootfsInv
<1> QED BY <1>1, <1>6, <1>7

\* An announced creation that never happened is aborted.
LEMMA CleanAbortKeeps ==
    ASSUME RootfsInv, UNCHANGED kata, CleanAbort
    PROVE  RootfsInv'
<1>a. TypeInv /\ TreeInv /\ LeaseInv /\ PlanInv
  BY DEF RootfsInv
<1>1. proc.job = "clean" /\ disk' = disk /\ safe' = safe /\ proc' = proc /\ UNCHANGED <<boot, route, built, faults>>
  BY DEF CleanAbort, procVars
<1>2. disk' \in Trees /\ safe' \in Trees
  BY <1>a, <1>1, PartTypes
<1>3. CASE led.phase = "ready" /\ led' = [led EXCEPT !.phase = "aborted"]
  <2>1. /\ led' \in Ledgers /\ led'.phase = "aborted" /\ led'.own = led.own /\ led'.pend = led.pend /\ led'.ret = led.ret
        /\ led'.links = led.links /\ led'.leased = led.leased /\ led'.auth = led.auth
    BY <1>a, <1>3, PartTypes DEF Ledgers, Phases
  <2>2. Bare(led.own) /\ led.ret = "none" /\ led.pend.op = "none"
    BY <1>a, <1>3 DEF TreeInv, OwnInv, Unleased, Pending
  <2>3. TreeInv'
    BY <1>a, <1>1, <1>3, <2>1, <2>2, TreePhase DEF Pending, Phases, Grown
  <2>4. AuthInv(led')
    BY <1>a, <1>3, <2>1, <2>2 DEF LeaseInv, AuthInv, Unleased, Grown, Pending
  <2> QED BY <1>1, <1>2, <1>3, <2>1, <2>3, <2>4, CleanFrame
<1>4. CASE /\ led.phase = "intent" /\ IntentStatus(led, disk) \in {"entry-absent", "abortable"}
           /\ led' = Aborted(led, disk)
  <2>1. led.pend.op \in Creations /\ disk = led.own
    BY <1>a, <1>4, IntentStatusFacts, PartTypes DEF Creations
  <2>2. /\ TreeInv' /\ led' \in Ledgers /\ led'.pend.op = "none"
        /\ led'.phase = (IF led.pend.op = "operation" THEN "aborted" ELSE "active")
    BY <1>a, <1>1, <1>4, <2>1, TreeAborts
  <2>3. led'.ret = "none" /\ led'.leased = led.leased /\ led'.auth = led.auth
    BY <1>a, <1>4, PartTypes DEF Aborted, Ledgers
  <2>4. led.ret \in {"ready", "active"}
    BY <1>a, <2>1 DEF TreeInv, PendOK, Creations, Removals
  <2>5. AuthInv(led')
    BY <1>a, <2>2, <2>3, <2>4 DEF LeaseInv, AuthInv, Unleased, Grown, Pending
  <2> QED BY <1>1, <1>2, <1>4, <2>2, <2>3, <2>5, CleanFrame
<1> QED BY <1>3, <1>4 DEF CleanAbort

\* A change that was made, or a removal, is observed and settled.
LEMMA CleanSettleKeeps ==
    ASSUME RootfsInv, UNCHANGED kata, CleanObserve \/ CleanSettle \/ CleanAbsent
    PROVE  RootfsInv'
<1>a. TypeInv /\ TreeInv /\ LeaseInv /\ PlanInv
  BY DEF RootfsInv
<1>1. proc.job = "clean" /\ disk' = disk /\ safe' = disk /\ proc' = proc /\ UNCHANGED <<boot, route, built, faults>>
  BY DEF CleanObserve, CleanSettle, CleanAbsent, procVars
<1>2. disk' \in Trees /\ safe' \in Trees
  BY <1>a, <1>1, PartTypes
<1>3. ASSUME led.phase = "intent", led' = Observed(led, disk),
             \/ led.pend.op = "candidate-tar" /\ disk[led.pend.path] # 0
             \/ led.pend.op = "remove" /\ disk[led.pend.path] = 0
      PROVE  RootfsInv'
  <2>1. TreeInv' /\ led' \in Ledgers
    BY <1>a, <1>1, <1>3, TreeObserves
  <2>2. led'.phase = "observed" /\ led'.ret = led.ret /\ led'.leased = led.leased /\ led'.auth = led.auth
    BY <1>a, <1>3, PartTypes DEF Observed, Ledgers
  <2>3. AuthInv(led')
    BY <1>a, <1>3, <2>2 DEF LeaseInv, AuthInv, Unleased, Grown, Pending
  <2> QED BY <1>1, <1>2, <1>3, <2>1, <2>2, <2>3, CleanFrame
<1>4. ASSUME led.phase = "intent" PROVE led.pend.path # "op" => led.pend.op = "metadata" \/ led.own[Parent(led.pend.path)] # 0
  BY <1>a, <1>4, ParentThere DEF Pending
<1>5. CASE CleanObserve
  <2>1. led.phase = "intent" /\ led' = Observed(led, disk) /\ led.pend.op = "candidate-tar" /\ disk = Made(led.own, led.pend.path)
    BY <1>a, <1>5, IntentStatusFacts, PartTypes DEF CleanObserve
  <2>2. disk[led.pend.path] = 1
    BY <1>a, <1>4, <2>1, MadeTree, PartTypes
  <2> QED BY <2>1, <2>2, <1>3
<1>6. CASE CleanAbsent /\ led.pend.op = "remove"
  <2>1. led.phase = "intent" /\ led' = Observed(led, disk) /\ disk = Unlinked(led.own, led.pend.path)
    BY <1>a, <1>6, IntentStatusFacts, PartTypes DEF CleanAbsent
  <2>2. disk[led.pend.path] = 0
    BY <1>a, <1>4, <1>6, <2>1, UnlinkedTree, PartTypes
  <2> QED BY <2>1, <2>2, <1>3, <1>6
<1>7. CASE CleanAbsent /\ led.pend.op # "remove"
  <2>1. led.phase = "intent" /\ led' = OperationAbsent(led, disk) /\ disk = Unlinked(led.own, led.pend.path)
        /\ led.pend.op = "operation-remove"
    BY <1>a, <1>7, IntentStatusFacts, PartTypes DEF CleanAbsent, Removals
  <2>2. TreeInv' /\ led' \in Ledgers
    BY <1>a, <1>1, <2>1, TreeEnds
  <2>3. led'.phase = "operation-absent" /\ led'.ret = "none" /\ led'.leased = led.leased /\ led'.auth = led.auth
    BY <1>a, <2>1, PartTypes DEF OperationAbsent, Ledgers
  <2>4. AuthInv(led')
    BY <1>a, <2>1, <2>3 DEF LeaseInv, AuthInv, Unleased, Grown, Pending
  <2> QED BY <1>1, <1>2, <2>1, <2>2, <2>3, <2>4, CleanFrame
<1>8. CASE CleanSettle
  <2>1. led.phase = "observed" /\ led' = Settlement(led)
    BY <1>8 DEF CleanSettle
  <2>2. TreeInv' /\ led' \in Ledgers /\ led'.phase \in Grown
    BY <1>a, <1>1, <2>1, TreeSettles
  <2>3. /\ led'.phase = (IF led.pend.op = "operation" THEN "active" ELSE led.ret) /\ led'.ret = "none"
        /\ led'.leased = led.leased /\ led'.auth = led.auth
    BY <1>a, <2>1, PartTypes DEF Settlement, Ledgers
  <2>4. led.pend.op = "operation" => led.ret = "ready"
    BY <1>a DEF TreeInv, PendOK
  <2>5. AuthInv(led')
    BY <1>a, <2>1, <2>2, <2>3, <2>4 DEF LeaseInv, AuthInv, Unleased, Grown, Pending
  <2>6. led'.phase \notin {"absent", "leased"}
    BY <2>2 DEF Grown
  <2> QED BY <1>1, <1>2, <2>1, <2>2, <2>3, <2>5, <2>6, CleanFrame
<1> QED BY <1>5, <1>6, <1>7, <1>8

\* The name that goes next is one the ledger owns: the last link, or a name
\* that none is deeper than.
LEMMA NextRemovalFacts ==
    ASSUME TypeInv, TreeInv, Owned # {}
    PROVE  NextRemoval \in Paths /\ led.own[NextRemoval] # 0 /\ (NextRemoval \notin ToSet(Aliases) => led.links = 0)
<1>1. CASE led.links > 0
  <2>1. led.links \in 1..Len(Aliases) /\ led.links <= led.links
    BY <1>1, PartTypes, AliasFacts
  <2>2. Aliases[led.links] \in ToSet(Aliases) /\ Aliases[led.links] \in Paths /\ led.own[Aliases[led.links]] # 0
    BY <2>1, PathFacts DEF TreeInv, OwnInv
  <2> QED BY <1>1, <2>2 DEF NextRemoval
<1>2. CASE ~(led.links > 0)
  <2>1. \A p \in Paths : Depth[p] \in {0, 1, 2}
    BY DEF Depth
  <2>2. Owned \subseteq Paths
    BY DEF Owned
  <2>3. \E p \in Owned : \A q \in Owned : Depth[p] >= Depth[q]
    <3>1. CASE \E p \in Owned : Depth[p] = 2
      <4>1. PICK p \in Owned : Depth[p] = 2
        BY <3>1
      <4>2. \A q \in Owned : Depth[p] >= Depth[q]
        BY <4>1, <2>1, <2>2
      <4> QED BY <4>2
    <3>2. CASE ~(\E p \in Owned : Depth[p] = 2) /\ \E p \in Owned : Depth[p] = 1
      <4>1. PICK p \in Owned : Depth[p] = 1
        BY <3>2
      <4>2. \A q \in Owned : Depth[p] >= Depth[q]
        BY <3>2, <4>1, <2>1, <2>2
      <4> QED BY <4>2
    <3>3. CASE ~(\E p \in Owned : Depth[p] = 2) /\ ~(\E p \in Owned : Depth[p] = 1)
      <4>1. PICK p \in Owned : TRUE
        OBVIOUS
      <4>2. \A q \in Owned : Depth[p] >= Depth[q]
        BY <3>3, <4>1, <2>1, <2>2
      <4> QED BY <4>2
    <3> QED BY <3>1, <3>2, <3>3
  <2>4. NextRemoval = CHOOSE p \in Owned : \A q \in Owned : Depth[p] >= Depth[q]
    BY <1>2 DEF NextRemoval
  <2>5. NextRemoval \in Owned
    BY <2>3, <2>4
  <2>6. led.links = 0
    BY <1>2, PartTypes
  <2> QED BY <2>5, <2>6 DEF Owned
<1> QED BY <1>1, <1>2

\* The removal of a name is announced, and then done.
LEMMA CleanRemoveKeeps ==
    ASSUME RootfsInv, UNCHANGED kata, CleanIntend \/ CleanRemove
    PROVE  RootfsInv'
<1>a. TypeInv /\ TreeInv /\ LeaseInv /\ PlanInv
  BY DEF RootfsInv
<1>1. proc.job = "clean" /\ safe' = safe /\ proc' = proc /\ UNCHANGED <<boot, route, built, faults>>
  BY DEF CleanIntend, CleanRemove, procVars
<1>2. CASE CleanIntend
  <2>1. led.phase \in Grown /\ disk' = disk
    BY <1>2 DEF CleanIntend
  <2>2. ASSUME NEW op \in Removals, NEW p \in Names, Acceptable(led, op, p, disk), led' = Intended(led, op, p, disk),
               op = "operation-remove" <=> p = "op", led.own[p] # 0,
               op = "remove" /\ p \notin ToSet(Aliases) => led.links = 0
        PROVE  RootfsInv'
    <3>1. op \in Kinds /\ op \notin Creations /\ op # "operation" /\ led.phase \notin Pending \cup {"empty", "absent", "leased"}
      BY <2>1 DEF Removals, Kinds, Creations, Grown, Pending
    <3>2. TreeInv' /\ led' \in Ledgers
      <4>1. op \in {"operation", "operation-remove"} <=> p = "op"
        BY <2>2, <3>1
      <4>2. op \in {"create", "candidate-tar"} => p \notin ToSet(Aliases)
        BY <3>1 DEF Creations
      <4> QED BY <1>a, <1>1, <2>1, <2>2, <3>1, <4>1, <4>2, TreeIntends
    <3>3. led'.phase = "intent" /\ led'.ret = led.phase /\ led'.leased = led.leased /\ led'.auth = led.auth
      BY <1>a, <2>2, PartTypes DEF Intended, Ledgers
    <3>4. AuthInv(led')
      BY <1>a, <2>1, <3>3 DEF LeaseInv, AuthInv, Unleased, Grown, Pending
    <3>5. disk' \in Trees /\ safe' \in Trees
      BY <1>a, <1>1, <2>1, PartTypes
    <3> QED BY <1>1, <3>1, <3>2, <3>3, <3>4, <3>5, CleanFrame
  <2>3. CASE Owned # {}
    <3>1. Acceptable(led, "remove", NextRemoval, disk) /\ led' = Intended(led, "remove", NextRemoval, disk)
      BY <1>2, <2>3 DEF CleanIntend, Step
    <3>2. NextRemoval \in Names /\ NextRemoval # "op"
      BY <1>a, <2>3, NextRemovalFacts, PathFacts
    <3>3. led.own[NextRemoval] # 0 /\ (NextRemoval \notin ToSet(Aliases) => led.links = 0) /\ "remove" \in Removals
      BY <1>a, <2>3, NextRemovalFacts DEF Removals
    <3> QED BY <3>1, <3>2, <3>3, <2>2
  <2>4. CASE Owned = {}
    <3>1. Acceptable(led, "operation-remove", "op", disk) /\ led' = Intended(led, "operation-remove", "op", disk)
      BY <1>2, <2>4 DEF CleanIntend, Step
    <3>2. "op" \in Names /\ "operation-remove" \in Removals /\ led.own["op"] # 0
      BY <1>a, <2>1, PathFacts DEF Removals, TreeInv, OwnInv
    <3> QED BY <3>1, <3>2, <2>2
  <2> QED BY <2>3, <2>4
<1>3. CASE CleanRemove
  <2>1. /\ led.phase = "intent" /\ led' = led /\ led.pend.op \in Removals /\ disk = led.own
        /\ Isdir(led.pend.path) => Empty(disk, led.pend.path)
        /\ disk' = Unlinked(disk, led.pend.path)
    BY <1>a, <1>3, IntentStatusFacts, PartTypes DEF CleanRemove
  <2>2. TreeInv' /\ disk' \in Trees
    BY <1>a, <1>1, <2>1, TreeRemoves
  <2>3. safe' \in Trees /\ led' \in Ledgers /\ AuthInv(led')
    BY <1>a, <1>1, <2>1, PartTypes DEF LeaseInv
  <2> QED BY <1>1, <2>1, <2>2, <2>3, CleanFrame
<1> QED BY <1>2, <1>3

\* The ledger of a tree that is gone is retired and removed.
LEMMA RetireKeeps ==
    ASSUME RootfsInv, UNCHANGED kata, CleanRetire \/ UnlinkLedger
    PROVE  RootfsInv'
<1>a. TypeInv /\ TreeInv /\ LeaseInv /\ PlanInv
  BY DEF RootfsInv
<1>1. proc.job = "clean" /\ UNCHANGED <<boot, route, built, faults>>
  BY DEF CleanRetire, UnlinkLedger, procVars
<1>2. CASE CleanRetire
  <2>1. led' = [led EXCEPT !.phase = "retired"] /\ disk' = disk /\ safe' = safe /\ proc' = proc
    BY <1>2 DEF CleanRetire, procVars
  <2>2. led.phase \in {"aborted", "operation-absent"}
    BY <1>a, <1>2, StatusFacts, PartTypes DEF CleanRetire
  <2>3. /\ led' \in Ledgers /\ led'.phase = "retired" /\ led'.own = led.own /\ led'.pend = led.pend /\ led'.ret = led.ret
        /\ led'.links = led.links /\ led'.leased = led.leased /\ led'.auth = led.auth
    BY <1>a, <2>1, PartTypes DEF Ledgers, Phases
  <2>4. Bare(led.own) /\ led.ret = "none" /\ led.pend.op = "none"
    BY <1>a, <2>2 DEF TreeInv, OwnInv, Unleased, Pending
  <2>5. TreeInv'
    BY <1>a, <2>1, <2>2, <2>3, <2>4, TreePhase DEF Pending, Phases, Grown
  <2>6. AuthInv(led')
    BY <1>a, <2>2, <2>3, <2>4 DEF LeaseInv, AuthInv, Unleased, Grown, Pending
  <2>7. disk' \in Trees /\ safe' \in Trees
    BY <1>a, <2>1, PartTypes
  <2> QED BY <1>1, <2>1, <2>2, <2>3, <2>5, <2>6, <2>7, CleanFrame
<1>3. CASE UnlinkLedger
  <2>1. led' = Absent /\ disk' = [disk EXCEPT !["state"] = 1] /\ safe' = disk' /\ proc' = Nobody
    BY <1>3 DEF UnlinkLedger
  <2>2. led.phase = "retired"
    BY <1>a, <1>3, StatusFacts, PartTypes DEF UnlinkLedger
  <2>3. Bare(disk)
    BY <1>a, <2>2 DEF TreeInv, QuietInv, OwnInv, Pending, Same, Bare
  <2>4. disk' \in Trees /\ Bare(disk')
    BY <1>a, <2>1, <2>3, PartTypes, PathFacts DEF Trees, Bare
  <2>5. led'.phase = "absent" /\ led'.pend = NoPend /\ led'.ret = "none" /\ led'.links = 0 /\ ~led'.leased /\ led'.auth = "none"
    BY <2>1 DEF Absent
  <2>6. led' \in Ledgers /\ Bare(led'.own)
    <3>1. NoPend \in Records /\ 0 \in 0..Len(Aliases) /\ [n \in Nodes |-> 0] \in Trees /\ Bare([n \in Nodes |-> 0])
      BY AliasFacts, PathFacts DEF NoPend, Records, Trees, Bare
    <3> QED BY <2>1, <3>1 DEF Absent, Ledgers, Phases
  <2>7. TypeInv'
    BY <1>a, <1>1, <2>1, <2>4, <2>6, SessionProc DEF TypeInv
  <2>8. TreeInv'
    BY <2>1, <2>4, <2>5, <2>6, TreeBare DEF NoPend, Unleased
  <2>9. proc'.job = "none"
    BY <2>1, SessionProc
  <2>10. kata \notin {"begun", "admitted"}
    BY <1>a, <1>1, <2>2 DEF LeaseInv, KataInv
  <2>11. LeaseInv'
    BY <1>a, <1>1, <2>5, <2>9, <2>10 DEF LeaseInv, AuthInv, JobInv, KataInv, WholeInv, Grown, Pending, Unleased
  <2>12. PlanInv'
    BY <2>9 DEF PlanInv
  <2> QED BY <2>7, <2>8, <2>11, <2>12 DEF RootfsInv
<1> QED BY <1>2, <1>3

-----------------------------------------------------------------------------
(* The records of the lease. *)

\* The finished tree is leased: the plan has made every name.
LEMMA MarkKeeps ==
    ASSUME RootfsInv, MarkLeased
    PROVE  RootfsInv'
<1>a. TypeInv /\ TreeInv /\ LeaseInv /\ PlanInv
  BY DEF RootfsInv
<1>1. /\ proc.job = "work" /\ route = "prebuilt" /\ proc.i > Len(Plan) /\ Status(led, disk) = "active"
      /\ led' = [led EXCEPT !.phase = "leased", !.leased = TRUE] /\ proc' = [Nobody EXCEPT !.job = "held"]
      /\ disk' = disk /\ safe' = safe /\ UNCHANGED <<boot, route, built, faults>> /\ kata' = kata
  BY DEF MarkLeased, Postwalk
<1>2. led.phase = "active" /\ disk = led.own
  BY <1>a, <1>1, StatusFacts, PartTypes
<1>3. /\ led' \in Ledgers /\ led'.phase = "leased" /\ led'.leased /\ led'.own = led.own /\ led'.pend = led.pend
      /\ led'.ret = led.ret /\ led'.links = led.links /\ led'.auth = led.auth
  BY <1>a, <1>1, PartTypes DEF Ledgers, Phases
<1>4. led.own["op"] # 0 /\ led.ret = "none" /\ led.pend.op = "none" /\ safe = disk
  BY <1>a, <1>2 DEF TreeInv, OwnInv, QuietInv, Grown, Pending
<1>5. \A p \in Names : led.own[p] # 0
  <2>1. ASSUME NEW p \in Paths PROVE led.own[p] # 0
    <3>1. PICK k \in 1..Len(Plan) : Plan[k].op \in {"create", "hardlink-create"} /\ Plan[k].path = p
      BY <1>1, PlanFacts DEF Has
    <3>2. proc.i \in Nat /\ Len(Plan) \in Nat /\ Done
      BY <1>a, <1>1, PlanFacts DEF PlanInv
    <3>3. k < proc.i
      BY <1>1, <3>2
    <3> QED BY <3>1, <3>2, <3>3 DEF Done
  <2> QED BY <2>1, <1>4 DEF Names
<1>6. proc' \in Procs /\ proc'.job = "held"
  BY <1>1, SessionProc DEF Jobs
<1>7. TypeInv'
  BY <1>a, <1>1, <1>3, <1>6 DEF TypeInv
<1>8. TreeInv'
  BY <1>a, <1>1, <1>2, <1>3, <1>4, TreePhase DEF Pending, Phases, Unleased
<1>9. kata = "absent" /\ led.auth = "none" /\ ~(boot < 3)
  BY <1>a, <1>1, <1>2 DEF LeaseInv, JobInv, AuthInv
<1>10. AuthInv(led') /\ WholeInv'
  BY <1>1, <1>2, <1>3, <1>4, <1>5, <1>9 DEF AuthInv, WholeInv, Unleased, Grown, Pending
<1>11. JobInv' /\ KataInv'
  BY <1>1, <1>3, <1>6, <1>9 DEF JobInv, KataInv
<1>12. PlanInv'
  BY <1>6 DEF PlanInv
<1> QED BY <1>7, <1>8, <1>10, <1>11, <1>12 DEF RootfsInv, LeaseInv

\* The lease is given up, on the authority of the operation or of nobody's use.
LEMMA AuthorizeKeeps ==
    ASSUME RootfsInv, AuthorizeRelease \/ AuthorizePrestage
    PROVE  RootfsInv'
<1>a. TypeInv /\ TreeInv /\ LeaseInv /\ PlanInv
  BY DEF RootfsInv
<1>1. /\ Status(led, disk) = "leased" /\ disk' = disk /\ safe' = safe /\ proc' = proc
      /\ UNCHANGED <<boot, route, built, faults>> /\ kata' = kata
      /\ \/ proc.job = "authorize" /\ led' = [led EXCEPT !.phase = "release-authorized", !.auth = "release"]
         \/ proc.job = "prestage" /\ led' = [led EXCEPT !.phase = "prestage-release-authorized", !.auth = "prestage"]
  BY DEF AuthorizeRelease, AuthorizePrestage, procVars
<1>2. led.phase = "leased"
  BY <1>a, <1>1, StatusFacts, PartTypes
<1>3. /\ led' \in Ledgers /\ led'.leased = led.leased /\ led'.own = led.own /\ led'.pend = led.pend
      /\ led'.ret = led.ret /\ led'.links = led.links
      /\ \/ proc.job = "authorize" /\ led'.phase = "release-authorized" /\ led'.auth = "release"
         \/ proc.job = "prestage" /\ led'.phase = "prestage-release-authorized" /\ led'.auth = "prestage"
  BY <1>a, <1>1, PartTypes DEF Ledgers, Phases
<1>4. led.own["op"] # 0 /\ led.ret = "none" /\ led.pend.op = "none" /\ led.leased
  BY <1>a, <1>2 DEF TreeInv, OwnInv, LeaseInv, AuthInv, Pending
<1>5. TypeInv'
  BY <1>a, <1>1, <1>3 DEF TypeInv
<1>6. TreeInv'
  BY <1>a, <1>1, <1>2, <1>3, <1>4, TreePhase DEF Pending, Phases, Unleased
<1>7. AuthInv(led') /\ WholeInv'
  BY <1>a, <1>1, <1>2, <1>3, <1>4 DEF LeaseInv, AuthInv, WholeInv, Unleased, Grown, Pending
<1>8. JobInv' /\ KataInv'
  BY <1>a, <1>1, <1>2, <1>3, <1>4 DEF LeaseInv, JobInv, KataInv
<1>9. PlanInv'
  BY <1>1 DEF PlanInv
<1> QED BY <1>5, <1>6, <1>7, <1>8, <1>9 DEF RootfsInv, LeaseInv

-----------------------------------------------------------------------------
(* Death of the process, and the steps of the publication. *)

\* Whatever a death loses or cuts short, the ledger still answers for the tree.
LEMMA CrashKeeps ==
    ASSUME RootfsInv, UNCHANGED kata, Crash
    PROVE  RootfsInv'
<1>a. TypeInv /\ TreeInv /\ LeaseInv /\ PlanInv
  BY DEF RootfsInv
<1>1. proc' = Nobody /\ proc' \in Procs /\ proc'.job = "none" /\ UNCHANGED <<boot, route, kata>> /\ built' \in Nat /\ faults' \in Nat
  BY <1>a, SessionProc DEF Crash, TypeInv
<1>2. PlanInv'
  BY <1>1 DEF PlanInv
<1>3. CASE UNCHANGED <<disk, safe, led>>
  BY <1>1, <1>3, RestKeeps DEF treeVars
<1>4. CASE /\ safe # disk /\ disk' = safe /\ safe' = safe
           /\ led' = IF led.phase = "empty" THEN Absent ELSE led
  <2>1. CASE led.phase = "empty"
    <3>1. led' = Absent
      BY <1>4, <2>1
    <3>2. Bare(safe)
      BY <1>a, <2>1 DEF TreeInv, QuietInv, OwnInv, Unleased, Pending, Same, Bare
    <3>3. led'.phase = "absent" /\ led'.pend = NoPend /\ led'.ret = "none" /\ led'.links = 0 /\ ~led'.leased /\ led'.auth = "none"
      BY <3>1 DEF Absent
    <3>4. led' \in Ledgers /\ Bare(led'.own)
      <4>1. NoPend \in Records /\ 0 \in 0..Len(Aliases) /\ [n \in Nodes |-> 0] \in Trees /\ Bare([n \in Nodes |-> 0])
        BY AliasFacts, PathFacts DEF NoPend, Records, Trees, Bare
      <4> QED BY <3>1, <4>1 DEF Absent, Ledgers, Phases
    <3>5. TypeInv'
      BY <1>a, <1>1, <1>4, <3>4 DEF TypeInv
    <3>6. TreeInv'
      BY <1>4, <3>2, <3>3, <3>4, TreeBare DEF NoPend, Unleased
    <3>7. LeaseInv'
      BY <1>a, <1>1, <2>1, <3>3 DEF LeaseInv, AuthInv, JobInv, KataInv, WholeInv, Grown, Pending, Unleased
    <3> QED BY <1>2, <3>5, <3>6, <3>7 DEF RootfsInv
  <2>2. CASE led.phase # "empty"
    <3>1. led' = led
      BY <1>4, <2>2
    <3>2. TypeInv'
      BY <1>a, <1>1, <1>4, <3>1 DEF TypeInv
    <3>3. TreeInv'
      BY <1>a, <1>1, <1>4, <2>2, <3>1, TreeCrashes
    <3>4. LeaseInv'
      BY <1>a, <1>1, <1>4, <3>1 DEF LeaseInv, AuthInv, JobInv, KataInv, WholeInv
    <3> QED BY <1>2, <3>2, <3>3, <3>4 DEF RootfsInv
  <2> QED BY <2>1, <2>2
<1>5. CASE led' = [led EXCEPT !.torn = TRUE] /\ disk' = disk /\ safe' = safe
  <2>1. /\ led' \in Ledgers /\ led'.phase = led.phase /\ led'.own = led.own /\ led'.pend = led.pend /\ led'.ret = led.ret
        /\ led'.links = led.links /\ led'.leased = led.leased /\ led'.auth = led.auth
    BY <1>a, <1>5, PartTypes DEF Ledgers
  <2>2. TypeInv'
    BY <1>a, <1>1, <1>5, <2>1 DEF TypeInv
  <2>3. TreeInv'
    <3>1. OwnInv(led') /\ QuietInv' /\ PendOK(led')
      BY <1>a, <1>5, <2>1 DEF TreeInv, OwnInv, QuietInv, PendOK, Same, Bare
    <3>2. IntentInv'
      BY <1>a, <1>1, <1>5, <2>1 DEF TreeInv, IntentInv, Same, SameBut, Leaf
    <3>3. ObservedInv'
      BY <1>a, <1>1, <1>5, <2>1 DEF TreeInv, ObservedInv, Same, SameBut, Leaf
    <3> QED BY <3>1, <3>2, <3>3 DEF TreeInv
  <2>4. LeaseInv'
    BY <1>a, <1>1, <1>5, <2>1 DEF LeaseInv, AuthInv, JobInv, KataInv, WholeInv
  <2> QED BY <1>2, <2>2, <2>3, <2>4 DEF RootfsInv
<1> QED BY <1>3, <1>4, <1>5 DEF Crash

\* A step that leaves the builder and the operation's journal alone.
LEMMA StutterKeeps ==
    ASSUME RootfsInv, UNCHANGED <<builderVars, kata>>
    PROVE  RootfsInv'
<1>a. TypeInv /\ TreeInv /\ LeaseInv /\ PlanInv
  BY DEF RootfsInv
<1>1. /\ disk' = disk /\ safe' = safe /\ led' = led /\ boot' = boot /\ proc' = proc /\ route' = route
      /\ built' = built /\ faults' = faults /\ kata' = kata
  BY DEF builderVars, treeVars, procVars
<1>2. TypeInv'
  BY <1>a, <1>1 DEF TypeInv
<1>3. TreeInv'
  <2>1. OwnInv(led)' /\ QuietInv' /\ PendOK(led)'
    BY <1>a, <1>1 DEF TreeInv, OwnInv, QuietInv, PendOK, Same, Bare
  <2>2. IntentInv'
    BY <1>a, <1>1 DEF TreeInv, IntentInv, Same, SameBut, Leaf
  <2>3. ObservedInv'
    BY <1>a, <1>1 DEF TreeInv, ObservedInv, Same, SameBut, Leaf
  <2> QED BY <2>1, <2>2, <2>3 DEF TreeInv
<1>4. LeaseInv'
  BY <1>a, <1>1 DEF LeaseInv, AuthInv, JobInv, KataInv, WholeInv
<1>5. Plan' = Plan
  BY <1>1 DEF Plan
<1>6. PlanInv'
  BY <1>a, <1>1, <1>5 DEF PlanInv, Done
<1> QED BY <1>2, <1>3, <1>4, <1>6 DEF RootfsInv

\* The publication keeps its own state and leaves the tree to the builder.
LEMMA PublishKeeps ==
    ASSUME RootfsInv, UNCHANGED kata, PublishNext
    PROVE  RootfsInv'
<1>0. built \in Nat /\ faults \in Nat /\ faults + 1 \in Nat
  BY DEF RootfsInv, TypeInv
<1>1. CASE StartPublish \/ Published \/ PublishFails \/ TearSnapshot
  <2>1. UNCHANGED <<treeVars, boot, route, kata>>
    BY <1>1 DEF StartPublish, Published, PublishFails, TearSnapshot
  <2>2. built' \in Nat /\ faults' \in Nat
    BY <1>0, <1>1 DEF StartPublish, Published, PublishFails, TearSnapshot, Fails
  <2>3. proc' \in {Nobody, [Nobody EXCEPT !.job = "publish"]}
    BY <1>1 DEF StartPublish, Published, PublishFails, TearSnapshot
  <2>4. proc' \in Procs /\ proc'.job \in {"none", "publish"}
    BY <2>3, SessionProc DEF Jobs
  <2> QED BY <2>1, <2>2, <2>4, RestKeeps
<1>2. CASE ~(StartPublish \/ Published \/ PublishFails \/ TearSnapshot)
  <2>1. UNCHANGED builderVars
    BY <1>2 DEF PublishNext, ExchangeSnapshot, RemoveOldSnapshot, PublishIntent, CandidateIntent, MakeCandidate,
                RecordCandidate, FileIntent, PrepareFile, LinkFile, RecordFile, Prepare, RenameIntent, Rename, Accept
  <2> QED BY <2>1, StutterKeeps
<1> QED BY <1>1, <1>2

-----------------------------------------------------------------------------
(* The theorems about the tree and its lease. *)

\* Nothing is there before the state directory is bootstrapped.
LEMMA RootfsStarts ==
    ASSUME Init
    PROVE  RootfsInv
<1>1. /\ disk = [n \in Nodes |-> IF n = "state" THEN 1 ELSE 0] /\ safe = disk /\ led = Absent /\ boot = 0 /\ proc = Nobody
      /\ built = 0 /\ faults = 0 /\ route \in {"prebuilt", "build"} /\ kata = "absent"
  BY DEF Init, BuilderInit
<1>2. led.phase = "absent" /\ led.pend = NoPend /\ led.ret = "none" /\ led.links = 0 /\ ~led.leased /\ led.auth = "none"
  BY <1>1 DEF Absent
<1>3. led \in Ledgers /\ Bare(led.own)
  <2>1. NoPend \in Records /\ 0 \in 0..Len(Aliases) /\ [n \in Nodes |-> 0] \in Trees /\ Bare([n \in Nodes |-> 0])
    BY AliasFacts, PathFacts DEF NoPend, Records, Trees, Bare
  <2> QED BY <1>1, <2>1 DEF Absent, Ledgers, Phases
<1>4. disk \in Trees /\ Bare(disk)
  BY <1>1, PathFacts DEF Trees, Bare
<1>5. TypeInv
  BY <1>1, <1>3, <1>4, SessionProc DEF TypeInv
<1>6. TreeInv
  <2>1. led.phase \notin Pending \cup Grown \cup {"leased"} /\ led.pend.op = "none"
    BY <1>2 DEF Pending, Grown, NoPend
  <2>2. \A k \in 1..Len(Aliases) : led.own[Aliases[k]] = 0 /\ ~(k <= led.links)
    BY <1>2, <1>3, PathFacts DEF Bare
  <2>3. OwnInv(led)
    BY <1>2, <1>3, <2>1, <2>2, PathFacts DEF OwnInv, Bare
  <2>4. QuietInv
    BY <1>1, <1>3, <1>4 DEF QuietInv, Same, Bare
  <2>5. PendOK(led) /\ IntentInv /\ ObservedInv
    BY <2>1 DEF PendOK, IntentInv, ObservedInv, Pending
  <2> QED BY <2>3, <2>4, <2>5 DEF TreeInv
<1>7. proc.job = "none"
  BY <1>1, SessionProc
<1>8. LeaseInv
  BY <1>1, <1>2, <1>7 DEF LeaseInv, AuthInv, JobInv, KataInv, WholeInv, Grown, Pending, Unleased
<1>9. PlanInv
  BY <1>7 DEF PlanInv
<1> QED BY <1>5, <1>6, <1>8, <1>9 DEF RootfsInv

\* Every step keeps the invariant.
LEMMA RootfsStep ==
    ASSUME RootfsInv, [Next]_leaseVars
    PROVE  RootfsInv'
<1>1. CASE BuilderNext /\ UNCHANGED <<pubVars, kata>>
  <2>0. UNCHANGED kata
    BY <1>1
  <2> QED BY <1>1, <2>0, BootstrapKeeps, BeginKeeps, GenesisKeeps, NoteKeeps, IntendKeeps, MakeKeeps, SettleKeeps,
             EndKeeps, UndoKeeps, CleanAbortKeeps, CleanSettleKeeps, CleanRemoveKeeps, RetireKeeps, CrashKeeps
          DEF BuilderNext
<1>2. CASE PublishNext /\ UNCHANGED kata
  BY <1>2, PublishKeeps
<1>3. CASE LeaseNext
  BY <1>3, MarkKeeps, AuthorizeKeeps, HoldKeeps DEF LeaseNext
<1>4. CASE UNCHANGED leaseVars
  BY <1>4, StutterKeeps DEF leaseVars
<1> QED BY <1>1, <1>2, <1>3, <1>4 DEF Next

\* The disk, what was fsynced of it, the ledger's fold, the operation's
\* journal and the plan of the running build are related by RootfsInv in
\* every reachable state, for every plan and every number of failures.
THEOREM RootfsInvariant == Spec => []RootfsInv
<1>1. Init => RootfsInv
  BY RootfsStarts
<1>2. RootfsInv /\ [Next]_leaseVars => RootfsInv'
  BY RootfsStep
<1> QED BY <1>1, <1>2, PTL DEF Spec

\* No crash, failed undo or half-done removal leaves a name on the disk that
\* the ledger does not answer for, and the fold stays legal
\* (_create_ledger_entry, _finish_remove, _retire).
THEOREM EveryNameIsOwned == Spec => []NamesAreOwned
<1>1. RootfsInv => NamesAreOwned
  <2> SUFFICES ASSUME RootfsInv PROVE NamesAreOwned
    OBVIOUS
  <2>a. TypeInv /\ TreeInv /\ LeaseInv
    BY DEF RootfsInv
  <2>1. LegalState(led)
    <3>1. led.phase \in Phases /\ led.pend \in Records /\ led.own \in [Nodes -> Nat] /\ led.links \in 0..Len(Aliases)
      BY <2>a, PartTypes DEF Trees
    <3>2. led.phase \in {"genesis", "ready", "aborted", "operation-absent", "retired"} => led.own["op"] = 0
      BY <2>a, PathFacts DEF TreeInv, OwnInv, Bare, Unleased
    <3>3. /\ (led.phase \in {"intent", "observed"}) <=> (led.pend.op # "none")
          /\ led.pend.op = "none" => led.ret = "none"
          /\ led.phase \in Grown \cup {"leased"} => led.own["op"] # 0
      BY <2>a DEF TreeInv, OwnInv, Pending
    <3>4. /\ led.auth # "none" => led.leased
          /\ "active" \in {led.phase, led.ret} => ~led.leased
      BY <2>a DEF LeaseInv, AuthInv
    <3> QED BY <3>1, <3>2, <3>3, <3>4 DEF LegalState
  <2>2. ASSUME NEW p \in Names
        PROVE  /\ disk[p] # 0 => led.own[p] # 0 \/ (led.pend.op # "none" /\ led.pend.path = p)
               /\ led.own[p] # 0 => disk[p] # 0 \/ (led.pend.op \in {"remove", "operation-remove"} /\ led.pend.path = p)
    <3>1. CASE led.phase \notin Pending
      BY <2>a, <3>1 DEF TreeInv, QuietInv, Same
    <3>2. CASE led.phase \in Pending
      <4>1. led.pend.op \in Kinds /\ led.pend.op # "none" /\ SameBut(disk, led.own, led.pend.path)
        BY <2>a, <3>2, PartTypes DEF TreeInv, OwnInv, IntentInv, ObservedInv, Pending
      <4>2. led.pend.op \notin Removals => (led.own[led.pend.path] # 0 => disk[led.pend.path] # 0)
        BY <2>a, <3>2, <4>1, PartTypes DEF TreeInv, IntentInv, ObservedInv, Pending, Kinds, Creations, Removals, Same
      <4> QED BY <4>1, <4>2 DEF SameBut, Removals
    <3> QED BY <3>1, <3>2
  <2> QED BY <2>1, <2>2 DEF NamesAreOwned, Names
<1> QED BY <1>1, RootfsInvariant, PTL

\* While an operation may use the rootfs, the whole planned tree is there as
\* it was leased, whoever runs which recovery at what time
\* (_open_cleanup_session, _recover_unadmitted_kata_operation).
THEOREM TheLeaseIsKept == Spec => []LeaseIsKept
<1>1. RootfsInv => LeaseIsKept
  <2> SUFFICES ASSUME RootfsInv,
                      kata \in {"begun", "admitted"} \/ (kata = "ready" /\ led.phase # "absent" /\ led.auth = "none")
               PROVE  led.leased /\ disk = led.own /\ \A p \in Names : disk[p] # 0
    BY DEF LeaseIsKept, Names
  <2>a. LeaseInv
    BY DEF RootfsInv
  <2>1. led.phase = "leased" \/ kata = "begun"
    BY <2>a DEF LeaseInv, KataInv
  <2>2. led.leased
    BY <2>a DEF LeaseInv, KataInv, AuthInv
  <2> QED BY <2>a, <2>1, <2>2 DEF LeaseInv, WholeInv
<1> QED BY <1>1, RootfsInvariant, PTL

\* The two ledgers agree about the release at every cut between their records
\* (_authorize_kata_release, _kata_authorized_absence).
THEOREM TheLedgersAgree == Spec => []LedgersAgree
<1>1. RootfsInv => LedgersAgree
  <2> SUFFICES ASSUME RootfsInv PROVE LedgersAgree
    OBVIOUS
  <2>a. TreeInv /\ LeaseInv
    BY DEF RootfsInv
  <2>1. kata = "settled" => \A p \in Names : disk[p] = 0
    BY <2>a DEF LeaseInv, KataInv, TreeInv, OwnInv, QuietInv, Same, Bare, Unleased, Pending
  <2>2. /\ led.auth = "release" => kata \in {"ready", "authorized"}
        /\ led.auth = "prestage" => kata \in {"absent", "begun"}
        /\ kata = "authorized" => led.auth = "release" \/ led.phase = "absent"
    BY <2>a DEF LeaseInv, KataInv
  <2> QED BY <2>1, <2>2 DEF LedgersAgree, Names
<1> QED BY <1>1, RootfsInvariant, PTL

-----------------------------------------------------------------------------
(* The publication. *)

PubPhases == {"intent", "candidate-intent", "candidate", "file-intent", "file-ready", "file", "candidate-generation",
              "prepared", "rename", "accepted"}
Snaps == [phase : PubPhases, n : Nat, id : Int]
PubTypeInv ==
    /\ txn \in [main : Seq(Snaps), next : Seq(Snaps), torn : BOOLEAN]
    /\ cand \in [at : {"none", "candidate", "accepted"}, n : Nat, v : Int]
    /\ anon \in Int

\* A snapshot vouches for the candidate directory as it is: its last record
\* counts the linked files, or all but the one being linked, and there is an
\* accepted directory only when that record says that it was to be renamed.
Vouches(s) ==
    LET t == s[Len(s)] IN
    /\ s = <<>> => cand.at = "none"
    /\ s # <<>> =>
          /\ t.phase \in {"intent", "candidate-intent"} => t.n = 0
          /\ cand.at = "accepted" => cand.n = PubFiles /\ t.phase \in {"rename", "accepted"}
          /\ cand.at # "none" => cand.n \in {t.n, t.n + 1}

\* The snapshot in place vouches, and so does the one about to replace it.
PubInv ==
    /\ PubTypeInv
    /\ Vouches(txn.main)
    /\ Len(txn.next) > Len(txn.main) => Vouches(txn.next)

\* A new snapshot is written beside the old one.
LEMMA PutKeeps ==
    ASSUME PubInv, NEW s \in Seq(Snaps), s # <<>>, Put(s), cand' = cand, anon' \in Int,
           s[Len(s)].phase \in {"intent", "candidate-intent"} => s[Len(s)].n = 0,
           cand.at = "accepted" => cand.n = PubFiles /\ s[Len(s)].phase \in {"rename", "accepted"},
           cand.at # "none" => cand.n \in {s[Len(s)].n, s[Len(s)].n + 1}
    PROVE  PubInv'
<1>1. txn' = [txn EXCEPT !.next = s]
  BY DEF Put
<1>2. PubTypeInv'
  BY <1>1 DEF PubInv, PubTypeInv
<1>3. txn'.main = txn.main /\ txn'.next = s
  BY <1>1 DEF PubInv, PubTypeInv
<1>4. Vouches(txn.main)' /\ Vouches(txn.next)'
  BY <1>3 DEF PubInv, Vouches
<1> QED BY <1>2, <1>4 DEF PubInv

\* One more record.
LEMMA RecordKeeps ==
    ASSUME PubInv, NEW phase \in PubPhases, NEW n \in Nat, NEW id \in Int, Record(phase, n, id), cand' = cand, anon' \in Int,
           phase \in {"intent", "candidate-intent"} => n = 0,
           cand.at = "accepted" => cand.n = PubFiles /\ phase \in {"rename", "accepted"},
           cand.at # "none" => cand.n \in {n, n + 1}
    PROVE  PubInv'
<1> DEFINE r == Rec(phase, n, id)
           s == Append(txn.main, r)
<1>1. r \in Snaps /\ r.phase = phase /\ r.n = n /\ txn.main \in Seq(Snaps)
  BY DEF Rec, Snaps, PubInv, PubTypeInv
<1>2. Put(s)
  BY DEF Record
<1> HIDE DEF r
<1>3. s \in Seq(Snaps) /\ s # <<>> /\ s[Len(s)] = r
  BY <1>1
<1> HIDE DEF s
<1> QED BY <1>1, <1>2, <1>3, PutKeeps

\* Every step of the publication.
LEMMA PubStep ==
    ASSUME PubInv, PublishNext
    PROVE  PubInv'
<1>0. /\ txn \in [main : Seq(Snaps), next : Seq(Snaps), torn : BOOLEAN] /\ anon \in Int
      /\ cand \in [at : {"none", "candidate", "accepted"}, n : Nat, v : Int] /\ cand.v \in Int /\ cand.n \in Nat
      /\ PubFiles \in Nat
  BY PubAssumption DEF PubInv, PubTypeInv
<1>1. ASSUME txn.main # <<>>
      PROVE  /\ Tip = txn.main[Len(txn.main)] /\ Tip \in Snaps /\ Tip.n \in Nat /\ Tip.id \in Int
             /\ Tip.phase \in {"intent", "candidate-intent"} => Tip.n = 0
             /\ cand.at = "accepted" => cand.n = PubFiles /\ Tip.phase \in {"rename", "accepted"}
             /\ cand.at # "none" => cand.n \in {Tip.n, Tip.n + 1}
  <2>1. Tip = txn.main[Len(txn.main)]
    BY DEF Tip, Last
  <2>2. Tip \in Snaps
    BY <1>0, <1>1, <2>1
  <2> QED BY <1>1, <2>1, <2>2 DEF Snaps, PubInv, Vouches
<1>2. ASSUME UNCHANGED <<txn, cand>>, anon' \in Int PROVE PubInv'
  BY <1>2 DEF PubInv, PubTypeInv, Vouches
<1>3. CASE StartPublish \/ Published
  BY <1>0, <1>2, <1>3 DEF StartPublish, Published, pubVars
<1>4. CASE ExchangeSnapshot
  <2>1. /\ cand' = cand /\ anon' = anon /\ Len(txn.next) > Len(txn.main)
        /\ txn' = IF txn.main = <<>> THEN [txn EXCEPT !.main = txn.next, !.next = <<>>]
                  ELSE [txn EXCEPT !.main = txn.next, !.next = txn.main]
    BY <1>4 DEF ExchangeSnapshot
  <2>2. txn'.main = txn.next /\ Len(txn'.next) < Len(txn'.main) /\ PubTypeInv'
    <3>1. txn'.main = txn.next /\ txn'.next = txn.main
      BY <1>0, <2>1
    <3>2. Len(txn.main) \in Nat /\ Len(txn.next) \in Nat
      BY <1>0
    <3>3. txn' \in [main : Seq(Snaps), next : Seq(Snaps), torn : BOOLEAN]
      BY <1>0, <2>1
    <3> QED BY <1>0, <2>1, <3>1, <3>2, <3>3 DEF PubTypeInv
  <2>3. Vouches(txn.main)'
    BY <2>1, <2>2 DEF PubInv, Vouches
  <2>4. ~(Len(txn'.next) > Len(txn'.main))
    BY <2>2 DEF PubTypeInv
  <2> QED BY <2>2, <2>3, <2>4 DEF PubInv
<1>5. CASE RemoveOldSnapshot \/ TearSnapshot
  <2>1. cand' = cand /\ anon' = anon /\ txn' \in {[txn EXCEPT !.next = <<>>], [txn EXCEPT !.torn = TRUE]}
    BY <1>5 DEF RemoveOldSnapshot, TearSnapshot
  <2>2. txn'.main = txn.main /\ txn'.next \in {<<>>, txn.next} /\ PubTypeInv'
    <3>1. <<>> \in Seq(Snaps)
      OBVIOUS
    <3>2. CASE txn' = [txn EXCEPT !.next = <<>>]
      <4>1. txn' \in [main : Seq(Snaps), next : Seq(Snaps), torn : BOOLEAN] /\ txn'.main = txn.main /\ txn'.next = <<>>
        BY <1>0, <3>1, <3>2
      <4> QED BY <1>0, <2>1, <4>1 DEF PubTypeInv
    <3>3. CASE txn' = [txn EXCEPT !.torn = TRUE]
      <4>1. txn' \in [main : Seq(Snaps), next : Seq(Snaps), torn : BOOLEAN] /\ txn'.main = txn.main /\ txn'.next = txn.next
        BY <1>0, <3>3
      <4> QED BY <1>0, <2>1, <4>1 DEF PubTypeInv
    <3> QED BY <2>1, <3>2, <3>3
  <2>3. Vouches(txn.main)'
    BY <2>1, <2>2 DEF PubInv, Vouches
  <2>4. Len(txn'.next) > Len(txn'.main) => Vouches(txn.next)'
    <3>1. Len(<<>>) = 0 /\ Len(txn.main) \in Nat
      BY <1>0
    <3>2. CASE txn'.next = <<>>
      BY <2>2, <3>1, <3>2
    <3>3. CASE txn'.next = txn.next
      BY <2>1, <2>2, <3>3 DEF PubInv, Vouches
    <3> QED BY <2>2, <3>2, <3>3
  <2> QED BY <2>2, <2>3, <2>4 DEF PubInv
<1>6. CASE PublishIntent
  <2>1. Record("intent", 0, 0) /\ cand' = cand /\ anon' \in Int /\ cand.at = "none"
    BY <1>0, <1>6 DEF PublishIntent, PubInv, Vouches
  <2> QED BY <2>1, RecordKeeps DEF PubPhases
<1>7. CASE CandidateIntent
  <2>1. Record("candidate-intent", 0, 0) /\ cand' = cand /\ anon' \in Int /\ cand.at = "none"
    BY <1>0, <1>7 DEF CandidateIntent
  <2> QED BY <2>1, RecordKeeps DEF PubPhases
<1>8. CASE MakeCandidate
  <2>1. /\ txn' = txn /\ txn.main # <<>> /\ txn.next = <<>> /\ Tip.phase = "candidate-intent"
        /\ cand' = [at |-> "candidate", n |-> 0, v |-> 1] /\ anon' = -1
    BY <1>8 DEF MakeCandidate, Ready, Whole, OwnDirectory
  <2>2. Tip = txn.main[Len(txn.main)] /\ Tip.n = 0
    BY <1>1, <2>1
  <2>3. ~(Len(txn.next) > Len(txn.main))
    <3>1. Len(<<>>) = 0 /\ Len(txn.main) \in Nat
      BY <1>0
    <3> QED BY <2>1, <3>1
  <2>4. PubTypeInv'
    BY <1>0, <2>1 DEF PubTypeInv
  <2>5. Vouches(txn.main)'
    BY <2>1, <2>2 DEF Vouches
  <2> QED BY <2>1, <2>3, <2>4, <2>5 DEF PubInv
<1>9. CASE RecordCandidate
  <2>1. Record("candidate", 0, cand.v) /\ cand' = cand /\ anon' \in Int /\ txn.main # <<>> /\ Tip.phase = "candidate-intent"
    BY <1>9 DEF RecordCandidate
  <2> QED BY <1>0, <1>1, <2>1, RecordKeeps DEF PubPhases
<1>10. CASE FileIntent
  <2>1. /\ Record("file-intent", Tip.n, cand.v) /\ cand' = cand /\ anon' \in Int /\ txn.main # <<>>
        /\ cand.at = "candidate" /\ cand.n = Tip.n
    BY <1>0, <1>10 DEF FileIntent, AtCandidate
  <2> QED BY <1>0, <1>1, <2>1, RecordKeeps DEF PubPhases
<1>11. CASE PrepareFile
  <2>1. /\ Record("file-ready", Tip.n, anon') /\ cand' = cand /\ anon' = Len(txn.main) + 1 /\ txn.main # <<>>
        /\ cand.at = "candidate" /\ cand.n = Tip.n
    BY <1>11 DEF PrepareFile, AtCandidate
  <2>2. anon' \in Int
    BY <1>0, <2>1
  <2> QED BY <1>0, <1>1, <2>1, <2>2, RecordKeeps DEF PubPhases
<1>12. CASE LinkFile
  <2>1. /\ txn' = txn /\ txn.main # <<>> /\ txn.next = <<>> /\ cand.n = Tip.n /\ anon' = anon
        /\ cand' = [cand EXCEPT !.n = @ + 1, !.v = @ + 1] /\ cand.at = "candidate"
    BY <1>12 DEF LinkFile, AtCandidate, Ready, Whole
  <2>2. cand'.at = "candidate" /\ cand'.n = Tip.n + 1 /\ PubTypeInv'
    <3>1. cand.n + 1 \in Nat /\ cand.v + 1 \in Int
      BY <1>0
    <3>2. cand'.at = "candidate" /\ cand'.n = cand.n + 1
      BY <1>0, <2>1
    <3>3. cand' \in [at : {"none", "candidate", "accepted"}, n : Nat, v : Int]
      BY <1>0, <2>1, <3>1
    <3> QED BY <1>0, <2>1, <3>2, <3>3 DEF PubTypeInv
  <2>3. ~(Len(txn.next) > Len(txn.main))
    <3>1. Len(<<>>) = 0 /\ Len(txn.main) \in Nat
      BY <1>0
    <3> QED BY <2>1, <3>1
  <2>4. Vouches(txn.main)'
    BY <1>1, <2>1, <2>2 DEF Vouches
  <2> QED BY <2>1, <2>2, <2>3, <2>4 DEF PubInv
<1>13. CASE RecordFile
  <2> DEFINE a == Rec("file", cand.n, Tip.id)
             b == Rec("candidate-generation", cand.n, cand.v)
             s == txn.main \o <<a, b>>
  <2>1. Put(s) /\ cand' = cand /\ anon' \in Int /\ txn.main # <<>> /\ cand.at = "candidate"
    BY <1>13 DEF RecordFile, AtCandidate
  <2>2. a \in Snaps /\ b \in Snaps /\ b.phase = "candidate-generation" /\ b.n = cand.n
    BY <1>0, <1>1, <2>1 DEF Rec, Snaps, PubPhases
  <2> HIDE DEF a, b
  <2>3. s \in Seq(Snaps) /\ s # <<>> /\ s[Len(s)] = b
    BY <1>0, <2>2
  <2> HIDE DEF s
  <2> QED BY <2>1, <2>2, <2>3, PutKeeps
<1>14. CASE Prepare
  <2>1. /\ Record("prepared", PubFiles, cand.v) /\ cand' = cand /\ anon' \in Int
        /\ cand.at = "candidate" /\ cand.n = PubFiles
    BY <1>0, <1>14 DEF Prepare, AtCandidate
  <2> QED BY <1>0, <2>1, RecordKeeps DEF PubPhases
<1>15. CASE RenameIntent
  <2>1. /\ Record("rename", PubFiles, cand.v) /\ cand' = cand /\ anon' \in Int
        /\ cand.at = "candidate" /\ cand.n = PubFiles
    BY <1>0, <1>15 DEF RenameIntent, AtCandidate
  <2> QED BY <1>0, <2>1, RecordKeeps DEF PubPhases
<1>16. CASE Rename
  <2>1. /\ txn' = txn /\ txn.main # <<>> /\ txn.next = <<>> /\ cand.n = PubFiles /\ anon' = anon
        /\ Tip.phase = "rename" /\ cand.at = "candidate"
        /\ cand' = [cand EXCEPT !.at = "accepted"]
    BY <1>16 DEF Rename, AtCandidate, Ready, Whole
  <2>2. cand'.at = "accepted" /\ cand'.n = cand.n /\ PubTypeInv'
    BY <1>0, <2>1 DEF PubTypeInv
  <2>3. ~(Len(txn.next) > Len(txn.main))
    <3>1. Len(<<>>) = 0 /\ Len(txn.main) \in Nat
      BY <1>0
    <3> QED BY <2>1, <3>1
  <2>4. Vouches(txn.main)'
    BY <1>1, <2>1, <2>2 DEF Vouches
  <2> QED BY <2>1, <2>2, <2>3, <2>4 DEF PubInv
<1>17. CASE Accept
  <2>1. Record("accepted", PubFiles, cand.v) /\ cand' = cand /\ anon' \in Int /\ cand.n = PubFiles
    BY <1>0, <1>17 DEF Accept
  <2> QED BY <1>0, <2>1, RecordKeeps DEF PubPhases
<1>18. CASE PublishFails
  <2>1. txn' = txn /\ anon' = anon /\ cand' \in {cand, [at |-> "none", n |-> 0, v |-> 0]}
    BY <1>18 DEF PublishFails
  <2>2. CASE cand' = cand
    BY <1>0, <1>2, <2>1, <2>2
  <2>3. CASE cand' = [at |-> "none", n |-> 0, v |-> 0]
    <3>1. cand'.at = "none" /\ PubTypeInv'
      BY <1>0, <2>1, <2>3 DEF PubTypeInv
    <3>2. Vouches(txn.main)' /\ (Len(txn.next) > Len(txn.main) => Vouches(txn.next)')
      BY <2>1, <3>1 DEF PubInv, Vouches
    <3> QED BY <2>1, <3>1, <3>2 DEF PubInv
  <2> QED BY <2>1, <2>2, <2>3
<1> QED BY <1>3, <1>4, <1>5, <1>6, <1>7, <1>8, <1>9, <1>10, <1>11, <1>12, <1>13, <1>14, <1>15, <1>16, <1>17, <1>18
        DEF PublishNext

\* A candidate that has the accepted name has every file and a transaction
\* past its rename record, and there is never a candidate without a
\* transaction that counts its files (_publish, _exchange_snapshot).
THEOREM WhatIsAcceptedIsWhole == Spec => []AcceptedIsWhole
<1>1. Init => PubInv
  <2> SUFFICES ASSUME Init PROVE PubInv
    OBVIOUS
  <2>1. txn = [main |-> <<>>, next |-> <<>>, torn |-> FALSE] /\ cand = [at |-> "none", n |-> 0, v |-> 0] /\ anon = 0
    BY DEF Init, PublishInit, NoTxn
  <2>2. PubTypeInv /\ txn.main = <<>> /\ txn.next = <<>> /\ cand.at = "none"
    BY <2>1 DEF PubTypeInv
  <2> QED BY <2>2 DEF PubInv, Vouches
<1>2. PubInv /\ [Next]_leaseVars => PubInv'
  <2> SUFFICES ASSUME PubInv, [Next]_leaseVars PROVE PubInv'
    OBVIOUS
  <2>1. CASE PublishNext
    BY <2>1, PubStep
  <2>2. CASE UNCHANGED pubVars
    BY <2>2 DEF pubVars, PubInv, PubTypeInv, Vouches
  <2>3. LeaseNext => UNCHANGED pubVars
    BY DEF LeaseNext, MarkLeased, MarkLeasedFails, KataBegin, KataAdmit, Abandon, KataReady, ReopenLease, AuthorizeRelease,
           SettleRelease, ReleaseFails, ResumeRelease, ProveAbsence, PrestageOpen, AuthorizePrestage, SettlePrestage
  <2> QED BY <2>1, <2>2, <2>3 DEF Next, leaseVars
<1>3. PubInv => AcceptedIsWhole
  <2> SUFFICES ASSUME PubInv PROVE AcceptedIsWhole
    OBVIOUS
  <2>1. Tip = txn.main[Len(txn.main)]
    BY DEF Tip, Last
  <2> QED BY <2>1 DEF PubInv, Vouches, AcceptedIsWhole
<1> QED BY <1>1, <1>2, <1>3, PTL DEF Spec
=============================================================================

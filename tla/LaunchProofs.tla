---------------------------- MODULE LaunchProofs ----------------------------
(***************************************************************************)
(* Proofs about the two launches.  Of the trusted runtime launcher: what   *)
(* runs behind a gate is leased, a certain result has left nothing behind, *)
(* and the issued report is the one that was compared, for every set of    *)
(* operations, any number of faults and of tools.  One inductive invariant *)
(* carries all three; it is kept by the steps of the coordinator, which    *)
(* change its leases, and by those of the other processes and the kernel,  *)
(* which do not.  Of the launch lifecycle: its safety and its one end, for *)
(* every list of dependencies, any choice of independent ones and any      *)
(* number of callers.                                                      *)
(***************************************************************************)
EXTENDS TrustedLauncher, LaunchLifecycle, FiniteSetTheorems, SequenceTheorems, TLAPS

-----------------------------------------------------------------------------
(* What the operators on lists of leases do to the set of what they name. *)

LEMMA InTheSet ==
  ASSUME NEW D, NEW s \in Seq(D)
  PROVE  /\ DOMAIN s = 1..Len(s) /\ Len(s) \in Nat /\ ToSet(s) \subseteq D
         /\ \A x : x \in ToSet(s) <=> \E i \in 1..Len(s) : s[i] = x
         /\ IsInjective(s) <=> \A i \in 1..Len(s), j \in 1..Len(s) : s[i] = s[j] => i = j
  <1>1. DOMAIN s = 1..Len(s) /\ Len(s) \in Nat /\ \A i \in 1..Len(s) : s[i] \in D
    OBVIOUS
  <1>2. \A x : x \in ToSet(s) <=> \E i \in 1..Len(s) : s[i] = x
    BY <1>1 DEF ToSet
  <1>3. IsInjective(s) <=> \A i \in 1..Len(s), j \in 1..Len(s) : s[i] = s[j] => i = j
    BY <1>1 DEF IsInjective
  <1> QED
    BY <1>1, <1>2, <1>3

LEMMA SetOfNothing == ToSet(<<>>) = {} /\ IsInjective(<<>>)
  BY DEF ToSet, IsInjective

LEMMA SetOfOne ==
  ASSUME NEW e
  PROVE  ToSet(<<e>>) = {e}
  BY DEF ToSet

LEMMA NothingInNothing ==
  ASSUME NEW D, NEW s \in Seq(D), ToSet(s) = {}
  PROVE  s = <<>>
  BY DEF ToSet

LEMMA SetOfAppend ==
  ASSUME NEW D, NEW s \in Seq(D), NEW e \in D
  PROVE  /\ Append(s, e) \in Seq(D) /\ ToSet(Append(s, e)) = ToSet(s) \cup {e}
         /\ IsInjective(s) /\ e \notin ToSet(s) => IsInjective(Append(s, e))
  <1>1. /\ Append(s, e) \in Seq(D) /\ Len(Append(s, e)) = Len(s) + 1
        /\ \A i \in 1..Len(s) : Append(s, e)[i] = s[i]
        /\ Append(s, e)[Len(s) + 1] = e
    OBVIOUS
  <1>2. DOMAIN s = 1..Len(s) /\ DOMAIN Append(s, e) = 1..(Len(s) + 1)
    BY <1>1
  <1> DEFINE t == Append(s, e)
  <1> HIDE DEF t
  <1>3. ToSet(t) = ToSet(s) \cup {e}
    BY <1>1, <1>2 DEF ToSet, t
  <1>4. IsInjective(s) /\ e \notin ToSet(s) => IsInjective(t)
    BY <1>1, <1>2 DEF ToSet, IsInjective, t
  <1> QED
    BY <1>1, <1>3, <1>4 DEF t

\* Where the elements of a joined list come from.
LEMMA JoinedLists ==
  ASSUME NEW D, NEW s \in Seq(D), NEW t \in Seq(D)
  PROVE  /\ s \o t \in Seq(D) /\ Len(s \o t) = Len(s) + Len(t)
         /\ \A i \in 1..Len(s) : i \in 1..Len(s \o t) /\ (s \o t)[i] = s[i]
         /\ \A i \in 1..Len(t) : Len(s) + i \in 1..Len(s \o t) /\ (s \o t)[Len(s) + i] = t[i]
         /\ \A i \in 1..Len(s \o t) : i \in 1..Len(s) \/ \E j \in 1..Len(t) : i = Len(s) + j
  <1>1. s \o t \in Seq(D) /\ Len(s \o t) = Len(s) + Len(t) /\ Len(s) \in Nat /\ Len(t) \in Nat
    OBVIOUS
  <1>2. \A i \in 1..Len(s) : (s \o t)[i] = s[i]
    OBVIOUS
  <1>3. \A i \in 1..Len(t) : (s \o t)[Len(s) + i] = t[i]
    OBVIOUS
  <1> DEFINE u == s \o t
  <1> HIDE DEF u
  <1>4. \A i \in 1..Len(u) : i \in 1..Len(s) \/ (i - Len(s) \in 1..Len(t) /\ i = Len(s) + (i - Len(s)))
    BY <1>1 DEF u
  <1>5. \A i \in 1..Len(s) : i \in 1..Len(u)
    BY <1>1 DEF u
  <1>6. \A i \in 1..Len(t) : Len(s) + i \in 1..Len(u)
    BY <1>1 DEF u
  <1> QED
    BY <1>1, <1>2, <1>3, <1>4, <1>5, <1>6 DEF u

LEMMA SetOfConcat ==
  ASSUME NEW D, NEW s \in Seq(D), NEW t \in Seq(D)
  PROVE  /\ s \o t \in Seq(D) /\ ToSet(s \o t) = ToSet(s) \cup ToSet(t)
         /\ IsInjective(s) /\ IsInjective(t) /\ ToSet(s) \cap ToSet(t) = {} => IsInjective(s \o t)
  <1> DEFINE u == s \o t
  <1>1. /\ u \in Seq(D) /\ Len(u) = Len(s) + Len(t)
        /\ \A i \in 1..Len(s) : i \in 1..Len(u) /\ u[i] = s[i]
        /\ \A i \in 1..Len(t) : Len(s) + i \in 1..Len(u) /\ u[Len(s) + i] = t[i]
        /\ \A i \in 1..Len(u) : i \in 1..Len(s) \/ \E j \in 1..Len(t) : i = Len(s) + j
    BY JoinedLists
  <1> HIDE DEF u
  <1>2. /\ \A x : x \in ToSet(u) <=> \E i \in 1..Len(u) : u[i] = x
        /\ IsInjective(u) <=> \A i \in 1..Len(u), j \in 1..Len(u) : u[i] = u[j] => i = j
    <2>1. u \in Seq(D)
      BY <1>1
    <2> QED
      BY <2>1, InTheSet
  <1>3. /\ \A x : x \in ToSet(s) <=> \E i \in 1..Len(s) : s[i] = x
        /\ IsInjective(s) <=> \A i \in 1..Len(s), j \in 1..Len(s) : s[i] = s[j] => i = j
    BY InTheSet
  <1>4. /\ \A x : x \in ToSet(t) <=> \E i \in 1..Len(t) : t[i] = x
        /\ IsInjective(t) <=> \A i \in 1..Len(t), j \in 1..Len(t) : t[i] = t[j] => i = j
    BY InTheSet
  <1>5. ASSUME NEW x
        PROVE  x \in ToSet(u) <=> x \in ToSet(s) \/ x \in ToSet(t)
    <2>1. ASSUME x \in ToSet(u)
          PROVE  x \in ToSet(s) \/ x \in ToSet(t)
      <3>1. PICK i \in 1..Len(u) : u[i] = x
        BY <1>2, <2>1
      <3>2. CASE i \in 1..Len(s)
        BY <1>1, <1>3, <3>1, <3>2
      <3>3. ASSUME NEW j \in 1..Len(t), i = Len(s) + j
            PROVE  x \in ToSet(t)
        BY <1>1, <1>4, <3>1, <3>3
      <3> QED
        BY <1>1, <3>2, <3>3
    <2>2. x \in ToSet(s) => x \in ToSet(u)
      BY <1>1, <1>2, <1>3
    <2>3. x \in ToSet(t) => x \in ToSet(u)
      BY <1>1, <1>2, <1>4
    <2> QED
      BY <2>1, <2>2, <2>3
  <1>6. ASSUME IsInjective(s), IsInjective(t), ToSet(s) \cap ToSet(t) = {}
        PROVE  IsInjective(u)
    <2> SUFFICES ASSUME NEW i \in 1..Len(u), NEW j \in 1..Len(u), u[i] = u[j]
                 PROVE  i = j
      BY <1>2
    <2>1. i \in 1..Len(s) \/ \E m \in 1..Len(t) : i = Len(s) + m
      BY <1>1
    <2>2. j \in 1..Len(s) \/ \E m \in 1..Len(t) : j = Len(s) + m
      BY <1>1
    <2>3. CASE i \in 1..Len(s) /\ j \in 1..Len(s)
      BY <1>1, <1>3, <1>6, <2>3
    <2>4. ASSUME NEW m \in 1..Len(t), NEW n \in 1..Len(t), i = Len(s) + m, j = Len(s) + n
          PROVE  i = j
      BY <1>1, <1>4, <1>6, <2>4
    <2>5. ASSUME i \in 1..Len(s), NEW n \in 1..Len(t), j = Len(s) + n
          PROVE  FALSE
      <3>1. u[i] \in ToSet(s)
        BY <1>1, <1>3, <2>5
      <3>2. u[j] \in ToSet(t)
        BY <1>1, <1>4, <2>5
      <3> QED
        BY <1>6, <3>1, <3>2
    <2>6. ASSUME j \in 1..Len(s), NEW n \in 1..Len(t), i = Len(s) + n
          PROVE  FALSE
      <3>1. u[i] \in ToSet(t)
        BY <1>1, <1>4, <2>6
      <3>2. u[j] \in ToSet(s)
        BY <1>1, <1>3, <2>6
      <3> QED
        BY <1>6, <3>1, <3>2
    <2> QED
      BY <2>1, <2>2, <2>3, <2>4, <2>5, <2>6
  <1>7. ToSet(u) = ToSet(s) \cup ToSet(t)
    BY <1>5
  <1> QED
    BY <1>1, <1>6, <1>7 DEF u

LEMMA SetOfTail ==
  ASSUME NEW D, NEW s \in Seq(D), s # <<>>
  PROVE  /\ Tail(s) \in Seq(D) /\ Head(s) \in D /\ Head(s) \in ToSet(s)
         /\ ToSet(s) = ToSet(Tail(s)) \cup {Head(s)}
  <1>1. /\ Len(s) \in Nat /\ Len(s) >= 1 /\ DOMAIN s = 1..Len(s) /\ Head(s) = s[1]
        /\ Tail(s) \in Seq(D) /\ Len(Tail(s)) = Len(s) - 1
        /\ \A i \in 1..(Len(s) - 1) : Tail(s)[i] = s[i + 1]
    OBVIOUS
  <1>6. s[1] \in D
    BY <1>1
  <1> DEFINE t == Tail(s)
  <1>2. DOMAIN t = 1..(Len(s) - 1)
    BY <1>1
  <1> HIDE DEF t
  <1>3. \A i \in DOMAIN s : i = 1 \/ (i - 1 \in DOMAIN t /\ t[i - 1] = s[i])
    BY <1>1, <1>2 DEF t
  <1>4. \A i \in DOMAIN t : i + 1 \in DOMAIN s /\ t[i] = s[i + 1]
    BY <1>1, <1>2 DEF t
  <1>5. ToSet(s) = ToSet(t) \cup {s[1]}
    BY <1>1, <1>3, <1>4 DEF ToSet
  <1> QED
    BY <1>1, <1>5, <1>6 DEF t

LEMMA SetOfRemoval ==
  ASSUME NEW D, NEW s \in Seq(D), NEW e, IsInjective(s)
  PROVE  /\ RemoveFirst(s, e) \in Seq(D) /\ ToSet(RemoveFirst(s, e)) = ToSet(s) \ {e}
         /\ IsInjective(RemoveFirst(s, e))
  <1>0. /\ DOMAIN s = 1..Len(s) /\ Len(s) \in Nat
        /\ \A x : x \in ToSet(s) <=> \E i \in 1..Len(s) : s[i] = x
        /\ \A i \in 1..Len(s), j \in 1..Len(s) : s[i] = s[j] => i = j
    BY InTheSet
  <1>1. CASE ~ \E i \in 1..Len(s) : s[i] = e
    <2>1. RemoveFirst(s, e) = s
      BY <1>1 DEF RemoveFirst
    <2>2. e \notin ToSet(s)
      BY <1>0, <1>1
    <2> QED
      BY <2>1, <2>2
  <1>2. CASE \E i \in 1..Len(s) : s[i] = e
    <2>1. PICK n \in 1..Len(s) : s[n] = e
      BY <1>2
    <2> DEFINE I == {i \in 1..Len(s) : s[i] = e}
               a == SubSeq(s, 1, n - 1)
               b == SubSeq(s, n + 1, Len(s))
               m == Len(s) - n
    <2>2. I = {n}
      BY <1>0, <2>1
    <2>3. Min(I) = n
      BY <2>1, <2>2 DEF Min
    <2>4. SelectInSeq(s, LAMBDA v : v = e) = n
      BY <2>2, <2>3 DEF SelectInSeq
    <2>5. RemoveFirst(s, e) = a \o b
      BY <1>2, <2>4 DEF RemoveFirst, RemoveAt
    <2>6. a \in Seq(D) /\ Len(a) = n - 1 /\ \A i \in 1..(n - 1) : i \in 1..Len(s) /\ a[i] = s[i]
      BY <1>0, <2>1
    <2>7. b \in Seq(D) /\ Len(b) = m /\ \A i \in 1..m : n + i \in 1..Len(s) /\ b[i] = s[n + i]
      <3>1. m \in Nat /\ \A i \in 1..m : n + i \in 1..Len(s) /\ (n + 1) + i - 1 = n + i
        BY <1>0, <2>1
      <3>2. n + 1 \in Int /\ Len(s) \in Int /\ \A i \in (n + 1)..Len(s) : s[i] \in D
        BY <1>0, <2>1
      <3>3. /\ b \in Seq(D) /\ Len(b) = IF n + 1 <= Len(s) THEN Len(s) - (n + 1) + 1 ELSE 0
            /\ \A i \in 1..(Len(s) - (n + 1) + 1) : b[i] = s[(n + 1) + i - 1]
        BY <3>2, SubSeqProperties
      <3>4. ASSUME NEW q \in Nat, n \in 1..q
            PROVE  /\ q - (n + 1) + 1 = q - n
                   /\ (IF n + 1 <= q THEN q - (n + 1) + 1 ELSE 0) = q - n
        BY <3>4
      <3>6. /\ Len(s) - (n + 1) + 1 = m
            /\ (IF n + 1 <= Len(s) THEN Len(s) - (n + 1) + 1 ELSE 0) = m
        BY <1>0, <3>4
      <3> HIDE DEF b, m
      <3>5. \A i \in 1..m : b[i] = s[n + i]
        BY <3>1, <3>3, <3>6
      <3> QED
        BY <3>1, <3>3, <3>5, <3>6
    <2> HIDE DEF a, b, I, m
    <2>8. /\ \A x : x \in ToSet(a) <=> \E i \in 1..(n - 1) : a[i] = x
          /\ IsInjective(a) <=> \A i \in 1..(n - 1), j \in 1..(n - 1) : a[i] = a[j] => i = j
      BY <2>6, InTheSet
    <2>9. /\ \A x : x \in ToSet(b) <=> \E i \in 1..m : b[i] = x
          /\ IsInjective(b) <=> \A i \in 1..m, j \in 1..m : b[i] = b[j] => i = j
      <3>1. /\ \A x : x \in ToSet(b) <=> \E i \in 1..Len(b) : b[i] = x
            /\ IsInjective(b) <=> \A i \in 1..Len(b), j \in 1..Len(b) : b[i] = b[j] => i = j
        BY <2>7, InTheSet
      <3>2. Len(b) = m
        BY <2>7
      <3> QED
        BY <3>1, <3>2
    <2>10. IsInjective(a)
      BY <1>0, <2>6, <2>8
    <2>11. IsInjective(b)
      BY <1>0, <2>1, <2>7, <2>9
    <2>12. ASSUME NEW x \in ToSet(a)
           PROVE  x \notin ToSet(b) /\ x \in ToSet(s) /\ x # e
      <3>1. PICK i \in 1..(n - 1) : x = s[i] /\ i \in 1..Len(s)
        BY <2>6, <2>8
      <3>2. \A j \in 1..m : b[j] # x
        BY <1>0, <2>1, <2>7, <3>1 DEF m
      <3> QED
        BY <1>0, <2>1, <2>9, <3>1, <3>2
    <2>13. ASSUME NEW x \in ToSet(b)
           PROVE  x \in ToSet(s) /\ x # e
      <3>1. PICK i \in 1..m : x = s[n + i] /\ n + i \in 1..Len(s)
        BY <2>7, <2>9
      <3> QED
        BY <1>0, <2>1, <3>1
    <2>14. ASSUME NEW x \in ToSet(s), x # e
           PROVE  x \in ToSet(a) \/ x \in ToSet(b)
      <3>1. PICK i \in 1..Len(s) : x = s[i]
        BY <1>0
      <3>2. i # n
        BY <2>1, <2>14, <3>1
      <3>3. CASE i \in 1..(n - 1)
        BY <2>6, <2>8, <3>1, <3>3
      <3>4. CASE i - n \in 1..m
        <4>1. b[i - n] = x
          BY <1>0, <2>1, <2>7, <3>1, <3>4 DEF m
        <4> QED
          BY <2>9, <3>4, <4>1
      <3> QED
        BY <1>0, <2>1, <3>2, <3>3, <3>4 DEF m
    <2>15. ToSet(a) \cap ToSet(b) = {} /\ ToSet(a) \cup ToSet(b) = ToSet(s) \ {e}
      BY <2>12, <2>13, <2>14
    <2> QED
      BY <2>5, <2>6, <2>7, <2>10, <2>11, <2>15, SetOfConcat
  <1> QED
    BY <1>1, <1>2

LEMMA ListOfSet ==
  ASSUME NEW D, IsFiniteSet(D), NEW S \in SUBSET D
  PROVE  /\ SetToSeq(S) \in Seq(D) /\ ToSet(SetToSeq(S)) = S /\ IsInjective(SetToSeq(S))
  <1>1. IsFiniteSet(S) /\ Cardinality(S) \in Nat
    BY FS_Subset, FS_CardinalityType
  <1> DEFINE n == Cardinality(S)
             g == SetToSeq(S)
  <1>2. ExistsBijection(1..n, S)
    BY <1>1, FS_CardinalityType
  <1>3. PICK f : f \in [1..n -> S] /\ IsInjective(f)
    BY <1>2 DEF ExistsBijection, Bijection, Injection
  <1>4. g \in [1..n -> S] /\ IsInjective(g)
    BY <1>3 DEF SetToSeq
  <1>5. Cardinality(1..n) = n
    BY <1>1, FS_Interval
  <1> HIDE DEF g, n
  <1>6. g \in Injection(1..n, S)
    BY <1>4 DEF Injection
  <1>7. g \in Surjection(1..n, S)
    BY <1>1, <1>5, <1>6, FS_Injection DEF n
  <1>8. \A x \in S : \E i \in 1..n : g[i] = x
    BY <1>7 DEF Surjection
  <1>9. ToSet(g) = S
    BY <1>4, <1>8 DEF ToSet
  <1>10. g \in Seq(D)
    BY <1>1, <1>4 DEF n
  <1> QED
    BY <1>4, <1>9, <1>10 DEF g

-----------------------------------------------------------------------------
(* The inductive invariant. *)

ProcFields == {"st", "par", "gate", "armed", "sid", "pc", "sig", "deaf", "code"}
CoordinatorFields ==
  {"at", "client", "mode", "i", "step", "leases", "outer", "held", "reaped", "phase", "todo", "st", "then",
   "after", "err", "fails", "helper", "fds", "report", "root", "base", "open", "fed", "subreaper", "res"}
WorkerFields == {"pc", "n", "cap", "t", "owner", "files", "seen", "src", "copied", "report", "first",
                 "token", "gate", "err"}
LeaderFields == {"pc", "i", "local", "gate", "err"}
ChannelFields == {"ask", "answer", "issue", "ack", "say", "tell", "transfer"}

\* A process that is there, one that has passed its gate or finds it open,
\* and what the three lists of the coordinator name.
Exists(p) == k[p].st \in {"gated", "live", "zombie"}
Passed(p) == k[p].st = "live" \/ (k[p].st = "gated" /\ k[p].gate = "open")
Inner == ToSet(c.leases)
Outer == ToSet(c.outer)
Todo == ToSet(c.todo)
IsList(s) == s \in Seq(ToSet(s))

\* The shape of the records and the values the argument depends on.
KernelTypes ==
  /\ DOMAIN k = Procs
  /\ \A p \in Procs : /\ DOMAIN k[p] = ProcFields
                      /\ k[p].st \in {"none", "gated", "live", "zombie", "gone"}
CoordinatorTypes ==
  /\ DOMAIN c = CoordinatorFields
  /\ c.leases \in Seq(Procs) /\ c.outer \in Seq(Procs) /\ c.todo \in Seq(Procs)
  /\ c.mode \in {"runtime", "compression", "lifecycle", "sandbox"} /\ c.base \in {"none", "stale"}
OtherTypes ==
  /\ DOMAIN w = WorkerFields /\ DOMAIN l = LeaderFields /\ DOMAIN ch = ChannelFields
  /\ IsList(ch.say) /\ IsList(ch.tell) /\ l.i \in Nat /\ l.i > 0

\* Who can be whose child: a process is reparented when its creator dies, and
\* nobody but the coordinator's end gives one to init.
TreeInv ==
  /\ \A p \in Procs :
       /\ k[p].st = "none" => k[p].par = "none"
       /\ Exists(p) =>
            /\ p \in Creators => k[p].par \in {"C", "init"}
            /\ p = "helper" => k[p].par \in {"worker", "C", "init"}
            /\ p = "child" => k[p].par \in {"leader", "C", "init"}
            /\ k[p].par \in Creators => Alive(k[p].par)
            /\ Present => k[p].par # "init"
  /\ Alive("worker") /\ Exists("helper") => k["helper"].par = "worker"

Early == {"boot", "capsule", "rootBoot", "rootEntry", "admit", "worker"}
\* The step of the script at which the child is handed over.
Handover == IF Full THEN 4 ELSE 2

\* Only the full operations have a worker.
ModeInv ==
  /\ c.at \in {"worker", "handoff", "receipt", "worked"} => Full
  /\ ~Full \/ c.at \in Early => k["worker"].st = "none" /\ k["helper"].st = "none"

\* A process is leased once.
OnceInv ==
  IsInjective(c.leases) /\ IsInjective(c.outer) /\ Inner \cap Outer = {} /\ Outer \subseteq {"worker"}

\* What is leased at each point.
LeasesInv ==
  /\ c.at \in Early => Inner = {} /\ c.helper = "none"
  /\ c.at \in Early \cup {"handoff", "receipt", "case", "leader"} => ~c.err /\ ~c.fails
  /\ c.at \in Early \cup {"handoff", "receipt", "worked", "finish", "done"} => Outer = {}
  /\ c.at = "stop" /\ c.then = "finish" => Outer = {}
  /\ c.at = "handoff" => Inner \subseteq {"worker", "helper"} /\ (c.helper = "none" <=> "helper" \notin Inner)
  /\ c.at = "receipt" => Inner \subseteq {"worker"}
  /\ c.at \in {"case", "leader"} => Inner = {}
HearInv ==
  /\ c.at = "hear" => c.step \in 1..Len(Script) /\ (c.step <= Handover => "child" \notin Inner)
  /\ c.at = "census" => c.step = Handover /\ "child" \in Inner

\* What is still to be stopped: while no failure was recorded, all that is leased.
CoverInv ==
  /\ c.at = "stop" => c.then \in {"finish", "settled", "adopt", "rejected", "closed"}
  /\ c.at = "adopt" \/ (c.at = "stop" /\ c.then = "adopt") => c.after \in {"rejected", "closed"}
  /\ c.at = "stop" /\ c.then = "adopt" /\ ~c.fails => ("leader" \in Inner => "leader" \in Todo)
  /\ c.at = "stop" /\ c.then # "adopt" /\ ~c.fails => Inner \subseteq Todo
  /\ c.at = "adopt" /\ ~c.fails => "leader" \notin Inner
  /\ c.at \in {"settled", "closed", "cases", "finish", "done"} /\ ~c.fails => Inner = {}

Casing == {"hear", "census", "reject", "undo", "rejected", "adopt", "term", "termed", "join", "adopted",
           "settled", "closed"}
\* The private root that a case made is removed before the case ends.
RootInv ==
  /\ c.root \in {"none", "stale", "made", "unknown"}
  /\ c.root = "stale" <=> c.base = "stale"
  /\ c.root = "unknown" => c.fails
  /\ c.root = "made" => c.at \in Casing \cup {"leader", "dead"} \/ (c.at = "stop" /\ c.then # "finish")
  /\ c.res # "none" => c.at \in {"done", "dead"}

\* Where the leader is in its script.
Follows == l.i \in 1..Len(Script) /\ (l.pc = "hear" => Script[l.i].hears # "none")
\* A leader is leased as long as it is there, and follows the script of the
\* case; what was reaped is gone.
LeaderInv ==
  /\ Alive("leader") => Follows
  /\ Present /\ Exists("leader") => "leader" \in Leased
  /\ c.reaped \subseteq {"child"} /\ ("child" \in c.reaped => k["child"].st = "gone" /\ c.err)

\* Where the worker has no helper that the coordinator knows of.
Alone == {"start", "claim", "resolve", "authenticate", "alias", "spawn", "register", "next", "seal",
          "sealed", "report", "compare", "issue"}
Ending == {"stop", "retire", "retiring", "poison", "exit", "done"}
\* The exchange about the helper: what was asked, answered and leased.
AskInv ==
  /\ w.err => w.pc \in Ending
  /\ w.pc = "observe" \/ (w.pc = "stop" /\ ~w.err) => w.token = "released"
  /\ ch.ask = "register" \/ ch.answer = "registered" => w.pc = "registering" \/ w.err
  /\ ch.ask = "retire" \/ ch.answer = "retired" => w.pc = "retiring" \/ w.err
  /\ ~(ch.ask = "register" /\ ch.answer = "registered")
  /\ ~(ch.ask = "retire" /\ ch.answer = "retired" /\ ~w.err)
HelperInv ==
  /\ Present /\ Passed("helper") => "helper" \in Leased
  /\ Present /\ Alive("worker") /\ w.pc \in Alone => "helper" \notin Leased
  /\ Alive("worker") /\ w.pc \in {"retire", "retiring"} => ~Exists("helper")
  /\ c.at = "handoff" /\ ch.ask = "register" => "helper" \notin Leased
  /\ Present /\ ch.answer = "registered" /\ w.pc = "registering" /\ Alive("helper") => "helper" \in Leased
  /\ Present /\ ch.answer = "retired" /\ ~w.err /\ Alive("worker") => "helper" \notin Leased

\* The acceptance of a child in flight.
ChildInv ==
  /\ Present /\ Passed("child") => "child" \in Leased
  /\ Present /\ "A" \in ToSet(ch.tell) => k["child"].st # "none" /\ (Alive("child") => "child" \in Leased)
  /\ c.at = "census" => k["child"].st # "none"
  /\ "transfer" \notin ToSet(ch.say)

\* Where a child of the probe may be there unleased: from the moment the
\* leader may spawn it to its acceptance, or to its adoption.
Window == \/ c.at = "hear" /\ c.step = 2
          \/ c.at \in {"reject", "undo"}
          \/ c.at = "stop" /\ c.then = "adopt"
ProbeInv ==
  c.mode = "sandbox" /\ Present /\ ~c.fails =>
    /\ Alive("leader") /\ k["child"].st = "none" /\ ("C" \in ToSet(ch.tell) \/ l.i >= 2) => Window
    /\ Exists("child") /\ "child" \notin Leased => Window \/ c.at = "adopt"

Issued == {"acked", "poison", "exit", "done"}
\* The report that was issued is the one that was compared.
ReportInv ==
  /\ w.pc = "issue" /\ c.mode = "runtime" => w.first = w.report
  /\ ch.issue = "packet" => /\ w.pc \in Issued /\ ~Exists("helper") /\ ReportExact(w.report)
                            /\ c.mode = "runtime" => w.first = w.report
  /\ c.report # NoReport => /\ w.pc \in Issued /\ ~Exists("helper") /\ ReportExact(c.report)
                            /\ c.mode = "runtime" => c.report = w.first

LauncherInv ==
  /\ KernelTypes /\ CoordinatorTypes /\ OtherTypes /\ TreeInv /\ ModeInv
  /\ OnceInv /\ LeasesInv /\ HearInv /\ CoverInv /\ RootInv
  /\ LeaderInv /\ AskInv /\ HelperInv /\ ChildInv /\ ProbeInv /\ ReportInv /\ CertainMeansRestored

-----------------------------------------------------------------------------
(* The kernel.  But for the births and the opened gates, a step only lets   *)
(* processes come closer to their end.                                      *)

Wanes ==
  \A p \in Procs :
    /\ Exists(p)' => Exists(p)
    /\ Alive(p)' => Alive(p)
    /\ Passed(p)' => Passed(p)
    /\ k'[p].st = "none" <=> k[p].st = "none"
    /\ k[p].st = "gone" => k'[p].st = "gone"

\* The state of every process stays, and with it who its parent is.
Touched ==
  /\ DOMAIN k' = Procs
  /\ \A q \in Procs : /\ DOMAIN k'[q] = ProcFields /\ k'[q].st = k[q].st /\ k'[q].par = k[q].par
                      /\ k'[q].gate = k[q].gate \/ k'[q].gate = "eof"

LEMMA ProcsAre == Procs = {"worker", "leader", "helper", "child"} /\ Creators = {"worker", "leader"}
  BY DEF Procs, Creators

LEMMA TouchedWanes ==
  ASSUME KernelTypes, TreeInv, Touched, Present' => Present
  PROVE  KernelTypes' /\ TreeInv' /\ Wanes
  <1>1. KernelTypes'
    BY DEF KernelTypes, Touched
  <1>2. \A p \in Procs : (Exists(p)' <=> Exists(p)) /\ (Alive(p)' <=> Alive(p))
    BY DEF Touched, Exists, Alive
  <1>3. Wanes
    BY DEF Wanes, Touched, Exists, Alive, Passed
  <1>4. TreeInv'
    BY <1>2, ProcsAre DEF TreeInv, Touched
  <1> QED
    BY <1>1, <1>3, <1>4

LEMMA SameWanes ==
  ASSUME KernelTypes, TreeInv, UNCHANGED k, Present' => Present
  PROVE  KernelTypes' /\ TreeInv' /\ Wanes
  <1>1. Touched
    BY DEF KernelTypes, Touched
  <1> QED
    BY <1>1, TouchedWanes

\* One process goes on to a later state.
Moves(p, s) ==
  /\ DOMAIN k' = Procs
  /\ \A q \in Procs : /\ DOMAIN k'[q] = ProcFields /\ k'[q].par = k[q].par /\ k'[q].gate = k[q].gate
                      /\ q # p => k'[q].st = k[q].st
  /\ k'[p].st = s

LEMMA OpenedWanes ==
  ASSUME KernelTypes, TreeInv, Present' => Present, NEW p \in Procs, k[p].st = "gated", k[p].gate = "open",
         Moves(p, "live")
  PROVE  KernelTypes' /\ TreeInv' /\ Wanes
  <1>1. KernelTypes'
    BY DEF KernelTypes, Moves
  <1>2. \A q \in Procs : (Exists(q)' <=> Exists(q)) /\ (Alive(q)' <=> Alive(q))
    BY DEF Moves, Exists, Alive
  <1>3. Wanes
    BY DEF Wanes, Moves, Exists, Alive, Passed
  <1>4. TreeInv'
    BY <1>2, ProcsAre DEF TreeInv, Moves
  <1> QED
    BY <1>1, <1>3, <1>4

LEMMA ReapedWanes ==
  ASSUME KernelTypes, TreeInv, Present' => Present, NEW p \in Procs, k[p].st = "zombie", k' = Reaped(p)
  PROVE  KernelTypes' /\ TreeInv' /\ Wanes /\ k'[p].st = "gone" /\ ~Exists(p)'
  <1>0. Moves(p, "gone")
    BY DEF KernelTypes, Moves, Reaped, ProcFields
  <1>1. KernelTypes'
    BY <1>0 DEF KernelTypes, Moves
  <1>2. \A q \in Procs : (Exists(q)' => Exists(q)) /\ (Alive(q)' <=> Alive(q))
    BY <1>0 DEF Moves, Exists, Alive
  <1>3. Wanes /\ ~Exists(p)'
    BY <1>0 DEF Wanes, Moves, Exists, Alive, Passed
  <1>4. TreeInv'
    BY <1>0, <1>2, ProcsAre DEF TreeInv, Moves
  <1> QED
    BY <1>0, <1>1, <1>3, <1>4 DEF Moves

\* What a death does to the children of a process.
LEMMA OrphanedMeans ==
  ASSUME NEW m, DOMAIN m = Procs, \A q \in Procs : DOMAIN m[q] = ProcFields, NEW p, NEW to
  PROVE  /\ DOMAIN Orphaned(m, p, to) = Procs
         /\ \A q \in Procs :
              /\ DOMAIN Orphaned(m, p, to)[q] = ProcFields
              /\ (m[q].par # p \/ m[q].st \in {"none", "gone"}) => Orphaned(m, p, to)[q] = m[q]
              /\ ~(m[q].par # p \/ m[q].st \in {"none", "gone"}) =>
                   /\ Orphaned(m, p, to)[q].par = to
                   /\ Orphaned(m, p, to)[q].gate = m[q].gate \/ Orphaned(m, p, to)[q].gate = "eof"
                   /\ Orphaned(m, p, to)[q].st = IF to = "init" /\ m[q].st = "zombie" THEN "gone" ELSE m[q].st
  BY DEF Orphaned, ProcFields

LEMMA DeadWanes ==
  ASSUME KernelTypes, TreeInv, Present' => Present, NEW p \in Procs, Alive(p), NEW code, k' = Dead(k, p, code)
  PROVE  KernelTypes' /\ TreeInv' /\ Wanes /\ ~Alive(p)'
  <1> DEFINE to == IF Present THEN "C" ELSE "init"
             end == IF k[p].par = "init" THEN "gone" ELSE "zombie"
             m == [k EXCEPT ![p].st = end, ![p].code = code]
  <1>1. k' = Orphaned(m, p, to)
    BY DEF Dead
  <1>2. /\ DOMAIN m = Procs
        /\ \A q \in Procs : /\ DOMAIN m[q] = ProcFields /\ m[q].par = k[q].par /\ m[q].gate = k[q].gate
                            /\ q # p => m[q].st = k[q].st
        /\ m[p].st = end
    BY DEF KernelTypes, ProcFields
  <1>3. k[p].par # p /\ k[p].st \in {"gated", "live"}
    BY ProcsAre DEF TreeInv, Alive, Exists
  <1> HIDE DEF m
  <1>4. /\ DOMAIN k' = Procs
        /\ \A q \in Procs : /\ DOMAIN k'[q] = ProcFields
                            /\ (m[q].par # p \/ m[q].st \in {"none", "gone"}) => k'[q] = m[q]
                            /\ ~(m[q].par # p \/ m[q].st \in {"none", "gone"}) =>
                                 /\ k'[q].par = to /\ (k'[q].gate = m[q].gate \/ k'[q].gate = "eof")
                                 /\ k'[q].st = IF to = "init" /\ m[q].st = "zombie" THEN "gone" ELSE m[q].st
    BY <1>1, <1>2, OrphanedMeans
  <1>5. end \in {"zombie", "gone"} /\ to \in {"C", "init"} /\ (to = "init" <=> ~Present)
    OBVIOUS
  <1> HIDE DEF to, end
  <1>6. k'[p].st = end /\ k'[p].par = k[p].par /\ k'[p].gate = k[p].gate
    BY <1>2, <1>3, <1>4
  <1>7. \A q \in Procs : q # p => k'[q].st = k[q].st \/ (k[q].st = "zombie" /\ k'[q].st = "gone")
    BY <1>2, <1>4
  <1>8. KernelTypes'
    BY <1>4, <1>5, <1>6, <1>7 DEF KernelTypes
  <1>9. \A q \in Procs : /\ (Exists(q)' => Exists(q)) /\ (Alive(q)' => Alive(q))
                         /\ q # p => (Alive(q)' <=> Alive(q))
    BY <1>3, <1>5, <1>6, <1>7 DEF Exists, Alive
  <1>10. Wanes /\ ~Alive(p)'
    BY <1>2, <1>3, <1>4, <1>5, <1>6, <1>7 DEF Wanes, Exists, Alive, Passed
  <1>11. \A q \in Procs : /\ k[q].par # p \/ ~Exists(q) => k'[q].par = k[q].par
                          /\ k[q].par = p /\ Exists(q) /\ q # p => k'[q].par = to
    BY <1>2, <1>4, <1>6 DEF KernelTypes, Exists
  <1>12. TreeInv'
    <2>1. ASSUME NEW q \in Procs
          PROVE  (k[q].st = "none" => k[q].par = "none")'
      BY <1>3, <1>5, <1>6, <1>7, <1>11 DEF TreeInv, Exists
    <2>2. ASSUME NEW q \in Procs, Exists(q)'
          PROVE  /\ q \in Creators => k'[q].par \in {"C", "init"}
                 /\ q = "helper" => k'[q].par \in {"worker", "C", "init"}
                 /\ q = "child" => k'[q].par \in {"leader", "C", "init"}
      BY <1>3, <1>5, <1>6, <1>9, <1>11, <2>2, ProcsAre DEF TreeInv
    <2>3. ASSUME NEW q \in Procs, Exists(q)', k'[q].par \in Creators
          PROVE  k'[k'[q].par].st \in {"gated", "live"}
      <3>1. Exists(q) /\ k[q].par # p /\ k'[q].par = k[q].par
        BY <1>3, <1>5, <1>6, <1>9, <1>11, <2>3, ProcsAre
      <3>2. Alive(k[q].par) /\ k[q].par \in Procs
        BY <2>3, <3>1, ProcsAre DEF TreeInv
      <3> QED
        BY <1>9, <3>1, <3>2 DEF Alive
    <2>4. ASSUME NEW q \in Procs, Exists(q)', Present'
          PROVE  k'[q].par # "init"
      BY <1>5, <1>6, <1>9, <1>11, <2>4 DEF TreeInv
    <2>5. (Alive("worker") /\ Exists("helper") => k["helper"].par = "worker")'
      BY <1>3, <1>6, <1>9, <1>10, <1>11, ProcsAre DEF TreeInv
    <2> QED
      BY <2>1, <2>2, <2>3, <2>4, <2>5 DEF TreeInv, Alive
  <1> QED
    BY <1>8, <1>10, <1>12

\* The end of the coordinator leaves its children to init.
LEMMA LeftWanes ==
  ASSUME KernelTypes, TreeInv, ~Present', k' = Orphaned(k, "C", "init")
  PROVE  KernelTypes' /\ TreeInv' /\ Wanes
  <1>1. /\ DOMAIN k' = Procs
        /\ \A q \in Procs : /\ DOMAIN k'[q] = ProcFields
                            /\ (k[q].par # "C" \/ k[q].st \in {"none", "gone"}) => k'[q] = k[q]
                            /\ ~(k[q].par # "C" \/ k[q].st \in {"none", "gone"}) =>
                                 /\ k'[q].par = "init" /\ (k'[q].gate = k[q].gate \/ k'[q].gate = "eof")
                                 /\ k'[q].st = IF k[q].st = "zombie" THEN "gone" ELSE k[q].st
    BY DEF KernelTypes, Orphaned, ProcFields
  <1>2. KernelTypes'
    BY <1>1 DEF KernelTypes
  <1>3. Wanes
    BY <1>1 DEF Wanes, Exists, Alive, Passed, KernelTypes
  <1>4. \A q \in Procs : Alive(q)' <=> Alive(q)
    BY <1>1 DEF Alive
  <1>5. TreeInv'
    BY <1>1, <1>4, ProcsAre DEF TreeInv, Exists
  <1> QED
    BY <1>2, <1>3, <1>5

-----------------------------------------------------------------------------
(* The scripts. *)

LEMMA SaysMeans ==
  ASSUME NEW a, NEW b
  PROVE  Says(a, b).say = a /\ Says(a, b).hears = b
  BY DEF Says

LEMMA ToolScript ==
  /\ Len(Tool) = 9 /\ Tool[9].say = "exit" /\ Tool[9].hears = "none"
  /\ \A s \in 1..9 : /\ Tool[s].say # "E"
                     /\ Tool[s].say = "transfer" <=> s = 4
                     /\ Tool[s].hears = "A" <=> s = 4
  <1>1. /\ Len(Tool) = 9
        /\ Tool[1] = Says("userns", "uid-mapped")
        /\ Tool[2] = Says("groups-cleared", "identity-mapped")
        /\ Tool[3] = Says("namespace", "prepare-root")
        /\ Tool[4] = Says("transfer", "A")
        /\ Tool[5] = Says("child", "release-child")
        /\ Tool[6] = Says("boundary", "none")
        /\ Tool[7] = Says("post-inspection", "finalize-root")
        /\ Tool[8] = Says("final-inspection", "none")
        /\ Tool[9] = Says("exit", "none")
    BY DEF Tool
  <1>2. /\ Tool[1].say = "userns" /\ Tool[1].hears = "uid-mapped"
        /\ Tool[2].say = "groups-cleared" /\ Tool[2].hears = "identity-mapped"
        /\ Tool[3].say = "namespace" /\ Tool[3].hears = "prepare-root"
        /\ Tool[4].say = "transfer" /\ Tool[4].hears = "A"
        /\ Tool[5].say = "child" /\ Tool[5].hears = "release-child"
        /\ Tool[6].say = "boundary" /\ Tool[6].hears = "none"
        /\ Tool[7].say = "post-inspection" /\ Tool[7].hears = "finalize-root"
        /\ Tool[8].say = "final-inspection" /\ Tool[8].hears = "none"
        /\ Tool[9].say = "exit" /\ Tool[9].hears = "none"
    BY <1>1, SaysMeans
  <1>3. \A s \in 1..9 : s = 1 \/ s = 2 \/ s = 3 \/ s = 4 \/ s = 5 \/ s = 6 \/ s = 7 \/ s = 8 \/ s = 9
    OBVIOUS
  <1> QED
    BY <1>1, <1>2, <1>3

LEMMA ProbeScript ==
  /\ Len(Probe) = 4 /\ Probe[1] = Says("S", "C") /\ Probe[4].say = "E" /\ Probe[4].hears = "none"
  /\ \A s \in 1..4 : /\ Probe[s].say # "exit"
                     /\ Probe[s].say = "transfer" <=> s = 2
                     /\ Probe[s].hears = "A" <=> s = 2
                     /\ Probe[s].hears = "C" <=> s = 1
  <1>1. /\ Len(Probe) = 4
        /\ Probe[1] = Says("S", "C")
        /\ Probe[2] = Says("transfer", "A")
        /\ Probe[3] = Says("entered", "F")
        /\ Probe[4] = Says("E", "none")
    BY DEF Probe
  <1>2. /\ Probe[1].say = "S" /\ Probe[1].hears = "C"
        /\ Probe[2].say = "transfer" /\ Probe[2].hears = "A"
        /\ Probe[3].say = "entered" /\ Probe[3].hears = "F"
        /\ Probe[4].say = "E" /\ Probe[4].hears = "none"
    BY <1>1, SaysMeans
  <1>3. \A s \in 1..4 : s = 1 \/ s = 2 \/ s = 3 \/ s = 4
    OBVIOUS
  <1> QED
    BY <1>1, <1>2, <1>3

LEMMA LifecycleScript ==
  ASSUME NEW case
  PROVE  /\ Len(Lifecycle(case)) \in {3, 4}
         /\ Lifecycle(case)[Len(Lifecycle(case))].hears = "X"
         /\ \A s \in 1..Len(Lifecycle(case)) : /\ Lifecycle(case)[s].say \notin {"exit", "E"}
                                               /\ Lifecycle(case)[s].say = "transfer" <=> s = 2
                                               /\ Lifecycle(case)[s].hears = "A" <=> s = 2
  <1> DEFINE U == {Says("S", "C"), Says("transfer", "A"), Says("T", "X"), Says("T", "none"), Says("R", "X")}
             a == <<Says("S", "C"), Says("transfer", "A")>>
             b == <<Says("T", "X")>>
             d == <<Says("T", "none"), Says("R", "X")>>
  <1>1. /\ a \in Seq(U) /\ Len(a) = 2 /\ a[1] = Says("S", "C") /\ a[2] = Says("transfer", "A")
        /\ b \in Seq(U) /\ Len(b) = 1 /\ b[1] = Says("T", "X")
        /\ d \in Seq(U) /\ Len(d) = 2 /\ d[1] = Says("T", "none") /\ d[2] = Says("R", "X")
    OBVIOUS
  <1>2. Lifecycle(case) = a \o (IF case = "before-release" THEN b ELSE d)
    BY DEF Lifecycle
  <1> HIDE DEF a, b, d, U
  <1>3. /\ Len(a \o b) = 3 /\ (a \o b)[1] = a[1] /\ (a \o b)[2] = a[2]
        /\ (a \o b)[3] = b[1]
    <2>4. a \in Seq(U) /\ b \in Seq(U)
      BY <1>1
    <2>3. /\ Len(a \o b) = Len(a) + Len(b)
          /\ \A i \in 1..Len(a) : (a \o b)[i] = a[i]
          /\ \A i \in 1..Len(b) : (a \o b)[Len(a) + i] = b[i]
      BY <2>4, JoinedLists
    <2>1. /\ Len(a \o b) = 2 + 1
          /\ \A i \in 1..2 : (a \o b)[i] = a[i]
          /\ \A i \in 1..1 : (a \o b)[2 + i] = b[i]
      BY <1>1, <2>3
    <2>2. 1 \in 1..2 /\ 2 \in 1..2 /\ 1 \in 1..1
      OBVIOUS
    <2> QED
      BY <2>1, <2>2
  <1>4. /\ Len(a \o d) = 4 /\ (a \o d)[1] = a[1] /\ (a \o d)[2] = a[2]
        /\ (a \o d)[3] = d[1]
        /\ (a \o d)[4] = d[2]
    <2>4. a \in Seq(U) /\ d \in Seq(U)
      BY <1>1
    <2>3. /\ Len(a \o d) = Len(a) + Len(d)
          /\ \A i \in 1..Len(a) : (a \o d)[i] = a[i]
          /\ \A i \in 1..Len(d) : (a \o d)[Len(a) + i] = d[i]
      BY <2>4, JoinedLists
    <2>1. /\ Len(a \o d) = 2 + 2
          /\ \A i \in 1..2 : (a \o d)[i] = a[i]
          /\ \A i \in 1..2 : (a \o d)[2 + i] = d[i]
      BY <1>1, <2>3
    <2>2. 1 \in 1..2 /\ 2 \in 1..2
      OBVIOUS
    <2> QED
      BY <2>1, <2>2
  <1>8. /\ a[1].say = "S" /\ a[1].hears = "C" /\ a[2].say = "transfer" /\ a[2].hears = "A"
        /\ b[1].say = "T" /\ b[1].hears = "X" /\ d[1].say = "T" /\ d[1].hears = "none"
        /\ d[2].say = "R" /\ d[2].hears = "X"
    BY <1>1, SaysMeans
  <1>5. (\A s \in 1..3 : s = 1 \/ s = 2 \/ s = 3) /\ (\A s \in 1..4 : s = 1 \/ s = 2 \/ s = 3 \/ s = 4)
    OBVIOUS
  <1>6. CASE case = "before-release"
    <2>1. Lifecycle(case) = a \o b
      BY <1>2, <1>6
    <2> QED
      BY <2>1, <1>3, <1>5, <1>8
  <1>7. CASE case # "before-release"
    <2>1. Lifecycle(case) = a \o d
      BY <1>2, <1>7
    <2> QED
      BY <2>1, <1>4, <1>5, <1>8
  <1> QED
    BY <1>6, <1>7

\* Where the child is handed over, in all three.
LEMMA ScriptMeans ==
  ASSUME CoordinatorTypes
  PROVE  /\ Len(Script) \in Nat /\ Len(Script) > Handover /\ Len(Script) > 2 /\ Handover \in 2..4
         /\ Script[Len(Script)].say \in {"exit", "E"} \/ Script[Len(Script)].hears = "X"
         /\ Script[Len(Script)].hears \in {"none", "X"}
         /\ \A s \in 1..Len(Script) : /\ Reaps(Script[s].say) =>
                                           \/ Full /\ Script[s].say = "exit"
                                           \/ c.mode = "sandbox" /\ Script[s].say = "E"
                                      /\ Script[s].say = "transfer" <=> s = Handover
                                      /\ Script[s].hears = "A" <=> s = Handover
         /\ c.mode = "sandbox" => /\ Script[1] = Says("S", "C") /\ Handover = 2
                                  /\ \A s \in 1..Len(Script) : Script[s].hears = "C" <=> s = 1
  <1>1. CASE Full
    <2>1. Script = Tool /\ Handover = 4 /\ c.mode # "sandbox"
      BY <1>1 DEF Script, Handover, Full
    <2> QED
      BY <1>1, <2>1, ToolScript DEF Reaps
  <1>2. CASE c.mode = "lifecycle"
    <2>1. Script = Lifecycle(Case) /\ Handover = 2 /\ c.mode # "sandbox"
      BY <1>2 DEF Script, Handover, Full
    <2> QED
      BY <2>1, LifecycleScript DEF Reaps
  <1>3. CASE c.mode = "sandbox"
    <2>1. Script = Probe /\ Handover = 2
      BY <1>3 DEF Script, Handover, Full
    <2> QED
      BY <1>3, <2>1, ProbeScript DEF Reaps
  <1> QED
    BY <1>1, <1>2, <1>3 DEF CoordinatorTypes, Full

-----------------------------------------------------------------------------
(* A step of the coordinator. *)

CoordinatorInv == CoordinatorTypes /\ OnceInv /\ LeasesInv /\ HearInv /\ CoverInv /\ RootInv
\* What the other processes depend on.
ProcessInv == KernelTypes /\ TreeInv /\ OtherTypes /\ ModeInv /\ LeaderInv /\ AskInv /\ HelperInv /\ ChildInv /\ ProbeInv

\* What it has reaped itself after a failure.
Recorded == c'.reaped \subseteq c.reaped \/ (c'.reaped \subseteq {"child"} /\ k'["child"].st = "gone" /\ c'.err)
\* What none of its steps but the last does, and what is not undone.
Governed ==
  /\ Present /\ c.at # "done" /\ c'.mode = c.mode /\ c'.res = c.res /\ Recorded
  /\ (c.fails => c'.fails) /\ (c.err => c'.err) /\ (c'.i = c.i \/ ~Alive("leader"))
  /\ c'.at \in Early => c.at \in Early
  /\ c'.at \in {"worker", "handoff", "receipt", "worked"} => Full
  /\ c'.at = "handoff" => c.at = "handoff"
\* What is no longer leased is gone, and a helper is leased unasked only once
\* its worker is dead.
Releases == /\ \A p \in Procs : p \in Leased /\ p \notin Leased' => ~Exists(p)'
            /\ "helper" \in Leased' => "helper" \in Leased \/ (~Alive("worker") /\ c'.at # "handoff")

\* To the worker it grants nothing, and it has read from the leader or told it
\* anything but the acceptance of a child that it does not lease.
Listens == /\ DOMAIN ch' = ChannelFields /\ IsList(ch'.say) /\ IsList(ch'.tell)
           /\ ToSet(ch'.say) \subseteq ToSet(ch.say)
           /\ "A" \in ToSet(ch'.tell) => "A" \in ToSet(ch.tell) \/ (k'["child"].st # "none" /\ "child" \in Leased')
Quiet == /\ Listens /\ ch'.ask \in {ch.ask, "none"} /\ ch'.answer \in {ch.answer, "released"}
         /\ ch'.issue \in {ch.issue, "none"}
Uncalled == "C" \in ToSet(ch'.tell) => "C" \in ToSet(ch.tell)

LEMMA ListOfNothing == IsList(<<>>) /\ ToSet(<<>>) = {}
  BY DEF IsList, ToSet

LEMMA ListOfAppend ==
  ASSUME NEW s, IsList(s), NEW e
  PROVE  IsList(Append(s, e)) /\ ToSet(Append(s, e)) = ToSet(s) \cup {e}
  <1> DEFINE D == ToSet(s) \cup {e}
  <1>1. s \in Seq(D) /\ e \in D
    <2>1. s \in Seq(ToSet(s)) /\ ToSet(s) \subseteq D
      BY DEF IsList
    <2> HIDE DEF D
    <2>2. s \in Seq(D)
      BY <2>1
    <2> QED
      BY <2>2 DEF D
  <1> HIDE DEF D
  <1>2. Append(s, e) \in Seq(D) /\ ToSet(Append(s, e)) = ToSet(s) \cup {e}
    BY <1>1, SetOfAppend
  <1> QED
    BY <1>2 DEF IsList, D

LEMMA ListOfTail ==
  ASSUME NEW s, IsList(s), s # <<>>
  PROVE  /\ IsList(Tail(s)) /\ ToSet(Tail(s)) \subseteq ToSet(s) /\ Head(s) \in ToSet(s)
  <1> DEFINE D == ToSet(s)
             t == Tail(s)
  <1>1. s \in Seq(D)
    BY DEF IsList
  <1> HIDE DEF D
  <1>2. t \in Seq(D) /\ Head(s) \in ToSet(s) /\ ToSet(s) = ToSet(t) \cup {Head(s)}
    BY <1>1, SetOfTail
  <1>3. DOMAIN t = 1..Len(t) /\ \A i \in 1..Len(t) : t[i] \in ToSet(t)
    <2> HIDE DEF t
    <2>1. t \in Seq(D)
      BY <1>2
    <2>2. DOMAIN t = 1..Len(t) /\ \A x : x \in ToSet(t) <=> \E i \in 1..Len(t) : t[i] = x
      BY <2>1, InTheSet
    <2> QED
      BY <2>2
  <1>4. t \in Seq(ToSet(t))
    <2> HIDE DEF t
    <2>1. Len(t) \in Nat /\ t = [i \in 1..Len(t) |-> t[i]]
      BY <1>2
    <2>2. t \in [1..Len(t) -> ToSet(t)]
      BY <1>3, <2>1
    <2> QED
      BY <2>1, <2>2
  <1> QED
    BY <1>2, <1>4 DEF IsList

LEMMA SameChannel ==
  ASSUME OtherTypes, UNCHANGED ch
  PROVE  Quiet /\ Uncalled
  BY DEF OtherTypes, Quiet, Listens, Uncalled

\* The next packet of the leader is read, and perhaps something told.
LEMMA ReadChannel ==
  ASSUME OtherTypes, ch.say # <<>>, ch' = Read
  PROVE  Quiet /\ Uncalled /\ ch'.tell = ch.tell
  <1>1. DOMAIN ch' = ChannelFields /\ ch'.say = Tail(ch.say) /\ ch'.tell = ch.tell
        /\ ch'.ask = ch.ask /\ ch'.answer = ch.answer /\ ch'.issue = ch.issue
    BY DEF OtherTypes, Read, ChannelFields
  <1>2. IsList(ch'.say) /\ ToSet(ch'.say) \subseteq ToSet(ch.say)
    BY <1>1, ListOfTail DEF OtherTypes
  <1> QED
    BY <1>1, <1>2 DEF OtherTypes, Quiet, Listens, Uncalled

LEMMA ToldChannel ==
  ASSUME OtherTypes, NEW n, DOMAIN n = ChannelFields, IsList(n.say), IsList(n.tell), n.tell = ch.tell,
         n.ask = ch.ask, n.answer = ch.answer, n.issue = ch.issue, ToSet(n.say) \subseteq ToSet(ch.say),
         NEW tell, ch' = Told(n, tell)
  PROVE  /\ tell # "A" => Quiet
         /\ tell # "C" => Uncalled
         /\ DOMAIN ch' = ChannelFields /\ IsList(ch'.say) /\ IsList(ch'.tell)
         /\ ch'.ask = ch.ask /\ ch'.answer = ch.answer /\ ch'.issue = ch.issue
         /\ ToSet(ch'.say) \subseteq ToSet(ch.say)
         /\ ToSet(ch'.tell) \subseteq ToSet(ch.tell) \cup {tell}
  <1>1. CASE tell = "none"
    <2>1. ch' = n
      BY <1>1 DEF Told
    <2> QED
      BY <2>1 DEF Quiet, Listens, Uncalled
  <1>2. CASE tell # "none"
    <2>1. /\ DOMAIN ch' = ChannelFields /\ ch'.tell = Append(ch.tell, tell) /\ ch'.say = n.say
          /\ ch'.ask = ch.ask /\ ch'.answer = ch.answer /\ ch'.issue = ch.issue
      BY <1>2 DEF Told, ChannelFields
    <2>2. IsList(ch'.tell) /\ ToSet(ch'.tell) = ToSet(ch.tell) \cup {tell}
      BY <2>1, ListOfAppend
    <2> QED
      BY <2>1, <2>2 DEF Quiet, Listens, Uncalled
  <1> QED
    BY <1>1, <1>2

\* What is enough for the invariants of the leader and its child ...
LEMMA GovernedOthers ==
  ASSUME CoordinatorInv, ProcessInv, Wanes, Governed, Listens, UNCHANGED <<w, l>>,
         \A p \in {"leader", "child"} : p \in Leased /\ p \notin Leased' => ~Exists(p)',
         c'.at = "census" => k'["child"].st # "none"
  PROVE  OtherTypes' /\ ModeInv' /\ LeaderInv' /\ ChildInv'
  <1> USE DEF ProcessInv
  <1>0. "worker" \in Procs /\ "leader" \in Procs /\ "helper" \in Procs /\ "child" \in Procs
    BY ProcsAre
  <1>1. OtherTypes'
    BY DEF OtherTypes, Listens
  <1>2. ModeInv'
    BY <1>0 DEF ModeInv, Governed, Wanes, Full
  <1>3. LeaderInv'
    <2>1. Alive("leader")' => Alive("leader") /\ Script' = Script
      BY <1>0 DEF Governed, Wanes, Script, Case, Full
    <2>2. (Alive("leader") => Follows)'
      BY <2>1 DEF LeaderInv, Follows
    <2> QED
      BY <1>0, <2>2 DEF LeaderInv, Governed, Recorded, Wanes
  <1>6. ChildInv'
    BY <1>0 DEF ChildInv, Governed, Wanes, Listens, Exists, Passed, Alive
  <1> QED
    BY <1>1, <1>2, <1>3, <1>6

\* ... and for those of the worker and its helper.
LEMMA GovernedKeeps ==
  ASSUME CoordinatorInv, ProcessInv, KernelTypes', TreeInv', Wanes, Governed, Releases, Quiet, UNCHANGED <<w, l>>,
         c'.at = "census" => k'["child"].st # "none"
  PROVE  OtherTypes' /\ ModeInv' /\ LeaderInv' /\ AskInv' /\ HelperInv' /\ ChildInv'
  <1> USE DEF ProcessInv
  <1>0. "worker" \in Procs /\ "leader" \in Procs /\ "helper" \in Procs /\ "child" \in Procs
    BY ProcsAre
  <1>1. OtherTypes' /\ ModeInv' /\ LeaderInv' /\ ChildInv'
    BY <1>0, GovernedOthers DEF Quiet, Releases
  <1>4. AskInv'
    BY DEF AskInv, Quiet
  <1>5. HelperInv'
    <2> USE DEF Governed, Releases, Wanes
    <2>1. (Present /\ Passed("helper") => "helper" \in Leased)'
      BY <1>0 DEF HelperInv, Passed, Exists
    <2>2. (Present /\ Alive("worker") /\ w.pc \in Alone => "helper" \notin Leased)'
      BY <1>0 DEF HelperInv, Alone
    <2>3. (Alive("worker") /\ w.pc \in {"retire", "retiring"} => ~Exists("helper"))'
      BY <1>0 DEF HelperInv
    <2>4. (c.at = "handoff" /\ ch.ask = "register" => "helper" \notin Leased)'
      BY <1>0 DEF HelperInv, Quiet
    <2>5. (Present /\ ch.answer = "registered" /\ w.pc = "registering" /\ Alive("helper") => "helper" \in Leased)'
      BY <1>0 DEF HelperInv, Quiet, Alive, Exists
    <2>6. (Present /\ ch.answer = "retired" /\ ~w.err /\ Alive("worker") => "helper" \notin Leased)'
      BY <1>0 DEF HelperInv, Quiet
    <2> QED
      BY <2>1, <2>2, <2>3, <2>4, <2>5, <2>6 DEF HelperInv
  <1> QED
    BY <1>1, <1>4, <1>5

LEMMA ReportKept ==
  ASSUME ReportInv, Wanes, c'.mode = c.mode, c'.report = c.report, UNCHANGED w, ch'.issue \in {ch.issue, "none"}
  PROVE  ReportInv'
  <1>0. "helper" \in Procs
    BY ProcsAre
  <1> QED
    BY <1>0 DEF ReportInv, Wanes, ReportExact, RowsExact

\* A child of the probe is not lost sight of where the window stays open.
LEMMA WindowKeeps ==
  ASSUME ProbeInv, Wanes, Governed, Releases, UNCHANGED l,
         c.mode = "sandbox" /\ ~c'.fails =>
           /\ Uncalled /\ (Window => Window')
           /\ Window \/ c.at = "adopt" => Window' \/ c'.at = "adopt"
  PROVE  ProbeInv'
  <1>0. "leader" \in Procs /\ "child" \in Procs
    BY ProcsAre
  <1> QED
    BY <1>0 DEF ProbeInv, Governed, Releases, Uncalled, Wanes

-----------------------------------------------------------------------------
(* The leases and the record of the coordinator after a step. *)

\* The same leases, or one less.
Same == c'.leases = c.leases /\ c'.outer = c.outer /\ c'.reaped = c.reaped
Drops(p) == /\ c'.leases = RemoveFirst(c.leases, p) /\ c'.outer = RemoveFirst(c.outer, p)
            /\ c'.reaped = c.reaped \ {p}
Lists == /\ c'.leases \in Seq(Procs) /\ c'.outer \in Seq(Procs) /\ OnceInv'
         /\ Recorded
Stays == /\ DOMAIN c' = CoordinatorFields
         /\ c'.mode = c.mode /\ c'.base = c.base /\ c'.report = c.report /\ c'.res = c.res
         /\ (c.fails => c'.fails) /\ (c.err => c'.err) /\ (c'.i = c.i \/ ~Alive("leader"))

LEMMA SameLeases ==
  ASSUME CoordinatorInv, Same
  PROVE  Lists /\ Releases /\ Inner' = Inner /\ Outer' = Outer /\ Leased' = Leased
  <1>1. c'.leases = c.leases /\ c'.outer = c.outer /\ c'.reaped = c.reaped
    BY DEF Same
  <1>2. Inner' = Inner /\ Outer' = Outer /\ Leased' = Leased
    BY <1>1 DEF Inner, Outer, Leased
  <1>3. c.leases \in Seq(Procs) /\ c.outer \in Seq(Procs) /\ OnceInv
    BY DEF CoordinatorInv, CoordinatorTypes
  <1>4. OnceInv'
    BY <1>1, <1>2, <1>3 DEF OnceInv
  <1> QED
    BY <1>1, <1>2, <1>3, <1>4 DEF Lists, Releases, Recorded

LEMMA DropsLeases ==
  ASSUME CoordinatorInv, NEW p \in Procs, Drops(p)
  PROVE  /\ Lists /\ Inner' = Inner \ {p} /\ Outer' = Outer \ {p} /\ Leased' = Leased \ {p}
         /\ ~Exists(p)' => Releases
  <1>1. c'.leases = RemoveFirst(c.leases, p) /\ c'.outer = RemoveFirst(c.outer, p) /\ c'.reaped \subseteq c.reaped
    BY DEF Drops
  <1>2. /\ c.leases \in Seq(Procs) /\ c.outer \in Seq(Procs)
        /\ IsInjective(c.leases) /\ IsInjective(c.outer) /\ Inner \cap Outer = {} /\ Outer \subseteq {"worker"}
    BY DEF CoordinatorInv, CoordinatorTypes, OnceInv
  <1>3. c'.leases \in Seq(Procs) /\ ToSet(c'.leases) = Inner \ {p} /\ IsInjective(c'.leases)
    BY <1>1, <1>2, SetOfRemoval DEF Inner
  <1>4. c'.outer \in Seq(Procs) /\ ToSet(c'.outer) = Outer \ {p} /\ IsInjective(c'.outer)
    BY <1>1, <1>2, SetOfRemoval DEF Outer
  <1>5. Inner' = Inner \ {p} /\ Outer' = Outer \ {p}
    BY <1>3, <1>4 DEF Inner, Outer
  <1>6. Leased = Inner \cup Outer /\ Leased' = Inner' \cup Outer'
    BY DEF Leased, Inner, Outer
  <1>7. Leased' = Leased \ {p}
    BY <1>5, <1>6
  <1>8. OnceInv'
    BY <1>2, <1>3, <1>4, <1>5 DEF OnceInv
  <1> QED
    BY <1>1, <1>3, <1>4, <1>5, <1>7, <1>8 DEF Lists, Releases, Recorded

\* A step of the coordinator that goes on where no process was just started.
LEMMA StepGoverned ==
  ASSUME Present, c.at # "done", Stays, Lists, c'.at \notin Early \cup {"handoff", "receipt", "worked"}
  PROVE  Governed
  BY DEF Stays, Lists, Governed, Early

\* What is leased is stopped next.
Winds(then) == Stays /\ Lists /\ c'.at = "stop" /\ c'.then = then /\ c'.todo = c'.leases
LEMMA WindsKeeps ==
  ASSUME CoordinatorInv, Present, c.at # "done", NEW then \in {"finish", "settled"}, Winds(then),
         c'.root = c.root \/ (c.root = "none" /\ c'.root = "unknown" /\ c'.fails),
         then = "finish" => Outer' = {} /\ c.root # "made"
  PROVE  CoordinatorInv' /\ Governed /\ c'.at # "census" /\ ~Window'
  <1> USE DEF Winds, Stays
  <1>1. CoordinatorTypes' /\ OnceInv'
    BY DEF Lists, CoordinatorInv, CoordinatorTypes
  <1>2. LeasesInv'
    BY DEF LeasesInv, Early
  <1>3. HearInv'
    BY DEF HearInv
  <1>4. Inner' = Todo'
    BY DEF Inner, Todo
  <1>5. CoverInv'
    BY <1>4 DEF CoverInv
  <1>6. RootInv'
    BY DEF CoordinatorInv, RootInv, Present
  <1>7. Governed
    BY StepGoverned DEF Early
  <1> QED
    BY <1>1, <1>2, <1>3, <1>5, <1>6, <1>7 DEF CoordinatorInv, Window

\* While something is stopped.
LEMMA StopKeeps ==
  ASSUME CoordinatorInv, c.at = "stop", Stays, Lists, c'.at = "stop", c'.then = c.then, c'.after = c.after,
         c'.root = c.root, Outer' \subseteq Outer, c'.todo \in Seq(Procs),
         \/ c'.fails
         \/ Inner' = Inner /\ c'.todo = c.todo
         \/ \E p : Inner' = Inner \ {p} /\ Todo \subseteq Todo' \cup {p}
  PROVE  CoordinatorInv' /\ Governed /\ (Window' <=> Window)
  <1> USE DEF Stays
  <1>0. c'.fails \/ (~c.fails /\ \E p : Inner' \subseteq Inner \ {p} /\ Todo \subseteq Todo' \cup {p})
                 \/ (~c.fails /\ Inner' = Inner /\ Todo' = Todo)
    BY DEF Todo
  <1>1. CoordinatorTypes' /\ OnceInv'
    BY DEF Lists, CoordinatorInv, CoordinatorTypes
  <1>2. LeasesInv'
    BY DEF CoordinatorInv, LeasesInv, Early
  <1>3. HearInv'
    BY DEF HearInv
  <1>5. CoverInv'
    BY <1>0 DEF CoordinatorInv, CoverInv
  <1>6. RootInv'
    BY DEF CoordinatorInv, RootInv
  <1>7. Governed
    BY StepGoverned DEF Early, Present
  <1> QED
    BY <1>1, <1>2, <1>3, <1>5, <1>6, <1>7 DEF CoordinatorInv, Window

-----------------------------------------------------------------------------
(* The owner of the leases. *)

\* What a step of the coordinator has to show.
LEMMA StepKeeps ==
  ASSUME LauncherInv, CoordinatorInv', KernelTypes', TreeInv', Wanes, Governed, Releases, Quiet, UNCHANGED <<w, l>>,
         c'.report = c.report, c'.at = "census" => k'["child"].st # "none", ProbeInv'
  PROVE  LauncherInv'
  <1>1. CoordinatorInv /\ ProcessInv /\ ReportInv
    BY DEF LauncherInv, CoordinatorInv, ProcessInv
  <1>2. OtherTypes' /\ ModeInv' /\ LeaderInv' /\ AskInv' /\ HelperInv' /\ ChildInv'
    BY <1>1, GovernedKeeps
  <1>3. ReportInv'
    BY <1>1, ReportKept DEF Governed, Quiet
  <1>4. c'.res = "none"
    BY <1>1 DEF CoordinatorInv, RootInv, Governed, Present
  <1>5. CertainMeansRestored'
    BY <1>4 DEF CertainMeansRestored
  <1> QED
    BY <1>2, <1>3, <1>5 DEF LauncherInv, CoordinatorInv

LEMMA StopStep ==
  ASSUME LauncherInv, CoordinatorInv', KernelTypes', TreeInv', Wanes, Governed, Releases, Window' <=> Window,
         UNCHANGED <<w, l, ch>>, c.at = "stop", c'.at = "stop", c'.report = c.report
  PROVE  LauncherInv'
  <1>1. Quiet /\ Uncalled
    BY SameChannel DEF LauncherInv
  <1>2. ProbeInv'
    BY <1>1, WindowKeeps DEF LauncherInv
  <1> QED
    BY <1>1, <1>2, StepKeeps

\* The results of a round: a lease is dropped, given up, or waited for.
LEMMA Dropped ==
  ASSUME LauncherInv, c.at = "stop", c.todo # <<>>, NEW p \in Procs, p = Head(c.todo), c' = Onward(Retired(c, p)),
         ~Exists(p)'
  PROVE  CoordinatorInv' /\ Governed /\ Releases /\ (Window' <=> Window) /\ c'.at = "stop" /\ c'.report = c.report
  <1>0. CoordinatorInv /\ c.todo \in Seq(Procs) /\ DOMAIN c = CoordinatorFields
    BY DEF LauncherInv, CoordinatorInv, CoordinatorTypes
  <1>1. Tail(c.todo) \in Seq(Procs) /\ ToSet(c.todo) = ToSet(Tail(c.todo)) \cup {p}
    BY <1>0, SetOfTail
  <1>2. /\ Stays /\ Drops(p) /\ c'.at = "stop" /\ c'.then = c.then /\ c'.after = c.after /\ c'.root = c.root
        /\ c'.todo = Tail(c.todo)
    BY <1>0 DEF Stays, Drops, Onward, Retired, CoordinatorFields
  <1>3. Lists /\ Inner' = Inner \ {p} /\ Outer' = Outer \ {p} /\ Releases
    BY <1>0, <1>2, DropsLeases
  <1>5. Outer' \subseteq Outer /\ Todo \subseteq Todo' \cup {p} /\ c'.todo \in Seq(Procs)
    BY <1>1, <1>2, <1>3 DEF Todo
  <1>6. CoordinatorInv' /\ Governed /\ (Window' <=> Window)
    BY <1>0, <1>2, <1>3, <1>5, StopKeeps
  <1> QED
    BY <1>2, <1>3, <1>6 DEF Stays

LEMMA GivenUp ==
  ASSUME LauncherInv, c.at = "stop", c.todo # <<>>, c' = Unsettled(c)
  PROVE  CoordinatorInv' /\ Governed /\ Releases /\ (Window' <=> Window) /\ c'.at = "stop" /\ c'.report = c.report
  <1>0. CoordinatorInv /\ c.todo \in Seq(Procs) /\ DOMAIN c = CoordinatorFields
    BY DEF LauncherInv, CoordinatorInv, CoordinatorTypes
  <1>1. Tail(c.todo) \in Seq(Procs)
    BY <1>0, SetOfTail
  <1>2. /\ Stays /\ Same /\ c'.at = "stop" /\ c'.then = c.then /\ c'.after = c.after /\ c'.root = c.root
        /\ c'.todo = Tail(c.todo) /\ c'.fails
    BY <1>0 DEF Stays, Same, Onward, Unsettled, CoordinatorFields
  <1>3. Lists /\ Releases /\ Inner' = Inner /\ Outer' = Outer
    BY <1>0, <1>2, SameLeases
  <1>6. CoordinatorInv' /\ Governed /\ (Window' <=> Window)
    BY <1>0, <1>1, <1>2, <1>3, StopKeeps
  <1> QED
    BY <1>2, <1>3, <1>6 DEF Stays

LEMMA Awaited ==
  ASSUME LauncherInv, c.at = "stop", NEW s, c' = [c EXCEPT !.st = s]
  PROVE  CoordinatorInv' /\ Governed /\ Releases /\ (Window' <=> Window) /\ c'.at = "stop" /\ c'.report = c.report
  <1>0. CoordinatorInv /\ c.todo \in Seq(Procs) /\ DOMAIN c = CoordinatorFields
    BY DEF LauncherInv, CoordinatorInv, CoordinatorTypes
  <1>2. /\ Stays /\ Same /\ c'.at = "stop" /\ c'.then = c.then /\ c'.after = c.after /\ c'.root = c.root
        /\ c'.todo = c.todo
    BY <1>0 DEF Stays, Same, CoordinatorFields
  <1>3. Lists /\ Releases /\ Inner' = Inner /\ Outer' = Outer
    BY <1>0, <1>2, SameLeases
  <1>6. CoordinatorInv' /\ Governed /\ (Window' <=> Window)
    BY <1>0, <1>2, <1>3, StopKeeps
  <1> QED
    BY <1>2, <1>3, <1>6 DEF Stays

LEMMA StopCheckKeeps ==
  ASSUME LauncherInv, StopCheck
  PROVE  LauncherInv'
  <1>0. KernelTypes /\ TreeInv /\ LeaderInv /\ DOMAIN k = Procs /\ \A q \in Procs : DOMAIN k[q] = ProcFields
    BY DEF LauncherInv, KernelTypes
  <1>1. c.at = "stop" /\ c.todo # <<>> /\ UNCHANGED <<w, l, ch>> /\ Present
    BY DEF StopCheck, Stopping, Present
  <1>2. PICK p \in Procs : p = Head(c.todo)
    BY <1>1, SetOfTail DEF LauncherInv, CoordinatorTypes
  <1>3. CASE p \in c.reaped /\ c' = Onward(Retired(c, p)) /\ UNCHANGED k
    <2>1. KernelTypes' /\ TreeInv' /\ Wanes
      BY <1>0, <1>1, <1>3, SameWanes
    <2>2. ~Exists(p)'
      BY <1>0, <1>3 DEF LeaderInv, Exists
    <2> QED
      BY <1>1, <1>2, <1>3, <2>1, <2>2, Dropped, StopStep
  <1>4. CASE k[p].st = "zombie" /\ k' = Reaped(p) /\ c' = Onward(Retired(c, p))
    <2>1. KernelTypes' /\ TreeInv' /\ Wanes /\ ~Exists(p)'
      BY <1>0, <1>1, <1>2, <1>4, ReapedWanes
    <2> QED
      BY <1>1, <1>2, <1>4, <2>1, Dropped, StopStep
  <1>5. CASE c' = Unsettled(c) /\ UNCHANGED k
    <2>1. KernelTypes' /\ TreeInv' /\ Wanes
      BY <1>0, <1>1, <1>5, SameWanes
    <2> QED
      BY <1>1, <1>5, <2>1, GivenUp, StopStep
  <1>6. CASE /\ k' = [k EXCEPT ![p].gate = IF @ = "shut" /\ k[p].par = "C" THEN "eof" ELSE @]
             /\ c' = [c EXCEPT !.st = "term"]
    <2>1. Touched
      BY <1>0, <1>2, <1>6 DEF Touched, ProcFields
    <2>2. KernelTypes' /\ TreeInv' /\ Wanes
      BY <1>0, <1>1, <2>1, TouchedWanes
    <2> QED
      BY <1>1, <1>6, <2>2, Awaited, StopStep
  <1> QED
    BY <1>2, <1>3, <1>4, <1>5, <1>6 DEF StopCheck

LEMMA StopSignalKeeps ==
  ASSUME LauncherInv, StopSignal
  PROVE  LauncherInv'
  <1>0. KernelTypes /\ TreeInv /\ DOMAIN k = Procs /\ \A q \in Procs : DOMAIN k[q] = ProcFields
    BY DEF LauncherInv, KernelTypes
  <1>1. c.at = "stop" /\ c.todo # <<>> /\ UNCHANGED <<w, l, ch>> /\ Present
    BY DEF StopSignal, Stopping, Present
  <1>2. PICK p \in Procs : p = Head(c.todo)
    BY <1>1, SetOfTail DEF LauncherInv, CoordinatorTypes
  <1>5. CASE c' = Unsettled(c) /\ UNCHANGED k
    <2>1. KernelTypes' /\ TreeInv' /\ Wanes
      BY <1>0, <1>1, <1>5, SameWanes
    <2> QED
      BY <1>1, <1>5, <2>1, GivenUp, StopStep
  <1>6. ASSUME NEW st, k' = [k EXCEPT ![p].sig = IF st = "kill" \/ @ = "kill" THEN "kill" ELSE "term"],
               c' = [c EXCEPT !.st = IF st = "term" THEN "termed" ELSE "killed"]
        PROVE  LauncherInv'
    <2>1. Touched
      BY <1>0, <1>2, <1>6 DEF Touched, ProcFields
    <2>2. KernelTypes' /\ TreeInv' /\ Wanes
      BY <1>0, <1>1, <2>1, TouchedWanes
    <2> QED
      BY <1>1, <1>6, <2>2, Awaited, StopStep
  <1> QED
    BY <1>2, <1>5, <1>6 DEF StopSignal

LEMMA StopWaitKeeps ==
  ASSUME LauncherInv, StopWait
  PROVE  LauncherInv'
  <1>0. KernelTypes /\ TreeInv
    BY DEF LauncherInv
  <1>1. c.at = "stop" /\ c.todo # <<>> /\ UNCHANGED <<w, l, ch>> /\ Present
    BY DEF StopWait, Stopping, Present
  <1>2. PICK p \in Procs : p = Head(c.todo)
    BY <1>1, SetOfTail DEF LauncherInv, CoordinatorTypes
  <1>4. CASE k[p].st = "zombie" /\ k' = Reaped(p) /\ c' = Onward(Retired(c, p))
    <2>1. KernelTypes' /\ TreeInv' /\ Wanes /\ ~Exists(p)'
      BY <1>0, <1>1, <1>2, <1>4, ReapedWanes
    <2> QED
      BY <1>1, <1>2, <1>4, <2>1, Dropped, StopStep
  <1>5. CASE (c' = Unsettled(c) \/ c' = [c EXCEPT !.st = "kill"]) /\ UNCHANGED k
    <2>1. KernelTypes' /\ TreeInv' /\ Wanes
      BY <1>0, <1>1, <1>5, SameWanes
    <2> QED
      BY <1>1, <1>5, <2>1, GivenUp, Awaited, StopStep
  <1> QED
    BY <1>2, <1>4, <1>5 DEF StopWait

LEMMA StopEndsKeeps ==
  ASSUME LauncherInv, StopEnds
  PROVE  LauncherInv'
  <1>0. CoordinatorInv /\ ProcessInv /\ DOMAIN c = CoordinatorFields /\ c.todo \in Seq(Procs)
    BY DEF LauncherInv, CoordinatorInv, CoordinatorTypes, ProcessInv
  <1>1. c.at = "stop" /\ c.todo = <<>> /\ UNCHANGED <<k, w, l, ch>> /\ Present
    BY DEF StopEnds, Present
  <1>2. /\ Stays /\ Same /\ c'.at = c.then /\ c'.then = c.then /\ c'.after = c.after /\ c'.root = c.root
        /\ c'.todo = c.todo /\ c'.fails = c.fails /\ c'.helper = c.helper
    BY <1>0 DEF StopEnds, Stays, Same, CoordinatorFields
  <1>3. Lists /\ Releases /\ Inner' = Inner /\ Outer' = Outer /\ Leased' = Leased
    BY <1>0, <1>2, SameLeases
  <1>4. c.then \in {"finish", "settled", "adopt", "rejected", "closed"} /\ Todo = {}
    BY <1>0, <1>1, SetOfNothing DEF CoordinatorInv, CoverInv, Todo
  <1>5. /\ c.then = "finish" => Outer = {}
        /\ c.then = "adopt" => c.after \in {"rejected", "closed"} /\ (~c.fails => "leader" \notin Inner)
        /\ c.then # "adopt" /\ ~c.fails => Inner = {}
    BY <1>0, <1>1, <1>4 DEF CoordinatorInv, CoverInv, LeasesInv
  <1>6. CoordinatorInv'
    <2>1. CoordinatorTypes' /\ OnceInv'
      BY <1>0, <1>2, <1>3 DEF Lists, Stays, CoordinatorInv, CoordinatorTypes
    <2>2. LeasesInv'
      BY <1>2, <1>3, <1>4, <1>5 DEF LeasesInv, Early
    <2>3. HearInv'
      BY <1>2, <1>4 DEF HearInv
    <2>4. CoverInv'
      BY <1>2, <1>3, <1>4, <1>5 DEF CoverInv
    <2>5. RootInv'
      BY <1>0, <1>1, <1>2, <1>4 DEF CoordinatorInv, RootInv, Stays, Casing
    <2> QED
      BY <2>1, <2>2, <2>3, <2>4, <2>5 DEF CoordinatorInv
  <1>7. Governed
    BY <1>1, <1>2, <1>3, <1>4, StepGoverned DEF Early
  <1>8. KernelTypes' /\ TreeInv' /\ Wanes
    BY <1>0, <1>1, SameWanes DEF ProcessInv
  <1>9. Quiet /\ Uncalled
    BY <1>0, <1>1, SameChannel DEF ProcessInv
  <1>10. ProbeInv'
    <2>1. CASE c.then = "adopt" /\ ~c.fails
      <3>1. "leader" \notin Leased
        BY <1>0, <1>5, <2>1 DEF CoordinatorInv, OnceInv, Inner, Outer, Leased
      <3>2. ~Alive("leader") /\ ~Alive("leader")'
        BY <1>0, <1>1, <3>1 DEF ProcessInv, LeaderInv, Exists, Alive
      <3> QED
        BY <1>2, <2>1, <3>2 DEF ProbeInv
    <2>2. CASE c.then # "adopt" \/ c.fails
      <3>1. ~c'.fails => ~Window /\ c.at # "adopt"
        BY <1>1, <1>2, <2>2 DEF Window
      <3> QED
        BY <1>0, <1>1, <1>3, <1>7, <1>8, <1>9, <3>1, WindowKeeps DEF ProcessInv
    <2> QED
      BY <2>1, <2>2
  <1> QED
    BY <1>1, <1>2, <1>3, <1>4, <1>6, <1>7, <1>8, <1>9, <1>10, StepKeeps DEF Stays

LEMMA AdoptKeeps ==
  ASSUME LauncherInv, AdoptUnregistered
  PROVE  LauncherInv'
  <1>0. CoordinatorInv /\ ProcessInv /\ DOMAIN c = CoordinatorFields /\ c.todo \in Seq(Procs)
        /\ c.leases \in Seq(Procs) /\ c.outer \in Seq(Procs)
    BY DEF LauncherInv, CoordinatorInv, CoordinatorTypes, ProcessInv
  <1>1. c.at = "adopt" /\ UNCHANGED <<k, w, l, ch>> /\ Present
    BY DEF AdoptUnregistered, Present
  <1>2. c.after \in {"rejected", "closed"} /\ (~c.fails => "leader" \notin Inner)
    BY <1>0, <1>1 DEF CoordinatorInv, CoverInv
  <1>3. KernelTypes' /\ TreeInv' /\ Wanes
    BY <1>0, <1>1, SameWanes DEF ProcessInv
  <1>4. Quiet /\ Uncalled
    BY <1>0, <1>1, SameChannel DEF ProcessInv
  <1>5. CASE c' = [c EXCEPT !.at = c.after, !.fails = TRUE]
    <2>1. /\ Stays /\ Same /\ c'.at = c.after /\ c'.root = c.root /\ c'.todo = c.todo /\ c'.fails
      BY <1>0, <1>5 DEF Stays, Same, CoordinatorFields
    <2>2. Lists /\ Releases /\ Inner' = Inner /\ Outer' = Outer /\ Leased' = Leased
      BY <1>0, <2>1, SameLeases
    <2>3. CoordinatorTypes' /\ OnceInv'
      BY <1>0, <2>1, <2>2 DEF Lists, Stays, CoordinatorInv, CoordinatorTypes
    <2>4. LeasesInv' /\ HearInv'
      BY <1>2, <2>1 DEF LeasesInv, HearInv, Early
    <2>5. CoverInv'
      BY <1>2, <2>1 DEF CoverInv
    <2>6. RootInv'
      BY <1>0, <1>1, <1>2, <2>1 DEF CoordinatorInv, RootInv, Stays, Casing
    <2>7. Governed
      BY <1>1, <1>2, <2>1, <2>2, StepGoverned DEF Early
    <2>8. CoordinatorInv'
      BY <2>3, <2>4, <2>5, <2>6 DEF CoordinatorInv
    <2>9. ProbeInv'
      BY <2>1 DEF ProbeInv
    <2> QED
      BY <1>1, <1>2, <1>3, <1>4, <2>1, <2>2, <2>7, <2>8, <2>9, StepKeeps DEF Stays
  <1>6. CASE \E new \in {SetToSeq({q \in Procs : /\ k[q].par = "C" /\ k[q].st \in {"gated", "live", "zombie"}
                                               /\ q \notin Leased})} :
             c' = [c EXCEPT !.leases = @ \o new, !.at = "stop", !.st = "check",
                            !.todo = new \o RemoveFirst(c.leases, "leader"),
                            !.then = c.after]
    <2> DEFINE N == {q \in Procs : k[q].par = "C" /\ k[q].st \in {"gated", "live", "zombie"} /\ q \notin Leased}
    <2>1. PICK new : /\ new = SetToSeq(N)
                     /\ c' = [c EXCEPT !.leases = @ \o new, !.at = "stop", !.st = "check",
                                       !.todo = new \o RemoveFirst(c.leases, "leader"), !.then = c.after]
      BY <1>6
    <2>2. N \in SUBSET Procs /\ IsFiniteSet(Procs)
      <3>1. IsFiniteSet({"worker"})
        BY FS_Singleton
      <3>2. IsFiniteSet({"worker"} \cup {"leader"})
        BY <3>1, FS_AddElement
      <3>3. IsFiniteSet(({"worker"} \cup {"leader"}) \cup {"helper"})
        BY <3>2, FS_AddElement
      <3>4. IsFiniteSet((({"worker"} \cup {"leader"}) \cup {"helper"}) \cup {"child"})
        BY <3>3, FS_AddElement
      <3>5. Procs = (({"worker"} \cup {"leader"}) \cup {"helper"}) \cup {"child"}
        BY ProcsAre
      <3> QED
        BY <3>4, <3>5
    <2>3. \A q \in N : Exists(q) /\ k[q].par = "C" /\ q \notin Leased
      BY DEF Exists
    <2>4. \A q \in Procs : Exists(q) /\ k[q].par = "C" => q \in Leased \cup N
      BY DEF Exists
    <2> HIDE DEF N
    <2>5. new \in Seq(Procs) /\ ToSet(new) = N /\ IsInjective(new)
      BY <2>1, <2>2, ListOfSet
    <2>6. /\ Stays /\ c'.leases = c.leases \o new /\ c'.outer = c.outer /\ c'.reaped = c.reaped
          /\ c'.at = "stop" /\ c'.then = c.after /\ c'.todo = new \o RemoveFirst(c.leases, "leader")
          /\ c'.root = c.root /\ c'.fails = c.fails
      BY <1>0, <2>1 DEF Stays, CoordinatorFields
    <2>7. IsInjective(c.leases) /\ IsInjective(c.outer) /\ Inner \cap Outer = {} /\ Outer \subseteq {"worker"}
          /\ Leased = Inner \cup Outer
      BY <1>0 DEF CoordinatorInv, OnceInv, Leased, Inner, Outer
    <2>8. ToSet(c.leases) \cap ToSet(new) = {}
      BY <2>3, <2>5, <2>7 DEF Inner
    <2>9. c'.leases \in Seq(Procs) /\ ToSet(c'.leases) = ToSet(c.leases) \cup N /\ IsInjective(c'.leases)
      BY <1>0, <2>5, <2>6, <2>7, <2>8, SetOfConcat
    <2>10. Inner' = Inner \cup N /\ Outer' = Outer /\ Leased' = Leased \cup N
      BY <2>6, <2>9 DEF Inner, Outer, Leased
    <2>11. RemoveFirst(c.leases, "leader") \in Seq(Procs) /\ ToSet(RemoveFirst(c.leases, "leader")) = Inner \ {"leader"}
      BY <1>0, <2>7, SetOfRemoval DEF Inner
    <2>12. c'.todo \in Seq(Procs) /\ Todo' = N \cup (Inner \ {"leader"})
      BY <2>5, <2>6, <2>11, SetOfConcat DEF Todo
    <2>13. OnceInv'
      BY <2>3, <2>6, <2>7, <2>9, <2>10 DEF OnceInv
    <2>14. Lists
      BY <1>0, <2>6, <2>9, <2>13 DEF Lists, Recorded
    <2>15. CoordinatorTypes'
      BY <1>0, <2>6, <2>9, <2>12 DEF CoordinatorInv, CoordinatorTypes, Stays
    <2>16. LeasesInv' /\ HearInv'
      BY <1>2, <2>6 DEF LeasesInv, HearInv, Early
    <2>17. CoverInv'
      BY <1>2, <2>6, <2>10, <2>12 DEF CoverInv
    <2>18. RootInv'
      BY <1>0, <1>1, <1>2, <2>6 DEF CoordinatorInv, RootInv, Stays, Casing
    <2>19. Governed
      BY <1>1, <2>6, <2>14, StepGoverned DEF Early
    <2>20. CoordinatorInv'
      BY <2>13, <2>15, <2>16, <2>17, <2>18 DEF CoordinatorInv
    <2>21. "helper" \in N => ~Alive("worker")
      BY <1>0, <2>3 DEF ProcessInv, TreeInv
    <2>22. Releases
      BY <2>6, <2>10, <2>21 DEF Releases
    <2>23. ProbeInv'
      <3>1. SUFFICES ASSUME ~c.fails
                     PROVE  ~Alive("leader")' /\ (Exists("child")' => "child" \in Leased')
        BY <2>6 DEF ProbeInv
      <3>2. "leader" \notin Leased
        BY <1>2, <2>7, <3>1
      <3>3. ~Exists("leader") /\ ~Alive("leader")
        BY <1>0, <1>1, <3>2 DEF ProcessInv, LeaderInv, Exists, Alive
      <3>4. ~Alive("leader")'
        BY <1>1, <3>3 DEF Alive
      <3>5. Exists("child")' => Exists("child")
        BY <1>1 DEF Exists
      <3>6. Exists("child") => k["child"].par = "C"
        BY <1>0, <1>1, <3>3, ProcsAre DEF ProcessInv, TreeInv
      <3> QED
        BY <2>4, <2>10, <3>4, <3>5, <3>6, ProcsAre
    <2> QED
      BY <1>1, <1>3, <1>4, <2>6, <2>19, <2>20, <2>22, <2>23, StepKeeps DEF Stays
  <1> QED
    BY <1>5, <1>6 DEF AdoptUnregistered

-----------------------------------------------------------------------------
(* The coordinator in a case. *)

\* Where no child of the probe can be there unleased.
Shut == c.mode = "sandbox" => ~Window /\ c.at # "adopt"

LEMMA WindStep ==
  ASSUME LauncherInv, Present, c.at # "done", NEW then \in {"finish", "settled"}, Winds(then),
         c'.root = c.root \/ (c.root = "none" /\ c'.root = "unknown" /\ c'.fails),
         then = "finish" => Outer' = {} /\ c.root # "made",
         KernelTypes', TreeInv', Wanes, Releases, Quiet, Uncalled, UNCHANGED <<w, l>>, Shut
  PROVE  LauncherInv'
  <1>1. CoordinatorInv /\ ProbeInv
    BY DEF LauncherInv, CoordinatorInv
  <1>2. CoordinatorInv' /\ Governed /\ c'.at # "census"
    BY <1>1, WindsKeeps
  <1>3. ProbeInv'
    BY <1>1, <1>2, WindowKeeps DEF Shut
  <1> QED
    BY <1>2, <1>3, StepKeeps DEF Winds, Stays

\* The same leases are stopped next.
LEMMA RaisedKeeps ==
  ASSUME LauncherInv, Present, c.at # "done", NEW then \in {"finish", "settled"},
         c' = Raised(c, then) \/ c' = Unwind(c, then),
         then = "finish" => Outer = {} /\ c.root # "made",
         KernelTypes', TreeInv', Wanes, Quiet, Uncalled, UNCHANGED <<w, l>>, Shut
  PROVE  LauncherInv'
  <1>0. CoordinatorInv /\ DOMAIN c = CoordinatorFields
    BY DEF LauncherInv, CoordinatorInv, CoordinatorTypes
  <1>1. Stays /\ Same /\ c'.at = "stop" /\ c'.then = then /\ c'.todo = c'.leases /\ c'.root = c.root
    <2>1. CASE c' = Raised(c, then)
      BY <1>0, <2>1 DEF Stays, Same, Raised, Unwind, CoordinatorFields
    <2>2. CASE c' = Unwind(c, then)
      BY <1>0, <2>2 DEF Stays, Same, Unwind, CoordinatorFields
    <2> QED
      BY <2>1, <2>2
  <1>2. Lists /\ Releases /\ Outer' = Outer
    BY <1>0, <1>1, SameLeases
  <1>3. Winds(then)
    BY <1>1, <1>2 DEF Winds
  <1> QED
    BY <1>1, <1>2, <1>3, WindStep

\* The lease of a process that was reaped is dropped first.
LEMMA RetiredKeeps ==
  ASSUME LauncherInv, Present, c.at # "done", NEW then \in {"finish", "settled"}, NEW p \in Procs, ~Exists(p)',
         c' = Raised(Retired(c, p), then) \/ c' = Unwind(Retired(c, p), then),
         then = "finish" => Outer = {} /\ c.root # "made",
         KernelTypes', TreeInv', Wanes, Quiet, Uncalled, UNCHANGED <<w, l>>, Shut
  PROVE  LauncherInv'
  <1>0. CoordinatorInv /\ DOMAIN c = CoordinatorFields
    BY DEF LauncherInv, CoordinatorInv, CoordinatorTypes
  <1>1. Stays /\ Drops(p) /\ c'.at = "stop" /\ c'.then = then /\ c'.todo = c'.leases /\ c'.root = c.root
    <2>1. CASE c' = Raised(Retired(c, p), then)
      BY <1>0, <2>1 DEF Stays, Drops, Raised, Unwind, Retired, CoordinatorFields
    <2>2. CASE c' = Unwind(Retired(c, p), then)
      BY <1>0, <2>2 DEF Stays, Drops, Unwind, Retired, CoordinatorFields
    <2> QED
      BY <2>1, <2>2
  <1>2. Lists /\ Releases /\ Outer' = Outer \ {p}
    BY <1>0, <1>1, DropsLeases
  <1>3. Winds(then)
    BY <1>1, <1>2 DEF Winds
  <1> QED
    BY <1>1, <1>2, <1>3, WindStep

\* Points of a case at which nothing is promised of the leases.
Middle == {"reject", "undo", "rejected", "term", "termed", "join", "adopted"}
LEMMA MiddleKeeps ==
  ASSUME CoordinatorInv, c.at \in Casing, Stays, Lists, c'.at \in Middle, c'.todo = c.todo, c'.root = c.root
  PROVE  CoordinatorInv' /\ Governed
  <1>1. CoordinatorTypes' /\ OnceInv'
    BY DEF Lists, Stays, CoordinatorInv, CoordinatorTypes
  <1>2. LeasesInv' /\ HearInv' /\ CoverInv'
    BY DEF LeasesInv, HearInv, CoverInv, Early, Middle
  <1>3. RootInv'
    BY DEF CoordinatorInv, RootInv, Stays, Middle, Casing
  <1>4. Governed
    BY StepGoverned DEF Casing, Middle, Early, Present
  <1> QED
    BY <1>1, <1>2, <1>3, <1>4 DEF CoordinatorInv

\* The next packet of the script is expected.
LEMMA HearKeeps ==
  ASSUME CoordinatorInv, c.at \in {"hear", "census"}, c.at = "hear" => c.step # Handover, c.step < Len(Script),
         Stays, Same, c'.at = "hear", c'.step = c.step + 1, c'.i = c.i, c'.todo = c.todo, c'.root = c.root
  PROVE  CoordinatorInv' /\ Governed /\ Lists /\ Releases /\ Leased' = Leased
  <1>0. Lists /\ Releases /\ Inner' = Inner /\ Leased' = Leased
    BY SameLeases
  <1>1. CoordinatorTypes' /\ OnceInv' /\ CoordinatorTypes
    BY <1>0 DEF Lists, Stays, CoordinatorInv, CoordinatorTypes
  <1>2. LeasesInv' /\ CoverInv'
    BY DEF LeasesInv, CoverInv, Early
  <1>3. Script' = Script /\ Handover' = Handover
    BY DEF Script, Case, Full, Handover, Stays
  <1>4. HearInv'
    <2>1. Len(Script) \in Nat /\ Handover \in 2..4
      BY <1>1, ScriptMeans
    <2>2. c.step \in 1..Len(Script) /\ (c.step < Handover => "child" \notin Inner)
          /\ (c.step = Handover => c'.step > Handover)
      <3>1. c.at = "census" => c.step = Handover /\ Handover < Len(Script)
        BY DEF CoordinatorInv, HearInv
      <3>2. c.at = "hear" => c.step \in 1..Len(Script) /\ (c.step <= Handover => "child" \notin Inner)
        BY DEF CoordinatorInv, HearInv
      <3>3. Handover < Len(Script) => Handover \in 1..Len(Script)
        BY <2>1
      <3>4. c.step \in 1..Len(Script)
        BY <3>1, <3>2, <3>3
      <3>5. c.step < Handover => "child" \notin Inner
        BY <2>1, <3>1, <3>2, <3>4
      <3> QED
        BY <2>1, <3>4, <3>5
    <2>3. c'.step \in 1..Len(Script) /\ (c'.step <= Handover => "child" \notin Inner)
      BY <2>1, <2>2
    <2> QED
      BY <1>0, <1>3, <2>3 DEF HearInv
  <1>5. RootInv'
    BY DEF CoordinatorInv, RootInv, Stays, Casing
  <1>6. Governed
    BY <1>0, StepGoverned DEF Early, Present
  <1> QED
    BY <1>0, <1>1, <1>2, <1>4, <1>5, <1>6 DEF CoordinatorInv

LEMMA TellsRead ==
  ASSUME OtherTypes, ch.say # <<>>, NEW tell, ch' = Told(Read, tell)
  PROVE  (tell # "A" => Quiet) /\ (tell # "C" => Uncalled)
  <1>1. DOMAIN Read = ChannelFields /\ Read.say = Tail(ch.say) /\ Read.tell = ch.tell
        /\ Read.ask = ch.ask /\ Read.answer = ch.answer /\ Read.issue = ch.issue
    BY DEF OtherTypes, Read, ChannelFields
  <1>2. IsList(Read.say) /\ ToSet(Read.say) \subseteq ToSet(ch.say) /\ IsList(Read.tell)
    BY <1>1, ListOfTail DEF OtherTypes
  <1> HIDE DEF Read
  <1> QED
    BY <1>1, <1>2, ToldChannel

LEMMA TellsOnly ==
  ASSUME OtherTypes, NEW tell, ch' = Told(ch, tell)
  PROVE  /\ (tell # "A" => Quiet) /\ (tell # "C" => Uncalled)
         /\ DOMAIN ch' = ChannelFields /\ IsList(ch'.say) /\ IsList(ch'.tell)
         /\ ch'.ask = ch.ask /\ ch'.answer = ch.answer /\ ch'.issue = ch.issue
         /\ ToSet(ch'.say) \subseteq ToSet(ch.say)
         /\ ToSet(ch'.tell) \subseteq ToSet(ch.tell) \cup {tell}
  <1>1. DOMAIN ch = ChannelFields /\ IsList(ch.say) /\ IsList(ch.tell)
    BY DEF OtherTypes
  <1> QED
    BY <1>1, ToldChannel

\* Nothing of the kernel moves.
LEMMA Idle ==
  ASSUME LauncherInv, Present, UNCHANGED k
  PROVE  KernelTypes' /\ TreeInv' /\ Wanes
  BY SameWanes DEF LauncherInv

LEMMA RootPrepareKeeps ==
  ASSUME LauncherInv, RootPrepare
  PROVE  LauncherInv'
  <1>0. CoordinatorInv /\ OtherTypes /\ ProbeInv /\ DOMAIN c = CoordinatorFields
    BY DEF LauncherInv, CoordinatorInv, CoordinatorTypes
  <1>1. c.at = "case" /\ c.root = "none" /\ UNCHANGED <<k, w, l, ch>> /\ Present /\ Shut /\ ~Window
    BY DEF RootPrepare, Present, Shut, Window
  <1>2. KernelTypes' /\ TreeInv' /\ Wanes /\ Quiet /\ Uncalled
    BY <1>0, <1>1, Idle, SameChannel
  <1>3. CASE c' = [c EXCEPT !.root = "made", !.at = "leader"]
    <2>1. Stays /\ Same /\ c'.at = "leader" /\ c'.root = "made" /\ c'.todo = c.todo /\ c'.err = c.err /\ c'.fails = c.fails
      BY <1>0, <1>3 DEF Stays, Same, CoordinatorFields
    <2>2. Lists /\ Releases /\ Inner' = Inner /\ Outer' = Outer
      BY <1>0, <2>1, SameLeases
    <2>3. CoordinatorTypes' /\ OnceInv'
      BY <1>0, <2>1, <2>2 DEF Lists, Stays, CoordinatorInv, CoordinatorTypes
    <2>4. LeasesInv'
      BY <1>0, <1>1, <2>1, <2>2 DEF CoordinatorInv, LeasesInv, Early
    <2>5. HearInv' /\ CoverInv'
      BY <2>1 DEF HearInv, CoverInv
    <2>6. RootInv'
      BY <1>0, <1>1, <2>1 DEF CoordinatorInv, RootInv, Stays
    <2>7. CoordinatorInv'
      BY <2>3, <2>4, <2>5, <2>6 DEF CoordinatorInv
    <2>8. Governed
      BY <1>1, <2>1, <2>2, StepGoverned DEF Early
    <2>9. ProbeInv'
      BY <1>0, <1>1, <1>2, <2>2, <2>8, WindowKeeps
    <2> QED
      BY <1>1, <1>2, <2>1, <2>2, <2>7, <2>8, <2>9, StepKeeps DEF Stays
  <1>4. CASE c' = Raised([c EXCEPT !.root = "unknown", !.fails = TRUE], "settled")
    <2>1. Stays /\ Same /\ c'.at = "stop" /\ c'.then = "settled" /\ c'.todo = c'.leases
          /\ c'.root = "unknown" /\ c'.fails
      BY <1>0, <1>4 DEF Stays, Same, Raised, Unwind, CoordinatorFields
    <2>2. Lists /\ Releases
      BY <1>0, <2>1, SameLeases
    <2>3. Winds("settled")
      BY <2>1, <2>2 DEF Winds
    <2> QED
      BY <1>1, <1>2, <2>1, <2>2, <2>3, WindStep
  <1>5. CASE c' = Raised(c, "settled")
    BY <1>1, <1>2, <1>5, RaisedKeeps
  <1> QED
    BY <1>3, <1>4, <1>5 DEF RootPrepare

LEMMA RootRefusedKeeps ==
  ASSUME LauncherInv, RootRefused
  PROVE  LauncherInv'
  <1>1. c.at = "case" /\ UNCHANGED <<k, w, l, ch>> /\ Present /\ Shut /\ c' = Raised(c, "settled")
    BY DEF RootRefused, Present, Shut, Window
  <1>2. KernelTypes' /\ TreeInv' /\ Wanes /\ Quiet /\ Uncalled
    BY <1>1, Idle, SameChannel DEF LauncherInv
  <1> QED
    BY <1>1, <1>2, RaisedKeeps

\* A packet of the script is never the transfer, which has a socket of its own.
LEMMA HeardMeans ==
  ASSUME LauncherInv, c.at = "hear", Heard
  PROVE  /\ c.step \in 1..Len(Script) /\ Len(Script) \in Nat /\ c.step # Handover /\ ch.say # <<>> /\ Shut /\ Present
         /\ Script[c.step].hears # "A"
         /\ c.mode = "sandbox" => (Script[c.step].hears = "C" <=> c.step = 1) /\ Handover = 2
         /\ Expected \notin {"exit", "E"} /\ Script[c.step].hears # "X" => c.step < Len(Script)
  <1>0. CoordinatorTypes /\ HearInv /\ ChildInv /\ OtherTypes
    BY DEF LauncherInv
  <1>1. ch.say # <<>> /\ Head(ch.say) = Script[c.step].say
    BY DEF Heard, Expected
  <1>2. Head(ch.say) \in ToSet(ch.say)
    BY <1>0, <1>1, ListOfTail DEF OtherTypes
  <1>3. Script[c.step].say # "transfer"
    BY <1>0, <1>1, <1>2 DEF ChildInv
  <1>4. c.step \in 1..Len(Script)
    BY <1>0 DEF HearInv
  <1>5. Len(Script) \in Nat
        /\ (Script[Len(Script)].say \in {"exit", "E"} \/ Script[Len(Script)].hears = "X")
        /\ (Script[c.step].say = "transfer" <=> c.step = Handover)
        /\ (Script[c.step].hears = "A" <=> c.step = Handover)
        /\ (c.mode = "sandbox" => (Script[c.step].hears = "C" <=> c.step = 1) /\ Handover = 2)
    BY <1>0, <1>4, ScriptMeans
  <1>6. Expected \notin {"exit", "E"} /\ Script[c.step].hears # "X" => c.step # Len(Script)
    BY <1>5 DEF Expected
  <1>7. c.step # Len(Script) => c.step < Len(Script)
    BY <1>4, <1>5
  <1>8. Shut
    BY <1>3, <1>5 DEF Shut, Window
  <1> QED
    BY <1>1, <1>3, <1>4, <1>5, <1>6, <1>7, <1>8 DEF Present

LEMMA HearFirstKeeps ==
  ASSUME LauncherInv, HearFirst
  PROVE  LauncherInv'
  <1>0. CoordinatorInv /\ OtherTypes /\ ProbeInv /\ DOMAIN c = CoordinatorFields
    BY DEF LauncherInv, CoordinatorInv, CoordinatorTypes
  <1>1. c.at = "hear" /\ c.step = 1 /\ Heard /\ UNCHANGED <<k, w, l>>
    BY DEF HearFirst
  <1>2. /\ c.step # Handover /\ ch.say # <<>> /\ Shut /\ Present /\ Script[c.step].hears # "A"
        /\ c.mode = "sandbox" => Handover = 2
    BY <1>1, HeardMeans
  <1>3. KernelTypes' /\ TreeInv' /\ Wanes
    BY <1>1, <1>2, Idle
  <1>4. CASE c' = Raised(c, "settled") /\ ch' = Read
    <2>1. Quiet /\ Uncalled
      BY <1>0, <1>2, <1>4, ReadChannel
    <2> QED
      BY <1>1, <1>2, <1>3, <1>4, <2>1, RaisedKeeps
  <1>5. CASE Tells(Read, [c EXCEPT !.phase["leader"] = "POST"])
    <2>1. /\ Stays /\ Same /\ c'.at = "hear" /\ c'.step = c.step + 1 /\ c'.i = c.i /\ c'.todo = c.todo /\ c'.root = c.root
      BY <1>0, <1>1, <1>5 DEF Tells, Stays, Same, CoordinatorFields
    <2>2. Quiet
      BY <1>0, <1>2, <1>5, TellsRead DEF Tells
    <2>3. c.step < Len(Script)
      BY <1>0, <1>1, ScriptMeans DEF CoordinatorInv
    <2>4. CoordinatorInv' /\ Governed /\ Releases
      BY <1>0, <1>1, <1>2, <2>1, <2>3, HearKeeps
    <2>5. ProbeInv'
      <3>1. c'.mode = c.mode /\ c'.step = 2
        BY <1>1, <2>1 DEF Stays
      <3>2. Window'
        BY <2>1, <3>1 DEF Window
      <3> QED
        BY <3>2 DEF ProbeInv
    <2> QED
      BY <1>1, <1>3, <2>1, <2>2, <2>4, <2>5, StepKeeps DEF Stays
  <1> QED
    BY <1>4, <1>5 DEF HearFirst

LEMMA HearStepKeeps ==
  ASSUME LauncherInv, Hear
  PROVE  LauncherInv'
  <1>0. CoordinatorInv /\ OtherTypes /\ ProbeInv /\ DOMAIN c = CoordinatorFields
    BY DEF LauncherInv, CoordinatorInv, CoordinatorTypes
  <1>1. c.at = "hear" /\ c.step > 1 /\ Heard /\ Expected \notin {"exit", "E"} /\ Script[c.step].hears # "X"
        /\ UNCHANGED <<k, w, l>>
    BY DEF Hear
  <1>2. /\ c.step # Handover /\ ch.say # <<>> /\ Shut /\ Present /\ Script[c.step].hears # "A"
        /\ c.step \in 1..Len(Script) /\ c.step < Len(Script)
        /\ c.mode = "sandbox" => (Script[c.step].hears = "C" <=> c.step = 1)
    BY <1>1, HeardMeans
  <1>3. KernelTypes' /\ TreeInv' /\ Wanes
    BY <1>1, <1>2, Idle
  <1>4. CASE c' = Raised(c, "settled") /\ ch' = Read
    <2>1. Quiet /\ Uncalled
      BY <1>0, <1>2, <1>4, ReadChannel
    <2> QED
      BY <1>1, <1>2, <1>3, <1>4, <2>1, RaisedKeeps
  <1>5. CASE Tells(Read, [c EXCEPT !.fed = @ \/ Expected = "final-inspection"])
    <2>1. /\ Stays /\ Same /\ c'.at = "hear" /\ c'.step = c.step + 1 /\ c'.i = c.i /\ c'.todo = c.todo /\ c'.root = c.root
      BY <1>0, <1>1, <1>5 DEF Tells, Stays, Same, CoordinatorFields
    <2>2. Quiet /\ (Script[c.step].hears # "C" => Uncalled)
      BY <1>0, <1>2, <1>5, TellsRead DEF Tells
    <2>4. CoordinatorInv' /\ Governed /\ Releases
      BY <1>0, <1>1, <1>2, <2>1, HearKeeps
    <2>5. c.step # 1
      BY <1>1
    <2>6. ProbeInv'
      BY <1>0, <1>1, <1>2, <1>3, <2>2, <2>4, <2>5, WindowKeeps DEF Shut
    <2> QED
      BY <1>1, <1>3, <2>1, <2>2, <2>4, <2>6, StepKeeps DEF Stays
  <1> QED
    BY <1>4, <1>5 DEF Hear

\* A child is leased when it is received.
LEMMA ReceiveKeeps ==
  ASSUME LauncherInv, Receive
  PROVE  LauncherInv'
  <1>0. CoordinatorInv /\ OtherTypes /\ ProbeInv /\ TreeInv /\ CoordinatorTypes /\ DOMAIN c = CoordinatorFields
    BY DEF LauncherInv, CoordinatorInv, CoordinatorTypes
  <1>1. c.at = "hear" /\ Expected = "transfer" /\ UNCHANGED <<k, w, l>> /\ ch' = [ch EXCEPT !.transfer = FALSE] /\ Present
    BY DEF Receive, Transferred, Present
  <1>2. c.step = Handover /\ Handover \in 2..4 /\ "child" \notin Inner
        /\ (c.mode = "sandbox" => Handover = 2)
    <2>1. c.step \in 1..Len(Script) /\ (c.step <= Handover => "child" \notin Inner)
      BY <1>0, <1>1 DEF CoordinatorInv, HearInv
    <2>2. c.step = Handover /\ Handover \in 2..4 /\ (c.mode = "sandbox" => Handover = 2)
      BY <1>0, <1>1, <2>1, ScriptMeans DEF Expected
    <2> QED
      BY <2>1, <2>2
  <1>3. KernelTypes' /\ TreeInv' /\ Wanes
    BY <1>1, Idle
  <1>4. Quiet /\ Uncalled
    BY <1>0, <1>1 DEF OtherTypes, Quiet, Listens, Uncalled, ChannelFields
  <1>5. CASE c' = [c EXCEPT !.at = "reject", !.err = TRUE]
    <2>1. Stays /\ Same /\ c'.at = "reject" /\ c'.todo = c.todo /\ c'.root = c.root
      BY <1>0, <1>5 DEF Stays, Same, CoordinatorFields
    <2>2. Lists /\ Releases
      BY <1>0, <2>1, SameLeases
    <2>3. CoordinatorInv' /\ Governed
      BY <1>0, <1>1, <2>1, <2>2, MiddleKeeps DEF Casing, Middle
    <2>4. ProbeInv'
      BY <2>1 DEF ProbeInv, Window
    <2> QED
      BY <1>1, <1>3, <1>4, <2>1, <2>2, <2>3, <2>4, StepKeeps DEF Stays
  <1>6. CASE /\ Received
             /\ c' = [Registered(c, "child") EXCEPT !.at = "census", !.held = IF Full THEN @ \cup {"child"} ELSE @]
    <2>1. /\ Stays /\ c'.leases = Append(c.leases, "child") /\ c'.outer = c.outer /\ c'.reaped = c.reaped /\ c'.at = "census"
          /\ c'.todo = c.todo /\ c'.root = c.root /\ c'.step = c.step /\ c'.i = c.i
      BY <1>0, <1>6 DEF Stays, Registered, CoordinatorFields
    <2>2. c.leases \in Seq(Procs) /\ IsInjective(c.leases) /\ IsInjective(c.outer) /\ "child" \notin ToSet(c.leases)
          /\ Inner \cap Outer = {} /\ Outer \subseteq {"worker"} /\ "child" \in Procs
          /\ c.outer \in Seq(Procs) /\ c.todo \in Seq(Procs)
      BY <1>0, <1>2, ProcsAre DEF CoordinatorInv, CoordinatorTypes, OnceInv, Inner
    <2>3. c'.leases \in Seq(Procs) /\ ToSet(c'.leases) = ToSet(c.leases) \cup {"child"} /\ IsInjective(c'.leases)
      BY <2>1, <2>2, SetOfAppend
    <2>4. Inner' = Inner \cup {"child"} /\ Outer' = Outer /\ Leased' = Leased \cup {"child"}
      BY <2>1, <2>3 DEF Inner, Outer, Leased
    <2>5. OnceInv'
      BY <2>1, <2>2, <2>3, <2>4 DEF OnceInv
    <2>6. Lists
      BY <2>1, <2>2, <2>3, <2>5 DEF Lists, Recorded
    <2>7. CoordinatorTypes'
      BY <1>0, <2>1, <2>2, <2>3 DEF CoordinatorTypes, Stays
    <2>8. LeasesInv' /\ CoverInv'
      BY <2>1 DEF LeasesInv, CoverInv, Early
    <2>9. Handover' = Handover
      BY <2>1 DEF Handover, Full, Stays
    <2>10. HearInv'
      BY <1>2, <2>1, <2>4, <2>9 DEF HearInv
    <2>11. RootInv'
      BY <1>0, <1>1, <2>1 DEF CoordinatorInv, RootInv, Stays, Casing
    <2>12. CoordinatorInv'
      BY <2>5, <2>7, <2>8, <2>10, <2>11 DEF CoordinatorInv
    <2>13. Governed
      BY <1>1, <2>1, <2>6, StepGoverned DEF Early
    <2>14. Releases
      BY <2>4 DEF Releases
    <2>15. k["child"].st # "none" /\ k'["child"].st # "none"
      BY <1>0, <1>1, <1>6, ProcsAre DEF Received, TreeInv
    <2>16. ProbeInv'
      BY <2>4, <2>15 DEF ProbeInv
    <2> QED
      BY <1>1, <1>3, <1>4, <2>1, <2>12, <2>13, <2>14, <2>15, <2>16, StepKeeps DEF Stays
  <1> QED
    BY <1>5, <1>6 DEF Receive

LEMMA AcceptKeeps ==
  ASSUME LauncherInv, Accept
  PROVE  LauncherInv'
  <1>0. CoordinatorInv /\ CoordinatorTypes /\ OtherTypes /\ ProbeInv /\ ChildInv /\ DOMAIN c = CoordinatorFields
    BY DEF LauncherInv, CoordinatorInv, CoordinatorTypes
  <1>1. c.at = "census" /\ UNCHANGED <<k, w, l>> /\ Present /\ Shut
    BY DEF Accept, Present, Shut, Window
  <1>2. c.step = Handover /\ Handover \in 2..4 /\ "child" \in Inner /\ Handover < Len(Script) /\ Len(Script) \in Nat
    BY <1>0, <1>1, ScriptMeans DEF CoordinatorInv, HearInv
  <1>3. KernelTypes' /\ TreeInv' /\ Wanes
    BY <1>1, Idle
  <1>4. CASE c' = Raised(c, "settled") /\ UNCHANGED ch
    <2>1. Quiet /\ Uncalled
      BY <1>0, <1>4, SameChannel
    <2> QED
      BY <1>1, <1>3, <1>4, <2>1, RaisedKeeps
  <1>5. CASE Tells(ch, PlanExec([c EXCEPT !.at = "hear"], "child"))
    <2>1. /\ Stays /\ Same /\ c'.at = "hear" /\ c'.step = c.step + 1 /\ c'.i = c.i /\ c'.todo = c.todo /\ c'.root = c.root
      BY <1>0, <1>5 DEF Tells, PlanExec, Stays, Same, CoordinatorFields
    <2>2. Script[c.step].hears = "A"
      <3>1. Handover \in 1..Len(Script)
        BY <1>2
      <3> QED
        BY <1>0, <1>2, <3>1, ScriptMeans
    <2>3. CoordinatorInv' /\ Governed /\ Releases /\ Leased' = Leased
      BY <1>0, <1>1, <1>2, <2>1, HearKeeps
    <2>4. ch' = Told(ch, "A")
      BY <1>5, <2>2 DEF Tells
    <2>5. /\ Uncalled /\ DOMAIN ch' = ChannelFields /\ IsList(ch'.say) /\ IsList(ch'.tell)
          /\ ch'.ask = ch.ask /\ ch'.answer = ch.answer /\ ch'.issue = ch.issue
          /\ ToSet(ch'.say) \subseteq ToSet(ch.say)
      BY <1>0, <2>4, TellsOnly
    <2>6. k'["child"].st # "none" /\ "child" \in Leased'
      BY <1>0, <1>1, <1>2, <2>3 DEF ChildInv, Leased, Inner
    <2>7. Quiet
      BY <2>5, <2>6 DEF Quiet, Listens
    <2>8. ProbeInv'
      BY <1>0, <1>1, <1>3, <2>3, <2>5, WindowKeeps DEF Shut
    <2> QED
      BY <1>1, <1>3, <2>1, <2>3, <2>7, <2>8, StepKeeps DEF Stays
  <1> QED
    BY <1>4, <1>5 DEF Accept

LEMMA HearFailsKeeps ==
  ASSUME LauncherInv, HearFails
  PROVE  LauncherInv'
  <1>0. CoordinatorInv /\ CoordinatorTypes /\ OtherTypes /\ ProbeInv /\ ChildInv /\ DOMAIN c = CoordinatorFields
    BY DEF LauncherInv, CoordinatorInv, CoordinatorTypes
  <1>1. c.at = "hear" /\ UNCHANGED <<k, w, l>> /\ Present
    BY DEF HearFails, Present
  <1>3. KernelTypes' /\ TreeInv' /\ Wanes
    BY <1>1, Idle
  <1>5. CASE c' = [c EXCEPT !.at = "reject", !.err = TRUE] /\ UNCHANGED ch
    <2>0. Quiet
      BY <1>0, <1>5, SameChannel
    <2>1. Stays /\ Same /\ c'.at = "reject" /\ c'.todo = c.todo /\ c'.root = c.root
      BY <1>0, <1>5 DEF Stays, Same, CoordinatorFields
    <2>2. Lists /\ Releases
      BY <1>0, <2>1, SameLeases
    <2>3. CoordinatorInv' /\ Governed
      BY <1>0, <1>1, <2>1, <2>2, MiddleKeeps DEF Casing, Middle
    <2>4. ProbeInv'
      BY <2>1 DEF ProbeInv, Window
    <2> QED
      BY <1>1, <1>3, <2>0, <2>1, <2>2, <2>3, <2>4, StepKeeps DEF Stays
  <1>6. CASE Expected # "transfer"
    <2> DEFINE bad == c.fails \/ (Failure /\ Head(ch.say) = "Zu")
    <2>1. /\ ch' = [ch EXCEPT !.say = IF Failure THEN Tail(@) ELSE @]
          /\ c' = Raised([c EXCEPT !.fails = bad], "settled")
      BY <1>6 DEF HearFails
    <2>2. (c.fails => bad) /\ bad \in BOOLEAN
      OBVIOUS
    <2> HIDE DEF bad
    <2>3. /\ DOMAIN c' = CoordinatorFields /\ Same /\ c'.at = "stop" /\ c'.then = "settled" /\ c'.todo = c'.leases
          /\ c'.root = c.root /\ c'.mode = c.mode /\ c'.base = c.base /\ c'.report = c.report /\ c'.res = c.res
          /\ c'.fails = bad /\ c'.err /\ c'.i = c.i
      BY <1>0, <2>1 DEF Same, Raised, Unwind, CoordinatorFields
    <2>4. Stays
      BY <2>2, <2>3 DEF Stays
    <2>5. Lists /\ Releases
      BY <1>0, <2>3, SameLeases
    <2>6. Winds("settled")
      BY <2>3, <2>4, <2>5 DEF Winds
    <2>7. Quiet /\ Uncalled
      <3>1. CASE Failure
        <4>1. ch.say # <<>> /\ ch' = Read
          BY <2>1, <3>1 DEF Failure, Read
        <4> QED
          BY <1>0, <4>1, ReadChannel
      <3>2. CASE ~Failure
        <4>1. DOMAIN ch' = ChannelFields /\ ch'.say = ch.say /\ ch'.tell = ch.tell
              /\ ch'.ask = ch.ask /\ ch'.answer = ch.answer /\ ch'.issue = ch.issue
          BY <1>0, <2>1, <3>2 DEF OtherTypes, ChannelFields
        <4> QED
          BY <1>0, <4>1 DEF OtherTypes, Quiet, Listens, Uncalled
      <3> QED
        BY <3>1, <3>2
    <2>8. Shut
      <3>1. c.step \in 1..Len(Script)
        BY <1>0, <1>1 DEF CoordinatorInv, HearInv
      <3>2. c.step # Handover /\ (c.mode = "sandbox" => Handover = 2)
        BY <1>0, <1>6, <3>1, ScriptMeans DEF Expected
      <3> QED
        BY <1>1, <3>2 DEF Shut, Window
    <2> QED
      BY <1>1, <1>3, <2>3, <2>5, <2>6, <2>7, <2>8, WindStep
  <1> QED
    BY <1>5, <1>6 DEF HearFails

\* The creator of a rejected child is stopped before anything is adopted.
LEMMA StopsLeaderKeeps ==
  ASSUME LauncherInv, c.at \in {"reject", "undo"}, NEW m, DOMAIN m = CoordinatorFields,
         \A f \in CoordinatorFields \ {"fails"} : m[f] = c[f], c.fails => m.fails,
         c' = StopsLeader(m), KernelTypes', TreeInv', Wanes, Quiet, UNCHANGED <<w, l>>
  PROVE  LauncherInv'
  <1>0. CoordinatorInv /\ DOMAIN c = CoordinatorFields
    BY DEF LauncherInv, CoordinatorInv, CoordinatorTypes
  <1>1. /\ DOMAIN c' = CoordinatorFields /\ Same /\ c'.at = "stop" /\ c'.then = "adopt" /\ c'.todo = <<"leader">>
        /\ c'.root = c.root /\ c'.mode = c.mode /\ c'.base = c.base /\ c'.report = c.report /\ c'.res = c.res
        /\ c'.fails = m.fails /\ c'.err = c.err /\ c'.i = c.i /\ c'.after = "rejected"
    BY <1>0 DEF Same, StopsLeader, CoordinatorFields
  <1>2. Stays
    BY <1>1 DEF Stays
  <1>3. Lists /\ Releases /\ Inner' = Inner /\ Outer' = Outer
    BY <1>0, <1>1, SameLeases
  <1>4. c'.todo \in Seq(Procs) /\ Todo' = {"leader"}
    BY <1>1, SetOfOne, ProcsAre DEF Todo
  <1>5. CoordinatorTypes' /\ OnceInv'
    BY <1>0, <1>1, <1>3, <1>4 DEF Lists, CoordinatorInv, CoordinatorTypes
  <1>6. LeasesInv' /\ HearInv'
    BY <1>1 DEF LeasesInv, HearInv, Early
  <1>7. CoverInv'
    BY <1>1, <1>4 DEF CoverInv
  <1>8. RootInv'
    BY <1>0, <1>1, <1>2 DEF CoordinatorInv, RootInv, Stays
  <1>9. CoordinatorInv'
    BY <1>5, <1>6, <1>7, <1>8 DEF CoordinatorInv
  <1>10. Governed
    BY <1>1, <1>2, <1>3, StepGoverned DEF Early, Present
  <1>11. ProbeInv'
    BY <1>1 DEF ProbeInv, Window
  <1> QED
    BY <1>1, <1>3, <1>9, <1>10, <1>11, StepKeeps DEF Stays

LEMMA RejectKeeps ==
  ASSUME LauncherInv, Reject
  PROVE  LauncherInv'
  <1>0. CoordinatorInv /\ OtherTypes /\ DOMAIN c = CoordinatorFields
    BY DEF LauncherInv, CoordinatorInv, CoordinatorTypes
  <1>1. c.at = "reject" /\ UNCHANGED <<k, w, l>> /\ Present
    BY DEF Reject, Present
  <1>2. KernelTypes' /\ TreeInv' /\ Wanes
    BY <1>1, Idle
  <1>3. CASE c' = [c EXCEPT !.at = "undo"] /\ ch' = Told(ch, "N")
    <2>1. Stays /\ Same /\ c'.at = "undo" /\ c'.todo = c.todo /\ c'.root = c.root
      BY <1>0, <1>3 DEF Stays, Same, CoordinatorFields
    <2>2. Lists /\ Releases
      BY <1>0, <2>1, SameLeases
    <2>3. CoordinatorInv' /\ Governed
      BY <1>0, <1>1, <2>1, <2>2, MiddleKeeps DEF Casing, Middle
    <2>4. ProbeInv'
      BY <2>1 DEF ProbeInv, Window
    <2>5. Quiet
      BY <1>0, <1>3, TellsOnly
    <2> QED
      BY <1>1, <1>2, <2>1, <2>2, <2>3, <2>4, <2>5, StepKeeps DEF Stays
  <1>4. CASE c' = StopsLeader(c) /\ UNCHANGED ch
    <2>1. Quiet
      BY <1>0, <1>4, SameChannel
    <2> QED
      BY <1>0, <1>1, <1>2, <1>4, <2>1, StopsLeaderKeeps
  <1> QED
    BY <1>3, <1>4 DEF Reject

LEMMA UndoneKeeps ==
  ASSUME LauncherInv, Undone
  PROVE  LauncherInv'
  <1>0. CoordinatorInv /\ OtherTypes /\ DOMAIN c = CoordinatorFields
    BY DEF LauncherInv, CoordinatorInv, CoordinatorTypes
  <1>1. c.at = "undo" /\ UNCHANGED <<k, w, l>> /\ Present
    BY DEF Undone, Present
  <1>2. KernelTypes' /\ TreeInv' /\ Wanes
    BY <1>1, Idle
  <1>3. Quiet
    <2>1. CASE ch.say # <<>>
      <3>1. ch' = Read
        BY <2>1 DEF Undone, Read
      <3> QED
        BY <1>0, <2>1, <3>1, ReadChannel
    <2>2. CASE ch.say = <<>>
      <3>1. DOMAIN ch' = ChannelFields /\ ch'.say = ch.say /\ ch'.tell = ch.tell
            /\ ch'.ask = ch.ask /\ ch'.answer = ch.answer /\ ch'.issue = ch.issue
        BY <1>0, <2>2 DEF Undone, OtherTypes, ChannelFields
      <3> QED
        BY <1>0, <3>1 DEF OtherTypes, Quiet, Listens
    <2> QED
      BY <2>1, <2>2
  <1> DEFINE bad == c.fails \/ ch.say = <<>> \/ Head(ch.say) # "Z"
             m == [c EXCEPT !.fails = bad]
  <1>4. c' = StopsLeader(m)
    BY DEF Undone
  <1>5. (c.fails => bad) /\ bad \in BOOLEAN
    OBVIOUS
  <1> HIDE DEF bad
  <1>6. DOMAIN m = CoordinatorFields /\ m.fails = bad /\ \A f \in CoordinatorFields \ {"fails"} : m[f] = c[f]
    BY <1>0 DEF CoordinatorFields
  <1> HIDE DEF m
  <1> QED
    BY <1>1, <1>2, <1>3, <1>4, <1>5, <1>6, StopsLeaderKeeps

LEMMA RejectedKeeps ==
  ASSUME LauncherInv, Rejected
  PROVE  LauncherInv'
  <1>1. c.at = "rejected" /\ UNCHANGED <<k, w, l, ch>> /\ Present /\ Shut /\ c' = Unwind(c, "settled")
    BY DEF Rejected, Present, Shut, Window
  <1>2. KernelTypes' /\ TreeInv' /\ Wanes /\ Quiet /\ Uncalled
    BY <1>1, Idle, SameChannel DEF LauncherInv
  <1> QED
    BY <1>1, <1>2, RaisedKeeps

\* A step to another point in the middle of a case, with the same leases or one less.
LEMMA MiddleStep ==
  ASSUME LauncherInv, c.at \in Casing, Shut, Stays, Lists, Releases, c'.at \in Middle, c'.todo = c.todo, c'.root = c.root,
         KernelTypes', TreeInv', Wanes, Quiet, Uncalled, UNCHANGED <<w, l>>
  PROVE  LauncherInv'
  <1>1. CoordinatorInv /\ ProbeInv
    BY DEF LauncherInv, CoordinatorInv
  <1>2. CoordinatorInv' /\ Governed
    BY <1>1, MiddleKeeps
  <1>3. ProbeInv'
    BY <1>1, <1>2, WindowKeeps DEF Shut
  <1> QED
    BY <1>2, <1>3, StepKeeps DEF Middle, Stays

LEMMA HearEndKeeps ==
  ASSUME LauncherInv, HearEnd
  PROVE  LauncherInv'
  <1>0. CoordinatorInv /\ OtherTypes /\ DOMAIN c = CoordinatorFields
    BY DEF LauncherInv, CoordinatorInv, CoordinatorTypes
  <1>1. c.at = "hear" /\ Heard /\ UNCHANGED <<k, w, l>> /\ ch' = Read
    BY DEF HearEnd
  <1>2. ch.say # <<>> /\ Shut /\ Present
    BY <1>1, HeardMeans
  <1>3. KernelTypes' /\ TreeInv' /\ Wanes /\ Quiet /\ Uncalled
    BY <1>0, <1>1, <1>2, Idle, ReadChannel
  <1>4. CASE c' = Raised(c, "settled")
    BY <1>1, <1>2, <1>3, <1>4, RaisedKeeps
  <1>5. CASE k["child"].st = "gone" /\ c' = [Retired(c, "child") EXCEPT !.at = "join"]
    <2>1. Stays /\ Drops("child") /\ c'.at = "join" /\ c'.todo = c.todo /\ c'.root = c.root
      BY <1>0, <1>5 DEF Stays, Drops, Retired, CoordinatorFields
    <2>2. ~Exists("child")' /\ "child" \in Procs
      BY <1>1, <1>5, ProcsAre DEF Exists
    <2>3. Lists /\ Releases
      BY <1>0, <2>1, <2>2, DropsLeases
    <2> QED
      BY <1>1, <1>2, <1>3, <2>1, <2>3, MiddleStep DEF Casing, Middle
  <1> QED
    BY <1>4, <1>5 DEF HearEnd

LEMMA HearLastKeeps ==
  ASSUME LauncherInv, HearLast
  PROVE  LauncherInv'
  <1>0. CoordinatorInv /\ OtherTypes /\ DOMAIN c = CoordinatorFields
    BY DEF LauncherInv, CoordinatorInv, CoordinatorTypes
  <1>1. c.at = "hear" /\ Heard /\ UNCHANGED <<k, w, l>>
    BY DEF HearLast
  <1>2. ch.say # <<>> /\ Shut /\ Present
    BY <1>1, HeardMeans
  <1>3. KernelTypes' /\ TreeInv' /\ Wanes
    BY <1>1, <1>2, Idle
  <1>4. Quiet /\ Uncalled
    <2>1. CASE ch' = Read
      BY <1>0, <1>2, <2>1, ReadChannel
    <2>2. CASE ch' = Told(Read, "X")
      BY <1>0, <1>2, <2>2, TellsRead
    <2> QED
      BY <2>1, <2>2 DEF HearLast
  <1>5. Stays /\ Same /\ c'.at \in {"term", "join"} /\ c'.todo = c.todo /\ c'.root = c.root
    BY <1>0 DEF HearLast, Stays, Same, CoordinatorFields
  <1>6. Lists /\ Releases
    BY <1>0, <1>5, SameLeases
  <1> QED
    BY <1>1, <1>2, <1>3, <1>4, <1>5, <1>6, MiddleStep DEF Casing, Middle

LEMMA TermKillKeeps ==
  ASSUME LauncherInv, TermKill
  PROVE  LauncherInv'
  <1>0. CoordinatorInv /\ OtherTypes /\ KernelTypes /\ TreeInv /\ DOMAIN c = CoordinatorFields
    BY DEF LauncherInv, CoordinatorInv, CoordinatorTypes
  <1>1. c.at \in {"term", "termed"} /\ UNCHANGED <<w, l>> /\ Present /\ Shut
    BY DEF TermKill, Present, Shut, Window
  <1>2. CASE c' = Raised(c, "settled") /\ UNCHANGED <<k, ch>>
    <2>1. KernelTypes' /\ TreeInv' /\ Wanes /\ Quiet /\ Uncalled
      BY <1>0, <1>1, <1>2, Idle, SameChannel
    <2> QED
      BY <1>1, <1>2, <2>1, RaisedKeeps
  <1>3. CASE /\ \/ c' = [c EXCEPT !.at = "termed"] /\ UNCHANGED ch
                   /\ k' = [k EXCEPT !["child"].sig = IF @ = "kill" THEN @ ELSE "term"]
                \/ c' = [c EXCEPT !.at = "join"] /\ ch' = Told(ch, "X") /\ k' = [k EXCEPT !["child"].sig = "kill"]
    <2>1. Stays /\ Same /\ c'.at \in {"termed", "join"} /\ c'.todo = c.todo /\ c'.root = c.root
      BY <1>0, <1>3 DEF Stays, Same, CoordinatorFields
    <2>2. Lists /\ Releases
      BY <1>0, <2>1, SameLeases
    <2>3. Touched
      BY <1>0, <1>3 DEF Touched, ProcFields, KernelTypes
    <2>4. KernelTypes' /\ TreeInv' /\ Wanes
      BY <1>0, <1>1, <2>3, TouchedWanes
    <2>5. Quiet /\ Uncalled
      BY <1>0, <1>3, SameChannel, TellsOnly
    <2> QED
      BY <1>1, <2>1, <2>2, <2>4, <2>5, MiddleStep DEF Casing, Middle
  <1> QED
    BY <1>2, <1>3 DEF TermKill

LEMMA JoinKeeps ==
  ASSUME LauncherInv, Join
  PROVE  LauncherInv'
  <1>0. CoordinatorInv /\ OtherTypes /\ KernelTypes /\ TreeInv /\ DOMAIN c = CoordinatorFields /\ "leader" \in Procs
    BY ProcsAre DEF LauncherInv, CoordinatorInv, CoordinatorTypes
  <1>1. c.at = "join" /\ UNCHANGED <<w, l, ch>> /\ Present /\ Shut
    BY DEF Join, Present, Shut, Window
  <1>2. Quiet /\ Uncalled
    BY <1>0, <1>1, SameChannel
  <1>3. CASE c' = Raised(c, "settled") /\ UNCHANGED k
    <2>1. KernelTypes' /\ TreeInv' /\ Wanes
      BY <1>1, <1>3, Idle
    <2> QED
      BY <1>1, <1>2, <1>3, <2>1, RaisedKeeps
  <1>4. CASE k["leader"].st = "zombie" /\ k' = Reaped("leader")
    <2>1. KernelTypes' /\ TreeInv' /\ Wanes /\ ~Exists("leader")'
      BY <1>0, <1>1, <1>4, ReapedWanes
    <2>2. CASE c' = Raised(Retired(c, "leader"), "settled") \/ c' = Unwind(Retired(c, "leader"), "settled")
      BY <1>0, <1>1, <1>2, <2>1, <2>2, RetiredKeeps
    <2>3. CASE c' = [Retired(c, "leader") EXCEPT !.at = "adopted"]
      <3>1. Stays /\ Drops("leader") /\ c'.at = "adopted" /\ c'.todo = c.todo /\ c'.root = c.root
        BY <1>0, <2>3 DEF Stays, Drops, Retired, CoordinatorFields
      <3>2. Lists /\ Releases
        BY <1>0, <2>1, <3>1, DropsLeases
      <3> QED
        BY <1>1, <1>2, <2>1, <3>1, <3>2, MiddleStep DEF Casing, Middle
    <2>4. \/ k["leader"].st = "zombie" /\ k' = Reaped("leader")
             /\ c' = IF k["leader"].code # "ok" THEN Raised(Retired(c, "leader"), "settled")
                     ELSE IF c.mode = "lifecycle" THEN [Retired(c, "leader") EXCEPT !.at = "adopted"]
                     ELSE Unwind(Retired(c, "leader"), "settled")
          \/ c' = Raised(c, "settled") /\ UNCHANGED k
      BY DEF Join
    <2> QED
      BY <1>3, <2>2, <2>3, <2>4
  <1> QED
    BY <1>3, <1>4 DEF Join

LEMMA ReapAdoptedKeeps ==
  ASSUME LauncherInv, ReapAdopted
  PROVE  LauncherInv'
  <1>0. CoordinatorInv /\ OtherTypes /\ KernelTypes /\ TreeInv /\ DOMAIN c = CoordinatorFields /\ "child" \in Procs
        /\ c.reaped \subseteq {"child"}
    BY ProcsAre DEF LauncherInv, CoordinatorInv, CoordinatorTypes, LeaderInv
  <1>1. c.at = "adopted" /\ UNCHANGED <<w, l, ch>> /\ Present /\ Shut
    BY DEF ReapAdopted, Present, Shut, Window
  <1>2. Quiet /\ Uncalled
    BY <1>0, <1>1, SameChannel
  <1>3. CASE c' = Raised(c, "settled") /\ UNCHANGED k
    <2>1. KernelTypes' /\ TreeInv' /\ Wanes
      BY <1>1, <1>3, Idle
    <2> QED
      BY <1>1, <1>2, <1>3, <2>1, RaisedKeeps
  <1>4. CASE k["child"].st = "zombie" /\ k' = Reaped("child") /\ c' = Unwind(Retired(c, "child"), "settled")
    <2>1. KernelTypes' /\ TreeInv' /\ Wanes /\ ~Exists("child")'
      BY <1>0, <1>1, <1>4, ReapedWanes
    <2> QED
      BY <1>0, <1>1, <1>2, <1>4, <2>1, RetiredKeeps
  <1>5. CASE /\ k["child"].st = "zombie" /\ k' = Reaped("child")
             /\ c' = Raised([c EXCEPT !.reaped = @ \cup {"child"}], "settled")
    <2>1. KernelTypes' /\ TreeInv' /\ Wanes /\ k'["child"].st = "gone"
      BY <1>0, <1>1, <1>5, ReapedWanes
    <2>2. /\ Stays /\ c'.leases = c.leases /\ c'.outer = c.outer /\ c'.reaped = c.reaped \cup {"child"} /\ c'.err
          /\ c'.at = "stop" /\ c'.then = "settled" /\ c'.todo = c'.leases /\ c'.root = c.root
      BY <1>0, <1>5 DEF Stays, Raised, Unwind, CoordinatorFields
    <2>3. OnceInv' /\ Leased' = Leased
      BY <1>0, <2>2 DEF CoordinatorInv, OnceInv, Inner, Outer, Leased
    <2>4. Lists /\ Releases
      BY <1>0, <2>1, <2>2, <2>3 DEF Lists, Recorded, Releases, CoordinatorInv, CoordinatorTypes
    <2>5. Winds("settled")
      BY <2>2, <2>4 DEF Winds
    <2> QED
      BY <1>1, <1>2, <2>1, <2>2, <2>4, <2>5, WindStep
  <1> QED
    BY <1>3, <1>4, <1>5 DEF ReapAdopted

LEMMA CloseCaseKeeps ==
  ASSUME LauncherInv, CloseCase
  PROVE  LauncherInv'
  <1>0. CoordinatorInv /\ OtherTypes /\ ProbeInv /\ DOMAIN c = CoordinatorFields
    BY DEF LauncherInv, CoordinatorInv, CoordinatorTypes
  <1>1. c.at = "settled" /\ Full /\ UNCHANGED <<k, w, l, ch>> /\ Present
    BY DEF CloseCase, Present
  <1>2. KernelTypes' /\ TreeInv' /\ Wanes /\ Quiet
    BY <1>0, <1>1, Idle, SameChannel
  <1>3. /\ Stays /\ Same /\ c'.at = "adopt" /\ c'.after = "closed" /\ c'.todo = c.todo /\ c'.root = c.root
        /\ c'.fails = c.fails
    BY <1>0 DEF CloseCase, Stays, Same, CoordinatorFields
  <1>4. Lists /\ Releases /\ Inner' = Inner
    BY <1>0, <1>3, SameLeases
  <1>5. CoordinatorTypes' /\ OnceInv'
    BY <1>0, <1>3, <1>4 DEF Lists, Stays, CoordinatorInv, CoordinatorTypes
  <1>6. LeasesInv' /\ HearInv'
    BY <1>3 DEF LeasesInv, HearInv, Early
  <1>7. CoverInv'
    BY <1>0, <1>1, <1>3, <1>4 DEF CoordinatorInv, CoverInv
  <1>8. RootInv'
    BY <1>0, <1>1, <1>3 DEF CoordinatorInv, RootInv, Stays, Casing
  <1>9. CoordinatorInv'
    BY <1>5, <1>6, <1>7, <1>8 DEF CoordinatorInv
  <1>10. Governed
    BY <1>1, <1>3, <1>4, StepGoverned DEF Early
  <1>11. ProbeInv'
    BY <1>1, <1>3 DEF ProbeInv, Full, Stays
  <1> QED
    BY <1>1, <1>2, <1>3, <1>4, <1>9, <1>10, <1>11, StepKeeps DEF Stays

LEMMA EndCaseKeeps ==
  ASSUME LauncherInv, EndCase
  PROVE  LauncherInv'
  <1>0. CoordinatorInv /\ OtherTypes /\ ProbeInv /\ DOMAIN c = CoordinatorFields
    BY DEF LauncherInv, CoordinatorInv, CoordinatorTypes
  <1>1. c.at \in {"closed", "settled"} /\ UNCHANGED <<k, w, l, ch>> /\ Present /\ ~Window
    BY DEF EndCase, Present, Window
  <1>2. KernelTypes' /\ TreeInv' /\ Wanes /\ Quiet /\ Uncalled
    BY <1>0, <1>1, Idle, SameChannel
  <1> DEFINE m == [c EXCEPT !.open = FALSE, !.fed = TRUE, !.after = "none", !.root = IF @ = "made" THEN "none" ELSE @]
  <1>3. c' = IF m.fails \/ m.err \/ m.i = Len(Cases(m.mode)) THEN [m EXCEPT !.at = "cases"]
             ELSE [m EXCEPT !.at = "case", !.i = @ + 1]
    BY DEF EndCase
  <1>4. /\ DOMAIN m = CoordinatorFields /\ m.root = IF c.root = "made" THEN "none" ELSE c.root
        /\ \A f \in CoordinatorFields \ {"open", "fed", "after", "root"} : m[f] = c[f]
    BY <1>0 DEF CoordinatorFields
  <1> HIDE DEF m
  <1>e. ~c.fails => ~Alive("leader")
    BY <1>0, <1>1 DEF LauncherInv, CoordinatorInv, CoverInv, OnceInv, LeaderInv, Leased, Inner,
       Outer, Exists, Alive
  <1>5. /\ Stays /\ Same /\ c'.at \in {"case", "cases"} /\ c'.todo = c.todo /\ c'.fails = c.fails /\ c'.err = c.err
        /\ c'.root = m.root /\ (c'.at = "case" => ~c.err /\ ~c.fails)
    <2>1. CASE m.fails \/ m.err \/ m.i = Len(Cases(m.mode))
      <3>1. c' = [m EXCEPT !.at = "cases"]
        BY <1>3, <2>1
      <3> QED
        BY <1>4, <3>1 DEF Stays, Same, CoordinatorFields
    <2>2. CASE ~(m.fails \/ m.err \/ m.i = Len(Cases(m.mode)))
      <3>1. c' = [m EXCEPT !.at = "case", !.i = @ + 1] /\ ~m.fails /\ ~m.err
        BY <1>3, <2>2
      <3>2. ~c.fails /\ ~c.err
        BY <1>4, <3>1 DEF CoordinatorFields
      <3> QED
        BY <1>4, <1>e, <3>1, <3>2 DEF Stays, Same, CoordinatorFields
    <2> QED
      BY <2>1, <2>2
  <1>6. Lists /\ Releases /\ Inner' = Inner
    BY <1>0, <1>5, SameLeases
  <1>7. CoordinatorTypes' /\ OnceInv'
    BY <1>0, <1>5, <1>6 DEF Lists, Stays, CoordinatorInv, CoordinatorTypes
  <1>8. ~c.fails => Inner = {}
    BY <1>0, <1>1 DEF CoordinatorInv, CoverInv
  <1>9. LeasesInv' /\ HearInv'
    BY <1>5, <1>6, <1>8 DEF LeasesInv, HearInv, Early
  <1>10. CoverInv'
    BY <1>5, <1>6, <1>8 DEF CoverInv
  <1>11. RootInv'
    BY <1>0, <1>1, <1>4, <1>5 DEF CoordinatorInv, RootInv, Stays
  <1>12. CoordinatorInv'
    BY <1>7, <1>9, <1>10, <1>11 DEF CoordinatorInv
  <1>13. Governed
    BY <1>1, <1>5, <1>6, StepGoverned DEF Early
  <1>14. ProbeInv'
    BY <1>0, <1>1, <1>2, <1>6, <1>13, WindowKeeps
  <1> QED
    BY <1>1, <1>2, <1>5, <1>6, <1>12, <1>13, <1>14, StepKeeps DEF Stays

\* A new case starts with nothing leased but the worker, and without a child.
LEMMA SpawnLeaderKeeps ==
  ASSUME LauncherInv, SpawnLeader
  PROVE  LauncherInv'
  <1>0. CoordinatorInv /\ ProcessInv /\ ReportInv /\ CertainMeansRestored /\ DOMAIN c = CoordinatorFields
        /\ CoordinatorTypes
    BY DEF LauncherInv, CoordinatorInv, CoordinatorTypes, ProcessInv
  <1>1. c.at \in {"case", "leader"} /\ UNCHANGED w /\ Present /\ l' = LeaderInit
    BY DEF SpawnLeader, Present
  <1>2. /\ Stays /\ c'.leases = Append(c.leases, "leader") /\ c'.outer = c.outer /\ c'.reaped = c.reaped
        /\ c'.at = "hear" /\ c'.step = 1 /\ c'.todo = c.todo /\ c'.root = c.root /\ c'.i = c.i /\ c'.err = c.err
    BY <1>0 DEF SpawnLeader, PlanSetsid, Registered, Stays, CoordinatorFields
  <1>3. /\ DOMAIN ch' = ChannelFields /\ ch'.say = <<>> /\ ch'.tell = <<>>
        /\ ch'.ask = ch.ask /\ ch'.answer = ch.answer /\ ch'.issue = ch.issue
    BY <1>0 DEF SpawnLeader, ChannelFields, ProcessInv, OtherTypes
  <1>4. /\ DOMAIN k' = Procs /\ k'["worker"] = k["worker"] /\ k'["helper"] = k["helper"]
        /\ DOMAIN k'["leader"] = ProcFields /\ k'["leader"].st = "gated" /\ k'["leader"].par = "C"
        /\ DOMAIN k'["child"] = ProcFields /\ k'["child"].st = "none" /\ k'["child"].par = "none"
    BY <1>0, ProcsAre DEF SpawnLeader, Spawned, Absent, ProcFields, ProcessInv, KernelTypes
  <1>5. Inner = {} /\ ~c.err /\ ~c.fails
    BY <1>0, <1>1 DEF CoordinatorInv, LeasesInv
  <1>6. c.leases \in Seq(Procs) /\ IsInjective(c.leases) /\ IsInjective(c.outer) /\ c.outer \in Seq(Procs)
        /\ Outer \subseteq {"worker"} /\ "leader" \in Procs /\ "leader" \notin ToSet(c.leases) /\ c.todo \in Seq(Procs)
    BY <1>0, <1>5, ProcsAre DEF CoordinatorInv, CoordinatorTypes, OnceInv, Inner
  <1>7. c'.leases \in Seq(Procs) /\ ToSet(c'.leases) = ToSet(c.leases) \cup {"leader"} /\ IsInjective(c'.leases)
    BY <1>2, <1>6, SetOfAppend
  <1>8. Inner' = {"leader"} /\ Outer' = Outer /\ Leased' = Leased \cup {"leader"}
    BY <1>2, <1>5, <1>7 DEF Inner, Outer, Leased
  <1>9. CoordinatorInv'
    <2>1. CoordinatorTypes'
      BY <1>0, <1>2, <1>6, <1>7 DEF CoordinatorTypes, Stays
    <2>2. OnceInv'
      BY <1>2, <1>6, <1>7, <1>8 DEF OnceInv
    <2>3. LeasesInv' /\ CoverInv'
      BY <1>2 DEF LeasesInv, CoverInv, Early
    <2>4. Script' = Script
      BY <1>2 DEF Script, Case, Full, Stays
    <2>5. Len(Script) \in Nat /\ Len(Script) > 2
      BY <1>0, ScriptMeans
    <2>6. 1 \in 1..Len(Script)
      BY <2>5
    <2>7. HearInv'
      BY <1>2, <1>8, <2>4, <2>6 DEF HearInv
    <2>8. RootInv'
      BY <1>0, <1>1, <1>2 DEF CoordinatorInv, RootInv, Stays, Casing
    <2> QED
      BY <2>1, <2>2, <2>3, <2>7, <2>8 DEF CoordinatorInv
  <1>10. KernelTypes'
    BY <1>0, <1>4, ProcsAre DEF ProcessInv, KernelTypes
  <1>11. OtherTypes'
    <2>1. DOMAIN l' = LeaderFields /\ l'.i = 1
      BY <1>1 DEF LeaderInit, LeaderFields
    <2> QED
      BY <1>0, <1>1, <1>3, <2>1, ListOfNothing DEF ProcessInv, OtherTypes
  <1>12. TreeInv'
    <2>1. (Alive("worker")' <=> Alive("worker")) /\ Alive("leader")' /\ ~Exists("child")' /\ Exists("leader")'
          /\ (Exists("worker")' <=> Exists("worker")) /\ (Exists("helper")' <=> Exists("helper"))
      BY <1>4 DEF Alive, Exists
    <2>2. ASSUME NEW p \in Procs
          PROVE  /\ k'[p].st = "none" => k'[p].par = "none"
                 /\ Exists(p)' =>
                       /\ p \in Creators => k'[p].par \in {"C", "init"}
                       /\ p = "helper" => k'[p].par \in {"worker", "C", "init"}
                       /\ p = "child" => k'[p].par \in {"leader", "C", "init"}
                       /\ k'[p].par # "init"
      BY <1>0, <1>1, <1>4, <2>1, ProcsAre DEF ProcessInv, TreeInv
    <2>3. ASSUME NEW p \in Procs, Exists(p)', k'[p].par \in Creators
          PROVE  k'[k'[p].par].st \in {"gated", "live"}
      BY <1>0, <1>1, <1>4, <2>1, <2>2, <2>3, ProcsAre DEF ProcessInv, TreeInv, Alive
    <2>4. (Alive("worker") /\ Exists("helper") => k["helper"].par = "worker")'
      BY <1>0, <1>4, <2>1 DEF ProcessInv, TreeInv
    <2> QED
      BY <2>2, <2>3, <2>4 DEF TreeInv, Alive
  <1>13. ModeInv'
    BY <1>0, <1>2, <1>4 DEF ProcessInv, ModeInv, Full, Stays, Early
  <1>14. LeaderInv'
    <2>1. Script' = Script
      BY <1>2 DEF Script, Case, Full, Stays
    <2>2. Len(Script) \in Nat /\ Len(Script) > 2 /\ l'.i = 1 /\ l'.pc = "start"
      BY <1>0, <1>1, ScriptMeans DEF LeaderInit
    <2>3. Follows'
      BY <2>1, <2>2 DEF Follows
    <2> QED
      BY <1>0, <1>2, <1>5, <1>8, <2>3 DEF ProcessInv, LeaderInv
  <1>15. AskInv'
    BY <1>0, <1>1, <1>3 DEF ProcessInv, AskInv
  <1>16. HelperInv'
    <2>1. "helper" \in Leased' <=> "helper" \in Leased
      BY <1>8
    <2>2. (Alive("worker")' <=> Alive("worker")) /\ (Exists("helper")' <=> Exists("helper"))
          /\ (Passed("helper")' <=> Passed("helper")) /\ (Alive("helper")' <=> Alive("helper"))
      BY <1>4 DEF Alive, Exists, Passed
    <2> QED
      BY <1>0, <1>1, <1>2, <1>3, <2>1, <2>2 DEF ProcessInv, HelperInv
  <1>17. ChildInv'
    BY <1>2, <1>3, <1>4, SetOfNothing DEF ChildInv, Passed
  <1>18. ProbeInv'
    <2>1. "C" \notin ToSet(ch'.tell) /\ l'.i = 1 /\ ~(1 >= 2)
      BY <1>1, <1>3, SetOfNothing DEF LeaderInit
    <2>2. ~Exists("child")'
      BY <1>4 DEF Exists
    <2> QED
      BY <2>1, <2>2 DEF ProbeInv
  <1>19. ReportInv'
    <2>1. Exists("helper")' <=> Exists("helper")
      BY <1>4 DEF Exists
    <2> QED
      BY <1>0, <1>1, <1>2, <1>3, <2>1 DEF ReportInv, Stays, ReportExact, RowsExact
  <1>20. CertainMeansRestored'
    <2>1. c'.res = "none"
      BY <1>0, <1>1, <1>2 DEF CoordinatorInv, RootInv, Stays
    <2> QED
      BY <2>1 DEF CertainMeansRestored
  <1> QED
    BY <1>9, <1>10, <1>11, <1>12, <1>13, <1>14, <1>15, <1>16, <1>17, <1>18, <1>19, <1>20 DEF
       LauncherInv, CoordinatorInv

-----------------------------------------------------------------------------
(* The handoff. *)

\* Nothing runs before the worker does.
LEMMA SpawnWorkerKeeps ==
  ASSUME LauncherInv, SpawnWorker
  PROVE  LauncherInv'
  <1>0. CoordinatorInv /\ ProcessInv /\ ReportInv /\ DOMAIN c = CoordinatorFields /\ CoordinatorTypes
    BY DEF LauncherInv, CoordinatorInv, CoordinatorTypes, ProcessInv
  <1>1. c.at = "worker" /\ UNCHANGED <<w, l, ch>> /\ Present
    BY DEF SpawnWorker, Present
  <1>2. /\ Stays /\ c'.leases = Append(c.leases, "worker") /\ c'.outer = c.outer /\ c'.reaped = c.reaped
        /\ c'.at = "handoff" /\ c'.todo = c.todo /\ c'.root = c.root /\ c'.err = c.err /\ c'.fails = c.fails
        /\ c'.helper = c.helper
    BY <1>0 DEF SpawnWorker, Registered, Stays, CoordinatorFields
  <1>4. /\ DOMAIN k' = Procs /\ k'["leader"] = k["leader"] /\ k'["helper"] = k["helper"] /\ k'["child"] = k["child"]
        /\ DOMAIN k'["worker"] = ProcFields /\ k'["worker"].st = "gated" /\ k'["worker"].par = "C"
    BY <1>0, ProcsAre DEF SpawnWorker, Spawned, Absent, ProcFields, ProcessInv, KernelTypes
  <1>5. Inner = {} /\ Outer = {} /\ ~c.err /\ ~c.fails /\ c.helper = "none"
    BY <1>0, <1>1 DEF CoordinatorInv, LeasesInv, Early
  <1>6. c.leases \in Seq(Procs) /\ IsInjective(c.leases) /\ IsInjective(c.outer) /\ c.outer \in Seq(Procs)
        /\ "worker" \in Procs /\ "worker" \notin ToSet(c.leases) /\ c.todo \in Seq(Procs)
    BY <1>0, <1>5, ProcsAre DEF CoordinatorInv, CoordinatorTypes, OnceInv, Inner
  <1>7. c'.leases \in Seq(Procs) /\ ToSet(c'.leases) = ToSet(c.leases) \cup {"worker"} /\ IsInjective(c'.leases)
    BY <1>2, <1>6, SetOfAppend
  <1>8. Inner' = {"worker"} /\ Outer' = {} /\ Leased' = {"worker"} /\ Leased = {}
    BY <1>2, <1>5, <1>7 DEF Inner, Outer, Leased
  <1>9. CoordinatorInv'
    <2>1. CoordinatorTypes'
      BY <1>0, <1>2, <1>6, <1>7 DEF CoordinatorTypes, Stays
    <2>2. OnceInv'
      BY <1>2, <1>6, <1>7, <1>8 DEF OnceInv
    <2>3. LeasesInv'
      BY <1>2, <1>5, <1>8 DEF LeasesInv, Early
    <2>4. HearInv' /\ CoverInv'
      BY <1>2 DEF HearInv, CoverInv
    <2>8. RootInv'
      BY <1>0, <1>1, <1>2 DEF CoordinatorInv, RootInv, Stays, Casing
    <2> QED
      BY <2>1, <2>2, <2>3, <2>4, <2>8 DEF CoordinatorInv
  <1>10. KernelTypes'
    BY <1>0, <1>4, ProcsAre DEF ProcessInv, KernelTypes
  <1>11. OtherTypes' /\ AskInv'
    BY <1>0, <1>1 DEF ProcessInv, OtherTypes, AskInv
  <1>12. k["helper"].st = "none" /\ k["worker"].st = "none" /\ Full
    BY <1>0, <1>1 DEF ProcessInv, ModeInv, Early
  <1>13. ~Exists("helper") /\ ~Exists("helper")' /\ ~Passed("helper")' /\ ~Alive("helper")'
    BY <1>4, <1>12 DEF Exists, Passed, Alive
  <1>14. ~Exists("leader") /\ ~Exists("leader")' /\ ~Alive("leader")
    BY <1>0, <1>1, <1>4, <1>8 DEF ProcessInv, LeaderInv, Exists, Alive
  <1>15. TreeInv'
    <2>1. Exists("child")' <=> Exists("child")
      BY <1>4 DEF Exists
    <2>2. ASSUME NEW p \in Procs
          PROVE  /\ k'[p].st = "none" => k'[p].par = "none"
                 /\ Exists(p)' =>
                       /\ p \in Creators => k'[p].par \in {"C", "init"}
                       /\ p = "helper" => k'[p].par \in {"worker", "C", "init"}
                       /\ p = "child" => k'[p].par \in {"leader", "C", "init"}
                       /\ k'[p].par \notin Creators /\ k'[p].par # "init"
      BY <1>0, <1>1, <1>4, <1>13, <1>14, <2>1, ProcsAre DEF ProcessInv, TreeInv
    <2> QED
      BY <1>13, <2>2 DEF TreeInv
  <1>16. ModeInv'
    BY <1>2, <1>12 DEF ModeInv, Full, Stays, Early
  <1>17. LeaderInv'
    <2>1. ~Alive("leader")'
      BY <1>14 DEF Exists, Alive
    <2> QED
      BY <1>0, <1>2, <1>4, <1>14, <2>1 DEF ProcessInv, LeaderInv, Stays
  <1>18. HelperInv'
    BY <1>8, <1>13 DEF HelperInv
  <1>19. ChildInv'
    <2>1. (Passed("child")' <=> Passed("child")) /\ (Alive("child")' <=> Alive("child"))
      BY <1>4 DEF Passed, Alive
    <2> QED
      BY <1>0, <1>1, <1>2, <1>4, <1>8, <2>1 DEF ProcessInv, ChildInv
  <1>20. ProbeInv'
    BY <1>2, <1>12 DEF ProbeInv, Full, Stays
  <1>21. ReportInv'
    BY <1>0, <1>1, <1>2, <1>13 DEF ReportInv, Stays, ReportExact, RowsExact
  <1>22. CertainMeansRestored'
    <2>1. c'.res = "none"
      BY <1>0, <1>1, <1>2 DEF CoordinatorInv, RootInv, Stays
    <2> QED
      BY <2>1 DEF CertainMeansRestored
  <1> QED
    BY <1>9, <1>10, <1>11, <1>15, <1>16, <1>17, <1>18, <1>19, <1>20, <1>21, <1>22 DEF LauncherInv,
       CoordinatorInv

LEMMA AtHandoff ==
  ASSUME LauncherInv, c.at \in {"handoff", "receipt"}
  PROVE  /\ CoordinatorInv /\ ProcessInv /\ ReportInv /\ OtherTypes /\ CoordinatorTypes /\ DOMAIN c = CoordinatorFields
         /\ Outer = {} /\ c.root # "made" /\ c.res = "none" /\ Present /\ Shut /\ Full /\ Leased = Inner /\ ~c.err /\ ~c.fails
  <1>0. CoordinatorInv /\ ProcessInv /\ ReportInv /\ OtherTypes /\ CoordinatorTypes /\ DOMAIN c = CoordinatorFields
    BY DEF LauncherInv, CoordinatorInv, ProcessInv, CoordinatorTypes
  <1>1. Outer = {} /\ ~c.err /\ ~c.fails
    BY <1>0 DEF CoordinatorInv, LeasesInv
  <1>2. c.root # "made" /\ c.res = "none"
    BY <1>0 DEF CoordinatorInv, RootInv, Casing
  <1>3. Present /\ Shut
    BY DEF Present, Shut, Window
  <1>4. Full
    BY <1>0 DEF ProcessInv, ModeInv
  <1> QED
    BY <1>0, <1>1, <1>2, <1>3, <1>4 DEF Leased, Inner, Outer

\* A request or a failure that ends the handoff.
LEMMA HandoffRaised ==
  ASSUME LauncherInv, c.at \in {"handoff", "receipt"}, c' = Raised(c, "finish"), UNCHANGED <<k, w, l>>,
         DOMAIN ch' = ChannelFields, ch'.say = ch.say, ch'.tell = ch.tell,
         ch'.ask \in {ch.ask, "none"}, ch'.answer = ch.answer, ch'.issue \in {ch.issue, "none"}
  PROVE  LauncherInv'
  <1>1. OtherTypes /\ Outer = {} /\ c.root # "made" /\ Present /\ Shut
    BY AtHandoff
  <1>2. KernelTypes' /\ TreeInv' /\ Wanes
    BY <1>1, Idle
  <1>3. Quiet /\ Uncalled
    BY <1>1 DEF OtherTypes, Quiet, Listens, Uncalled
  <1> QED
    BY <1>1, <1>2, <1>3, RaisedKeeps

LEMMA AcceptRegistrationKeeps ==
  ASSUME LauncherInv, AcceptRegistration
  PROVE  LauncherInv'
  <1>0. c.at = "handoff" /\ ch.ask = "register" /\ UNCHANGED <<k, w, l>>
    BY DEF AcceptRegistration, Handoff
  <1>1. /\ CoordinatorInv /\ ProcessInv /\ ReportInv /\ OtherTypes /\ CoordinatorTypes /\ DOMAIN c = CoordinatorFields
        /\ Outer = {} /\ c.root # "made" /\ Present /\ Shut /\ Full /\ Leased = Inner /\ c.res = "none" /\ ~c.err /\ ~c.fails
    BY <1>0, AtHandoff
  <1>2. KernelTypes' /\ TreeInv' /\ Wanes
    BY <1>0, <1>1, Idle
  <1>3. CASE Refuses(c)
    <2>1. DOMAIN ch' = ChannelFields /\ ch'.say = ch.say /\ ch'.tell = ch.tell
          /\ ch'.ask = "none" /\ ch'.answer = ch.answer /\ ch'.issue = ch.issue
      BY <1>1, <1>3 DEF Refuses, OtherTypes, ChannelFields
    <2> QED
      BY <1>0, <1>3, <2>1, HandoffRaised DEF Refuses
  <1>4. CASE Replies([Registered(c, "helper") EXCEPT !.helper = "registered"], "registered")
    <2>1. /\ Stays /\ c'.leases = Append(c.leases, "helper") /\ c'.outer = c.outer /\ c'.reaped = c.reaped
          /\ c'.at = "handoff" /\ c'.todo = c.todo /\ c'.root = c.root /\ c'.err = c.err /\ c'.fails = c.fails
          /\ c'.helper = "registered"
      BY <1>0, <1>1, <1>4 DEF Replies, Registered, Stays, CoordinatorFields
    <2>2. DOMAIN ch' = ChannelFields /\ ch'.say = ch.say /\ ch'.tell = ch.tell
          /\ ch'.ask = "none" /\ ch'.answer = "registered" /\ ch'.issue = ch.issue
      BY <1>1, <1>4 DEF Replies, OtherTypes, ChannelFields
    <2>3. "helper" \notin Inner /\ Inner \subseteq {"worker", "helper"}
      BY <1>0, <1>1 DEF ProcessInv, HelperInv, CoordinatorInv, LeasesInv
    <2>4. c.leases \in Seq(Procs) /\ IsInjective(c.leases) /\ IsInjective(c.outer) /\ c.outer \in Seq(Procs)
          /\ "helper" \in Procs /\ "helper" \notin ToSet(c.leases) /\ c.todo \in Seq(Procs)
      BY <1>1, <2>3, ProcsAre DEF CoordinatorInv, CoordinatorTypes, OnceInv, Inner
    <2>5. c'.leases \in Seq(Procs) /\ ToSet(c'.leases) = ToSet(c.leases) \cup {"helper"} /\ IsInjective(c'.leases)
      BY <2>1, <2>4, SetOfAppend
    <2>6. Inner' = Inner \cup {"helper"} /\ Outer' = {} /\ Leased' = Leased \cup {"helper"}
      BY <1>1, <2>1, <2>5 DEF Inner, Outer, Leased
    <2>7. CoordinatorTypes'
      BY <1>1, <2>1, <2>4, <2>5 DEF CoordinatorTypes, Stays
    <2>8. OnceInv'
      BY <2>1, <2>4, <2>5, <2>6 DEF OnceInv
    <2>9. LeasesInv'
      BY <1>1, <2>1, <2>3, <2>6 DEF LeasesInv, Early
    <2>10. HearInv' /\ CoverInv'
      BY <2>1 DEF HearInv, CoverInv
    <2>11. RootInv'
      BY <1>1, <2>1 DEF CoordinatorInv, RootInv, Stays
    <2>12. CoordinatorInv'
      BY <2>7, <2>8, <2>9, <2>10, <2>11 DEF CoordinatorInv
    <2>13. Governed
      BY <1>0, <1>1, <2>1 DEF Governed, Recorded, Stays, Early
    <2>14. Listens
      BY <1>1, <2>2 DEF Listens, OtherTypes
    <2>15. OtherTypes' /\ ModeInv' /\ LeaderInv' /\ ChildInv'
      BY <1>0, <1>1, <1>2, <2>1, <2>6, <2>13, <2>14, GovernedOthers
    <2>16. w.pc = "registering" \/ (w.err /\ w.pc \in Ending)
      BY <1>0, <1>1 DEF ProcessInv, AskInv
    <2>17. AskInv'
      BY <1>0, <1>1, <2>2, <2>16 DEF ProcessInv, AskInv
    <2>18. HelperInv'
      <3>1. w.pc \notin Alone
        BY <2>16 DEF Alone, Ending
      <3>2. (Alive("worker")' <=> Alive("worker")) /\ (Exists("helper")' <=> Exists("helper"))
        BY <1>0 DEF Alive, Exists
      <3> QED
        BY <1>0, <1>1, <2>2, <2>6, <3>1, <3>2 DEF ProcessInv, HelperInv
    <2>19. ProbeInv'
      BY <1>1, <2>1 DEF ProbeInv, Full, Stays
    <2>20. ReportInv'
      BY <1>0, <1>1, <1>2, <2>1, <2>2, ReportKept DEF Stays
    <2>21. CertainMeansRestored'
      BY <1>1, <2>1 DEF CertainMeansRestored, Stays
    <2> QED
      BY <1>2, <2>12, <2>15, <2>17, <2>18, <2>19, <2>20, <2>21 DEF LauncherInv, CoordinatorInv
  <1> QED
    BY <1>3, <1>4 DEF AcceptRegistration

LEMMA AcceptReleaseKeeps ==
  ASSUME LauncherInv, AcceptRelease
  PROVE  LauncherInv'
  <1>0. c.at = "handoff" /\ UNCHANGED <<k, w, l>>
    BY DEF AcceptRelease, Handoff
  <1>1. /\ CoordinatorInv /\ OtherTypes /\ ProbeInv /\ CoordinatorTypes /\ DOMAIN c = CoordinatorFields
        /\ Outer = {} /\ c.root # "made" /\ Present /\ Full /\ ~c.err /\ ~c.fails
    BY <1>0, AtHandoff DEF ProcessInv
  <1>2. KernelTypes' /\ TreeInv' /\ Wanes
    BY <1>0, <1>1, Idle
  <1>3. CASE Refuses(c)
    <2>1. DOMAIN ch' = ChannelFields /\ ch'.say = ch.say /\ ch'.tell = ch.tell
          /\ ch'.ask = "none" /\ ch'.answer = ch.answer /\ ch'.issue = ch.issue
      BY <1>1, <1>3 DEF Refuses, OtherTypes, ChannelFields
    <2> QED
      BY <1>0, <1>3, <2>1, HandoffRaised DEF Refuses
  <1>4. CASE c.helper = "registered" /\ Replies([c EXCEPT !.helper = "released"], "released")
    <2>1. /\ Stays /\ Same /\ c'.at = "handoff" /\ c'.todo = c.todo /\ c'.root = c.root /\ c'.err = c.err
          /\ c'.fails = c.fails /\ c'.helper = "released"
      BY <1>0, <1>1, <1>4 DEF Replies, Stays, Same, CoordinatorFields
    <2>2. Quiet
      BY <1>1, <1>4 DEF Replies, OtherTypes, ChannelFields, Quiet, Listens
    <2>3. Lists /\ Releases /\ Inner' = Inner /\ Outer' = Outer
      BY <1>1, <2>1, SameLeases
    <2>4. CoordinatorTypes' /\ OnceInv'
      BY <1>1, <2>1, <2>3 DEF Lists, Stays, CoordinatorTypes
    <2>5. LeasesInv'
      <3>1. Inner \subseteq {"worker", "helper"} /\ "helper" \in Inner
        BY <1>0, <1>1, <1>4 DEF CoordinatorInv, LeasesInv
      <3> QED
        BY <1>1, <2>1, <2>3, <3>1 DEF LeasesInv, Early
    <2>6. HearInv' /\ CoverInv'
      BY <2>1 DEF HearInv, CoverInv
    <2>7. RootInv'
      BY <1>0, <1>1, <2>1 DEF CoordinatorInv, RootInv, Stays
    <2>8. CoordinatorInv'
      BY <2>4, <2>5, <2>6, <2>7 DEF CoordinatorInv
    <2>9. Governed
      BY <1>0, <1>1, <2>1, <2>3 DEF Governed, Lists, Stays, Early
    <2>10. ProbeInv'
      BY <1>1, <2>1 DEF ProbeInv, Full, Stays
    <2> QED
      BY <1>0, <1>2, <2>1, <2>2, <2>3, <2>8, <2>9, <2>10, StepKeeps DEF Stays
  <1> QED
    BY <1>3, <1>4 DEF AcceptRelease

LEMMA AcceptRetirementKeeps ==
  ASSUME LauncherInv, AcceptRetirement
  PROVE  LauncherInv'
  <1>0. c.at = "handoff" /\ ch.ask = "retire" /\ UNCHANGED <<k, w, l>>
    BY DEF AcceptRetirement, Handoff
  <1>1. /\ CoordinatorInv /\ ProcessInv /\ ReportInv /\ OtherTypes /\ CoordinatorTypes /\ DOMAIN c = CoordinatorFields
        /\ Outer = {} /\ c.root # "made" /\ Present /\ Shut /\ Full /\ Leased = Inner /\ c.res = "none" /\ ~c.err /\ ~c.fails
    BY <1>0, AtHandoff
  <1>2. KernelTypes' /\ TreeInv' /\ Wanes
    BY <1>0, <1>1, Idle
  <1>3. CASE Refuses(c)
    <2>1. DOMAIN ch' = ChannelFields /\ ch'.say = ch.say /\ ch'.tell = ch.tell
          /\ ch'.ask = "none" /\ ch'.answer = ch.answer /\ ch'.issue = ch.issue
      BY <1>1, <1>3 DEF Refuses, OtherTypes, ChannelFields
    <2> QED
      BY <1>0, <1>3, <2>1, HandoffRaised DEF Refuses
  <1>4. CASE ~Alive("helper") /\ Replies([Retired(c, "helper") EXCEPT !.helper = "none"], "retired")
    <2>1. /\ Stays /\ Drops("helper") /\ c'.at = "handoff" /\ c'.todo = c.todo /\ c'.root = c.root /\ c'.err = c.err
          /\ c'.fails = c.fails /\ c'.helper = "none"
      BY <1>0, <1>1, <1>4 DEF Replies, Retired, Stays, Drops, CoordinatorFields
    <2>2. DOMAIN ch' = ChannelFields /\ ch'.say = ch.say /\ ch'.tell = ch.tell
          /\ ch'.ask = "none" /\ ch'.answer = "retired" /\ ch'.issue = ch.issue
      BY <1>1, <1>4 DEF Replies, OtherTypes, ChannelFields
    <2>3. Lists /\ Inner' = Inner \ {"helper"} /\ Outer' = Outer \ {"helper"} /\ Leased' = Leased \ {"helper"}
      BY <1>1, <2>1, DropsLeases, ProcsAre
    <2>4. Inner \subseteq {"worker", "helper"}
      BY <1>0, <1>1 DEF CoordinatorInv, LeasesInv
    <2>7. CoordinatorTypes' /\ OnceInv'
      BY <1>1, <2>1, <2>3 DEF Lists, CoordinatorTypes, Stays
    <2>9. LeasesInv'
      BY <1>1, <2>1, <2>3, <2>4 DEF LeasesInv, Early
    <2>10. HearInv' /\ CoverInv'
      BY <2>1 DEF HearInv, CoverInv
    <2>11. RootInv'
      BY <1>1, <2>1 DEF CoordinatorInv, RootInv, Stays
    <2>12. CoordinatorInv'
      BY <2>7, <2>9, <2>10, <2>11 DEF CoordinatorInv
    <2>13. Governed
      BY <1>0, <1>1, <2>1, <2>3 DEF Governed, Lists, Stays, Early
    <2>14. Listens
      BY <1>1, <2>2 DEF Listens, OtherTypes
    <2>15. OtherTypes' /\ ModeInv' /\ LeaderInv' /\ ChildInv'
      BY <1>0, <1>1, <1>2, <2>1, <2>3, <2>13, <2>14, GovernedOthers
    <2>16. w.pc = "retiring" \/ w.err
      BY <1>0, <1>1 DEF ProcessInv, AskInv
    <2>17. AskInv'
      BY <1>0, <1>1, <2>2, <2>16 DEF ProcessInv, AskInv
    <2>18. HelperInv'
      <3>1. "helper" \notin Leased'
        BY <2>3
      <3>2. (Alive("worker")' <=> Alive("worker")) /\ (Exists("helper")' <=> Exists("helper")) /\ ~Passed("helper")'
        BY <1>0, <1>4 DEF Alive, Exists, Passed
      <3> QED
        BY <1>0, <1>1, <2>2, <3>1, <3>2 DEF ProcessInv, HelperInv
    <2>19. ProbeInv'
      BY <1>1, <2>1 DEF ProbeInv, Full, Stays
    <2>20. ReportInv'
      BY <1>0, <1>1, <1>2, <2>1, <2>2, ReportKept DEF Stays
    <2>21. CertainMeansRestored'
      BY <1>1, <2>1 DEF CertainMeansRestored, Stays
    <2> QED
      BY <1>2, <2>12, <2>15, <2>17, <2>18, <2>19, <2>20, <2>21 DEF LauncherInv, CoordinatorInv
  <1> QED
    BY <1>3, <1>4 DEF AcceptRetirement

\* The report that is taken over is the one that was compared and read again.
LEMMA ConsumeIssuanceKeeps ==
  ASSUME LauncherInv, ConsumeIssuance
  PROVE  LauncherInv'
  <1>0. c.at = "handoff" /\ ch.issue = "packet" /\ UNCHANGED <<k, w, l>>
    BY DEF ConsumeIssuance, Handoff
  <1>1. /\ CoordinatorInv /\ ProcessInv /\ ReportInv /\ OtherTypes /\ CoordinatorTypes /\ DOMAIN c = CoordinatorFields
        /\ Outer = {} /\ c.root # "made" /\ Present /\ Shut /\ Full /\ Leased = Inner /\ c.res = "none" /\ ~c.err /\ ~c.fails
    BY <1>0, AtHandoff
  <1>2. KernelTypes' /\ TreeInv' /\ Wanes
    BY <1>0, <1>1, Idle
  <1>3. CASE c' = Raised(c, "finish") /\ ch' = [ch EXCEPT !.issue = "none"]
    <2>1. DOMAIN ch' = ChannelFields /\ ch'.say = ch.say /\ ch'.tell = ch.tell
          /\ ch'.ask = ch.ask /\ ch'.answer = ch.answer /\ ch'.issue = "none"
      BY <1>1, <1>3 DEF OtherTypes, ChannelFields
    <2> QED
      BY <1>0, <1>3, <2>1, HandoffRaised
  <1>4. CASE /\ c.helper = "none"
             /\ c' = [c EXCEPT !.at = "receipt", !.report = w.report, !.fds = TRUE]
             /\ ch' = [ch EXCEPT !.issue = "none", !.ack = TRUE]
    <2>1. /\ DOMAIN c' = CoordinatorFields /\ Same /\ c'.at = "receipt" /\ c'.todo = c.todo /\ c'.root = c.root
          /\ c'.err = c.err /\ c'.fails = c.fails /\ c'.report = w.report /\ c'.mode = c.mode /\ c'.base = c.base
          /\ c'.res = c.res /\ c'.i = c.i
      BY <1>1, <1>4 DEF Same, CoordinatorFields
    <2>2. /\ DOMAIN ch' = ChannelFields /\ ch'.say = ch.say /\ ch'.tell = ch.tell
          /\ ch'.ask = ch.ask /\ ch'.answer = ch.answer /\ ch'.issue = "none"
      BY <1>1, <1>4 DEF OtherTypes, ChannelFields
    <2>3. Quiet
      BY <1>1, <2>2 DEF OtherTypes, Quiet, Listens
    <2>4. Lists /\ Releases /\ Inner' = Inner /\ Outer' = Outer
      BY <1>1, <2>1, SameLeases
    <2>5. Inner \subseteq {"worker"}
      BY <1>0, <1>1, <1>4 DEF CoordinatorInv, LeasesInv
    <2>6. CoordinatorTypes' /\ OnceInv'
      BY <1>1, <2>1, <2>4 DEF Lists, CoordinatorTypes
    <2>7. LeasesInv'
      BY <1>1, <2>1, <2>4, <2>5 DEF LeasesInv, Early
    <2>8. HearInv' /\ CoverInv'
      BY <2>1 DEF HearInv, CoverInv
    <2>9. RootInv'
      BY <1>1, <2>1 DEF CoordinatorInv, RootInv
    <2>10. CoordinatorInv'
      BY <2>6, <2>7, <2>8, <2>9 DEF CoordinatorInv
    <2>11. Governed
      BY <1>0, <1>1, <2>1, <2>4 DEF Governed, Lists, Early
    <2>12. OtherTypes' /\ ModeInv' /\ LeaderInv' /\ AskInv' /\ HelperInv' /\ ChildInv'
      BY <1>0, <1>1, <1>2, <2>1, <2>3, <2>4, <2>11, GovernedKeeps
    <2>13. ProbeInv'
      BY <1>1, <2>1 DEF ProbeInv, Full
    <2>14. /\ w.pc \in Issued /\ ~Exists("helper") /\ ReportExact(w.report) /\ (c.mode = "runtime" => w.first = w.report)
      BY <1>0, <1>1 DEF ReportInv
    <2>15. ReportInv'
      <3>1. ~Exists("helper")'
        BY <1>0, <2>14 DEF Exists
      <3>2. (w.pc = "issue" /\ c.mode = "runtime" => w.first = w.report)'
        BY <1>0, <2>14 DEF Issued
      <3> QED
        BY <1>0, <2>1, <2>2, <2>14, <3>1, <3>2 DEF ReportInv, ReportExact, RowsExact
    <2>16. CertainMeansRestored'
      BY <1>1, <2>1 DEF CertainMeansRestored
    <2> QED
      BY <1>2, <2>10, <2>12, <2>13, <2>15, <2>16 DEF LauncherInv, CoordinatorInv
  <1> QED
    BY <1>3, <1>4 DEF ConsumeIssuance

LEMMA ReceiptEndsKeeps ==
  ASSUME LauncherInv, ReceiptEnds
  PROVE  LauncherInv'
  <1>0. c.at = "receipt" /\ UNCHANGED <<k, w, l, ch>>
    BY DEF ReceiptEnds
  <1>1. /\ CoordinatorInv /\ OtherTypes /\ CoordinatorTypes /\ DOMAIN c = CoordinatorFields
        /\ Outer = {} /\ c.root # "made" /\ Present /\ Full /\ ~c.err /\ ~c.fails /\ Leased = Inner
    BY <1>0, AtHandoff
  <1>2. KernelTypes' /\ TreeInv' /\ Wanes /\ Quiet
    BY <1>0, <1>1, Idle, SameChannel
  <1>3. CASE c' = Raised(c, "finish")
    BY <1>0, <1>1, <1>3, HandoffRaised DEF OtherTypes
  <1>4. CASE c' = [c EXCEPT !.at = "case", !.outer = c.leases, !.leases = <<>>]
    <2>1. /\ Stays /\ c'.leases = <<>> /\ c'.outer = c.leases /\ c'.reaped = c.reaped /\ c'.at = "case"
          /\ c'.todo = c.todo /\ c'.root = c.root /\ c'.err = c.err /\ c'.fails = c.fails
      BY <1>1, <1>4 DEF Stays, CoordinatorFields
    <2>2. Inner \subseteq {"worker"} /\ c.leases \in Seq(Procs) /\ IsInjective(c.leases)
      BY <1>0, <1>1 DEF CoordinatorInv, LeasesInv, CoordinatorTypes, OnceInv
    <2>3. Inner' = {} /\ Outer' = Inner /\ IsInjective(<<>>) /\ <<>> \in Seq(Procs)
      BY <2>1, SetOfNothing DEF Inner, Outer
    <2>4. Leased' = Leased
      BY <1>1, <2>3 DEF Leased, Inner, Outer
    <2>5. CoordinatorTypes'
      BY <1>1, <2>1, <2>2, <2>3 DEF Stays, CoordinatorTypes
    <2>6. OnceInv'
      BY <2>1, <2>2, <2>3 DEF OnceInv
    <2>7. Lists /\ Releases
      BY <2>1, <2>2, <2>3, <2>4, <2>6 DEF Lists, Recorded, Releases
    <2>8. LeasesInv'
      BY <1>1, <2>1, <2>3 DEF LeasesInv, Early
    <2>9. HearInv' /\ CoverInv'
      BY <2>1 DEF HearInv, CoverInv
    <2>10. RootInv'
      BY <1>0, <1>1, <2>1 DEF CoordinatorInv, RootInv, Stays
    <2>11. CoordinatorInv'
      BY <2>5, <2>6, <2>8, <2>9, <2>10 DEF CoordinatorInv
    <2>12. Governed
      BY <1>0, <1>1, <2>1, <2>7, StepGoverned DEF Early
    <2>13. ProbeInv'
      BY <1>1, <2>1 DEF ProbeInv, Full, Stays
    <2> QED
      BY <1>0, <1>2, <2>1, <2>7, <2>11, <2>12, <2>13, StepKeeps DEF Stays
  <1> QED
    BY <1>3, <1>4 DEF ReceiptEnds

LEMMA HandoffFailsKeeps ==
  ASSUME LauncherInv, HandoffFails
  PROVE  LauncherInv'
  <1>1. c.at \in {"handoff", "receipt"} /\ UNCHANGED <<k, w, l, ch>> /\ c' = Raised(c, "finish")
    BY DEF HandoffFails
  <1>2. DOMAIN ch = ChannelFields
    BY DEF LauncherInv, OtherTypes
  <1> QED
    BY <1>1, <1>2, HandoffRaised
-----------------------------------------------------------------------------
(* The launch. *)

\* Before anything is started.
LEMMA PreludeKeeps ==
  ASSUME LauncherInv, Bootstrap \/ RootCapsule \/ RootBootstrap \/ RootCapsuleEntry \/ Admit
  PROVE  LauncherInv'
  <1>0. CoordinatorInv /\ OtherTypes /\ ProbeInv /\ CoordinatorTypes /\ DOMAIN c = CoordinatorFields
    BY DEF LauncherInv, CoordinatorInv, CoordinatorTypes
  <1>1. c.at \in Early /\ c.at # "done" /\ UNCHANGED <<k, w, l, ch>> /\ Present /\ ~Window /\ c.at # "adopt"
    BY DEF Bootstrap, RootCapsule, RootBootstrap, RootCapsuleEntry, Admit, Present, Early, Window
  <1>2. /\ Stays /\ Same /\ c'.todo = c.todo /\ c'.root = c.root /\ c'.fails = c.fails /\ c'.helper = c.helper
        /\ \/ c'.at \in Early /\ c'.err = c.err /\ (c'.at = "worker" => Full)
           \/ c'.at = "case" /\ c'.err = c.err
           \/ c'.at = "finish"
    <2>1. CASE Bootstrap
      <3>1. CASE c' = [c EXCEPT !.at = IF c.mode = "sandbox" THEN "capsule" ELSE "admit"]
        BY <1>0, <3>1 DEF Stays, Same, Early, CoordinatorFields
      <3>2. CASE c' = [c EXCEPT !.err = TRUE, !.at = "finish"]
        BY <1>0, <3>2 DEF Stays, Same, Early, CoordinatorFields
      <3> QED
        BY <2>1, <3>1, <3>2 DEF Bootstrap
    <2>2. CASE RootCapsule
      BY <1>0, <2>2 DEF RootCapsule, Stays, Same, Early, CoordinatorFields
    <2>3. CASE RootBootstrap
      <3>1. CASE c' = [c EXCEPT !.at = "rootEntry"]
        BY <1>0, <3>1 DEF Stays, Same, Early, CoordinatorFields
      <3>2. CASE c' = [c EXCEPT !.err = TRUE, !.at = "finish"]
        BY <1>0, <3>2 DEF Stays, Same, Early, CoordinatorFields
      <3> QED
        BY <2>3, <3>1, <3>2 DEF RootBootstrap
    <2>4. CASE RootCapsuleEntry
      <3>1. CASE c' = [c EXCEPT !.at = "admit"]
        BY <1>0, <3>1 DEF Stays, Same, Early, CoordinatorFields
      <3>2. CASE c' = [c EXCEPT !.err = TRUE, !.at = "finish"]
        BY <1>0, <3>2 DEF Stays, Same, Early, CoordinatorFields
      <3> QED
        BY <2>4, <3>1, <3>2 DEF RootCapsuleEntry
    <2>5. CASE Admit
      <3>1. CASE Full
        BY <1>0, <2>5, <3>1 DEF Admit, Stays, Same, Early, CoordinatorFields
      <3>2. CASE ~Full
        BY <1>0, <2>5, <3>2 DEF Admit, Stays, Same, Early, CoordinatorFields
      <3> QED
        BY <3>1, <3>2
    <2> QED
      BY <2>1, <2>2, <2>3, <2>4, <2>5
  <1>3. Lists /\ Releases /\ Inner' = Inner /\ Outer' = Outer
    BY <1>0, <1>2, SameLeases
  <1>4. Inner = {} /\ Outer = {} /\ ~c.err /\ ~c.fails /\ c.helper = "none"
    BY <1>0, <1>1 DEF CoordinatorInv, LeasesInv
  <1>5. CoordinatorTypes' /\ OnceInv'
    BY <1>0, <1>2, <1>3 DEF Lists, Stays, CoordinatorTypes
  <1>6. LeasesInv'
    BY <1>2, <1>3, <1>4 DEF LeasesInv, Early
  <1>7. HearInv' /\ CoverInv'
    BY <1>2, <1>3, <1>4 DEF HearInv, CoverInv, Early
  <1>8. RootInv'
    BY <1>0, <1>1, <1>2 DEF CoordinatorInv, RootInv, Stays, Early, Casing
  <1>9. CoordinatorInv'
    BY <1>5, <1>6, <1>7, <1>8 DEF CoordinatorInv
  <1>10. Governed
    BY <1>1, <1>2, <1>3 DEF Governed, Lists, Stays, Early
  <1>11. KernelTypes' /\ TreeInv' /\ Wanes /\ Quiet /\ Uncalled
    BY <1>0, <1>1, Idle, SameChannel
  <1>12. ProbeInv'
    BY <1>0, <1>1, <1>3, <1>10, <1>11, WindowKeeps
  <1>13. c'.at # "census"
    BY <1>2 DEF Early
  <1> QED
    BY <1>1, <1>2, <1>3, <1>9, <1>10, <1>11, <1>12, <1>13, StepKeeps DEF Stays

LEMMA AfterCasesKeeps ==
  ASSUME LauncherInv, AfterCases
  PROVE  LauncherInv'
  <1>0. CoordinatorInv /\ OtherTypes /\ ProbeInv /\ CoordinatorTypes /\ DOMAIN c = CoordinatorFields
    BY DEF LauncherInv, CoordinatorInv, CoordinatorTypes
  <1>1. c.at = "cases" /\ UNCHANGED <<k, w, l, ch>> /\ Present /\ Shut
    BY DEF AfterCases, Present, Shut, Window
  <1>2. KernelTypes' /\ TreeInv' /\ Wanes /\ Quiet /\ Uncalled
    BY <1>0, <1>1, Idle, SameChannel
  <1> DEFINE m == [c EXCEPT !.leases = c.outer \o @, !.outer = <<>>]
  <1>3. c' = IF Full /\ ~c.err /\ ~c.fails THEN [m EXCEPT !.at = "worked"] ELSE Unwind(m, "finish")
    BY DEF AfterCases
  <1>4. /\ DOMAIN m = CoordinatorFields /\ m.leases = c.outer \o c.leases /\ m.outer = <<>>
        /\ \A f \in CoordinatorFields \ {"leases", "outer"} : m[f] = c[f]
    BY <1>0 DEF CoordinatorFields
  <1> HIDE DEF m
  <1>5. /\ Stays /\ c'.leases = c.outer \o c.leases /\ c'.outer = <<>> /\ c'.reaped = c.reaped /\ c'.root = c.root
        /\ \/ c'.at = "worked" /\ Full /\ c'.todo = c.todo
           \/ c'.at = "stop" /\ c'.then = "finish" /\ c'.todo = c'.leases
    <2>1. CASE c' = [m EXCEPT !.at = "worked"] /\ Full
      BY <1>4, <2>1 DEF Stays, CoordinatorFields
    <2>2. CASE c' = Unwind(m, "finish")
      BY <1>4, <2>2 DEF Stays, Unwind, CoordinatorFields
    <2> QED
      BY <1>3, <2>1, <2>2
  <1>6. c.leases \in Seq(Procs) /\ c.outer \in Seq(Procs) /\ IsInjective(c.leases) /\ IsInjective(c.outer)
        /\ ToSet(c.outer) \cap ToSet(c.leases) = {}
    BY <1>0 DEF CoordinatorInv, CoordinatorTypes, OnceInv, Inner, Outer
  <1>7. c'.leases \in Seq(Procs) /\ IsInjective(c'.leases) /\ ToSet(c'.leases) = ToSet(c.outer) \cup ToSet(c.leases)
    BY <1>5, <1>6, SetOfConcat
  <1>8. Outer' = {} /\ Inner' = Inner \cup Outer /\ Leased' = Leased /\ IsInjective(c'.outer) /\ c'.outer \in Seq(Procs)
    BY <1>5, <1>7, SetOfNothing DEF Inner, Outer, Leased
  <1>9. OnceInv'
    BY <1>7, <1>8 DEF OnceInv
  <1>10. Lists /\ Releases
    BY <1>5, <1>7, <1>8, <1>9 DEF Lists, Recorded, Releases
  <1>11. c.root # "made"
    BY <1>0, <1>1 DEF CoordinatorInv, RootInv, Casing
  <1>12. CASE c'.at = "stop"
    <2>1. Winds("finish")
      BY <1>5, <1>10, <1>12 DEF Winds
    <2> QED
      BY <1>1, <1>2, <1>5, <1>8, <1>10, <1>11, <2>1, WindStep
  <1>13. CASE c'.at = "worked"
    <2>1. Full /\ c'.todo = c.todo
      BY <1>5, <1>13
    <2>2. CoordinatorTypes'
      BY <1>0, <1>5, <1>7, <1>8, <2>1 DEF Stays, CoordinatorTypes
    <2>3. LeasesInv'
      BY <1>8, <1>13 DEF LeasesInv, Early
    <2>4. HearInv' /\ CoverInv'
      BY <1>13 DEF HearInv, CoverInv
    <2>5. RootInv'
      BY <1>0, <1>1, <1>5, <1>11 DEF CoordinatorInv, RootInv, Stays
    <2>6. CoordinatorInv'
      BY <1>9, <2>2, <2>3, <2>4, <2>5 DEF CoordinatorInv
    <2>7. Governed
      BY <1>1, <1>5, <1>10, <1>13, <2>1 DEF Governed, Lists, Stays, Early
    <2>8. ProbeInv'
      BY <1>5, <2>1 DEF ProbeInv, Full, Stays
    <2> QED
      BY <1>1, <1>2, <1>5, <1>10, <1>13, <2>6, <2>7, <2>8, StepKeeps DEF Stays
  <1> QED
    BY <1>5, <1>12, <1>13

LEMMA JoinWorkerKeeps ==
  ASSUME LauncherInv, JoinWorker
  PROVE  LauncherInv'
  <1>0. CoordinatorInv /\ OtherTypes /\ KernelTypes /\ TreeInv /\ "worker" \in Procs
    BY ProcsAre DEF LauncherInv, CoordinatorInv
  <1>1. c.at = "worked" /\ UNCHANGED <<w, l, ch>> /\ Present /\ Shut
    BY DEF JoinWorker, Present, Shut, Window
  <1>2. Quiet /\ Uncalled
    BY <1>0, <1>1, SameChannel
  <1>3. Outer = {} /\ c.root # "made"
    BY <1>0, <1>1 DEF CoordinatorInv, LeasesInv, RootInv, Casing
  <1>4. CASE c' = Raised(c, "finish") /\ UNCHANGED k
    <2>1. KernelTypes' /\ TreeInv' /\ Wanes
      BY <1>1, <1>4, Idle
    <2> QED
      BY <1>1, <1>2, <1>3, <1>4, <2>1, RaisedKeeps
  <1>5. CASE /\ k["worker"].st = "zombie" /\ k' = Reaped("worker")
             /\ c' = Raised(Retired(c, "worker"), "finish") \/ c' = Unwind(Retired(c, "worker"), "finish")
    <2>1. KernelTypes' /\ TreeInv' /\ Wanes /\ ~Exists("worker")'
      BY <1>0, <1>1, <1>5, ReapedWanes
    <2> QED
      BY <1>0, <1>1, <1>2, <1>3, <1>5, <2>1, RetiredKeeps
  <1> QED
    BY <1>4, <1>5 DEF JoinWorker

\* The heart of the argument: nothing is leased any more, the leader was leased
\* as long as it was there, and a child can only be the coordinator's, which the
\* baseline excludes, or, for the probe, one that would have been adopted.
LEMMA NothingLeft ==
  ASSUME LauncherInv, c.at = "finish", ~c.fails, Restored
  PROVE  /\ \A p \in Procs : k[p].st \in {"none", "gone"}
         /\ c.root = c.base /\ c.leases = <<>>
  <1>0. CoordinatorInv /\ ProcessInv /\ Present
    BY DEF LauncherInv, CoordinatorInv, ProcessInv, Present
  <1>1. Inner = {} /\ Outer = {} /\ c.leases \in Seq(Procs) /\ c.mode \in {"runtime", "compression", "lifecycle", "sandbox"}
    BY <1>0 DEF CoordinatorInv, CoverInv, LeasesInv, CoordinatorTypes
  <1>2. c.leases = <<>>
    BY <1>1, NothingInNothing DEF Inner
  <1>3. c.root = c.base
    BY <1>0 DEF CoordinatorInv, RootInv, Casing, CoordinatorTypes
  <1>4. "leader" \notin Leased /\ "child" \notin Leased
    BY <1>1 DEF Leased, Inner, Outer
  <1>5. ~Exists("leader")
    BY <1>0, <1>4 DEF ProcessInv, LeaderInv
  <1>6. \A p \in Procs : ~Exists(p)
    <2>1. CASE c.mode = "sandbox"
      <3>1. ~Exists("worker") /\ ~Exists("helper")
        BY <1>0, <2>1 DEF ProcessInv, ModeInv, Full, Exists
      <3>2. ~Exists("child")
        BY <1>0, <1>4, <2>1 DEF ProcessInv, ProbeInv, Window
      <3> QED
        BY <1>5, <3>1, <3>2, ProcsAre
    <2>2. CASE c.mode # "sandbox"
      <3>1. Children = {}
        BY <1>1, <2>2 DEF Restored, Full
      <3>2. \A p \in Procs : Exists(p) => k[p].par # "C"
        BY <3>1 DEF Children, Exists
      <3>3. ~Exists("worker")
        BY <1>0, <3>2, ProcsAre DEF ProcessInv, TreeInv
      <3>4. ~Exists("helper") /\ ~Exists("child")
        <4>1. ~Alive("worker") /\ ~Alive("leader")
          BY <1>5, <3>3 DEF Exists, Alive
        <4> QED
          BY <1>0, <3>2, <4>1, ProcsAre DEF ProcessInv, TreeInv
      <3> QED
        BY <1>5, <3>3, <3>4, ProcsAre
    <2> QED
      BY <2>1, <2>2
  <1>7. \A p \in Procs : k[p].st \in {"none", "gone"}
    BY <1>0, <1>6 DEF ProcessInv, KernelTypes, Exists
  <1> QED
    BY <1>2, <1>3, <1>7

\* The last step: an end that is certain has been established.
LEMMA EndedKeeps ==
  ASSUME LauncherInv, c.at = "finish", UNCHANGED <<k, w, l, ch>>, NEW m, DOMAIN m = CoordinatorFields,
         \A f \in CoordinatorFields \ {"fails"} : m[f] = c[f], c.fails => m.fails, c' = Ended(m), ~c.fds \/ m.fails
  PROVE  LauncherInv'
  <1>0. CoordinatorInv /\ ProcessInv /\ ReportInv /\ CoordinatorTypes /\ DOMAIN c = CoordinatorFields /\ Present
    BY DEF LauncherInv, CoordinatorInv, CoordinatorTypes, ProcessInv, Present
  <1> DEFINE res == IF m.fails \/ ~Restored THEN "uncertain" ELSE IF m.err THEN "failed" ELSE "ok"
             reaper == m.subreaper /\ Full
  <1>1. c' = [m EXCEPT !.at = "done", !.subreaper = reaper, !.res = res]
    BY DEF Ended
  <1>2. res \in {"ok", "failed"} => ~m.fails /\ Restored
    OBVIOUS
  <1> HIDE DEF res, reaper
  <1>3. /\ DOMAIN c' = CoordinatorFields /\ c'.at = "done" /\ c'.res = res /\ c'.fails = m.fails
        /\ c'.mode = c.mode /\ c'.base = c.base /\ c'.report = c.report /\ c'.root = c.root /\ c'.todo = c.todo
        /\ c'.err = c.err /\ c'.fds = c.fds /\ c'.i = c.i /\ Same
    BY <1>1 DEF Same, CoordinatorFields
  <1>4. Lists /\ Releases /\ Inner' = Inner /\ Outer' = Outer /\ Leased' = Leased
    BY <1>0, <1>3, SameLeases
  <1>5. CoordinatorTypes' /\ OnceInv'
    BY <1>0, <1>3, <1>4 DEF Lists, CoordinatorTypes
  <1>6. LeasesInv' /\ HearInv'
    BY <1>0, <1>3, <1>4 DEF CoordinatorInv, LeasesInv, HearInv, Early
  <1>7. CoverInv'
    BY <1>0, <1>3, <1>4 DEF CoordinatorInv, CoverInv
  <1>8. RootInv'
    BY <1>0, <1>3 DEF CoordinatorInv, RootInv, Casing
  <1>9. CertainMeansRestored'
    <2>1. SUFFICES ASSUME res \in {"ok", "failed"}
                   PROVE  /\ \A p \in Procs : k'[p].st \in {"none", "gone"}
                          /\ c'.root = c'.base /\ ~c'.fds /\ c'.leases = <<>>
      BY <1>3 DEF CertainMeansRestored
    <2>2. ~m.fails /\ Restored /\ ~c.fails /\ ~c.fds
      BY <1>2, <2>1
    <2>3. (\A p \in Procs : k[p].st \in {"none", "gone"}) /\ c.root = c.base /\ c.leases = <<>>
      BY <2>2, NothingLeft
    <2> QED
      BY <1>3, <2>2, <2>3 DEF Same
  <1>10. KernelTypes' /\ TreeInv' /\ Wanes
    BY <1>0, Idle
  <1>11. OtherTypes' /\ AskInv'
    BY <1>0 DEF ProcessInv, OtherTypes, AskInv
  <1>12. ModeInv' /\ LeaderInv'
    <2>1. ModeInv'
      BY <1>0, <1>3 DEF ProcessInv, ModeInv, Full, Early
    <2>2. (Alive("leader")' <=> Alive("leader")) /\ (Exists("leader")' <=> Exists("leader")) /\ (Follows' <=> Follows)
      BY <1>3 DEF Alive, Exists, Follows, Script, Case, Full
    <2> QED
      BY <1>0, <1>3, <1>4, <2>1, <2>2 DEF ProcessInv, LeaderInv, Same
  <1>13. HelperInv' /\ ChildInv'
    <2>1. \A p \in Procs : /\ (Exists(p)' <=> Exists(p)) /\ (Alive(p)' <=> Alive(p)) /\ (Passed(p)' <=> Passed(p))
      BY DEF Exists, Alive, Passed
    <2> QED
      BY <1>0, <1>3, <1>4, <2>1, ProcsAre DEF ProcessInv, HelperInv, ChildInv
  <1>14. ProbeInv'
    <2>1. ~Window /\ c.at # "adopt"
      BY DEF Window
    <2>2. (Exists("child")' <=> Exists("child")) /\ (Alive("leader")' <=> Alive("leader"))
      BY DEF Exists, Alive
    <2> QED
      BY <1>0, <1>3, <1>4, <2>1, <2>2 DEF ProcessInv, ProbeInv
  <1>15. ReportInv'
    BY <1>0, <1>3, <1>10, ReportKept
  <1> QED
    BY <1>5, <1>6, <1>7, <1>8, <1>9, <1>10, <1>11, <1>12, <1>13, <1>14, <1>15 DEF LauncherInv

LEMMA FinishKeeps ==
  ASSUME LauncherInv, Finish
  PROVE  LauncherInv'
  <1>1. c.at = "finish" /\ ~c.fds /\ c' = Ended(c) /\ UNCHANGED <<k, w, l, ch>>
    BY DEF Finish
  <1>2. DOMAIN c = CoordinatorFields
    BY DEF LauncherInv, CoordinatorTypes
  <1> QED
    BY <1>1, <1>2, EndedKeeps

LEMMA CloseLeasesKeeps ==
  ASSUME LauncherInv, CloseLeases
  PROVE  LauncherInv'
  <1>0. CoordinatorInv /\ OtherTypes /\ ProbeInv /\ CoordinatorTypes /\ DOMAIN c = CoordinatorFields
    BY DEF LauncherInv, CoordinatorInv, CoordinatorTypes
  <1>1. c.at = "finish" /\ UNCHANGED <<k, w, l, ch>> /\ Present /\ ~Window
    BY DEF CloseLeases, Present, Window
  <1>2. CASE c' = Ended([c EXCEPT !.fails = TRUE])
    <2> DEFINE m == [c EXCEPT !.fails = TRUE]
    <2>1. DOMAIN m = CoordinatorFields /\ m.fails /\ \A f \in CoordinatorFields \ {"fails"} : m[f] = c[f]
      BY <1>0 DEF CoordinatorFields
    <2>2. c' = Ended(m)
      BY <1>2
    <2> HIDE DEF m
    <2> QED
      BY <1>1, <2>1, <2>2, EndedKeeps
  <1>3. CASE c' = [c EXCEPT !.fds = FALSE]
    <2>1. /\ Stays /\ Same /\ c'.at = "finish" /\ c'.todo = c.todo /\ c'.root = c.root /\ c'.fails = c.fails
      BY <1>0, <1>1, <1>3 DEF Stays, Same, CoordinatorFields
    <2>2. Lists /\ Releases /\ Inner' = Inner /\ Outer' = Outer
      BY <1>0, <2>1, SameLeases
    <2>3. CoordinatorTypes' /\ OnceInv'
      BY <1>0, <2>1, <2>2 DEF Lists, Stays, CoordinatorTypes
    <2>4. LeasesInv' /\ HearInv'
      BY <1>0, <1>1, <2>1, <2>2 DEF CoordinatorInv, LeasesInv, HearInv, Early
    <2>5. CoverInv'
      BY <1>0, <1>1, <2>1, <2>2 DEF CoordinatorInv, CoverInv
    <2>6. RootInv'
      BY <1>0, <1>1, <2>1 DEF CoordinatorInv, RootInv, Stays
    <2>7. CoordinatorInv'
      BY <2>3, <2>4, <2>5, <2>6 DEF CoordinatorInv
    <2>8. Governed
      BY <1>1, <2>1, <2>2, StepGoverned DEF Early
    <2>9. KernelTypes' /\ TreeInv' /\ Wanes /\ Quiet /\ Uncalled
      BY <1>0, <1>1, Idle, SameChannel
    <2>10. ProbeInv'
      BY <1>0, <1>1, <2>2, <2>8, <2>9, WindowKeeps
    <2> QED
      BY <1>1, <2>1, <2>2, <2>7, <2>8, <2>9, <2>10, StepKeeps DEF Stays
  <1> QED
    BY <1>2, <1>3 DEF CloseLeases

\* The end of the coordinator: what it guaranteed while it was there is over.
LEMMA LeftKeeps ==
  ASSUME LauncherInv, Exits \/ CoordinatorKilled
  PROVE  LauncherInv'
  <1>0. CoordinatorInv /\ ProcessInv /\ ReportInv /\ CoordinatorTypes /\ DOMAIN c = CoordinatorFields
    BY DEF LauncherInv, CoordinatorInv, CoordinatorTypes, ProcessInv
  <1>1. c' = [c EXCEPT !.at = "dead"] /\ k' = Orphaned(k, "C", "init") /\ UNCHANGED <<w, l, ch>>
    BY DEF Exits, CoordinatorKilled
  <1>2. /\ DOMAIN c' = CoordinatorFields /\ c'.at = "dead" /\ c'.res = c.res /\ c'.fails = c.fails
        /\ c'.mode = c.mode /\ c'.base = c.base /\ c'.report = c.report /\ c'.root = c.root /\ c'.todo = c.todo
        /\ c'.err = c.err /\ c'.fds = c.fds /\ c'.i = c.i /\ Same
    BY <1>0, <1>1 DEF Same, CoordinatorFields
  <1>3. ~Present'
    BY <1>2 DEF Present
  <1>4. KernelTypes' /\ TreeInv' /\ Wanes
    BY <1>0, <1>1, <1>3, LeftWanes DEF ProcessInv
  <1>5. Lists
    BY <1>0, <1>2, SameLeases
  <1>6. CoordinatorTypes' /\ OnceInv'
    BY <1>0, <1>2, <1>5 DEF Lists, CoordinatorTypes
  <1>7. LeasesInv' /\ HearInv' /\ CoverInv'
    BY <1>2 DEF LeasesInv, HearInv, CoverInv, Early
  <1>8. RootInv'
    BY <1>0, <1>2 DEF CoordinatorInv, RootInv
  <1>9. OtherTypes' /\ AskInv'
    BY <1>0, <1>1 DEF ProcessInv, OtherTypes, AskInv
  <1>10. "worker" \in Procs /\ "helper" \in Procs /\ "child" \in Procs
    BY ProcsAre
  <1>11. ModeInv'
    BY <1>0, <1>2, <1>4, <1>10 DEF ProcessInv, ModeInv, Full, Early, Wanes
  <1>12. LeaderInv'
    <2>1. (Alive("leader")' => Alive("leader")) /\ (Follows' <=> Follows)
      BY <1>1, <1>2, <1>4, ProcsAre DEF Wanes, Follows, Script, Case, Full
    <2> QED
      BY <1>0, <1>2, <1>3, <1>4, <1>10, <2>1 DEF ProcessInv, LeaderInv, Wanes, Same
  <1>13. HelperInv'
    BY <1>0, <1>1, <1>2, <1>3, <1>4, <1>10 DEF ProcessInv, HelperInv, Wanes
  <1>14. ChildInv'
    BY <1>0, <1>1, <1>2, <1>3 DEF ProcessInv, ChildInv
  <1>15. ProbeInv'
    BY <1>3 DEF ProbeInv
  <1>16. ReportInv'
    BY <1>0, <1>1, <1>2, <1>4, ReportKept
  <1>17. CertainMeansRestored'
    BY <1>2, <1>4 DEF LauncherInv, CertainMeansRestored, Same, Wanes, KernelTypes, Exists
  <1> QED
    BY <1>4, <1>6, <1>7, <1>8, <1>9, <1>11, <1>12, <1>13, <1>14, <1>15, <1>16, <1>17 DEF
       LauncherInv

\* What the client of the probe does changes nothing else.
LEMMA ClientKeeps ==
  ASSUME LauncherInv, ClientDeadline \/ ClientReads
  PROVE  LauncherInv'
  <1>1. UNCHANGED <<k, w, l, ch>> /\ \E x : c' = [c EXCEPT !.client = x]
    BY DEF ClientDeadline, ClientReads
  <1>2. DOMAIN c = CoordinatorFields
    BY DEF LauncherInv, CoordinatorTypes
  <1>3. DOMAIN c' = CoordinatorFields /\ \A f \in CoordinatorFields \ {"client"} : c'[f] = c[f]
    BY <1>1, <1>2 DEF CoordinatorFields
  <1>4. /\ c'.at = c.at /\ c'.res = c.res /\ c'.fails = c.fails /\ c'.step = c.step /\ c'.i = c.i
        /\ c'.mode = c.mode /\ c'.base = c.base /\ c'.report = c.report /\ c'.root = c.root /\ c'.todo = c.todo
        /\ c'.err = c.err /\ c'.fds = c.fds /\ c'.helper = c.helper /\ c'.then = c.then /\ c'.after = c.after
        /\ c'.leases = c.leases /\ c'.outer = c.outer /\ c'.reaped = c.reaped
    BY <1>3 DEF CoordinatorFields
  <1>5. /\ Inner' = Inner /\ Outer' = Outer /\ Todo' = Todo /\ Leased' = Leased /\ (Present' <=> Present)
        /\ (Full' <=> Full) /\ (Window' <=> Window)
    BY <1>4 DEF Inner, Outer, Todo, Leased, Present, Full, Window
  <1>6. Script' = Script /\ Handover' = Handover
    BY <1>4 DEF Script, Handover, Case, Full
  <1>7. CoordinatorTypes' /\ OnceInv' /\ LeasesInv'
    BY <1>3, <1>4, <1>5 DEF LauncherInv, CoordinatorTypes, OnceInv, LeasesInv
  <1>8. HearInv'
    BY <1>4, <1>5, <1>6 DEF LauncherInv, HearInv
  <1>9. CoverInv' /\ RootInv'
    BY <1>4, <1>5 DEF LauncherInv, CoverInv, RootInv
  <1>10. KernelTypes' /\ OtherTypes' /\ AskInv'
    BY <1>1 DEF LauncherInv, KernelTypes, OtherTypes, AskInv
  <1>11. \A p \in Procs : /\ (Exists(p)' <=> Exists(p)) /\ (Alive(p)' <=> Alive(p)) /\ (Passed(p)' <=> Passed(p))
    BY <1>1 DEF Exists, Alive, Passed
  <1>12. TreeInv' /\ ModeInv'
    BY <1>1, <1>4, <1>5, <1>11, ProcsAre DEF LauncherInv, TreeInv, ModeInv
  <1>13. LeaderInv'
    BY <1>1, <1>4, <1>5, <1>6, <1>11, ProcsAre DEF LauncherInv, LeaderInv, Follows
  <1>14. HelperInv'
    BY <1>1, <1>4, <1>5, <1>11, ProcsAre DEF LauncherInv, HelperInv
  <1>15. ChildInv'
    BY <1>1, <1>4, <1>5, <1>11, ProcsAre DEF LauncherInv, ChildInv
  <1>16. ProbeInv'
    BY <1>1, <1>4, <1>5, <1>11, ProcsAre DEF LauncherInv, ProbeInv
  <1>17. ReportInv'
    BY <1>1, <1>4, <1>11, ProcsAre DEF LauncherInv, ReportInv, ReportExact, RowsExact
  <1>18. CertainMeansRestored'
    BY <1>1, <1>4 DEF LauncherInv, CertainMeansRestored
  <1> QED
    BY <1>7, <1>8, <1>9, <1>10, <1>12, <1>13, <1>14, <1>15, <1>16, <1>17, <1>18 DEF LauncherInv

-----------------------------------------------------------------------------
(* A step of another process: the coordinator stays where it is. *)

\* Processes come closer to their end, but for a gate that may open.
Ebbs ==
  \A p \in Procs :
    /\ Exists(p)' => Exists(p)
    /\ Alive(p)' => Alive(p)
    /\ k'[p].st = "none" <=> k[p].st = "none"
    /\ k[p].st = "gone" => k'[p].st = "gone"

LEMMA WanesEbbs ==
  ASSUME Wanes
  PROVE  Ebbs /\ \A p \in Procs : Passed(p)' => Passed(p)
  BY DEF Wanes, Ebbs

LEMMA CoordinatorKept ==
  ASSUME LauncherInv, UNCHANGED c
  PROVE  /\ CoordinatorTypes' /\ OnceInv' /\ LeasesInv' /\ HearInv' /\ CoverInv' /\ RootInv'
         /\ Leased' = Leased /\ Script' = Script /\ (Full' <=> Full) /\ (Present' <=> Present) /\ (Window' <=> Window)
  <1>1. /\ Inner' = Inner /\ Outer' = Outer /\ Todo' = Todo /\ Leased' = Leased /\ (Present' <=> Present)
        /\ (Full' <=> Full) /\ (Window' <=> Window)
    BY DEF Inner, Outer, Todo, Leased, Present, Full, Window
  <1>2. Script' = Script /\ Handover' = Handover
    BY DEF Script, Handover, Case, Full
  <1>3. CoordinatorTypes' /\ OnceInv' /\ LeasesInv'
    BY <1>1 DEF LauncherInv, CoordinatorTypes, OnceInv, LeasesInv
  <1>4. HearInv'
    BY <1>1, <1>2 DEF LauncherInv, HearInv
  <1>5. CoverInv' /\ RootInv'
    BY <1>1 DEF LauncherInv, CoverInv, RootInv
  <1> QED
    BY <1>1, <1>2, <1>3, <1>4, <1>5

\* What a step of the leader or its child has to show ...
LEMMA LeaderSide ==
  ASSUME LauncherInv, UNCHANGED <<c, w>>, KernelTypes', TreeInv', OtherTypes', Ebbs, Passed("helper")' => Passed("helper"),
         ch'.ask = ch.ask, ch'.answer = ch.answer, ch'.issue = ch.issue,
         Alive("leader")' => Follows', ChildInv', ProbeInv'
  PROVE  LauncherInv'
  <1>0. "worker" \in Procs /\ "leader" \in Procs /\ "helper" \in Procs /\ "child" \in Procs
    BY ProcsAre
  <1>1. /\ CoordinatorTypes' /\ OnceInv' /\ LeasesInv' /\ HearInv' /\ CoverInv' /\ RootInv'
        /\ Leased' = Leased /\ (Full' <=> Full) /\ (Present' <=> Present)
    BY CoordinatorKept
  <1>2. ModeInv'
    BY <1>0, <1>1 DEF LauncherInv, ModeInv, Ebbs
  <1>3. LeaderInv'
    BY <1>0, <1>1 DEF LauncherInv, LeaderInv, Ebbs
  <1>4. AskInv'
    BY DEF LauncherInv, AskInv
  <1>5. HelperInv'
    BY <1>0, <1>1 DEF LauncherInv, HelperInv, Ebbs
  <1>6. ReportInv'
    BY <1>0 DEF LauncherInv, ReportInv, Ebbs, ReportExact, RowsExact
  <1>7. CertainMeansRestored'
    BY DEF LauncherInv, CertainMeansRestored, Ebbs, KernelTypes, Exists
  <1> QED
    BY <1>1, <1>2, <1>3, <1>4, <1>5, <1>6, <1>7 DEF LauncherInv

\* ... and what a step of the worker or its helper has to.
LEMMA WorkerSide ==
  ASSUME LauncherInv, UNCHANGED <<c, l>>, KernelTypes', TreeInv', Ebbs, Passed("child")' => Passed("child"),
         DOMAIN w' = WorkerFields, DOMAIN ch' = ChannelFields, ch'.say = ch.say, ch'.tell = ch.tell,
         AskInv', HelperInv', ReportInv'
  PROVE  LauncherInv'
  <1>0. "worker" \in Procs /\ "leader" \in Procs /\ "helper" \in Procs /\ "child" \in Procs
    BY ProcsAre
  <1>1. /\ CoordinatorTypes' /\ OnceInv' /\ LeasesInv' /\ HearInv' /\ CoverInv' /\ RootInv'
        /\ Leased' = Leased /\ Script' = Script /\ (Full' <=> Full) /\ (Present' <=> Present) /\ (Window' <=> Window)
    BY CoordinatorKept
  <1>2. ModeInv'
    BY <1>0, <1>1 DEF LauncherInv, ModeInv, Ebbs
  <1>3. LeaderInv'
    BY <1>0, <1>1 DEF LauncherInv, LeaderInv, Ebbs, Follows
  <1>4. OtherTypes'
    BY DEF LauncherInv, OtherTypes
  <1>5. ChildInv'
    BY <1>0, <1>1 DEF LauncherInv, ChildInv, Ebbs
  <1>6. ProbeInv'
    BY <1>0, <1>1 DEF LauncherInv, ProbeInv, Ebbs
  <1>7. CertainMeansRestored'
    BY DEF LauncherInv, CertainMeansRestored, Ebbs, KernelTypes, Exists
  <1> QED
    BY <1>1, <1>2, <1>3, <1>4, <1>5, <1>6, <1>7 DEF LauncherInv

\* A step of the kernel alone.
LEMMA KernelSide ==
  ASSUME LauncherInv, UNCHANGED <<c, w, l, ch>>, KernelTypes', TreeInv', Wanes
  PROVE  LauncherInv'
  <1>0. "leader" \in Procs /\ "helper" \in Procs /\ "child" \in Procs
    BY ProcsAre
  <1>1. Ebbs /\ (Passed("helper")' => Passed("helper")) /\ (Passed("child")' => Passed("child"))
    BY <1>0, WanesEbbs
  <1>2. Leased' = Leased /\ Script' = Script /\ (Present' <=> Present) /\ (Window' <=> Window)
    BY CoordinatorKept
  <1>3. OtherTypes'
    BY DEF LauncherInv, OtherTypes
  <1>4. Alive("leader")' => Follows'
    BY <1>0, <1>1, <1>2 DEF LauncherInv, LeaderInv, Follows, Ebbs
  <1>5. ChildInv'
    BY <1>0, <1>1, <1>2 DEF LauncherInv, ChildInv, Ebbs
  <1>6. ProbeInv'
    BY <1>0, <1>1, <1>2 DEF LauncherInv, ProbeInv, Ebbs
  <1> QED
    BY <1>1, <1>3, <1>4, <1>5, <1>6, LeaderSide

LEMMA DeathKeeps ==
  ASSUME LauncherInv, UNCHANGED <<c, w, l, ch>>, NEW p \in Procs, Alive(p), NEW code, k' = Dead(k, p, code)
  PROVE  LauncherInv'
  <1>1. KernelTypes' /\ TreeInv' /\ Wanes
    BY DeadWanes DEF LauncherInv, Present
  <1> QED
    BY <1>1, KernelSide

LEMMA TouchKeeps ==
  ASSUME LauncherInv, UNCHANGED <<c, w, l, ch>>, Touched
  PROVE  LauncherInv'
  <1>1. KernelTypes' /\ TreeInv' /\ Wanes
    BY TouchedWanes DEF LauncherInv, Present
  <1> QED
    BY <1>1, KernelSide

\* Signals, gates, and the steps of the two gated processes.
LEMMA KernelKeeps ==
  ASSUME LauncherInv, NEW p \in Procs, Deliver(p) \/ GateOpens(p) \/ GateEnds(p) \/ Kill(p)
  PROVE  LauncherInv'
  <1>0. KernelTypes /\ UNCHANGED <<c, w, l, ch>> /\ TreeInv
    BY DEF LauncherInv, Deliver, GateOpens, GateEnds, Kill
  <1>1. CASE Deliver(p)
    <2>1. CASE k[p].sig = "kill" \/ ~k[p].deaf
      BY <1>0, <1>1, <2>1, DeathKeeps DEF Deliver
    <2>2. CASE ~(k[p].sig = "kill" \/ ~k[p].deaf)
      <3>1. Touched
        BY <1>0, <1>1, <2>2 DEF Deliver, Touched, KernelTypes, ProcFields
      <3> QED
        BY <1>0, <3>1, TouchKeeps
    <2> QED
      BY <2>1, <2>2
  <1>2. CASE GateOpens(p)
    <2>1. Moves(p, "live") /\ k[p].st = "gated" /\ k[p].gate = "open"
      BY <1>0, <1>2 DEF GateOpens, Moves, KernelTypes, ProcFields
    <2>2. KernelTypes' /\ TreeInv' /\ Wanes
      BY <1>0, <2>1, OpenedWanes DEF Present
    <2> QED
      BY <1>0, <2>2, KernelSide
  <1>3. CASE GateEnds(p)
    <2>1. Alive(p) /\ k' = Dead(k, p, "err")
      BY <1>3 DEF GateEnds, Alive
    <2> QED
      BY <1>0, <2>1, DeathKeeps
  <1>4. CASE Kill(p)
    <2>1. Touched
      BY <1>0, <1>4 DEF Kill, Touched, KernelTypes, ProcFields
    <2> QED
      BY <1>0, <2>1, TouchKeeps
  <1> QED
    BY <1>1, <1>2, <1>3, <1>4

LEMMA HelperKeeps ==
  ASSUME LauncherInv, HelperArms \/ HelperReleased \/ HelperEnds \/ KillHelper
  PROVE  LauncherInv'
  <1>0. "helper" \in Procs /\ KernelTypes /\ UNCHANGED <<c, w, l, ch>> /\ Alive("helper")
    BY ProcsAre DEF LauncherInv, HelperArms, HelperReleased, HelperEnds, KillHelper, HelperRuns,
       Alive
  <1>1. CASE \E code : k' = Dead(k, "helper", code)
    BY <1>0, <1>1, DeathKeeps
  <1>2. CASE ~\E code : k' = Dead(k, "helper", code)
    <2>1. \/ k' = [k EXCEPT !["helper"] = [@ EXCEPT !.armed = TRUE, !.sid = TRUE, !.pc = "ready"]]
          \/ k' = [k EXCEPT !["helper"].pc = "exec"] \/ k' = [k EXCEPT !["helper"].sig = "kill"]
      BY <1>2 DEF HelperArms, HelperReleased, HelperEnds, KillHelper
    <2>2. CASE k' = [k EXCEPT !["helper"] = [@ EXCEPT !.armed = TRUE, !.sid = TRUE, !.pc = "ready"]]
      BY <1>0, <2>2, TouchKeeps DEF Touched, KernelTypes, ProcFields
    <2>3. CASE k' = [k EXCEPT !["helper"].pc = "exec"]
      BY <1>0, <2>3, TouchKeeps DEF Touched, KernelTypes, ProcFields
    <2>4. CASE k' = [k EXCEPT !["helper"].sig = "kill"]
      BY <1>0, <2>4, TouchKeeps DEF Touched, KernelTypes, ProcFields
    <2> QED
      BY <2>1, <2>2, <2>3, <2>4
  <1> QED
    BY <1>1, <1>2

LEMMA ChildKeeps ==
  ASSUME LauncherInv, ChildStep
  PROVE  LauncherInv'
  <1>0. "child" \in Procs /\ KernelTypes /\ UNCHANGED <<c, w, l, ch>> /\ Alive("child")
    BY ProcsAre DEF LauncherInv, ChildStep, ChildArms, ChildConfines, ChildReleased, ChildEnds,
       ChildRuns, Alive
  <1>1. CASE \E code : k' = Dead(k, "child", code)
    BY <1>0, <1>1, DeathKeeps
  <1>2. CASE ~\E code : k' = Dead(k, "child", code)
    <2>1. \/ \E deaf : k' = [k EXCEPT !["child"] = [@ EXCEPT !.armed = TRUE, !.deaf = deaf, !.pc = "armed"]]
          \/ k' = [k EXCEPT !["child"].pc = "confined"] \/ k' = [k EXCEPT !["child"].pc = "paused"]
      BY <1>2 DEF ChildStep, ChildArms, ChildConfines, ChildReleased, ChildEnds
    <2>2. ASSUME NEW deaf, k' = [k EXCEPT !["child"] = [@ EXCEPT !.armed = TRUE, !.deaf = deaf, !.pc = "armed"]]
          PROVE  LauncherInv'
      BY <1>0, <2>2, TouchKeeps DEF Touched, KernelTypes, ProcFields
    <2>3. CASE k' = [k EXCEPT !["child"].pc = "confined"]
      BY <1>0, <2>3, TouchKeeps DEF Touched, KernelTypes, ProcFields
    <2>4. CASE k' = [k EXCEPT !["child"].pc = "paused"]
      BY <1>0, <2>4, TouchKeeps DEF Touched, KernelTypes, ProcFields
    <2> QED
      BY <2>1, <2>2, <2>3, <2>4
  <1> QED
    BY <1>1, <1>2

-----------------------------------------------------------------------------
(* The leader. *)

\* It moves on in its script, or fails; it says something, hears something.
LEMMA LeaderMoves ==
  ASSUME LauncherInv, UNCHANGED <<c, w>>, KernelTypes', TreeInv', Ebbs, Passed("helper")' => Passed("helper"),
         Present /\ Passed("child")' => Passed("child") \/ "child" \in Leased,
         DOMAIN l' = LeaderFields, l'.i \in Nat, l'.i > 0, Alive("leader")' => Follows',
         c.mode = "sandbox" => l'.i = l.i \/ l.i >= 2 \/ "C" \in ToSet(ch.tell),
         DOMAIN ch' = ChannelFields, ch'.ask = ch.ask, ch'.answer = ch.answer, ch'.issue = ch.issue,
         IsList(ch'.say), "transfer" \notin ToSet(ch'.say), IsList(ch'.tell), ToSet(ch'.tell) \subseteq ToSet(ch.tell)
  PROVE  LauncherInv'
  <1>0. "leader" \in Procs /\ "helper" \in Procs /\ "child" \in Procs
    BY ProcsAre
  <1>2. Leased' = Leased /\ Script' = Script /\ (Present' <=> Present) /\ (Window' <=> Window)
    BY CoordinatorKept
  <1>3. OtherTypes'
    BY DEF LauncherInv, OtherTypes
  <1>4. ChildInv'
    BY <1>0, <1>2 DEF LauncherInv, ChildInv, Ebbs
  <1>6. ProbeInv'
    BY <1>0, <1>2 DEF LauncherInv, ProbeInv, Ebbs
  <1> QED
    BY <1>3, <1>4, <1>6, LeaderSide

\* It stays where it is in its script.
LEMMA LeaderRests ==
  ASSUME LauncherInv, UNCHANGED <<c, w, ch>>, KernelTypes', TreeInv', Wanes, DOMAIN l' = LeaderFields,
         l'.i = l.i, l'.pc # "hear"
  PROVE  LauncherInv'
  <1>1. Script' = Script
    BY CoordinatorKept
  <1>2. Alive("leader")' => Follows'
    BY <1>1, ProcsAre DEF LauncherInv, LeaderInv, Follows, Wanes
  <1>3. l.i \in Nat /\ l.i > 0 /\ IsList(ch.say) /\ "transfer" \notin ToSet(ch.say) /\ DOMAIN ch = ChannelFields
        /\ IsList(ch.tell)
    BY DEF LauncherInv, OtherTypes, ChildInv
  <1>4. Ebbs /\ (Passed("helper")' => Passed("helper")) /\ (Passed("child")' => Passed("child"))
    BY ProcsAre, WanesEbbs
  <1> QED
    BY <1>2, <1>3, <1>4, LeaderMoves

LEMMA LeaderStartKeeps ==
  ASSUME LauncherInv, LeaderStart
  PROVE  LauncherInv'
  <1>1. KernelTypes /\ TreeInv /\ DOMAIN l = LeaderFields /\ UNCHANGED <<c, w, ch>> /\ "leader" \in Procs
    BY ProcsAre DEF LauncherInv, OtherTypes, LeaderStart
  <1>2. Touched
    BY <1>1 DEF LeaderStart, Touched, KernelTypes, ProcFields
  <1>3. KernelTypes' /\ TreeInv' /\ Wanes
    BY <1>1, <1>2, TouchedWanes DEF Present
  <1>4. DOMAIN l' = LeaderFields /\ l'.i = l.i /\ l'.pc = "say"
    BY <1>1 DEF LeaderStart, LeaderTo, LeaderFields
  <1> QED
    BY <1>1, <1>3, <1>4, LeaderRests

LEMMA FailingKeeps ==
  ASSUME LauncherInv, UNCHANGED <<k, c, w, ch>>, l' = Failing(l)
  PROVE  LauncherInv'
  <1>1. KernelTypes /\ TreeInv /\ DOMAIN l = LeaderFields
    BY DEF LauncherInv, OtherTypes
  <1>2. KernelTypes' /\ TreeInv' /\ Wanes
    BY <1>1, SameWanes DEF Present
  <1>3. DOMAIN l' = LeaderFields /\ l'.i = l.i /\ l'.pc = "unwind"
    BY <1>1 DEF Failing, LeaderFields
  <1> QED
    BY <1>2, <1>3, LeaderRests

LEMMA LeaderExitKeeps ==
  ASSUME LauncherInv, LeaderExit
  PROVE  LauncherInv'
  <1>1. KernelTypes /\ TreeInv /\ DOMAIN l = LeaderFields /\ UNCHANGED <<c, w, ch>> /\ "leader" \in Procs
        /\ Alive("leader")
    BY ProcsAre DEF LauncherInv, OtherTypes, LeaderExit, Leads, Alive
  <1>2. \E code : k' = Dead(k, "leader", code)
    BY DEF LeaderExit
  <1>3. KernelTypes' /\ TreeInv' /\ Wanes
    BY <1>1, <1>2, DeadWanes DEF Present
  <1>4. DOMAIN l' = LeaderFields /\ l'.i = l.i /\ l'.pc = "done"
    BY <1>1 DEF LeaderExit, LeaderTo, LeaderFields
  <1> QED
    BY <1>1, <1>3, <1>4, LeaderRests

\* The channel after a packet that is not the transfer.
LEMMA SaidChannel ==
  ASSUME OtherTypes, ChildInv, NEW say, ch' = Sent(say)
  PROVE  /\ DOMAIN ch' = ChannelFields /\ ch'.ask = ch.ask /\ ch'.answer = ch.answer /\ ch'.issue = ch.issue
         /\ ch'.tell = ch.tell /\ IsList(ch'.say) /\ "transfer" \notin ToSet(ch'.say) /\ IsList(ch'.tell)
  <1>0. DOMAIN ch = ChannelFields /\ IsList(ch.say) /\ "transfer" \notin ToSet(ch.say) /\ IsList(ch.tell)
    BY DEF OtherTypes, ChildInv
  <1>1. CASE say = "transfer"
    <2>1. ch' = [ch EXCEPT !.transfer = TRUE]
      BY <1>1 DEF Sent
    <2> QED
      BY <1>0, <2>1 DEF ChannelFields
  <1>2. CASE say # "transfer"
    <2>1. ch' = [ch EXCEPT !.say = Append(@, say)]
      BY <1>2 DEF Sent
    <2>2. /\ DOMAIN ch' = ChannelFields /\ ch'.ask = ch.ask /\ ch'.answer = ch.answer /\ ch'.issue = ch.issue
          /\ ch'.tell = ch.tell /\ ch'.say = Append(ch.say, say)
      BY <1>0, <2>1 DEF ChannelFields
    <2>3. IsList(ch'.say) /\ ToSet(ch'.say) = ToSet(ch.say) \cup {say}
      BY <1>0, <2>2, ListOfAppend
    <2> QED
      BY <1>0, <1>2, <2>2, <2>3
  <1> QED
    BY <1>1, <1>2

LEMMA LeaderUnwindKeeps ==
  ASSUME LauncherInv, LeaderUnwind
  PROVE  LauncherInv'
  <1>0. KernelTypes /\ TreeInv /\ OtherTypes /\ ChildInv /\ DOMAIN l = LeaderFields /\ UNCHANGED <<c, w>>
        /\ "child" \in Procs /\ "leader" \in Procs
    BY ProcsAre DEF LauncherInv, OtherTypes, LeaderUnwind
  <1>1. CASE /\ UNCHANGED <<l, ch>>
             /\ k' = [k EXCEPT !["child"].sig = "kill", !["child"].gate = IF @ = "shut" THEN "eof" ELSE @]
    <2>1. Touched
      BY <1>0, <1>1 DEF Touched, KernelTypes, ProcFields
    <2> QED
      BY <1>0, <1>1, <2>1, TouchKeeps
  <1>2. CASE /\ k' = IF l.local /\ k["child"].st = "zombie" THEN Reaped("child") ELSE k
             /\ LeaderTo([l EXCEPT !.local = FALSE], "exit")
             /\ ch' = Sent("Z") \/ ch' = Sent("Zu")
    <2>1. KernelTypes' /\ TreeInv' /\ Wanes
      <3>1. CASE l.local /\ k["child"].st = "zombie"
        <4>1. k' = Reaped("child") /\ k["child"].st = "zombie"
          BY <1>2, <3>1
        <4> QED
          BY <1>0, <4>1, ReapedWanes DEF Present
      <3>2. CASE ~(l.local /\ k["child"].st = "zombie")
        <4>1. UNCHANGED k
          BY <1>2, <3>2
        <4> QED
          BY <1>0, <4>1, SameWanes DEF Present
      <3> QED
        BY <3>1, <3>2
    <2>2. DOMAIN l' = LeaderFields /\ l'.i = l.i /\ l'.pc = "exit"
      BY <1>0, <1>2 DEF LeaderTo, LeaderFields
    <2>3. /\ DOMAIN ch' = ChannelFields /\ ch'.ask = ch.ask /\ ch'.answer = ch.answer /\ ch'.issue = ch.issue
          /\ ch'.tell = ch.tell /\ IsList(ch'.say) /\ "transfer" \notin ToSet(ch'.say) /\ IsList(ch'.tell)
      BY <1>0, <1>2, SaidChannel
    <2>4. Alive("leader")' => Follows'
      <3>1. Script' = Script
        BY <1>0, CoordinatorKept
      <3> QED
        BY <1>0, <2>1, <2>2, <3>1 DEF LauncherInv, LeaderInv, Follows, Wanes
    <2>5. l.i \in Nat /\ l.i > 0
      BY <1>0 DEF OtherTypes
    <2>6. Ebbs /\ (Passed("helper")' => Passed("helper")) /\ (Passed("child")' => Passed("child"))
      BY <2>1, ProcsAre, WanesEbbs
    <2> QED
      BY <1>0, <2>1, <2>2, <2>3, <2>4, <2>5, <2>6, LeaderMoves
  <1> QED
    BY <1>1, <1>2 DEF LeaderUnwind

\* What it reaps when it says so is a zombie.
LEMMA ReapsZombie ==
  ASSUME CoordinatorTypes, NEW s \in 1..Len(Script), Reaps(Script[s].say), Ready(Script[s].say)
  PROVE  k["child"].st = "zombie"
  <1>1. \/ Full /\ Script[s].say = "exit"
        \/ c.mode = "sandbox" /\ Script[s].say = "E"
    BY ScriptMeans
  <1>2. CASE Full /\ Script[s].say = "exit"
    <2>1. ToolReady("exit")
      BY <1>2 DEF Ready, Full
    <2> QED
      BY <2>1 DEF ToolReady
  <1>3. CASE c.mode = "sandbox" /\ Script[s].say = "E"
    <2>1. ProbeReady("E")
      BY <1>3 DEF Ready, Full
    <2> QED
      BY <2>1 DEF ProbeReady
  <1> QED
    BY <1>1, <1>2, <1>3

LEMMA LeaderSayKeeps ==
  ASSUME LauncherInv, LeaderSay
  PROVE  LauncherInv'
  <1>0. KernelTypes /\ TreeInv /\ OtherTypes /\ ChildInv /\ DOMAIN l = LeaderFields /\ UNCHANGED <<c, w>>
        /\ "child" \in Procs /\ "leader" \in Procs /\ "helper" \in Procs /\ CoordinatorTypes
    BY ProcsAre DEF LauncherInv, OtherTypes, LeaderSay
  <1>1. Follows /\ Ready(Script[l.i].say)
    BY DEF LeaderSay, Leads, LauncherInv, LeaderInv, Alive
  <1>2. l.i \in 1..Len(Script) /\ Len(Script) \in Nat /\ Len(Script) > 2
    BY <1>0, <1>1, ScriptMeans DEF Follows
  <1>3. CASE l' = Failing(l) /\ UNCHANGED <<k, ch>>
    BY <1>0, <1>3, FailingKeeps
  <1>4. CASE /\ ch' = Sent(Script[l.i].say)
             /\ k' = IF Reaps(Script[l.i].say) THEN Reaped("child") ELSE k
             /\ l' = [l EXCEPT !.local = IF Reaps(Script[l.i].say) THEN FALSE ELSE @,
                               !.gate = IF Script[l.i] = Says("T", "none") THEN "open" ELSE @,
                               !.pc = IF Script[l.i].hears # "none" THEN "hear"
                                      ELSE IF l.i = Len(Script) THEN "exit" ELSE "say",
                               !.i = IF Script[l.i].hears = "none" /\ l.i < Len(Script) THEN @ + 1 ELSE @]
    <2>1. KernelTypes' /\ TreeInv' /\ Wanes
      <3>1. CASE Reaps(Script[l.i].say)
        <4>1. k' = Reaped("child") /\ k["child"].st = "zombie"
          BY <1>0, <1>1, <1>2, <1>4, <3>1, ReapsZombie
        <4> QED
          BY <1>0, <4>1, ReapedWanes DEF Present
      <3>2. CASE ~Reaps(Script[l.i].say)
        <4>1. UNCHANGED k
          BY <1>4, <3>2
        <4> QED
          BY <1>0, <4>1, SameWanes DEF Present
      <3> QED
        BY <3>1, <3>2
    <2>2. Ebbs /\ (Passed("helper")' => Passed("helper")) /\ (Passed("child")' => Passed("child"))
      BY <1>0, <2>1, WanesEbbs
    <2>3. /\ DOMAIN ch' = ChannelFields /\ ch'.ask = ch.ask /\ ch'.answer = ch.answer /\ ch'.issue = ch.issue
          /\ ch'.tell = ch.tell /\ IsList(ch'.say) /\ "transfer" \notin ToSet(ch'.say) /\ IsList(ch'.tell)
      <3>1. ch' = Sent(Script[l.i].say)
        BY <1>4
      <3> QED
        BY <1>0, <3>1, SaidChannel
    <2>4. /\ DOMAIN l' = LeaderFields
          /\ l'.i = IF Script[l.i].hears = "none" /\ l.i < Len(Script) THEN l.i + 1 ELSE l.i
          /\ l'.pc = "hear" => Script[l.i].hears # "none"
      BY <1>0, <1>4 DEF LeaderFields
    <2>5. l'.i \in 1..Len(Script) /\ (l'.pc = "hear" => l'.i = l.i /\ Script[l.i].hears # "none")
      BY <1>2, <2>4
    <2>6. Follows'
      <3>1. Script' = Script
        BY <1>0, CoordinatorKept
      <3> QED
        BY <2>5, <3>1 DEF Follows
    <2>7. l'.i \in Nat /\ l'.i > 0
      BY <1>2, <2>5
    <2>8. c.mode = "sandbox" => l'.i = l.i \/ l.i >= 2
      <3>1. CASE c.mode = "sandbox" /\ l.i = 1
        <4>1. Script[l.i].hears = "C"
          BY <1>0, <1>2, <3>1, ScriptMeans
        <4> QED
          BY <2>4, <4>1
      <3>2. l.i = 1 \/ l.i >= 2
        BY <1>2
      <3> QED
        BY <3>1, <3>2
    <2> QED
      BY <1>0, <2>1, <2>2, <2>3, <2>4, <2>6, <2>7, <2>8, LeaderMoves
  <1> QED
    BY <1>3, <1>4 DEF LeaderSay

\* The gate of the child opens: it is behind it still, and leased.
LEMMA AcceptedOpens ==
  ASSUME KernelTypes, TreeInv, ChildInv, Present' <=> Present, "A" \in ToSet(ch.tell),
         k' = [k EXCEPT !["child"].gate = IF @ = "shut" THEN "open" ELSE @]
  PROVE  /\ KernelTypes' /\ TreeInv' /\ Ebbs /\ (Passed("helper")' => Passed("helper"))
         /\ Present /\ Passed("child")' => "child" \in Leased
  <1>0. "helper" \in Procs /\ "child" \in Procs
    BY ProcsAre
  <1>1. /\ DOMAIN k' = Procs
        /\ \A q \in Procs : /\ DOMAIN k'[q] = ProcFields /\ k'[q].st = k[q].st /\ k'[q].par = k[q].par
                            /\ q # "child" => k'[q].gate = k[q].gate
    BY <1>0 DEF KernelTypes, ProcFields
  <1>2. KernelTypes'
    BY <1>1 DEF KernelTypes
  <1>3. \A q \in Procs : (Exists(q)' <=> Exists(q)) /\ (Alive(q)' <=> Alive(q))
    BY <1>1 DEF Exists, Alive
  <1>4. TreeInv'
    BY <1>1, <1>3, ProcsAre DEF TreeInv
  <1>5. Ebbs
    BY <1>1, <1>3 DEF Ebbs
  <1>6. Passed("helper")' => Passed("helper")
    BY <1>0, <1>1 DEF Passed
  <1>7. Passed("child")' => Alive("child")
    BY <1>0, <1>1 DEF Passed, Alive
  <1> QED
    BY <1>2, <1>4, <1>5, <1>6, <1>7 DEF ChildInv

LEMMA LeaderHearKeeps ==
  ASSUME LauncherInv, LeaderHear
  PROVE  LauncherInv'
  <1>0. KernelTypes /\ TreeInv /\ OtherTypes /\ ChildInv /\ DOMAIN l = LeaderFields /\ UNCHANGED <<c, w>>
        /\ "child" \in Procs /\ "leader" \in Procs /\ "helper" \in Procs /\ CoordinatorTypes
        /\ DOMAIN ch = ChannelFields /\ IsList(ch.tell) /\ ch.tell # <<>>
    BY ProcsAre DEF LauncherInv, OtherTypes, LeaderHear
  <1>1. Follows /\ l.pc = "hear"
    BY DEF LeaderHear, Leads, LauncherInv, LeaderInv, Alive
  <1>2. /\ l.i \in 1..Len(Script) /\ Script[l.i].hears # "none" /\ Len(Script) \in Nat
        /\ Script[Len(Script)].hears \in {"none", "X"}
    BY <1>0, <1>1, ScriptMeans DEF Follows
  <1>3. /\ DOMAIN ch' = ChannelFields /\ ch'.ask = ch.ask /\ ch'.answer = ch.answer /\ ch'.issue = ch.issue
        /\ ch'.say = ch.say /\ ch'.tell = Tail(ch.tell)
    BY <1>0 DEF LeaderHear, ChannelFields
  <1>4. IsList(ch'.tell) /\ ToSet(ch'.tell) \subseteq ToSet(ch.tell) /\ Head(ch.tell) \in ToSet(ch.tell)
    BY <1>0, <1>3, ListOfTail
  <1>5. IsList(ch'.say) /\ "transfer" \notin ToSet(ch'.say)
    BY <1>0, <1>3 DEF OtherTypes, ChildInv
  <1>6. Script' = Script /\ (Present' <=> Present)
    BY <1>0, CoordinatorKept
  <1>7. /\ KernelTypes' /\ TreeInv' /\ Ebbs /\ (Passed("helper")' => Passed("helper"))
        /\ Present /\ Passed("child")' => Passed("child") \/ "child" \in Leased
    <2>1. CASE k' = [k EXCEPT !["child"].gate = IF @ = "shut" THEN "open" ELSE @] /\ Head(ch.tell) = "A"
      BY <1>0, <1>4, <1>6, <2>1, AcceptedOpens
    <2>2. CASE UNCHANGED k
      BY <1>0, <1>6, <2>2, SameWanes, WanesEbbs
    <2> QED
      BY <2>1, <2>2 DEF LeaderHear
  <1>8. /\ DOMAIN l' = LeaderFields /\ l'.pc # "hear"
        /\ \/ l'.i = l.i
           \/ l'.i = l.i + 1 /\ Head(ch.tell) = Script[l.i].hears /\ Head(ch.tell) # "X"
    <2>1. CASE Head(ch.tell) = Script[l.i].hears
      <3>1. l' = [l EXCEPT !.local = IF Head(ch.tell) = "A" /\ ~Full THEN FALSE ELSE @,
                           !.gate = IF Head(ch.tell) = "F" THEN "open" ELSE @,
                           !.pc = IF Head(ch.tell) = "X" THEN "exit" ELSE "say",
                           !.i = IF Head(ch.tell) = "X" THEN @ ELSE @ + 1]
        BY <2>1 DEF LeaderHear
      <3> QED
        BY <1>0, <2>1, <3>1 DEF LeaderFields
    <2>2. CASE Head(ch.tell) # Script[l.i].hears
      <3>1. l' = Failing(l)
        BY <2>2 DEF LeaderHear
      <3> QED
        BY <1>0, <3>1 DEF Failing, LeaderFields
    <2> QED
      BY <2>1, <2>2
  <1>9. l'.i \in 1..Len(Script) /\ l'.i \in Nat /\ l'.i > 0
    <2>1. l'.i = l.i + 1 => l.i # Len(Script)
      BY <1>2, <1>8
    <2> QED
      BY <1>2, <1>8, <2>1
  <1>10. Follows'
    BY <1>6, <1>8, <1>9 DEF Follows
  <1>11. c.mode = "sandbox" => l'.i = l.i \/ l.i >= 2 \/ "C" \in ToSet(ch.tell)
    <2>1. CASE c.mode = "sandbox" /\ l.i = 1 /\ l'.i # l.i
      <3>1. Script[l.i].hears = "C"
        BY <1>0, <1>2, <2>1, ScriptMeans
      <3> QED
        BY <1>4, <1>8, <2>1, <3>1
    <2>2. l.i = 1 \/ l.i >= 2
      BY <1>2
    <2> QED
      BY <2>1, <2>2
  <1> QED
    BY <1>0, <1>3, <1>4, <1>5, <1>7, <1>8, <1>9, <1>10, <1>11, LeaderMoves

\* The child appears behind its gate, where the script hands it over.
LEMMA LeaderSpawnKeeps ==
  ASSUME LauncherInv, LeaderSpawn
  PROVE  LauncherInv'
  <1>0. KernelTypes /\ TreeInv /\ OtherTypes /\ ChildInv /\ DOMAIN l = LeaderFields /\ UNCHANGED <<c, w, ch>>
        /\ CoordinatorTypes
    BY DEF LauncherInv, OtherTypes, LeaderSpawn
  <1>1. Follows /\ k["leader"].st = "live" /\ k["child"].st = "none" /\ Script[l.i].say = "transfer"
    BY DEF LeaderSpawn, Leads, LauncherInv, LeaderInv, Alive
  <1>2. /\ CoordinatorTypes' /\ OnceInv' /\ LeasesInv' /\ HearInv' /\ CoverInv' /\ RootInv'
        /\ Leased' = Leased /\ Script' = Script /\ (Full' <=> Full) /\ (Present' <=> Present) /\ (Window' <=> Window)
    BY <1>0, CoordinatorKept
  <1>3. /\ DOMAIN k' = Procs /\ \A p \in Procs \ {"child"} : k'[p] = k[p]
        /\ DOMAIN k'["child"] = ProcFields /\ k'["child"].st = "gated" /\ k'["child"].par = "leader"
        /\ k'["child"].gate = "shut"
    BY <1>0, ProcsAre DEF LeaderSpawn, Spawned, Absent, ProcFields, KernelTypes
  <1>4. /\ k'["worker"] = k["worker"] /\ k'["leader"] = k["leader"] /\ k'["helper"] = k["helper"]
    BY <1>3, ProcsAre
  <1>5. /\ \A p \in Procs \ {"child"} : (Exists(p)' <=> Exists(p)) /\ (Alive(p)' <=> Alive(p))
        /\ (Passed("helper")' <=> Passed("helper")) /\ Exists("child")' /\ ~Passed("child")'
    BY <1>3, <1>4 DEF Exists, Alive, Passed
  <1>6. KernelTypes'
    BY <1>0, <1>3 DEF KernelTypes
  <1>7. TreeInv'
    <2>1. ASSUME NEW p \in Procs
          PROVE  /\ k'[p].st = "none" => k'[p].par = "none"
                 /\ Exists(p)' =>
                       /\ p \in Creators => k'[p].par \in {"C", "init"}
                       /\ p = "helper" => k'[p].par \in {"worker", "C", "init"}
                       /\ p = "child" => k'[p].par \in {"leader", "C", "init"}
                       /\ Present' => k'[p].par # "init"
      BY <1>0, <1>2, <1>3, <1>5, ProcsAre DEF TreeInv
    <2>2. ASSUME NEW p \in Procs, Exists(p)', k'[p].par \in Creators
          PROVE  k'[k'[p].par].st \in {"gated", "live"}
      BY <1>0, <1>1, <1>3, <1>4, <1>5, <2>2, ProcsAre DEF TreeInv, Alive
    <2>3. (Alive("worker") /\ Exists("helper") => k["helper"].par = "worker")'
      BY <1>0, <1>4, <1>5, ProcsAre DEF TreeInv
    <2> QED
      BY <2>1, <2>2, <2>3 DEF TreeInv, Alive
  <1>8. DOMAIN l' = LeaderFields /\ l'.i = l.i /\ l'.pc = l.pc
    BY <1>0 DEF LeaderSpawn, LeaderFields
  <1>9. OtherTypes'
    BY <1>0, <1>8 DEF OtherTypes
  <1>10. ModeInv'
    BY <1>0, <1>2, <1>4 DEF LauncherInv, ModeInv
  <1>11. LeaderInv'
    <2>1. Follows'
      BY <1>1, <1>2, <1>8 DEF Follows
    <2> QED
      BY <1>0, <1>1, <1>2, <1>5, <2>1, ProcsAre DEF LauncherInv, LeaderInv
  <1>12. AskInv'
    BY <1>0 DEF LauncherInv, AskInv
  <1>13. HelperInv'
    BY <1>0, <1>2, <1>5, ProcsAre DEF LauncherInv, HelperInv
  <1>14. ChildInv'
    BY <1>0, <1>1, <1>2, <1>3, <1>5 DEF ChildInv
  <1>15. ProbeInv'
    <2>1. c.mode = "sandbox" => l.i >= 2
      <3>1. l.i \in 1..Len(Script)
        BY <1>1 DEF Follows
      <3>2. c.mode = "sandbox" => l.i = 2
        BY <1>0, <1>1, <3>1, ScriptMeans
      <3> QED
        BY <3>2
    <2> QED
      BY <1>0, <1>1, <1>2, <1>3, <2>1 DEF LauncherInv, ProbeInv, Alive
  <1>16. ReportInv'
    BY <1>0, <1>5, ProcsAre DEF LauncherInv, ReportInv, ReportExact, RowsExact
  <1>17. CertainMeansRestored'
    BY <1>0, <1>1, ProcsAre DEF LauncherInv, CertainMeansRestored
  <1> QED
    BY <1>2, <1>6, <1>7, <1>9, <1>10, <1>11, <1>12, <1>13, <1>14, <1>15, <1>16, <1>17 DEF
       LauncherInv

LEMMA LeaderKeeps ==
  ASSUME LauncherInv, LeaderStep
  PROVE  LauncherInv'
  <1>1. CASE LeaderFails \/ LeaderSees \/ LeaderAbandoned
    <2>1. UNCHANGED <<k, c, w, ch>> /\ l' = Failing(l)
      BY <1>1 DEF LeaderFails, LeaderSees, LeaderAbandoned
    <2> QED
      BY <2>1, FailingKeeps
  <1> QED
    BY <1>1, LeaderStartKeeps, LeaderSayKeeps, LeaderHearKeeps, LeaderSpawnKeeps,
       LeaderUnwindKeeps, LeaderExitKeeps
       DEF LeaderStep

-----------------------------------------------------------------------------
(* The worker. *)

\* A worker that has not failed has asked nothing it does not wait for, and
\* nothing was issued before it says so.
LEMMA WorkerBefore ==
  ASSUME LauncherInv, k["worker"].st = "live"
  PROVE  /\ Alive("worker") /\ KernelTypes /\ TreeInv /\ DOMAIN w = WorkerFields /\ DOMAIN ch = ChannelFields
         /\ AskInv /\ HelperInv /\ ReportInv /\ "worker" \in Procs /\ "helper" \in Procs /\ "child" \in Procs
         /\ w.pc \notin Ending => ~w.err
         /\ ~w.err /\ w.pc # "registering" => ch.ask # "register" /\ ch.answer # "registered"
         /\ ~w.err /\ w.pc # "retiring" => ch.ask # "retire" /\ ch.answer # "retired"
         /\ w.pc \notin Issued => ch.issue # "packet" /\ c.report = NoReport
         /\ Present /\ w.pc \in Alone => "helper" \notin Leased
  BY ProcsAre DEF LauncherInv, OtherTypes, AskInv, HelperInv, ReportInv, Alive

\* A step that leaves the kernel alone.
LEMMA WorkerThinks ==
  ASSUME LauncherInv, UNCHANGED <<k, c, l>>, DOMAIN w' = WorkerFields, DOMAIN ch' = ChannelFields,
         ch'.say = ch.say, ch'.tell = ch.tell, AskInv', HelperInv', ReportInv'
  PROVE  LauncherInv'
  <1>1. KernelTypes' /\ TreeInv' /\ Wanes
    BY SameWanes DEF LauncherInv, Present
  <1>2. Ebbs /\ (Passed("child")' => Passed("child"))
    BY <1>1, ProcsAre, WanesEbbs
  <1> QED
    BY <1>1, <1>2, WorkerSide

LEMMA SameProcesses ==
  ASSUME UNCHANGED <<k, c>>
  PROVE  /\ Leased' = Leased /\ (Present' <=> Present)
         /\ \A p : (Exists(p)' <=> Exists(p)) /\ (Alive(p)' <=> Alive(p)) /\ (Passed(p)' <=> Passed(p))
  BY DEF Leased, Present, Exists, Alive, Passed

\* Whatever fails, the worker closes what it has; an answer may be read.
LEMMA ClosingKeeps ==
  ASSUME LauncherInv, UNCHANGED <<k, c, l>>, w' = Closing, DOMAIN ch' = ChannelFields,
         ch'.say = ch.say, ch'.tell = ch.tell, ch'.ask = ch.ask, ch'.answer = ch.answer, ch'.issue = ch.issue
  PROVE  LauncherInv'
  <1>0. DOMAIN w = WorkerFields /\ KernelTypes /\ AskInv /\ HelperInv /\ ReportInv /\ "helper" \in Procs
    BY ProcsAre DEF LauncherInv, OtherTypes
  <1>1. /\ DOMAIN w' = WorkerFields /\ w'.err = TRUE /\ w'.first = w.first /\ w'.report = w.report
        /\ w'.pc = IF k["helper"].st \in {"none", "gone"} THEN "poison" ELSE "stop"
    <2>1. CASE k["helper"].st \in {"none", "gone"}
      BY <1>0, <2>1 DEF Closing, WorkerFields
    <2>2. CASE k["helper"].st \notin {"none", "gone"}
      BY <1>0, <2>2 DEF Closing, WorkerFields
    <2> QED
      BY <2>1, <2>2
  <1>2. w'.pc \in {"poison", "stop"} /\ (~Exists("helper") => w'.pc = "poison")
    BY <1>0, <1>1 DEF KernelTypes, Exists
  <1>3. /\ Leased' = Leased /\ (Present' <=> Present)
        /\ \A p : (Exists(p)' <=> Exists(p)) /\ (Alive(p)' <=> Alive(p)) /\ (Passed(p)' <=> Passed(p))
    BY SameProcesses
  <1>4. AskInv'
    BY <1>0, <1>1, <1>2 DEF AskInv, Ending
  <1>5. HelperInv'
    BY <1>0, <1>1, <1>2, <1>3 DEF HelperInv, Alone
  <1>6. ReportInv'
    BY <1>0, <1>1, <1>2, <1>3 DEF ReportInv, Issued, ReportExact, RowsExact
  <1> QED
    BY <1>1, <1>4, <1>5, <1>6, WorkerThinks

\* Its way through a preparation, as long as it knows of no helper.
LEMMA PreparesKeeps ==
  ASSUME LauncherInv, k["worker"].st = "live", UNCHANGED <<c, l, ch>>, KernelTypes', TreeInv', Wanes,
         w.pc \in Alone, DOMAIN w' = WorkerFields, w'.pc \in Alone, w'.err = w.err,
         w'.pc = "issue" /\ c.mode = "runtime" => w'.first = w'.report
  PROVE  LauncherInv'
  <1>0. /\ Alive("worker") /\ DOMAIN ch = ChannelFields
        /\ AskInv /\ HelperInv /\ "worker" \in Procs /\ "helper" \in Procs /\ "child" \in Procs
    BY WorkerBefore
  <1>1. ~w.err /\ w'.pc \notin Ending \cup Issued \cup {"registering", "retiring", "observe"}
        /\ w.pc \notin {"registering", "retiring"}
    BY WorkerBefore DEF Alone, Ending, Issued
  <1>2. ch.issue # "packet" /\ c.report = NoReport
    BY WorkerBefore DEF Alone, Issued
  <1>3. /\ ch.ask # "register" /\ ch.answer # "registered" /\ ch.ask # "retire" /\ ch.answer # "retired"
        /\ Present => "helper" \notin Leased
    BY <1>1, WorkerBefore
  <1>4. Leased' = Leased /\ (Present' <=> Present)
    BY DEF Leased, Present
  <1>5. Ebbs /\ (Passed("child")' => Passed("child")) /\ (Passed("helper")' => Passed("helper"))
    BY <1>0, WanesEbbs
  <1>6. AskInv'
    BY <1>1, <1>3 DEF AskInv, Ending
  <1>7. HelperInv'
    BY <1>0, <1>1, <1>3, <1>4, <1>5 DEF HelperInv, Ending
  <1>8. ReportInv'
    BY <1>2 DEF ReportInv
  <1> QED
    BY <1>0, <1>5, <1>6, <1>7, <1>8, WorkerSide

LEMMA PreparationKeeps ==
  ASSUME LauncherInv,
         \/ ClaimAdmission \/ ResolveOnce \/ ResolveTool \/ EnforceAliases \/ NextTool
         \/ SealObject \/ BuildBundle \/ ConstructReport \/ CompareReports
  PROVE  LauncherInv'
  <1>0. k["worker"].st = "live" /\ UNCHANGED <<k, c, l, ch>> /\ DOMAIN w = WorkerFields /\ DOMAIN ch = ChannelFields
    BY DEF LauncherInv, OtherTypes, ClaimAdmission, ResolveOnce, ResolveTool, EnforceAliases,
       NextTool, SealObject,
           BuildBundle, ConstructReport, CompareReports, Worker
  <1>1. KernelTypes' /\ TreeInv' /\ Wanes
    BY <1>0, SameWanes DEF LauncherInv, Present
  <1>2. CASE w' = Closing
    BY <1>0, <1>2, ClosingKeeps
  <1>3. CASE w' # Closing
    <2>1. w.pc \in Alone
      BY DEF ClaimAdmission, ResolveOnce, ResolveTool, EnforceAliases, NextTool, SealObject,
             BuildBundle, ConstructReport, CompareReports, Worker, Alone
    <2>2. /\ DOMAIN w' = WorkerFields /\ w'.pc \in Alone /\ w'.err = w.err
          /\ w'.pc = "issue" /\ c.mode = "runtime" => w'.first = w'.report
      <3>1. CASE ClaimAdmission
        BY <1>0, <1>3, <3>1 DEF ClaimAdmission, WorkerTo, WorkerFields, Alone
      <3>2. CASE ResolveOnce
        BY <1>0, <1>3, <3>2 DEF ResolveOnce, WorkerTo, WorkerFields, Alone
      <3>3. CASE ResolveTool
        BY <1>0, <1>3, <3>3 DEF ResolveTool, WorkerTo, WorkerFields, Alone
      <3>4. CASE EnforceAliases
        BY <1>0, <1>3, <3>4 DEF EnforceAliases, WorkerTo, WorkerFields, Alone
      <3>5. CASE NextTool
        BY <1>0, <1>3, <3>5 DEF NextTool, WorkerTo, WorkerFields, Alone
      <3>6. CASE SealObject
        BY <1>0, <1>3, <3>6 DEF SealObject, WorkerTo, WorkerFields, Alone
      <3>7. CASE BuildBundle
        BY <1>0, <1>3, <3>7 DEF BuildBundle, WorkerTo, WorkerFields, Alone
      <3>8. CASE ConstructReport
        BY <1>0, <1>3, <3>8 DEF ConstructReport, WorkerTo, WorkerFields, Alone
      <3>9. CASE CompareReports
        <4>1. CASE w.n < Preparations
          <5>1. w' = [[w EXCEPT !.n = @ + 1, !.first = w.report, !.report = NoReport, !.owner = "CLOSED"]
                        EXCEPT !.pc = "claim"]
            BY <1>3, <3>9, <4>1 DEF CompareReports, WorkerTo
          <5> QED
            BY <1>0, <5>1 DEF WorkerFields, Alone
        <4>2. CASE ~(w.n < Preparations)
          <5>1. w' = [w EXCEPT !.pc = "issue"] /\ (Preparations = 1 \/ w.first = w.report)
            BY <1>3, <3>9, <4>2 DEF CompareReports, WorkerTo
          <5>2. c.mode = "runtime" => w.first = w.report
            BY <5>1 DEF Preparations
          <5> QED
            BY <1>0, <5>1, <5>2 DEF WorkerFields, Alone
        <4> QED
          BY <4>1, <4>2
      <3> QED
        BY <3>1, <3>2, <3>3, <3>4, <3>5, <3>6, <3>7, <3>8, <3>9
    <2> QED
      BY <1>0, <1>1, <2>1, <2>2, PreparesKeeps
  <1> QED
    BY <1>2, <1>3

LEMMA WorkerStartKeeps ==
  ASSUME LauncherInv, WorkerStart
  PROVE  LauncherInv'
  <1>0. /\ k["worker"].st = "live" /\ w.pc = "start" /\ UNCHANGED <<c, l, ch>> /\ DOMAIN w = WorkerFields
        /\ KernelTypes /\ TreeInv /\ "worker" \in Procs
    BY ProcsAre DEF LauncherInv, OtherTypes, WorkerStart, Worker
  <1>1. Touched
    BY <1>0 DEF WorkerStart, Touched, KernelTypes, ProcFields
  <1>2. KernelTypes' /\ TreeInv' /\ Wanes
    BY <1>0, <1>1, TouchedWanes DEF Present
  <1>3. DOMAIN w' = WorkerFields /\ w'.pc = "claim" /\ w'.err = w.err
    BY <1>0 DEF WorkerStart, WorkerTo, WorkerFields
  <1> QED
    BY <1>0, <1>2, <1>3, PreparesKeeps DEF Alone

LEMMA SourcesChangeKeeps ==
  ASSUME LauncherInv, SourcesChange
  PROVE  LauncherInv'
  <1>0. /\ UNCHANGED <<k, c, l, ch>> /\ DOMAIN w = WorkerFields /\ DOMAIN ch = ChannelFields
        /\ AskInv /\ HelperInv /\ ReportInv
    BY DEF LauncherInv, OtherTypes, SourcesChange
  <1>1. /\ DOMAIN w' = WorkerFields /\ w'.pc = w.pc /\ w'.err = w.err /\ w'.token = w.token
        /\ w'.first = w.first /\ w'.report = w.report
    BY <1>0 DEF SourcesChange, WorkerFields
  <1>2. /\ Leased' = Leased /\ (Present' <=> Present)
        /\ \A p : (Exists(p)' <=> Exists(p)) /\ (Alive(p)' <=> Alive(p)) /\ (Passed(p)' <=> Passed(p))
    BY <1>0, SameProcesses
  <1>3. AskInv'
    BY <1>0, <1>1 DEF AskInv
  <1>4. HelperInv'
    BY <1>0, <1>1, <1>2 DEF HelperInv
  <1>5. ReportInv'
    BY <1>0, <1>1, <1>2 DEF ReportInv, ReportExact, RowsExact
  <1> QED
    BY <1>0, <1>1, <1>3, <1>4, <1>5, WorkerThinks

\* The helper appears behind its gate, unknown to the coordinator.
LEMMA SpawnHelperKeeps ==
  ASSUME LauncherInv, SpawnHelper
  PROVE  LauncherInv'
  <1>0. /\ k["worker"].st = "live" /\ w.pc = "spawn" /\ UNCHANGED <<c, l, ch>> /\ DOMAIN w = WorkerFields
        /\ KernelTypes /\ TreeInv /\ OtherTypes
    BY DEF LauncherInv, OtherTypes, SpawnHelper, Worker
  <1>1. ~w.err /\ ch.issue # "packet" /\ c.report = NoReport /\ (Present => "helper" \notin Leased)
        /\ ch.ask # "register" /\ ch.answer # "registered" /\ ch.ask # "retire" /\ ch.answer # "retired"
    BY <1>0, WorkerBefore DEF Alone, Ending, Issued
  <1>2. /\ CoordinatorTypes' /\ OnceInv' /\ LeasesInv' /\ HearInv' /\ CoverInv' /\ RootInv'
        /\ Leased' = Leased /\ Script' = Script /\ (Full' <=> Full) /\ (Present' <=> Present) /\ (Window' <=> Window)
    BY <1>0, CoordinatorKept
  <1>3. /\ DOMAIN k' = Procs /\ \A p \in Procs \ {"helper"} : k'[p] = k[p]
        /\ DOMAIN k'["helper"] = ProcFields /\ k'["helper"].st = "gated" /\ k'["helper"].par = "worker"
        /\ k'["helper"].gate = "shut"
    BY <1>0, ProcsAre DEF SpawnHelper, Spawned, Absent, ProcFields, KernelTypes
  <1>4. k'["worker"] = k["worker"] /\ k'["leader"] = k["leader"] /\ k'["child"] = k["child"]
    BY <1>3, ProcsAre
  <1>5. /\ \A p \in Procs \ {"helper"} : (Exists(p)' <=> Exists(p)) /\ (Alive(p)' <=> Alive(p))
        /\ (Passed("child")' <=> Passed("child")) /\ Exists("helper")' /\ ~Passed("helper")'
    BY <1>3, <1>4 DEF Exists, Alive, Passed
  <1>6. KernelTypes'
    BY <1>0, <1>3 DEF KernelTypes
  <1>7. TreeInv'
    <2>1. ASSUME NEW p \in Procs
          PROVE  /\ k'[p].st = "none" => k'[p].par = "none"
                 /\ Exists(p)' =>
                       /\ p \in Creators => k'[p].par \in {"C", "init"}
                       /\ p = "helper" => k'[p].par \in {"worker", "C", "init"}
                       /\ p = "child" => k'[p].par \in {"leader", "C", "init"}
                       /\ Present' => k'[p].par # "init"
      BY <1>0, <1>2, <1>3, <1>5, ProcsAre DEF TreeInv
    <2>2. ASSUME NEW p \in Procs, Exists(p)', k'[p].par \in Creators
          PROVE  k'[k'[p].par].st \in {"gated", "live"}
      BY <1>0, <1>3, <1>4, <1>5, <2>2, ProcsAre DEF TreeInv, Alive
    <2> QED
      BY <1>3, <2>1, <2>2 DEF TreeInv, Alive
  <1>8. DOMAIN w' = WorkerFields /\ w'.pc = "register" /\ w'.err = w.err
    BY <1>0 DEF SpawnHelper, WorkerTo, WorkerFields
  <1>9. OtherTypes'
    BY <1>0, <1>8 DEF OtherTypes
  <1>10. ModeInv'
    <2>1. Full /\ c.at \notin Early
      BY <1>0 DEF LauncherInv, ModeInv
    <2> QED
      BY <1>0, <1>2, <2>1 DEF ModeInv
  <1>11. LeaderInv'
    BY <1>0, <1>2, <1>4, <1>5, ProcsAre DEF LauncherInv, LeaderInv, Follows
  <1>12. AskInv'
    BY <1>0, <1>1, <1>8 DEF AskInv
  <1>13. HelperInv'
    BY <1>0, <1>1, <1>2, <1>5, <1>8 DEF HelperInv
  <1>14. ChildInv'
    BY <1>0, <1>2, <1>4, <1>5, ProcsAre DEF LauncherInv, ChildInv
  <1>15. ProbeInv'
    BY <1>0, <1>2, <1>4, <1>5, ProcsAre DEF LauncherInv, ProbeInv
  <1>16. ReportInv'
    BY <1>0, <1>1, <1>8 DEF ReportInv
  <1>17. CertainMeansRestored'
    BY <1>0, ProcsAre DEF LauncherInv, CertainMeansRestored
  <1> QED
    BY <1>2, <1>6, <1>7, <1>9, <1>10, <1>11, <1>12, <1>13, <1>14, <1>15, <1>16, <1>17 DEF
       LauncherInv

\* The requests: what is asked for is not leased yet, or released.
LEMMA AsksKeeps ==
  ASSUME LauncherInv, RegisterHelper \/ ReleaseHelper \/ RetireHelper
  PROVE  LauncherInv'
  <1>0. /\ k["worker"].st = "live" /\ w.pc \in {"register", "release", "retire"} /\ UNCHANGED <<k, c, l>>
        /\ DOMAIN w = WorkerFields /\ DOMAIN ch = ChannelFields /\ AskInv /\ HelperInv /\ Alive("worker")
    BY DEF LauncherInv, OtherTypes, RegisterHelper, ReleaseHelper, RetireHelper, Asks, Worker,
       Alive
  <1>1. /\ ch.issue # "packet" /\ c.report = NoReport /\ (w.pc # "retire" => ~w.err)
        /\ ~w.err => ch.ask # "register" /\ ch.answer # "registered" /\ ch.ask # "retire" /\ ch.answer # "retired"
        /\ Present /\ w.pc = "register" => "helper" \notin Leased
    BY <1>0, WorkerBefore DEF Alone, Ending, Issued
  <1>2. /\ Leased' = Leased /\ (Present' <=> Present)
        /\ \A p : (Exists(p)' <=> Exists(p)) /\ (Alive(p)' <=> Alive(p)) /\ (Passed(p)' <=> Passed(p))
    BY <1>0, SameProcesses
  <1>3. CASE w' = Closing /\ UNCHANGED ch
    BY <1>0, <1>3, ClosingKeeps
  <1>4. CASE RetireHelper /\ WorkerTo([w EXCEPT !.err = TRUE], "poison") /\ UNCHANGED ch
    <2>1. DOMAIN w' = WorkerFields /\ w'.pc = "poison" /\ w'.err = TRUE
      BY <1>0, <1>4 DEF WorkerTo, WorkerFields
    <2>2. AskInv'
      BY <1>0, <1>4, <2>1 DEF AskInv, Ending
    <2>3. HelperInv'
      BY <1>0, <1>2, <1>4, <2>1 DEF HelperInv, Alone
    <2>4. ReportInv'
      BY <1>0, <1>1, <1>4, <2>1 DEF ReportInv
    <2> QED
      BY <1>0, <1>4, <2>1, <2>2, <2>3, <2>4, WorkerThinks
  <1>5. ASSUME NEW event \in {"register", "release", "retire"}, NEW to, WorkerTo(w, to), w.pc = event,
               to = CASE event = "register" -> "registering" [] event = "release" -> "releasing"
                      [] event = "retire" -> "retiring",
               ch' = [ch EXCEPT !.ask = event]
        PROVE  LauncherInv'
    <2>1. /\ DOMAIN w' = WorkerFields /\ w'.pc = to /\ w'.err = w.err
          /\ DOMAIN ch' = ChannelFields /\ ch'.ask = event /\ ch'.answer = ch.answer /\ ch'.issue = ch.issue
          /\ ch'.say = ch.say /\ ch'.tell = ch.tell
      BY <1>0, <1>5 DEF WorkerTo, WorkerFields, ChannelFields
    <2>2. \/ event = "register" /\ to = "registering"
          \/ event = "release" /\ to = "releasing"
          \/ event = "retire" /\ to = "retiring"
      BY <1>5
    <2>3. AskInv'
      BY <1>0, <1>1, <1>5, <2>1, <2>2 DEF AskInv, Ending
    <2>4. HelperInv'
      <3>1. c.at = "handoff" => Present
        BY DEF Present
      <3> QED
        BY <1>0, <1>1, <1>2, <1>5, <2>1, <2>2, <3>1 DEF HelperInv, Alone
    <2>5. ReportInv'
      BY <1>0, <1>1, <2>1, <2>2 DEF ReportInv
    <2> QED
      BY <1>0, <2>1, <2>3, <2>4, <2>5, WorkerThinks
  <1>6. CASE RegisterHelper
    BY <1>3, <1>5, <1>6 DEF RegisterHelper, Asks, Worker
  <1>7. CASE ReleaseHelper
    BY <1>3, <1>5, <1>7 DEF ReleaseHelper, Asks, Worker
  <1>8. CASE RetireHelper
    BY <1>4, <1>5, <1>8 DEF RetireHelper, Worker
  <1> QED
    BY <1>6, <1>7, <1>8

\* The gate of the helper opens once its lease is known.
LEMMA HelperRegisteredKeeps ==
  ASSUME LauncherInv, HelperRegistered
  PROVE  LauncherInv'
  <1>0. /\ k["worker"].st = "live" /\ w.pc = "registering" /\ ch.answer = "registered" /\ UNCHANGED <<c, l>>
        /\ DOMAIN w = WorkerFields /\ DOMAIN ch = ChannelFields /\ KernelTypes /\ TreeInv
        /\ AskInv /\ HelperInv /\ Alive("worker") /\ "helper" \in Procs /\ "child" \in Procs
    BY ProcsAre DEF LauncherInv, OtherTypes, HelperRegistered, Answered, Worker, Alive
  <1>1. ~w.err /\ ch.issue # "packet" /\ c.report = NoReport /\ ch.ask # "retire" /\ ch.ask # "register"
    BY <1>0, WorkerBefore DEF Ending, Issued, AskInv
  <1>2. /\ DOMAIN w' = WorkerFields /\ w'.pc = "preexec" /\ w'.err = w.err
        /\ DOMAIN ch' = ChannelFields /\ ch'.ask = ch.ask /\ ch'.answer = "none" /\ ch'.issue = ch.issue
        /\ ch'.say = ch.say /\ ch'.tell = ch.tell
    BY <1>0 DEF HelperRegistered, Answered, WorkerTo, WorkerFields, ChannelFields
  <1>3. /\ DOMAIN k' = Procs
        /\ \A q \in Procs : /\ DOMAIN k'[q] = ProcFields /\ k'[q].st = k[q].st /\ k'[q].par = k[q].par
                            /\ q # "helper" => k'[q].gate = k[q].gate
    BY <1>0 DEF HelperRegistered, KernelTypes, ProcFields
  <1>4. KernelTypes'
    BY <1>0, <1>3 DEF KernelTypes
  <1>5. \A q \in Procs : (Exists(q)' <=> Exists(q)) /\ (Alive(q)' <=> Alive(q))
    BY <1>3 DEF Exists, Alive
  <1>6. Leased' = Leased /\ (Present' <=> Present)
    BY <1>0 DEF Leased, Present
  <1>7. TreeInv'
    BY <1>0, <1>3, <1>5, <1>6, ProcsAre DEF TreeInv
  <1>8. Ebbs
    BY <1>3, <1>5 DEF Ebbs
  <1>9. (Passed("child")' => Passed("child")) /\ (Passed("helper")' => Alive("helper"))
    BY <1>0, <1>3 DEF Passed, Alive
  <1>10. AskInv'
    BY <1>1, <1>2 DEF AskInv
  <1>11. HelperInv'
    BY <1>0, <1>1, <1>2, <1>6, <1>9 DEF HelperInv, Alone
  <1>12. ReportInv'
    BY <1>0, <1>1, <1>2 DEF ReportInv
  <1> QED
    BY <1>0, <1>2, <1>4, <1>7, <1>8, <1>9, <1>10, <1>11, <1>12, WorkerSide

\* The helper runs: it is ready, it is released, it is mapped.
LEMMA HelperRunsKeeps ==
  ASSUME LauncherInv, HelperReady \/ ReleaseAnswered \/ MapHelper
  PROVE  LauncherInv'
  <1>0. /\ k["worker"].st = "live" /\ w.pc \in {"preexec", "releasing", "observe"} /\ UNCHANGED <<k, c, l>>
        /\ DOMAIN w = WorkerFields /\ DOMAIN ch = ChannelFields /\ AskInv /\ HelperInv /\ Alive("worker")
    BY DEF LauncherInv, OtherTypes, HelperReady, ReleaseAnswered, MapHelper, Answered, Worker,
       Alive
  <1>1. /\ ~w.err /\ ch.issue # "packet" /\ c.report = NoReport
        /\ ch.ask # "register" /\ ch.answer # "registered" /\ ch.ask # "retire" /\ ch.answer # "retired"
    BY <1>0, WorkerBefore DEF Ending, Issued
  <1>2. /\ Leased' = Leased /\ (Present' <=> Present)
        /\ \A p : (Exists(p)' <=> Exists(p)) /\ (Alive(p)' <=> Alive(p)) /\ (Passed(p)' <=> Passed(p))
    BY <1>0, SameProcesses
  <1>3. CASE w' = Closing /\ UNCHANGED ch
    BY <1>0, <1>3, ClosingKeeps
  <1>4. CASE ~(w' = Closing /\ UNCHANGED ch)
    <2>1. /\ DOMAIN w' = WorkerFields /\ w'.err = w.err /\ w'.pc \in {"release", "observe", "stop"}
          /\ w'.pc # "release" => w'.token = "released"
          /\ DOMAIN ch' = ChannelFields /\ ch'.ask = ch.ask /\ ch'.answer \in {ch.answer, "none"} /\ ch'.issue = ch.issue
          /\ ch'.say = ch.say /\ ch'.tell = ch.tell
      <3>1. CASE HelperReady
        <4>1. UNCHANGED ch /\ w' = [w EXCEPT !.pc = "release"]
          BY <1>4, <3>1 DEF HelperReady, WorkerTo
        <4> QED
          BY <1>0, <4>1 DEF WorkerFields
      <3>2. CASE ReleaseAnswered
        BY <1>0, <3>2 DEF ReleaseAnswered, Answered, WorkerTo, WorkerFields, ChannelFields
      <3>3. CASE MapHelper
        <4>1. UNCHANGED ch /\ w' = [w EXCEPT !.gate = "closed", !.pc = "stop"] /\ w.token = "released"
          BY <1>0, <1>4, <3>3 DEF MapHelper, Worker, AskInv
        <4> QED
          BY <1>0, <4>1 DEF WorkerFields
      <3> QED
        BY <3>1, <3>2, <3>3
    <2>2. AskInv'
      BY <1>1, <2>1 DEF AskInv
    <2>3. HelperInv'
      BY <1>0, <1>1, <1>2, <2>1 DEF HelperInv, Alone
    <2>4. ReportInv'
      BY <1>0, <1>1, <2>1 DEF ReportInv
    <2> QED
      BY <1>0, <2>1, <2>2, <2>3, <2>4, WorkerThinks
  <1> QED
    BY <1>3, <1>4

\* A helper that was stopped without a failure was released: it is retired.
LEMMA ReapHelperKeeps ==
  ASSUME LauncherInv, ReapHelper
  PROVE  LauncherInv'
  <1>0. /\ k["worker"].st = "live" /\ w.pc = "stop" /\ UNCHANGED <<c, l, ch>> /\ k["helper"].st = "zombie"
        /\ k' = Reaped("helper") /\ DOMAIN w = WorkerFields /\ DOMAIN ch = ChannelFields /\ KernelTypes /\ TreeInv
        /\ AskInv /\ HelperInv /\ Alive("worker") /\ "helper" \in Procs /\ "child" \in Procs
    BY ProcsAre DEF LauncherInv, OtherTypes, ReapHelper, Worker, Alive
  <1>1. ch.issue # "packet" /\ c.report = NoReport
    BY <1>0, WorkerBefore DEF Issued
  <1>2. KernelTypes' /\ TreeInv' /\ Wanes /\ ~Exists("helper")'
    BY <1>0, ReapedWanes DEF Present
  <1>3. Ebbs /\ (Passed("child")' => Passed("child")) /\ (Passed("helper")' => Passed("helper"))
    BY <1>0, <1>2, WanesEbbs
  <1>4. /\ DOMAIN w' = WorkerFields /\ w'.err = w.err
        /\ w'.pc = IF w.token = "none" THEN IF w.err THEN "poison" ELSE "next" ELSE "retire"
    BY <1>0 DEF ReapHelper, WorkerTo, WorkerFields
  <1>5. w'.pc = "retire" \/ (w'.pc = "poison" /\ w.err)
    BY <1>0, <1>4 DEF AskInv
  <1>6. Leased' = Leased /\ (Present' <=> Present)
    BY <1>0 DEF Leased, Present
  <1>7. AskInv'
    BY <1>0, <1>4, <1>5 DEF AskInv, Ending
  <1>8. HelperInv'
    BY <1>0, <1>2, <1>3, <1>4, <1>5, <1>6 DEF HelperInv, Alone, Ebbs
  <1>9. ReportInv'
    BY <1>0, <1>1, <1>5 DEF ReportInv
  <1> QED
    BY <1>0, <1>2, <1>3, <1>4, <1>7, <1>8, <1>9, WorkerSide

LEMMA HelperRetiredKeeps ==
  ASSUME LauncherInv, HelperRetired
  PROVE  LauncherInv'
  <1>0. /\ k["worker"].st = "live" /\ w.pc = "retiring" /\ ch.answer = "retired" /\ UNCHANGED <<k, c, l>>
        /\ DOMAIN w = WorkerFields /\ DOMAIN ch = ChannelFields /\ AskInv /\ HelperInv /\ Alive("worker")
    BY DEF LauncherInv, OtherTypes, HelperRetired, Answered, Worker, Alive
  <1>1. ch.issue # "packet" /\ c.report = NoReport
    BY <1>0, WorkerBefore DEF Issued
  <1>2. /\ DOMAIN w' = WorkerFields /\ w'.err = w.err /\ w'.pc = IF w.err THEN "poison" ELSE "next"
        /\ DOMAIN ch' = ChannelFields /\ ch'.ask = ch.ask /\ ch'.answer = "none" /\ ch'.issue = ch.issue
        /\ ch'.say = ch.say /\ ch'.tell = ch.tell
    BY <1>0 DEF HelperRetired, Answered, WorkerTo, WorkerFields, ChannelFields
  <1>3. /\ Leased' = Leased /\ (Present' <=> Present)
        /\ \A p : (Exists(p)' <=> Exists(p)) /\ (Alive(p)' <=> Alive(p)) /\ (Passed(p)' <=> Passed(p))
    BY <1>0, SameProcesses
  <1>4. AskInv'
    BY <1>0, <1>2 DEF AskInv, Ending
  <1>5. HelperInv'
    BY <1>0, <1>2, <1>3 DEF HelperInv, Alone
  <1>6. ReportInv'
    BY <1>0, <1>1, <1>2 DEF ReportInv
  <1> QED
    BY <1>0, <1>2, <1>4, <1>5, <1>6, WorkerThinks

\* What is issued was compared, and no helper is left.
LEMMA IssueOnceKeeps ==
  ASSUME LauncherInv, IssueOnce
  PROVE  LauncherInv'
  <1>0. /\ k["worker"].st = "live" /\ w.pc = "issue" /\ UNCHANGED <<k, c, l>>
        /\ DOMAIN w = WorkerFields /\ DOMAIN ch = ChannelFields /\ AskInv /\ HelperInv /\ ReportInv /\ Alive("worker")
    BY DEF LauncherInv, OtherTypes, IssueOnce, Worker, Alive
  <1>1. /\ ~w.err /\ c.report = NoReport
        /\ ch.ask # "register" /\ ch.answer # "registered" /\ ch.ask # "retire" /\ ch.answer # "retired"
    BY <1>0, WorkerBefore DEF Ending, Issued
  <1>2. /\ Leased' = Leased /\ (Present' <=> Present)
        /\ \A p : (Exists(p)' <=> Exists(p)) /\ (Alive(p)' <=> Alive(p)) /\ (Passed(p)' <=> Passed(p))
    BY <1>0, SameProcesses
  <1>3. CASE w' = Closing /\ UNCHANGED ch
    BY <1>0, <1>3, ClosingKeeps
  <1>4. CASE /\ RevalidateReport /\ WorkerTo([w EXCEPT !.owner = "ISSUING"], "acked")
             /\ ch' = [ch EXCEPT !.issue = "packet"]
    <2>1. /\ DOMAIN w' = WorkerFields /\ w'.pc = "acked" /\ w'.err = w.err
          /\ w'.report = w.report /\ w'.first = w.first
          /\ DOMAIN ch' = ChannelFields /\ ch'.ask = ch.ask /\ ch'.answer = ch.answer
          /\ ch'.say = ch.say /\ ch'.tell = ch.tell
      BY <1>0, <1>4 DEF WorkerTo, WorkerFields, ChannelFields
    <2>2. ReportExact(w.report) /\ ~Exists("helper")
      BY <1>4 DEF RevalidateReport, ReadyBaseline, Exists
    <2>3. AskInv'
      BY <1>1, <2>1 DEF AskInv
    <2>4. HelperInv'
      BY <1>0, <1>1, <1>2, <2>1 DEF HelperInv, Alone
    <2>5. ReportInv'
      BY <1>0, <1>1, <1>2, <2>1, <2>2 DEF ReportInv, Issued, ReportExact, RowsExact
    <2> QED
      BY <1>0, <2>1, <2>3, <2>4, <2>5, WorkerThinks
  <1> QED
    BY <1>3, <1>4 DEF IssueOnce

LEMMA AcknowledgedKeeps ==
  ASSUME LauncherInv, Acknowledged
  PROVE  LauncherInv'
  <1>0. /\ k["worker"].st = "live" /\ w.pc = "acked" /\ UNCHANGED <<k, c, l>>
        /\ DOMAIN w = WorkerFields /\ DOMAIN ch = ChannelFields /\ AskInv /\ HelperInv /\ ReportInv /\ Alive("worker")
    BY DEF LauncherInv, OtherTypes, Acknowledged, Worker, Alive
  <1>1. /\ ~w.err /\ ch.ask # "register" /\ ch.answer # "registered" /\ ch.ask # "retire" /\ ch.answer # "retired"
    BY <1>0, WorkerBefore DEF Ending
  <1>2. /\ Leased' = Leased /\ (Present' <=> Present)
        /\ \A p : (Exists(p)' <=> Exists(p)) /\ (Alive(p)' <=> Alive(p)) /\ (Passed(p)' <=> Passed(p))
    BY <1>0, SameProcesses
  <1>3. /\ DOMAIN ch' = ChannelFields /\ ch'.ask = ch.ask /\ ch'.answer = ch.answer /\ ch'.issue = ch.issue
        /\ ch'.say = ch.say /\ ch'.tell = ch.tell
    BY <1>0 DEF Acknowledged, ChannelFields
  <1>4. CASE w' = Closing
    BY <1>0, <1>3, <1>4, ClosingKeeps
  <1>5. CASE WorkerTo([w EXCEPT !.owner = "CONSUMED"], "exit")
    <2>1. /\ DOMAIN w' = WorkerFields /\ w'.pc = "exit" /\ w'.err = w.err
          /\ w'.report = w.report /\ w'.first = w.first
      BY <1>0, <1>5 DEF WorkerTo, WorkerFields
    <2>2. AskInv'
      BY <1>1, <1>3, <2>1 DEF AskInv
    <2>3. HelperInv'
      BY <1>0, <1>1, <1>2, <1>3, <2>1 DEF HelperInv, Alone
    <2>4. ReportInv'
      BY <1>0, <1>2, <1>3, <2>1 DEF ReportInv, Issued, ReportExact, RowsExact
    <2> QED
      BY <1>0, <1>3, <2>1, <2>2, <2>3, <2>4, WorkerThinks
  <1> QED
    BY <1>4, <1>5 DEF Acknowledged

LEMMA PoisonOwnerKeeps ==
  ASSUME LauncherInv, PoisonOwner
  PROVE  LauncherInv'
  <1>0. /\ k["worker"].st = "live" /\ w.pc = "poison" /\ UNCHANGED <<k, c, l>>
        /\ DOMAIN w = WorkerFields /\ DOMAIN ch = ChannelFields /\ AskInv /\ HelperInv /\ ReportInv /\ Alive("worker")
    BY DEF LauncherInv, OtherTypes, PoisonOwner, Worker, Alive
  <1>1. /\ DOMAIN w' = WorkerFields /\ w'.pc = "exit" /\ w'.err = w.err /\ w'.first = w.first
        /\ DOMAIN ch' = ChannelFields /\ ch'.ask = ch.ask /\ ch'.answer = ch.answer /\ ch'.issue = "error"
        /\ ch'.say = ch.say /\ ch'.tell = ch.tell
    BY <1>0 DEF PoisonOwner, WorkerTo, WorkerFields, ChannelFields
  <1>2. /\ Leased' = Leased /\ (Present' <=> Present)
        /\ \A p : (Exists(p)' <=> Exists(p)) /\ (Alive(p)' <=> Alive(p)) /\ (Passed(p)' <=> Passed(p))
    BY <1>0, SameProcesses
  <1>3. AskInv'
    BY <1>0, <1>1 DEF AskInv, Ending
  <1>4. HelperInv'
    BY <1>0, <1>1, <1>2 DEF HelperInv, Alone
  <1>5. ReportInv'
    BY <1>0, <1>1, <1>2 DEF ReportInv, Issued, ReportExact, RowsExact
  <1> QED
    BY <1>0, <1>1, <1>3, <1>4, <1>5, WorkerThinks

LEMMA WorkerExitKeeps ==
  ASSUME LauncherInv, WorkerExit
  PROVE  LauncherInv'
  <1>0. /\ w.pc = "exit" /\ UNCHANGED <<c, l, ch>> /\ KernelTypes /\ TreeInv /\ Alive("worker")
        /\ DOMAIN w = WorkerFields /\ DOMAIN ch = ChannelFields /\ AskInv /\ HelperInv /\ ReportInv
        /\ "helper" \in Procs /\ "child" \in Procs /\ "worker" \in Procs
    BY ProcsAre DEF LauncherInv, OtherTypes, WorkerExit, Worker, Alive
  <1>1. \E code : k' = Dead(k, "worker", code)
    BY DEF WorkerExit
  <1>2. KernelTypes' /\ TreeInv' /\ Wanes /\ ~Alive("worker")'
    BY <1>0, <1>1, DeadWanes DEF Present
  <1>3. Ebbs /\ (Passed("child")' => Passed("child")) /\ (Passed("helper")' => Passed("helper"))
    BY <1>0, <1>2, WanesEbbs
  <1>4. /\ DOMAIN w' = WorkerFields /\ w'.pc = "done" /\ w'.err = w.err /\ w'.first = w.first /\ w'.report = w.report
    BY <1>0 DEF WorkerExit, WorkerTo, WorkerFields
  <1>5. Leased' = Leased /\ (Present' <=> Present)
    BY <1>0 DEF Leased, Present
  <1>6. AskInv'
    BY <1>0, <1>4 DEF AskInv, Ending
  <1>7. HelperInv'
    BY <1>0, <1>2, <1>3, <1>4, <1>5 DEF HelperInv
  <1>8. ReportInv'
    BY <1>0, <1>3, <1>4 DEF ReportInv, Issued, Ebbs, ReportExact, RowsExact
  <1> QED
    BY <1>0, <1>2, <1>3, <1>4, <1>6, <1>7, <1>8, WorkerSide

LEMMA ClosureKeeps ==
  ASSUME LauncherInv, ClosureStep
  PROVE  LauncherInv'
  <1>1. CASE WorkerFails \/ Unanswered
    <2>1. UNCHANGED <<k, c, l, ch>> /\ w' = Closing /\ DOMAIN ch = ChannelFields
      BY <1>1 DEF WorkerFails, Unanswered, LauncherInv, OtherTypes
    <2> QED
      BY <2>1, ClosingKeeps
  <1> QED
    BY <1>1, HelperKeeps, SourcesChangeKeeps, WorkerStartKeeps, PreparationKeeps,
       SpawnHelperKeeps, AsksKeeps,
       HelperRegisteredKeeps, HelperRunsKeeps, ReapHelperKeeps, HelperRetiredKeeps, IssueOnceKeeps,
       AcknowledgedKeeps, PoisonOwnerKeeps, WorkerExitKeeps DEF ClosureStep

-----------------------------------------------------------------------------
(* The launch as a whole. *)

LEMMA InitHolds ==
  ASSUME Init
  PROVE  LauncherInv
  <1>1. k = [p \in Procs |-> Absent] /\ w = WorkerInit /\ l = LeaderInit
    BY DEF Init
  <1>2. /\ DOMAIN k = Procs
        /\ \A p \in Procs : DOMAIN k[p] = ProcFields /\ k[p].st = "none" /\ k[p].par = "none"
    BY <1>1 DEF Absent, ProcFields
  <1>3. /\ DOMAIN c = CoordinatorFields /\ c.at = "boot" /\ c.leases = <<>> /\ c.outer = <<>> /\ c.todo = <<>>
        /\ c.mode \in {"runtime", "compression", "lifecycle", "sandbox"} /\ c.base \in {"none", "stale"}
        /\ c.root = c.base /\ c.helper = "none" /\ c.res = "none" /\ c.reaped = {} /\ c.report = NoReport
        /\ c.err = FALSE /\ c.fails = FALSE
    <2>1. PICK mode \in Modes : \E base \in {"none", "stale"} :
             c = [at |-> "boot", client |-> "none", mode |-> mode, i |-> 1, step |-> 1, leases |-> <<>>, outer |-> <<>>,
                  held |-> {}, reaped |-> {}, phase |-> [p \in Procs |-> "none"], todo |-> <<>>, st |-> "check",
                  then |-> "none", after |-> "none", err |-> FALSE, fails |-> FALSE, helper |-> "none", fds |-> FALSE,
                  report |-> NoReport, root |-> base, base |-> base, open |-> FALSE, fed |-> FALSE,
                  subreaper |-> FALSE, res |-> "none"]
      BY DEF Init
    <2>2. mode \in {"runtime", "compression", "lifecycle", "sandbox"}
      BY ModesAssumption
    <2> QED
      BY <2>1, <2>2 DEF CoordinatorFields
  <1>4. /\ DOMAIN ch = ChannelFields /\ ch.ask = "none" /\ ch.answer = "none" /\ ch.issue = "none"
        /\ ch.say = <<>> /\ ch.tell = <<>>
    BY DEF Init, ChannelFields
  <1>5. /\ DOMAIN w = WorkerFields /\ w.pc = "start" /\ w.err = FALSE
        /\ DOMAIN l = LeaderFields /\ l.i = 1
    BY <1>1 DEF WorkerInit, LeaderInit, WorkerFields, LeaderFields
  <1>6. Inner = {} /\ Outer = {} /\ Todo = {} /\ Leased = {}
    BY <1>3, SetOfNothing DEF Inner, Outer, Todo, Leased
  <1>7. \A p \in Procs : ~Exists(p) /\ ~Alive(p) /\ ~Passed(p)
    BY <1>2 DEF Exists, Alive, Passed
  <1>8. KernelTypes /\ TreeInv
    BY <1>2, <1>7, ProcsAre DEF KernelTypes, TreeInv
  <1>9. CoordinatorTypes
    BY <1>3 DEF CoordinatorTypes
  <1>10. OtherTypes
    BY <1>4, <1>5, ListOfNothing DEF OtherTypes
  <1>11. ModeInv
    BY <1>2, <1>3, ProcsAre DEF ModeInv
  <1>12. OnceInv
    BY <1>3, <1>6, SetOfNothing DEF OnceInv
  <1>13. LeasesInv /\ HearInv /\ CoverInv
    BY <1>3, <1>6 DEF LeasesInv, HearInv, CoverInv
  <1>14. RootInv
    BY <1>3 DEF RootInv
  <1>15. LeaderInv /\ AskInv
    BY <1>3, <1>4, <1>5, <1>7, ProcsAre DEF LeaderInv, AskInv
  <1>16. HelperInv
    BY <1>3, <1>4, <1>5, <1>7, ProcsAre DEF HelperInv
  <1>17. ChildInv /\ ProbeInv
    BY <1>3, <1>4, <1>7, SetOfNothing, ProcsAre DEF ChildInv, ProbeInv
  <1>18. ReportInv /\ CertainMeansRestored
    BY <1>3, <1>4, <1>5 DEF ReportInv, CertainMeansRestored
  <1> QED
    BY <1>8, <1>9, <1>10, <1>11, <1>12, <1>13, <1>14, <1>15, <1>16, <1>17, <1>18 DEF LauncherInv

LEMMA StutterKeeps ==
  ASSUME LauncherInv, UNCHANGED vars
  PROVE  LauncherInv'
  <1>1. UNCHANGED <<k, c, w, l, ch>>
    BY DEF vars
  <1>2. KernelTypes' /\ TreeInv' /\ Wanes
    BY <1>1, SameWanes DEF LauncherInv, Present
  <1> QED
    BY <1>1, <1>2, KernelSide

LEMMA LaunchInductive ==
  ASSUME LauncherInv, [Next]_vars
  PROVE  LauncherInv'
  <1>1. CASE LaunchStep
    BY <1>1, PreludeKeeps, ClientKeeps, CloseLeasesKeeps, AfterCasesKeeps, JoinWorkerKeeps,
       FinishKeeps, LeftKeeps
       DEF LaunchStep
  <1>2. CASE OwnerStep
    BY <1>2, StopCheckKeeps, StopSignalKeeps, StopWaitKeeps, StopEndsKeeps, AdoptKeeps DEF
       OwnerStep
  <1>3. CASE HandoffStep
    BY <1>3, SpawnWorkerKeeps, AcceptRegistrationKeeps, AcceptReleaseKeeps, AcceptRetirementKeeps,
       ConsumeIssuanceKeeps, ReceiptEndsKeeps, HandoffFailsKeeps DEF HandoffStep
  <1>4. CASE CaseStep
    BY <1>4, RootPrepareKeeps, RootRefusedKeeps, SpawnLeaderKeeps, HearFirstKeeps, HearStepKeeps,
       ReceiveKeeps,
       AcceptKeeps, HearFailsKeeps, RejectKeeps, UndoneKeeps, RejectedKeeps, HearEndKeeps, HearLastKeeps,
       TermKillKeeps, JoinKeeps, ReapAdoptedKeeps, CloseCaseKeeps, EndCaseKeeps DEF CaseStep
  <1>5. CASE ClosureStep
    BY <1>5, ClosureKeeps
  <1>6. CASE LeaderStep
    BY <1>6, LeaderKeeps
  <1>7. CASE ChildStep
    BY <1>7, ChildKeeps
  <1>8. CASE KernelStep
    BY <1>8, KernelKeeps DEF KernelStep
  <1>9. CASE Mishap
    BY <1>9, LeftKeeps, ClientKeeps, KernelKeeps DEF Mishap
  <1>10. CASE UNCHANGED vars
    BY <1>10, StutterKeeps
  <1> QED
    BY <1>1, <1>2, <1>3, <1>4, <1>5, <1>6, <1>7, <1>8, <1>9, <1>10 DEF Next

\* Every launch keeps the invariant: who is there, who is whose child, what is
\* leased at each point of the coordinator, what is in flight between it, the
\* worker and the leader, and what the worker issued.
THEOREM LaunchKeepsBooks == Spec => []LauncherInv
  <1>1. Init => LauncherInv
    BY InitHolds
  <1>2. LauncherInv /\ [Next]_vars => LauncherInv'
    BY LaunchInductive
  <1> QED
    BY <1>1, <1>2, PTL DEF Spec

\* _spawn_helper and receive_descendant: a gate opens only once the
\* coordinator's _ProcessOwner has a lease of the process behind it.  For every
\* set of operations, any number of faults and any number of tools, what has
\* passed its gate is leased, once, as long as the coordinator is there.
THEOREM GatedIsOwned == Spec => []GatedUntilOwned
  <1>1. LauncherInv => GatedUntilOwned
    <2> SUFFICES ASSUME LauncherInv
                 PROVE  GatedUntilOwned
      OBVIOUS
    <2>1. \A p \in {"helper", "child"} : k[p].st = "live" /\ Present => p \in Leased
      BY DEF LauncherInv, HelperInv, ChildInv, Passed
    <2>2. c.leases \in Seq(Procs) /\ c.outer \in Seq(Procs) /\ IsInjective(c.leases) /\ IsInjective(c.outer)
          /\ ToSet(c.leases) \cap ToSet(c.outer) = {}
      BY DEF LauncherInv, CoordinatorTypes, OnceInv, Inner, Outer
    <2>3. IsInjective(c.leases \o c.outer)
      BY <2>2, SetOfConcat
    <2> QED
      BY <2>1, <2>3 DEF GatedUntilOwned
  <1> QED
    BY <1>1, LaunchKeepsBooks, PTL

\* The end of _coordinate_with_ops and the baselines it reads again: a result
\* other than an uncertain cleanup means that no process, no private root and
\* no descriptor is left, whatever failed and whoever was killed on the way.
THEOREM CertaintyIsEarned == Spec => []CertainMeansRestored
  <1>1. LauncherInv => CertainMeansRestored
    BY DEF LauncherInv
  <1> QED
    BY <1>1, LaunchKeepsBooks, PTL

\* _issue_once and _consume_issuance: the report whose descriptors the
\* coordinator holds is of one generation, is the one the first preparation
\* of the runtime gave, and no helper is alive that could map another.
THEOREM IssuedReportIsCompared == Spec => []IssuedOnce
  <1>1. LauncherInv => IssuedOnce
    BY DEF LauncherInv, ReportInv, IssuedOnce, ReportExact, Exists, Alive
  <1> QED
    BY <1>1, LaunchKeepsBooks, PTL

-----------------------------------------------------------------------------
(* The launch lifecycle. *)

(***************************************************************************)
(* The inductive invariant.                                                *)
(***************************************************************************)

\* Before start() nothing has been attempted, and the loop awaits a
\* dependency it has attempted.
StarterOK ==
    /\ state = "created" => attempted = 0
    /\ starter = "awaiting" => attempted > 0

\* The start loop is sequential: what precedes the current dependency has
\* started, what follows has not been touched.
WorkOK ==
    \A i \in 1..Len(Order) :
        /\ i < attempted => work[Order[i]] = "ok"
        /\ i = attempted => work[Order[i]] # "none"
        /\ i > attempted => work[Order[i]] = "none"

\* The owner exists exactly when shutdown has begun, and only a shutdown ends
\* the lifecycle; a clean stop is the owner's own success.
OwnerOK ==
    /\ owner = "none" <=> ~shutdown
    /\ state = "created" => ~shutdown
    /\ (\E o \in Observers : request[o] # "none") => shutdown
    /\ state \in Terminal => shutdown
    /\ state = "stopped" => owner = "ok"
    /\ owner = "ok" => \A d \in Attempted : closing[d] = "closed"

\* What the loop has passed is ready; readiness is the whole list.
ReadyOK ==
    /\ state = "starting" /\ ~shutdown =>
          \A i \in 1..Len(Order) : i < attempted => depState[Order[i]] = "ready"
    /\ published =>
          /\ state = "ready" /\ ~shutdown
          /\ \A d \in Deps : depState[d] = "ready" /\ work[d] = "ok"

\* A release has begun only under the owner, after the start work settled and
\* behind the dependencies it has to wait for.
ReleaseOK ==
    \A d \in Deps : closing[d] # "open" =>
        /\ d \in Attempted /\ Settled(d)
        /\ owner \in {"deps", "ok", "failed"}
        /\ d \notin Independent =>
              \A e \in Attempted :
                 e \in Independent \/ Position(e) > Position(d) => closing[e] = "closed"

LaunchInv ==
    LaunchTypeOK /\ StarterOK /\ WorkOK /\ OwnerOK /\ ReadyOK /\ ReleaseOK /\ LossIsFailure

-----------------------------------------------------------------------------
\* Order lists every dependency, and lists it once.
LEMMA OrderFacts ==
    /\ Len(Order) \in Nat \ {0}
    /\ \A i \in 1..Len(Order) : Order[i] \in Deps
    /\ \A d \in Deps : \E i \in 1..Len(Order) : Order[i] = d
    /\ \A i, j \in 1..Len(Order) : Order[i] = Order[j] => i = j
  BY LifecycleAssumption DEF Deps, Range, IsInjective

\* The attempted dependencies are a prefix of Order.
LEMMA AttemptedFacts ==
    ASSUME LaunchTypeOK
    PROVE  /\ Attempted \subseteq Deps
           /\ \A i \in 1..Len(Order) : Order[i] \in Attempted <=> i <= attempted
  BY OrderFacts DEF LaunchTypeOK, Attempted

\* A lifecycle that was just constructed satisfies the invariant.
LEMMA InvInit == LaunchInit => LaunchInv
  <1> SUFFICES ASSUME LaunchInit PROVE LaunchInv
    OBVIOUS
  <1> USE DEF LaunchInit
  <1>1. LaunchTypeOK
    <2>1. attempted \in 0..Len(Order)
      BY OrderFacts
    <2>2. /\ depState \in [Deps -> {"pending", "ready", "failed", "lost"}]
          /\ work \in [Deps -> {"none", "running", "ok", "failed"}]
          /\ closing \in [Deps -> {"open", "closing", "closed", "failed"}]
          /\ request \in [Observers -> {"none", "watching", "resolved", "rejected"}]
      OBVIOUS
    <2> QED  BY <2>1, <2>2, Zenon DEF LaunchTypeOK, OwnerStates
  <1>2. WorkOK
    BY OrderFacts DEF WorkOK
  <1>3. StarterOK /\ OwnerOK /\ ReadyOK /\ ReleaseOK /\ LossIsFailure
    BY OrderFacts
    DEF StarterOK, OwnerOK, ReadyOK, ReleaseOK, LossIsFailure, Terminal
  <1> QED  BY <1>1, <1>2, <1>3 DEF LaunchInv

(***************************************************************************)
(* Every step preserves the invariant: one case per action of LaunchNext,  *)
(* one step per conjunct the action can disturb.                           *)
(***************************************************************************)
LEMMA InvStep == LaunchInv /\ [LaunchNext]_launchVars => LaunchInv'
  <1> SUFFICES ASSUME LaunchInv, [LaunchNext]_launchVars PROVE LaunchInv'
    OBVIOUS
  <1> USE DEF LaunchInv
  <1>1. CASE Start
    <2>1. LaunchTypeOK'
      BY <1>1, OrderFacts
      DEF Start, Attempt, timerVars, LaunchTypeOK, OwnerStates, StarterOK,
          Observers
    <2>2. StarterOK'
      BY <1>1, OrderFacts
      DEF Start, Attempt, timerVars, StarterOK, LaunchTypeOK
    <2>3. WorkOK'
      BY <1>1, OrderFacts
      DEF Start, Attempt, timerVars, WorkOK, LaunchTypeOK, StarterOK
    <2>4. OwnerOK'
      BY <1>1, OrderFacts, AttemptedFacts
      DEF Start, Attempt, timerVars, OwnerOK, LaunchTypeOK, Terminal,
          Attempted, Observers, ReleaseOK, Settled
    <2>5. ReadyOK'
      BY <1>1, OrderFacts
      DEF Start, Attempt, timerVars, ReadyOK, OwnerOK, WorkOK, LaunchTypeOK,
          LossIsFailure, LaunchReady, StarterOK
    <2>6. ReleaseOK'
      BY <1>1, OrderFacts, AttemptedFacts
      DEF Start, Attempt, timerVars, ReleaseOK, OwnerOK, Settled,
          LaunchTypeOK, Attempted, OwnerStates
    <2>7. LossIsFailure'
      BY <1>1, OrderFacts
      DEF Start, Attempt, timerVars, LossIsFailure, LaunchTypeOK, Terminal,
          OwnerOK
    <2> QED  BY <2>1, <2>2, <2>3, <2>4, <2>5, <2>6, <2>7
  <1>2. CASE StartContinues
    <2>1. LaunchTypeOK'
      <3>1. Order[attempted] \in Deps /\ attempted \in 0..Len(Order)
        BY <1>2, OrderFacts DEF StartContinues, LaunchTypeOK, StarterOK
      <3>2. depState' \in [Deps -> {"pending", "ready", "failed", "lost"}]
        BY <1>2, <3>1 DEF StartContinues, LaunchTypeOK
      <3>3. CASE attempted = Len(Order)
        BY <1>2, <3>1, <3>2, <3>3 DEF StartContinues, LaunchTypeOK
      <3>4. CASE attempted # Len(Order)
        <4>1. attempted' \in 0..Len(Order) /\ Order[attempted + 1] \in Deps
          BY <1>2, <3>1, <3>4, OrderFacts DEF StartContinues, Attempt
        <4>2. work' \in [Deps -> {"none", "running", "ok", "failed"}]
          BY <1>2, <3>4, <4>1 DEF StartContinues, Attempt, LaunchTypeOK
        <4> QED  BY <1>2, <3>2, <3>4, <4>1, <4>2 DEF StartContinues, LaunchTypeOK
      <3> QED  BY <3>3, <3>4
    <2>2. StarterOK'
      BY <1>2, OrderFacts
      DEF StartContinues, StartInterruption, Attempt, timerVars, StarterOK,
          LaunchTypeOK
    <2>3. WorkOK'
      BY <1>2, OrderFacts
      DEF StartContinues, StartInterruption, Attempt, timerVars, WorkOK,
          LaunchTypeOK, StarterOK
    <2>4. OwnerOK'
      BY <1>2, OrderFacts, AttemptedFacts
      DEF StartContinues, StartInterruption, Attempt, timerVars, OwnerOK,
          LaunchTypeOK, Terminal, Attempted, Observers, ReleaseOK, Settled
    <2>5. ReadyOK'
      <3> DEFINE cur == Order[attempted]
      <3>1. /\ state = "starting" /\ ~shutdown /\ attempted \in 1..Len(Order)
            /\ work[cur] = "ok"
            /\ depState' = [depState EXCEPT ![cur] = "ready"]
            /\ shutdown' = shutdown
        BY <1>2 DEF StartContinues, StartInterruption, StarterOK, LaunchTypeOK
      <3>2. \A i \in 1..Len(Order) : i <= attempted => depState'[Order[i]] = "ready"
        BY <3>1, OrderFacts DEF ReadyOK, LaunchTypeOK
      <3>3. CASE attempted = Len(Order)
        <4>1. \A d \in Deps : depState'[d] = "ready" /\ work[d] = "ok"
          BY <3>1, <3>2, <3>3, OrderFacts DEF WorkOK, LaunchTypeOK
        <4> QED  BY <1>2, <3>1, <3>2, <3>3, <4>1 DEF StartContinues, ReadyOK
      <3>4. CASE attempted # Len(Order)
        BY <1>2, <3>1, <3>2, <3>4, OrderFacts
        DEF StartContinues, Attempt, ReadyOK, OwnerOK, LaunchTypeOK, LossIsFailure
      <3> QED  BY <3>3, <3>4
    <2>6. ReleaseOK'
      BY <1>2, OrderFacts, AttemptedFacts
      DEF StartContinues, StartInterruption, Attempt, timerVars, ReleaseOK,
          OwnerOK, Settled, LaunchTypeOK, Attempted, OwnerStates
    <2>7. LossIsFailure'
      BY <1>2, OrderFacts
      DEF StartContinues, StartInterruption, Attempt, timerVars,
          LossIsFailure, LaunchTypeOK, Terminal, OwnerOK
    <2> QED  BY <2>1, <2>2, <2>3, <2>4, <2>5, <2>6, <2>7
  <1>3. CASE StartInterrupted
    <2>1. LaunchTypeOK'
      BY <1>3, OrderFacts
      DEF StartInterrupted, RequestShutdown, BeginShutdown, timerVars,
          LaunchTypeOK, OwnerStates, StarterOK, Observers
    <2>2. StarterOK'
      BY <1>3, OrderFacts
      DEF StartInterrupted, RequestShutdown, BeginShutdown, timerVars,
          StarterOK, LaunchTypeOK
    <2>3. OwnerOK'
      BY <1>3, OrderFacts, AttemptedFacts
      DEF StartInterrupted, RequestShutdown, BeginShutdown, timerVars,
          OwnerOK, LaunchTypeOK, Terminal, Attempted, Observers, ReleaseOK,
          Settled
    <2>4. ReadyOK'
      BY <1>3, OrderFacts
      DEF StartInterrupted, RequestShutdown, BeginShutdown, timerVars,
          ReadyOK, OwnerOK, WorkOK, LaunchTypeOK, LossIsFailure,
          LaunchReady, StarterOK
    <2>5. ReleaseOK'
      BY <1>3, OrderFacts, AttemptedFacts
      DEF StartInterrupted, RequestShutdown, BeginShutdown, timerVars,
          ReleaseOK, OwnerOK, Settled, LaunchTypeOK, Attempted, OwnerStates
    <2>6. LossIsFailure'
      BY <1>3, OrderFacts
      DEF StartInterrupted, RequestShutdown, BeginShutdown, timerVars,
          LossIsFailure, LaunchTypeOK, Terminal, OwnerOK
    <2>7. WorkOK'
      BY <1>3
      DEF StartInterrupted, RequestShutdown, BeginShutdown, startVars,
          timerVars, WorkOK
    <2> QED  BY <2>1, <2>2, <2>3, <2>4, <2>5, <2>6, <2>7
  <1>4. CASE StartFails
    <2>1. LaunchTypeOK'
      BY <1>4, OrderFacts
      DEF StartFails, FailClosed, BeginShutdown, timerVars, LaunchTypeOK,
          OwnerStates, StarterOK, Observers
    <2>2. StarterOK'
      BY <1>4, OrderFacts
      DEF StartFails, FailClosed, BeginShutdown, timerVars, StarterOK,
          LaunchTypeOK
    <2>3. OwnerOK'
      BY <1>4, OrderFacts, AttemptedFacts
      DEF StartFails, FailClosed, BeginShutdown, timerVars, OwnerOK,
          LaunchTypeOK, Terminal, Attempted, Observers, ReleaseOK, Settled
    <2>4. ReadyOK'
      BY <1>4, OrderFacts
      DEF StartFails, FailClosed, BeginShutdown, timerVars, ReadyOK,
          OwnerOK, WorkOK, LaunchTypeOK, LossIsFailure, LaunchReady,
          StarterOK
    <2>5. ReleaseOK'
      BY <1>4, OrderFacts, AttemptedFacts
      DEF StartFails, FailClosed, BeginShutdown, timerVars, ReleaseOK,
          OwnerOK, Settled, LaunchTypeOK, Attempted, OwnerStates
    <2>6. LossIsFailure'
      BY <1>4, OrderFacts
      DEF StartFails, FailClosed, BeginShutdown, timerVars, LossIsFailure,
          LaunchTypeOK, Terminal, OwnerOK
    <2>7. WorkOK'
      BY <1>4
      DEF StartFails, FailClosed, BeginShutdown, startVars, timerVars,
          WorkOK
    <2> QED  BY <2>1, <2>2, <2>3, <2>4, <2>5, <2>6, <2>7
  <1>5. ASSUME NEW d \in Deps, NEW ok \in BOOLEAN, WorkEnds(d, ok)
         PROVE  LaunchInv'
    <2>1. LaunchTypeOK'
      BY <1>5, OrderFacts
      DEF WorkEnds, timerVars, LaunchTypeOK, OwnerStates, StarterOK,
          Observers
    <2>2. WorkOK'
      BY <1>5, OrderFacts
      DEF WorkEnds, timerVars, WorkOK, LaunchTypeOK, StarterOK
    <2>3. ReadyOK'
      BY <1>5, OrderFacts
      DEF WorkEnds, timerVars, ReadyOK, OwnerOK, WorkOK, LaunchTypeOK,
          LossIsFailure, LaunchReady, StarterOK
    <2>4. ReleaseOK'
      BY <1>5, OrderFacts, AttemptedFacts
      DEF WorkEnds, timerVars, ReleaseOK, OwnerOK, Settled, LaunchTypeOK,
          Attempted, OwnerStates
    <2>5. StarterOK' /\ OwnerOK' /\ LossIsFailure'
      BY <1>5
      DEF WorkEnds, startVars, timerVars, StarterOK, OwnerOK, Attempted,
          Terminal, LossIsFailure
    <2> QED  BY <2>1, <2>2, <2>3, <2>4, <2>5
  <1>6. ASSUME NEW d \in Deps, DependencyLost(d)
         PROVE  LaunchInv'
    <2>1. LaunchTypeOK'
      BY <1>6, OrderFacts
      DEF DependencyLost, FailClosed, BeginShutdown, timerVars,
          LaunchTypeOK, OwnerStates, StarterOK, Observers
    <2>2. StarterOK'
      BY <1>6, OrderFacts
      DEF DependencyLost, FailClosed, BeginShutdown, timerVars, StarterOK,
          LaunchTypeOK
    <2>3. OwnerOK'
      BY <1>6, AttemptedFacts
      DEF DependencyLost, FailClosed, BeginShutdown, timerVars, OwnerOK,
          LaunchTypeOK, Terminal, Attempted, Observers, ReleaseOK, Settled
    <2>4. ReadyOK'
      BY <1>6, OrderFacts
      DEF DependencyLost, FailClosed, BeginShutdown, timerVars, ReadyOK,
          OwnerOK, WorkOK, LaunchTypeOK, LossIsFailure, LaunchReady,
          StarterOK
    <2>5. ReleaseOK'
      BY <1>6, OrderFacts, AttemptedFacts
      DEF DependencyLost, FailClosed, BeginShutdown, timerVars, ReleaseOK,
          OwnerOK, Settled, LaunchTypeOK, Attempted, OwnerStates
    <2>6. LossIsFailure'
      BY <1>6, OrderFacts
      DEF DependencyLost, FailClosed, BeginShutdown, timerVars,
          LossIsFailure, LaunchTypeOK, Terminal, OwnerOK
    <2>7. WorkOK'
      BY <1>6
      DEF DependencyLost, FailClosed, BeginShutdown, startVars, timerVars,
          WorkOK
    <2> QED  BY <2>1, <2>2, <2>3, <2>4, <2>5, <2>6, <2>7
  <1>7. ASSUME NEW o \in Requests, CallerRequests(o)
         PROVE  LaunchInv'
    <2>1. LaunchTypeOK'
      BY <1>7, OrderFacts
      DEF CallerRequests, RequestShutdown, BeginShutdown, startVars,
          timerVars, LaunchTypeOK, OwnerStates, StarterOK, Observers
    <2>2. StarterOK'
      BY <1>7, OrderFacts
      DEF CallerRequests, RequestShutdown, BeginShutdown, startVars,
          timerVars, StarterOK, LaunchTypeOK
    <2>3. OwnerOK'
      BY <1>7, AttemptedFacts
      DEF CallerRequests, RequestShutdown, BeginShutdown, startVars,
          timerVars, OwnerOK, LaunchTypeOK, Terminal, Attempted, Observers,
          ReleaseOK, Settled
    <2>4. ReadyOK'
      BY <1>7, OrderFacts
      DEF CallerRequests, RequestShutdown, BeginShutdown, startVars,
          timerVars, ReadyOK, OwnerOK, WorkOK, LaunchTypeOK, LossIsFailure,
          LaunchReady, StarterOK
    <2>5. ReleaseOK'
      BY <1>7, OrderFacts, AttemptedFacts
      DEF CallerRequests, RequestShutdown, BeginShutdown, startVars,
          timerVars, ReleaseOK, OwnerOK, Settled, LaunchTypeOK, Attempted,
          OwnerStates
    <2>6. LossIsFailure'
      BY <1>7, OrderFacts
      DEF CallerRequests, RequestShutdown, BeginShutdown, startVars,
          timerVars, LossIsFailure, LaunchTypeOK, Terminal, OwnerOK
    <2>7. WorkOK'
      BY <1>7
      DEF CallerRequests, RequestShutdown, BeginShutdown, startVars,
          timerVars, WorkOK
    <2> QED  BY <2>1, <2>2, <2>3, <2>4, <2>5, <2>6, <2>7
  <1>8. CASE RecycleFires
    <2>1. LaunchTypeOK'
      BY <1>8 DEF RecycleFires, startVars, LaunchTypeOK
    <2>2. StarterOK' /\ WorkOK' /\ OwnerOK' /\ ReadyOK' /\ ReleaseOK' /\ LossIsFailure'
      BY <1>8
      DEF RecycleFires, startVars, timerVars, StarterOK, WorkOK, OwnerOK,
          Attempted, Terminal, ReadyOK, ReleaseOK, Settled, LossIsFailure
    <2> QED  BY <2>1, <2>2
  <1>9. CASE EmergencyFires
    <2>1. LaunchTypeOK'
      BY <1>9, OrderFacts
      DEF EmergencyFires, RequestShutdown, BeginShutdown, startVars,
          timerVars, LaunchTypeOK, OwnerStates, StarterOK, Observers
    <2>2. StarterOK'
      BY <1>9, OrderFacts
      DEF EmergencyFires, RequestShutdown, BeginShutdown, startVars,
          timerVars, StarterOK, LaunchTypeOK
    <2>3. OwnerOK'
      BY <1>9, AttemptedFacts
      DEF EmergencyFires, RequestShutdown, BeginShutdown, startVars,
          timerVars, OwnerOK, LaunchTypeOK, Terminal, Attempted, Observers,
          ReleaseOK, Settled
    <2>4. ReadyOK'
      BY <1>9, OrderFacts
      DEF EmergencyFires, RequestShutdown, BeginShutdown, startVars,
          timerVars, ReadyOK, OwnerOK, WorkOK, LaunchTypeOK, LossIsFailure,
          LaunchReady, StarterOK
    <2>5. ReleaseOK'
      BY <1>9, OrderFacts, AttemptedFacts
      DEF EmergencyFires, RequestShutdown, BeginShutdown, startVars,
          timerVars, ReleaseOK, OwnerOK, Settled, LaunchTypeOK, Attempted,
          OwnerStates
    <2>6. LossIsFailure'
      BY <1>9, OrderFacts
      DEF EmergencyFires, RequestShutdown, BeginShutdown, startVars,
          timerVars, LossIsFailure, LaunchTypeOK, Terminal, OwnerOK
    <2>7. WorkOK'
      BY <1>9
      DEF EmergencyFires, RequestShutdown, BeginShutdown, startVars,
          timerVars, WorkOK
    <2> QED  BY <2>1, <2>2, <2>3, <2>4, <2>5, <2>6, <2>7
  <1>10. CASE TurnSettled
    <2>1. LaunchTypeOK'
      BY <1>10, OrderFacts
      DEF TurnSettled, RequestShutdown, BeginShutdown, startVars, timerVars,
          LaunchTypeOK, OwnerStates, StarterOK, Observers
    <2>2. StarterOK'
      BY <1>10, OrderFacts
      DEF TurnSettled, RequestShutdown, BeginShutdown, startVars, timerVars,
          StarterOK, LaunchTypeOK
    <2>3. OwnerOK'
      BY <1>10, AttemptedFacts
      DEF TurnSettled, RequestShutdown, BeginShutdown, startVars, timerVars,
          OwnerOK, LaunchTypeOK, Terminal, Attempted, Observers, ReleaseOK,
          Settled
    <2>4. ReadyOK'
      BY <1>10, OrderFacts
      DEF TurnSettled, RequestShutdown, BeginShutdown, startVars, timerVars,
          ReadyOK, OwnerOK, WorkOK, LaunchTypeOK, LossIsFailure,
          LaunchReady, StarterOK
    <2>5. ReleaseOK'
      BY <1>10, OrderFacts, AttemptedFacts
      DEF TurnSettled, RequestShutdown, BeginShutdown, startVars, timerVars,
          ReleaseOK, OwnerOK, Settled, LaunchTypeOK, Attempted, OwnerStates
    <2>6. LossIsFailure'
      BY <1>10, OrderFacts
      DEF TurnSettled, RequestShutdown, BeginShutdown, startVars, timerVars,
          LossIsFailure, LaunchTypeOK, Terminal, OwnerOK
    <2>7. WorkOK'
      BY <1>10
      DEF TurnSettled, RequestShutdown, BeginShutdown, startVars, timerVars,
          WorkOK
    <2> QED  BY <2>1, <2>2, <2>3, <2>4, <2>5, <2>6, <2>7
  <1>11. ASSUME NEW ok \in BOOLEAN, SessionClosed(ok)
         PROVE  LaunchInv'
    <2>1. LaunchTypeOK'
      BY <1>11, OrderFacts
      DEF SessionClosed, OwnerFails, CleanupFailed, startVars, timerVars,
          LaunchTypeOK, OwnerStates, StarterOK, Observers
    <2>2. StarterOK'
      BY <1>11, OrderFacts
      DEF SessionClosed, OwnerFails, CleanupFailed, startVars, timerVars,
          StarterOK, LaunchTypeOK
    <2>3. OwnerOK'
      BY <1>11, AttemptedFacts
      DEF SessionClosed, OwnerFails, CleanupFailed, startVars, timerVars,
          OwnerOK, LaunchTypeOK, Terminal, Attempted, Observers, ReleaseOK,
          Settled
    <2>4. ReadyOK'
      BY <1>11, OrderFacts
      DEF SessionClosed, OwnerFails, CleanupFailed, startVars, timerVars,
          ReadyOK, OwnerOK, WorkOK, LaunchTypeOK, LossIsFailure,
          LaunchReady, StarterOK
    <2>5. ReleaseOK'
      BY <1>11, OrderFacts, AttemptedFacts
      DEF SessionClosed, OwnerFails, CleanupFailed, startVars, timerVars,
          ReleaseOK, OwnerOK, Settled, LaunchTypeOK, Attempted, OwnerStates
    <2>6. LossIsFailure'
      BY <1>11, OrderFacts
      DEF SessionClosed, OwnerFails, CleanupFailed, startVars, timerVars,
          LossIsFailure, LaunchTypeOK, Terminal, OwnerOK
    <2>7. WorkOK'
      BY <1>11
      DEF SessionClosed, OwnerFails, CleanupFailed, startVars, timerVars,
          WorkOK
    <2> QED  BY <2>1, <2>2, <2>3, <2>4, <2>5, <2>6, <2>7
  <1>12. ASSUME NEW ok \in BOOLEAN, OwnerEnds(ok)
         PROVE  LaunchInv'
    <2>1. LaunchTypeOK'
      BY <1>12, OrderFacts
      DEF OwnerEnds, OwnerFails, CleanupFailed, startVars, timerVars,
          LaunchTypeOK, OwnerStates, StarterOK, Observers
    <2>2. StarterOK'
      BY <1>12, OrderFacts
      DEF OwnerEnds, OwnerFails, CleanupFailed, startVars, timerVars,
          StarterOK, LaunchTypeOK
    <2>3. OwnerOK'
      BY <1>12, AttemptedFacts
      DEF OwnerEnds, OwnerFails, CleanupFailed, startVars, timerVars,
          OwnerOK, LaunchTypeOK, Terminal, Attempted, Observers, ReleaseOK,
          Settled
    <2>4. ReadyOK'
      BY <1>12, OrderFacts
      DEF OwnerEnds, OwnerFails, CleanupFailed, startVars, timerVars,
          ReadyOK, OwnerOK, WorkOK, LaunchTypeOK, LossIsFailure,
          LaunchReady, StarterOK
    <2>5. ReleaseOK'
      BY <1>12, OrderFacts, AttemptedFacts
      DEF OwnerEnds, OwnerFails, CleanupFailed, startVars, timerVars,
          ReleaseOK, OwnerOK, Settled, LaunchTypeOK, Attempted, OwnerStates
    <2>6. LossIsFailure'
      BY <1>12, OrderFacts
      DEF OwnerEnds, OwnerFails, CleanupFailed, startVars, timerVars,
          LossIsFailure, LaunchTypeOK, Terminal, OwnerOK
    <2>7. WorkOK'
      BY <1>12
      DEF OwnerEnds, OwnerFails, CleanupFailed, startVars, timerVars, WorkOK
    <2> QED  BY <2>1, <2>2, <2>3, <2>4, <2>5, <2>6, <2>7
  <1>13. ASSUME NEW d \in Deps, CloseBegins(d)
         PROVE  LaunchInv'
    <2>1. LaunchTypeOK'
      BY <1>13, OrderFacts
      DEF CloseBegins, MayClose, startVars, timerVars, LaunchTypeOK,
          OwnerStates, StarterOK, Observers
    <2>2. OwnerOK'
      BY <1>13, AttemptedFacts
      DEF CloseBegins, MayClose, startVars, timerVars, OwnerOK,
          LaunchTypeOK, Terminal, Attempted, Observers, ReleaseOK, Settled
    <2>3. ReleaseOK'
      BY <1>13, OrderFacts, AttemptedFacts
      DEF CloseBegins, MayClose, startVars, timerVars, ReleaseOK, OwnerOK,
          Settled, LaunchTypeOK, Attempted, OwnerStates
    <2>4. StarterOK' /\ WorkOK' /\ ReadyOK' /\ LossIsFailure'
      BY <1>13
      DEF CloseBegins, MayClose, startVars, timerVars, StarterOK, WorkOK,
          ReadyOK, LossIsFailure
    <2> QED  BY <2>1, <2>2, <2>3, <2>4
  <1>14. ASSUME NEW d \in Deps, NEW ok \in BOOLEAN, CloseReturns(d, ok)
         PROVE  LaunchInv'
    <2>1. LaunchTypeOK'
      BY <1>14, OrderFacts
      DEF CloseReturns, startVars, timerVars, LaunchTypeOK, OwnerStates,
          StarterOK, Observers
    <2>2. OwnerOK'
      BY <1>14, AttemptedFacts
      DEF CloseReturns, startVars, timerVars, OwnerOK, LaunchTypeOK,
          Terminal, Attempted, Observers, ReleaseOK, Settled
    <2>3. ReleaseOK'
      BY <1>14, OrderFacts, AttemptedFacts
      DEF CloseReturns, startVars, timerVars, ReleaseOK, OwnerOK, Settled,
          LaunchTypeOK, Attempted, OwnerStates
    <2>4. StarterOK' /\ WorkOK' /\ ReadyOK' /\ LossIsFailure'
      BY <1>14
      DEF CloseReturns, startVars, timerVars, StarterOK, WorkOK, ReadyOK,
          LossIsFailure
    <2> QED  BY <2>1, <2>2, <2>3, <2>4
  <1>15. ASSUME NEW o \in Observers, RequestResolves(o)
         PROVE  LaunchInv'
    <2>1. LaunchTypeOK'
      BY <1>15, OrderFacts
      DEF RequestResolves, StarterSees, timerVars, LaunchTypeOK,
          OwnerStates, StarterOK, Observers
    <2>2. StarterOK'
      BY <1>15, OrderFacts
      DEF RequestResolves, StarterSees, timerVars, StarterOK, LaunchTypeOK
    <2>3. OwnerOK'
      BY <1>15, AttemptedFacts
      DEF RequestResolves, StarterSees, timerVars, OwnerOK, LaunchTypeOK,
          Terminal, Attempted, Observers, ReleaseOK, Settled
    <2>4. ReadyOK'
      BY <1>15, OrderFacts
      DEF RequestResolves, StarterSees, timerVars, ReadyOK, OwnerOK, WorkOK,
          LaunchTypeOK, LossIsFailure, LaunchReady, StarterOK
    <2>5. LossIsFailure'
      BY <1>15, OrderFacts
      DEF RequestResolves, StarterSees, timerVars, LossIsFailure,
          LaunchTypeOK, Terminal, OwnerOK
    <2>6. WorkOK' /\ ReleaseOK'
      BY <1>15
      DEF RequestResolves, StarterSees, startVars, timerVars, WorkOK,
          ReleaseOK, Attempted, Settled
    <2> QED  BY <2>1, <2>2, <2>3, <2>4, <2>5, <2>6
  <1>16. ASSUME NEW o \in Observers, RequestRejects(o)
         PROVE  LaunchInv'
    <2>1. LaunchTypeOK'
      BY <1>16, OrderFacts
      DEF RequestRejects, StarterSees, CleanupFailed, timerVars,
          LaunchTypeOK, OwnerStates, StarterOK, Observers
    <2>2. StarterOK'
      BY <1>16, OrderFacts
      DEF RequestRejects, StarterSees, CleanupFailed, timerVars, StarterOK,
          LaunchTypeOK
    <2>3. OwnerOK'
      BY <1>16, AttemptedFacts
      DEF RequestRejects, StarterSees, CleanupFailed, timerVars, OwnerOK,
          LaunchTypeOK, Terminal, Attempted, Observers, ReleaseOK, Settled
    <2>4. ReadyOK'
      BY <1>16, OrderFacts
      DEF RequestRejects, StarterSees, CleanupFailed, timerVars, ReadyOK,
          OwnerOK, WorkOK, LaunchTypeOK, LossIsFailure, LaunchReady,
          StarterOK
    <2>5. LossIsFailure'
      BY <1>16, OrderFacts
      DEF RequestRejects, StarterSees, CleanupFailed, timerVars,
          LossIsFailure, LaunchTypeOK, Terminal, OwnerOK
    <2>6. WorkOK' /\ ReleaseOK'
      BY <1>16
      DEF RequestRejects, StarterSees, CleanupFailed, startVars, timerVars,
          WorkOK, ReleaseOK, Attempted, Settled
    <2> QED  BY <2>1, <2>2, <2>3, <2>4, <2>5, <2>6
  <1>17. CASE UNCHANGED launchVars
    BY <1>17
    DEF launchVars, LaunchTypeOK, StarterOK, WorkOK, OwnerOK, ReadyOK,
        ReleaseOK, LossIsFailure, Attempted, Terminal, Settled
  <1> QED
    BY <1>1, <1>2, <1>3, <1>4, <1>5, <1>6, <1>7, <1>8, <1>9, <1>10, <1>11,
       <1>12, <1>13, <1>14, <1>15, <1>16, <1>17
    DEF LaunchNext, StartSteps, CloseSteps

\* The invariant holds throughout.
LEMMA LaunchInvariant == LaunchSpec => []LaunchInv
  BY InvInit, InvStep, PTL DEF LaunchSpec

-----------------------------------------------------------------------------
(***************************************************************************)
(* The theorems.                                                           *)
(***************************************************************************)

\* Every variable of the lifecycle keeps its type.
THEOREM LaunchTypeCorrect == LaunchSpec => []LaunchTypeOK
  BY LaunchInvariant, PTL DEF LaunchInv

(***************************************************************************)
(* `stopped` is never reported over an unfinished cleanup, however many    *)
(* observers race their deadlines: only the owner's own success yields it, *)
(* and the owner succeeds when everything attempted has closed.            *)
(***************************************************************************)
THEOREM StopIsClean == LaunchSpec => []StoppedMeansClosed
  <1>1. LaunchInv => StoppedMeansClosed
    <2> SUFFICES ASSUME LaunchInv, state = "stopped"
                 PROVE  /\ \A d \in Attempted : closing[d] = "closed"
                        /\ \A d \in Deps : work[d] # "running"
      BY DEF StoppedMeansClosed
    <2>1. \A d \in Attempted : closing[d] = "closed"
      BY DEF LaunchInv, OwnerOK
    <2>2. ASSUME NEW d \in Deps PROVE work[d] # "running"
      <3>1. CASE d \in Attempted
        BY <3>1, <2>1, AttemptedFacts DEF LaunchInv, ReleaseOK, Settled
      <3>2. CASE d \notin Attempted
        BY <3>2, OrderFacts, AttemptedFacts DEF LaunchInv, LaunchTypeOK, WorkOK
      <3> QED  BY <3>1, <3>2
    <2> QED  BY <2>1, <2>2
  <1> QED  BY <1>1, LaunchInvariant, PTL

\* While the lifecycle is ready, every dependency is up and no shutdown began.
THEOREM ReadyIsWhole == LaunchSpec => []ReadyMeansWhole
  <1>1. LaunchInv => ReadyMeansWhole
    BY DEF LaunchInv, ReadyOK, OwnerOK, ReleaseOK, ReadyMeansWhole, LaunchReady
  <1> QED  BY <1>1, LaunchInvariant, PTL

\* Dependencies are released in custody order, whatever fails or hangs.
THEOREM ReleasesInOrder == LaunchSpec => []ReleaseOrder
  <1>1. LaunchInv => ReleaseOrder
    BY AttemptedFacts DEF LaunchInv, ReleaseOK, ReleaseOrder, Settled
  <1> QED  BY <1>1, LaunchInvariant, PTL

\* A lost or failed dependency is always reported as a failure.
THEOREM LossReported == LaunchSpec => []LossIsFailure
  BY LaunchInvariant, PTL DEF LaunchInv

\* All of it together, for every order of dependencies and set of callers.
THEOREM LaunchIsSafe == LaunchSpec => []LaunchSafe
  <1>1. (LaunchTypeOK /\ StoppedMeansClosed /\ ReadyMeansWhole /\ ReleaseOrder
          /\ LossIsFailure)
        => LaunchSafe
    BY DEF LaunchSafe
  <1> QED
    BY <1>1, LaunchTypeCorrect, StopIsClean, ReadyIsWhole, ReleasesInOrder, LossReported, PTL

\* `stopped` and `failed` are final, and readiness never returns.
THEOREM EndIsFinal == LaunchSpec => EndsOnce
  <1>1. ASSUME LaunchInv, [LaunchNext]_launchVars
        PROVE  [ /\ state \in Terminal => state' = state
                 /\ shutdown => shutdown' /\ ~published' ]_launchVars
    <2> USE DEF LaunchInv
    <2>1. CASE StartSteps
      BY <1>1, <2>1
      DEF StartSteps, Start, StartContinues, StartInterruption, StartInterrupted,
          StartFails, WorkEnds, RequestShutdown, FailClosed, BeginShutdown, Terminal,
          OwnerOK, ReadyOK
    <2>2. CASE \E d \in Deps : DependencyLost(d)
      BY <1>1, <2>2 DEF DependencyLost, FailClosed, BeginShutdown
    <2>3. CASE (\E r \in Requests : CallerRequests(r)) \/ EmergencyFires \/ TurnSettled
      BY <1>1, <2>3 DEF CallerRequests, EmergencyFires, TurnSettled, RequestShutdown,
         BeginShutdown
    <2>4. CASE RecycleFires
      BY <1>1, <2>4 DEF RecycleFires, ReadyOK
    <2>5. CASE CloseSteps
      BY <1>1, <2>5
      DEF CloseSteps, SessionClosed, OwnerEnds, CloseBegins, CloseReturns, RequestResolves,
          RequestRejects, OwnerFails, CleanupFailed, ReadyOK
    <2> QED  BY <1>1, <2>1, <2>2, <2>3, <2>4, <2>5 DEF LaunchNext
  <1> QED  BY <1>1, LaunchInvariant, PTL DEF LaunchSpec, EndsOnce
=============================================================================

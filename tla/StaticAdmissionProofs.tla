----------------------- MODULE StaticAdmissionProofs -----------------------
(***************************************************************************)
(* What the preparation, its rollback and the custody of an operation      *)
(* promise, for every number of faults and of upgrades of the host.        *)
(*                                                                         *)
(* The preparation, its rollback and the custody may run at the same time; *)
(* nothing locks one out while another runs.  The custody meets a          *)
(* preparation only if it was exposed to one, and the control it has read  *)
(* is never staged again.  The disk is the hard half: what a preparation   *)
(* has written is known from its place in the script, what a rollback has  *)
(* removed from the class it is at, and what is common to both, and to the *)
(* cleanup of an operation in between, is how the names of the disk lie    *)
(* inside each other.                                                      *)
(***************************************************************************)
EXTENDS StaticAdmission, TLAPS

-----------------------------------------------------------------------------
(* The inductive invariants. *)

Words == {"none", "torn", "loose", "sealed", "linked", "cut", "some", "rest", "open", "empty",
          "whole", "removing"}
Archives == {"kata", "containerd"}
InputNames == {"intent", "blob", "sentinel", "settle"}

PrepType == [act : {"none", "prepare", "rollback", "claimed"}, pc : Nat, checked : BOOLEAN, cut : BOOLEAN,
             moved : BOOLEAN, seen : BOOLEAN, known : BOOLEAN]
AdmType == [kind : {"none", "forward", "recovery"}, contract : Nat,
            fds : SUBSET (StaticFds \cup {"mapping", "role", "prepared"}),
            ver : [Roles -> Nat], dup : [Roles -> Nat], owner : {"none", "issued", "lazy"},
            lease : {"none", "held", "settled"}, mapped : BOOLEAN,
            prepared : {"none", "claimed", "consumed", "verified"}, retired : BOOLEAN, failed : BOOLEAN]

\* The types of the disk, of the two processes, of the extractor, of the host
\* and of the staged control.
TypeInv ==
    /\ disk \in [Names -> Words] /\ prep \in PrepType /\ tar \in Archives \cup {"none"}
    /\ prep.act = "prepare" => prep.pc # 0
    /\ adm \in AdmType /\ host \in Generations /\ package \in [Members -> Generations]
    /\ cand \in Generations /\ col \in [act : {"none", "collected", "publishing"}, gen : Generations]

\* A process of the operation goes by one reviewed package: what it claimed
\* and what it duplicated are of the generation of its contracts.
CustodyInv ==
    /\ adm.kind = "none" => adm = NoAdm
    /\ adm.kind # "none" => control # "none" /\ PackageExact(package) /\ adm.contract = package["contract"]
    /\ \A r \in Roles : /\ adm.ver[r] # None => adm.ver[r] = package["contract"]
                        /\ adm.dup[r] # None => adm.dup[r] = package["contract"]

\* What an operation was admitted for is there unless it was exposed to a
\* preparation or a rollback; the runtime its journal names as this one is.
InputInv ==
    /\ (busy \/ adm.kind = "forward") /\ ~exposed =>
          /\ prep.act \notin {"prepare", "rollback"} /\ disk["kata"] = "whole" /\ disk["blob"] = "whole"
    /\ Forward /\ ~exposed =>
          /\ disk["active"] = "whole" /\ disk["staged"] # "none"
          /\ adm.ver["containerd"] # None \/ adm.dup["containerd"] # None => disk["staged"] = "whole"
    /\ recorded = "this" => disk["staged"] # "none"

\* What the custody keeps open in each of its states.
DescriptorInv ==
    /\ adm.owner = "lazy" => adm.kind = "recovery"
    /\ adm.owner = "issued" => adm.kind = "forward"
    /\ adm.kind # "none" /\ ~adm.retired => StaticFds \subseteq adm.fds
    /\ adm.owner # "none" => "role" \in adm.fds
    /\ \A r \in Roles : /\ adm.ver[r] # None /\ ~adm.retired => "role" \in adm.fds
                        /\ adm.dup[r] # None => "role" \in adm.fds /\ (adm.owner # "none" \/ Forward)
                        /\ Forward /\ adm.owner = "issued" => adm.dup[r] # None
    /\ adm.retired => adm.failed /\ adm.owner = "none"
    /\ adm.prepared # "none" /\ ~adm.retired => adm.owner = "issued"

\* How the names lie inside each other.
Inside ==
    /\ \A n \in Names : disk[n] # "none" => disk["root"] # "none"
    /\ disk["arch-kata"] # "none" \/ disk["arch-containerd"] # "none" => disk["cache"] # "none"
    /\ disk["mark-kata"] # "none" => disk["tree-kata"] # "none"
    /\ disk["mark-containerd"] # "none" => disk["tree-containerd"] # "none"
    /\ \A n \in InputNames : disk[n] # "none" => disk["input"] # "none"
    /\ disk["active"] # "none" => disk["staging"] # "none" \/ disk["staged"] # "none"
    /\ disk["active"] \in {"none", "torn", "whole"}
    /\ disk["staged"] # "none" => disk["active"] # "torn"

\* What a preparation has written when it is at a step of its script.
WrittenBefore(pc) ==
    /\ pc \in 1 .. 41
    /\ pc = 1 <=> disk["root"] = "none"
    /\ pc > 2 => disk["cache"] # "none"
    /\ pc > 4 => disk["input"] # "none"
    /\ pc > 22 => disk["tree-kata"] # "none"
    /\ pc > 27 => disk["tree-containerd"] # "none"
    /\ pc < 35 => Gone({"staging", "staged", "kata"})
    /\ pc > 32 /\ pc < 41 => disk["tree-kata"] = "whole"
    /\ pc > 33 => disk["receipt"] = "whole"
    /\ pc > 34 /\ pc < 40 => disk["staging"] # "none"
    /\ pc < 40 => disk["staged"] = "none"
    /\ pc = 39 => disk["active"] # "torn"

\* What a rollback has removed when it is at a class.
RemovedBefore(pc) ==
    /\ pc \in 1 .. 8
    /\ pc > 1 => disk["staged"] = "none"
    /\ pc > 2 => disk["staging"] = "none"
    /\ pc > 3 => disk["kata"] = "none"
    /\ pc > 4 => TreesGone /\ disk["ext"] = "none"
    /\ pc > 5 => disk["cache"] = "none"
    /\ pc > 6 => disk["receipt"] = "none"
    /\ pc > 7 => disk["input"] = "none"

ProcessInv ==
    /\ prep.act = "prepare" => WrittenBefore(prep.pc)
    /\ prep.act = "rollback" => RemovedBefore(prep.pc) /\ (disk["kata"] # "none" => prep.moved)

\* The extractor, orphan or not, writes below a tree that is there; while its
\* parent lives, at the step that waits for it.
ExtractorInv ==
    tar # "none" => disk[Tree[tar]] # "none" /\ (prep.act = "prepare" => Extracting(tar))

Provable ==
    /\ disk["staging"] # "none" \/ disk["staged"] # "none" \/ disk["kata"] # "none"
       => disk["receipt"] = "whole"
    /\ disk["active"] # "none" => BaseAt(disk)

DiskInv == Inside /\ ProcessInv /\ ExtractorInv /\ Provable
-----------------------------------------------------------------------------
(* The script, step by step. *)

Steps == [name : Names, word : Words, from : Names \cup {"nothing"}, left : Words]

LEMMA NamesAre ==
  Names = {"root", "cache", "ext", "input", "intent", "blob", "sentinel", "settle", "receipt",
           "staging", "staged", "active", "kata", "arch-kata", "arch-containerd",
           "tree-kata", "tree-containerd", "mark-kata", "mark-containerd"}
  BY DEF Names, Arch, Tree, Mark

LEMMA ArchivesAre ==
  /\ Arch["kata"] = "arch-kata" /\ Arch["containerd"] = "arch-containerd"
  /\ Tree["kata"] = "tree-kata" /\ Tree["containerd"] = "tree-containerd"
  /\ Mark["kata"] = "mark-kata" /\ Mark["containerd"] = "mark-containerd"
  BY DEF Arch, Tree, Mark

LEMMA WriteType ==
  ASSUME NEW n \in Names, NEW w \in Words
  PROVE  Write(n, w) \in Steps
  BY DEF Write, Steps, Words

LEMMA RenameType ==
  ASSUME NEW n \in Names, NEW m \in Names, NEW w \in Words
  PROVE  Rename(n, m, w) \in Steps
  BY DEF Rename, Steps, Words

\* Where a part of the script is once it is joined to what comes before it.
IsJoin(u, s, t) ==
    /\ u \in Seq(Steps) /\ Len(u) = Len(s) + Len(t)
    /\ \A i \in 1..Len(s) : u[i] = s[i]
    /\ \A i \in 1..Len(t) : u[Len(s) + i] = t[i]

LEMMA Joined ==
  ASSUME NEW s \in Seq(Steps), NEW t \in Seq(Steps)
  PROVE  IsJoin(s \o t, s, t)
  <1> DEFINE S == Steps
  <1>1. s \in Seq(S) /\ t \in Seq(S)
    OBVIOUS
  <1> HIDE DEF S
  <1>2. /\ s \o t \in Seq(S) /\ Len(s \o t) = Len(s) + Len(t)
        /\ \A i \in 1..Len(s) : (s \o t)[i] = s[i]
        /\ \A i \in 1..Len(t) : (s \o t)[Len(s) + i] = t[i]
    BY <1>1
  <1> QED
    BY <1>2 DEF IsJoin, S

Opening == << Write("root", "whole"), Write("cache", "whole"), Write("ext", "whole") >>

LEMMA PartOfOpening ==
  /\ Opening \in Seq(Steps) /\ Len(Opening) = 3
  /\ Opening[1] = Write("root", "whole")
  /\ Opening[2] = Write("cache", "whole")
  /\ Opening[3] = Write("ext", "whole")
  <1>1. Write("root", "whole") \in Steps
    BY WriteType, NamesAre DEF Words
  <1>2. Write("cache", "whole") \in Steps
    BY WriteType, NamesAre DEF Words
  <1>3. Write("ext", "whole") \in Steps
    BY WriteType, NamesAre DEF Words
  <1> QED
    BY <1>1, <1>2, <1>3 DEF Opening

LEMMA PartOfIntentSteps ==
  /\ IntentSteps \in Seq(Steps) /\ Len(IntentSteps) = 4
  /\ IntentSteps[1] = Write("input", "empty")
  /\ IntentSteps[2] = Write("intent", "torn")
  /\ IntentSteps[3] = Write("intent", "loose")
  /\ IntentSteps[4] = Write("intent", "whole")
  <1>1. Write("input", "empty") \in Steps
    BY WriteType, NamesAre DEF Words
  <1>2. Write("intent", "torn") \in Steps
    BY WriteType, NamesAre DEF Words
  <1>3. Write("intent", "loose") \in Steps
    BY WriteType, NamesAre DEF Words
  <1>4. Write("intent", "whole") \in Steps
    BY WriteType, NamesAre DEF Words
  <1> QED
    BY <1>1, <1>2, <1>3, <1>4 DEF IntentSteps

LEMMA PartOfBlobSteps ==
  /\ BlobSteps \in Seq(Steps) /\ Len(BlobSteps) = 4
  /\ BlobSteps[1] = Write("blob", "torn")
  /\ BlobSteps[2] = Write("blob", "sealed")
  /\ BlobSteps[3] = Write("blob", "linked")
  /\ BlobSteps[4] = Write("blob", "whole")
  <1>1. Write("blob", "torn") \in Steps
    BY WriteType, NamesAre DEF Words
  <1>2. Write("blob", "sealed") \in Steps
    BY WriteType, NamesAre DEF Words
  <1>3. Write("blob", "linked") \in Steps
    BY WriteType, NamesAre DEF Words
  <1>4. Write("blob", "whole") \in Steps
    BY WriteType, NamesAre DEF Words
  <1> QED
    BY <1>1, <1>2, <1>3, <1>4 DEF BlobSteps

LEMMA PartOfSettleSteps ==
  /\ SettleSteps \in Seq(Steps) /\ Len(SettleSteps) = 4
  /\ SettleSteps[1] = Write("sentinel", "torn")
  /\ SettleSteps[2] = Write("sentinel", "whole")
  /\ SettleSteps[3] = Write("settle", "torn")
  /\ SettleSteps[4] = Write("settle", "whole")
  <1>1. Write("sentinel", "torn") \in Steps
    BY WriteType, NamesAre DEF Words
  <1>2. Write("sentinel", "whole") \in Steps
    BY WriteType, NamesAre DEF Words
  <1>3. Write("settle", "torn") \in Steps
    BY WriteType, NamesAre DEF Words
  <1>4. Write("settle", "whole") \in Steps
    BY WriteType, NamesAre DEF Words
  <1> QED
    BY <1>1, <1>2, <1>3, <1>4 DEF SettleSteps

LEMMA PartOfDownloadStepsKata ==
  /\ DownloadSteps("kata") \in Seq(Steps) /\ Len(DownloadSteps("kata")) = 3
  /\ DownloadSteps("kata")[1] = Write("arch-kata", "torn")
  /\ DownloadSteps("kata")[2] = Write("arch-kata", "sealed")
  /\ DownloadSteps("kata")[3] = Write("arch-kata", "whole")
  <1>1. Write("arch-kata", "torn") \in Steps
    BY WriteType, NamesAre DEF Words
  <1>2. Write("arch-kata", "sealed") \in Steps
    BY WriteType, NamesAre DEF Words
  <1>3. Write("arch-kata", "whole") \in Steps
    BY WriteType, NamesAre DEF Words
  <1> DEFINE steps == << Write("arch-kata", "torn"), Write("arch-kata", "sealed"),
                        Write("arch-kata", "whole") >>
  <1>s. DownloadSteps("kata") = steps
    BY ArchivesAre DEF DownloadSteps
  <1>a. steps \in Seq(Steps)
    BY <1>1, <1>2, <1>3
  <1>b. Len(steps) = 3
    OBVIOUS
  <1>c. /\ steps[1] = Write("arch-kata", "torn")
        /\ steps[2] = Write("arch-kata", "sealed")
        /\ steps[3] = Write("arch-kata", "whole")
    OBVIOUS
  <1> HIDE DEF steps
  <1> QED
    BY <1>s, <1>a, <1>b, <1>c

LEMMA PartOfDownloadStepsContainerd ==
  /\ DownloadSteps("containerd") \in Seq(Steps) /\ Len(DownloadSteps("containerd")) = 3
  /\ DownloadSteps("containerd")[1] = Write("arch-containerd", "torn")
  /\ DownloadSteps("containerd")[2] = Write("arch-containerd", "sealed")
  /\ DownloadSteps("containerd")[3] = Write("arch-containerd", "whole")
  <1>1. Write("arch-containerd", "torn") \in Steps
    BY WriteType, NamesAre DEF Words
  <1>2. Write("arch-containerd", "sealed") \in Steps
    BY WriteType, NamesAre DEF Words
  <1>3. Write("arch-containerd", "whole") \in Steps
    BY WriteType, NamesAre DEF Words
  <1> DEFINE steps == << Write("arch-containerd", "torn"), Write("arch-containerd", "sealed"),
                        Write("arch-containerd", "whole") >>
  <1>s. DownloadSteps("containerd") = steps
    BY ArchivesAre DEF DownloadSteps
  <1>a. steps \in Seq(Steps)
    BY <1>1, <1>2, <1>3
  <1>b. Len(steps) = 3
    OBVIOUS
  <1>c. /\ steps[1] = Write("arch-containerd", "torn")
        /\ steps[2] = Write("arch-containerd", "sealed")
        /\ steps[3] = Write("arch-containerd", "whole")
    OBVIOUS
  <1> HIDE DEF steps
  <1> QED
    BY <1>s, <1>a, <1>b, <1>c

LEMMA PartOfExtractStepsKata ==
  /\ ExtractSteps("kata") \in Seq(Steps) /\ Len(ExtractSteps("kata")) = 5
  /\ ExtractSteps("kata")[1] = Write("tree-kata", "empty")
  /\ ExtractSteps("kata")[2] = Write("mark-kata", "torn")
  /\ ExtractSteps("kata")[3] = Write("mark-kata", "whole")
  /\ ExtractSteps("kata")[4] = Write("tree-kata", "whole")
  /\ ExtractSteps("kata")[5] = Write("mark-kata", "none")
  <1>1. Write("tree-kata", "empty") \in Steps
    BY WriteType, NamesAre DEF Words
  <1>2. Write("mark-kata", "torn") \in Steps
    BY WriteType, NamesAre DEF Words
  <1>3. Write("mark-kata", "whole") \in Steps
    BY WriteType, NamesAre DEF Words
  <1>4. Write("tree-kata", "whole") \in Steps
    BY WriteType, NamesAre DEF Words
  <1>5. Write("mark-kata", "none") \in Steps
    BY WriteType, NamesAre DEF Words
  <1> DEFINE steps == << Write("tree-kata", "empty"), Write("mark-kata", "torn"),
                        Write("mark-kata", "whole"), Write("tree-kata", "whole"),
                        Write("mark-kata", "none") >>
  <1>s. ExtractSteps("kata") = steps
    BY ArchivesAre DEF ExtractSteps
  <1>a. steps \in Seq(Steps)
    BY <1>1, <1>2, <1>3, <1>4, <1>5
  <1>b. Len(steps) = 5
    OBVIOUS
  <1>c. /\ steps[1] = Write("tree-kata", "empty")
        /\ steps[2] = Write("mark-kata", "torn")
        /\ steps[3] = Write("mark-kata", "whole")
        /\ steps[4] = Write("tree-kata", "whole")
        /\ steps[5] = Write("mark-kata", "none")
    OBVIOUS
  <1> HIDE DEF steps
  <1> QED
    BY <1>s, <1>a, <1>b, <1>c

LEMMA PartOfExtractStepsContainerd ==
  /\ ExtractSteps("containerd") \in Seq(Steps) /\ Len(ExtractSteps("containerd")) = 5
  /\ ExtractSteps("containerd")[1] = Write("tree-containerd", "empty")
  /\ ExtractSteps("containerd")[2] = Write("mark-containerd", "torn")
  /\ ExtractSteps("containerd")[3] = Write("mark-containerd", "whole")
  /\ ExtractSteps("containerd")[4] = Write("tree-containerd", "whole")
  /\ ExtractSteps("containerd")[5] = Write("mark-containerd", "none")
  <1>1. Write("tree-containerd", "empty") \in Steps
    BY WriteType, NamesAre DEF Words
  <1>2. Write("mark-containerd", "torn") \in Steps
    BY WriteType, NamesAre DEF Words
  <1>3. Write("mark-containerd", "whole") \in Steps
    BY WriteType, NamesAre DEF Words
  <1>4. Write("tree-containerd", "whole") \in Steps
    BY WriteType, NamesAre DEF Words
  <1>5. Write("mark-containerd", "none") \in Steps
    BY WriteType, NamesAre DEF Words
  <1> DEFINE steps == << Write("tree-containerd", "empty"), Write("mark-containerd", "torn"),
                        Write("mark-containerd", "whole"), Write("tree-containerd", "whole"),
                        Write("mark-containerd", "none") >>
  <1>s. ExtractSteps("containerd") = steps
    BY ArchivesAre DEF ExtractSteps
  <1>a. steps \in Seq(Steps)
    BY <1>1, <1>2, <1>3, <1>4, <1>5
  <1>b. Len(steps) = 5
    OBVIOUS
  <1>c. /\ steps[1] = Write("tree-containerd", "empty")
        /\ steps[2] = Write("mark-containerd", "torn")
        /\ steps[3] = Write("mark-containerd", "whole")
        /\ steps[4] = Write("tree-containerd", "whole")
        /\ steps[5] = Write("mark-containerd", "none")
    OBVIOUS
  <1> HIDE DEF steps
  <1> QED
    BY <1>s, <1>a, <1>b, <1>c

LEMMA PartOfReceiptSteps ==
  /\ ReceiptSteps \in Seq(Steps) /\ Len(ReceiptSteps) = 2
  /\ ReceiptSteps[1] = Write("receipt", "torn")
  /\ ReceiptSteps[2] = Write("receipt", "whole")
  <1>1. Write("receipt", "torn") \in Steps
    BY WriteType, NamesAre DEF Words
  <1>2. Write("receipt", "whole") \in Steps
    BY WriteType, NamesAre DEF Words
  <1> QED
    BY <1>1, <1>2 DEF ReceiptSteps

LEMMA PartOfPublishSteps ==
  /\ PublishSteps \in Seq(Steps) /\ Len(PublishSteps) = 7
  /\ PublishSteps[1] = Write("staging", "empty")
  /\ PublishSteps[2] = Write("staging", "torn")
  /\ PublishSteps[3] = Write("staging", "some")
  /\ PublishSteps[4] = Write("active", "torn")
  /\ PublishSteps[5] = Write("active", "whole")
  /\ PublishSteps[6] = Rename("staging", "staged", "none")
  /\ PublishSteps[7] = Rename("tree-kata", "kata", "rest")
  <1>1. Write("staging", "empty") \in Steps
    BY WriteType, NamesAre DEF Words
  <1>2. Write("staging", "torn") \in Steps
    BY WriteType, NamesAre DEF Words
  <1>3. Write("staging", "some") \in Steps
    BY WriteType, NamesAre DEF Words
  <1>4. Write("active", "torn") \in Steps
    BY WriteType, NamesAre DEF Words
  <1>5. Write("active", "whole") \in Steps
    BY WriteType, NamesAre DEF Words
  <1>6. Rename("staging", "staged", "none") \in Steps
    BY RenameType, NamesAre DEF Words
  <1>7. Rename("tree-kata", "kata", "rest") \in Steps
    BY RenameType, NamesAre DEF Words
  <1>a. PublishSteps \in Seq(Steps)
    BY <1>1, <1>2, <1>3, <1>4, <1>5, <1>6, <1>7 DEF PublishSteps
  <1>b. Len(PublishSteps) = 7
    BY DEF PublishSteps
  <1>c. /\ PublishSteps[1] = Write("staging", "empty")
        /\ PublishSteps[2] = Write("staging", "torn")
        /\ PublishSteps[3] = Write("staging", "some")
        /\ PublishSteps[4] = Write("active", "torn")
        /\ PublishSteps[5] = Write("active", "whole")
        /\ PublishSteps[6] = Rename("staging", "staged", "none")
        /\ PublishSteps[7] = Rename("tree-kata", "kata", "rest")
    BY DEF PublishSteps
  <1> QED
    BY <1>a, <1>b, <1>c

\* Where the parts are.
LEMMA Places ==
  /\ Script \in Seq(Steps) /\ Len(Script) = 40
  /\ \A i \in 1..3 : Script[i] = Opening[i]
  /\ \A i \in 1..4 : Script[3 + i] = IntentSteps[i]
  /\ \A i \in 1..4 : Script[7 + i] = BlobSteps[i]
  /\ \A i \in 1..4 : Script[11 + i] = SettleSteps[i]
  /\ \A i \in 1..3 : Script[15 + i] = DownloadSteps("kata")[i]
  /\ \A i \in 1..3 : Script[18 + i] = DownloadSteps("containerd")[i]
  /\ \A i \in 1..5 : Script[21 + i] = ExtractSteps("kata")[i]
  /\ \A i \in 1..5 : Script[26 + i] = ExtractSteps("containerd")[i]
  /\ \A i \in 1..2 : Script[31 + i] = ReceiptSteps[i]
  /\ \A i \in 1..7 : Script[33 + i] = PublishSteps[i]
  <1> DEFINE t4 == DownloadSteps("kata")
             t5 == DownloadSteps("containerd")
             t6 == ExtractSteps("kata")
             t7 == ExtractSteps("containerd")
             s1 == Opening \o IntentSteps
             s2 == s1 \o BlobSteps
             s3 == s2 \o SettleSteps
             s4 == s3 \o t4
             s5 == s4 \o t5
             s6 == s5 \o t6
             s7 == s6 \o t7
             s8 == s7 \o ReceiptSteps
             s9 == s8 \o PublishSteps
  <1>s. Script = s9
    BY DEF Script, Opening
  <1>4t. t4 \in Seq(Steps) /\ Len(t4) = 3
    BY PartOfDownloadStepsKata
  <1>5t. t5 \in Seq(Steps) /\ Len(t5) = 3
    BY PartOfDownloadStepsContainerd
  <1>6t. t6 \in Seq(Steps) /\ Len(t6) = 5
    BY PartOfExtractStepsKata
  <1>7t. t7 \in Seq(Steps) /\ Len(t7) = 5
    BY PartOfExtractStepsContainerd
  <1> HIDE DEF t4, t5, t6, t7
  <1>1j. IsJoin(s1, Opening, IntentSteps)
    BY PartOfOpening, PartOfIntentSteps, Joined
  <1> HIDE DEF s1
  <1>1a. s1 \in Seq(Steps) /\ Len(s1) = 7
    BY <1>1j, PartOfOpening, PartOfIntentSteps DEF IsJoin
  <1>1b. \A i \in 1..3 : s1[i] = Opening[i]
    BY <1>1j, PartOfOpening DEF IsJoin
  <1>1c. \A i \in 1..4 : s1[3 + i] = IntentSteps[i]
    BY <1>1j, PartOfOpening, PartOfIntentSteps DEF IsJoin
  <1>2j. IsJoin(s2, s1, BlobSteps)
    BY <1>1a, PartOfBlobSteps, Joined
  <1> HIDE DEF s2
  <1>2a. s2 \in Seq(Steps) /\ Len(s2) = 11
    BY <1>2j, <1>1a, PartOfBlobSteps DEF IsJoin
  <1>2b. \A i \in 1..7 : s2[i] = s1[i]
    BY <1>2j, <1>1a DEF IsJoin
  <1>2c. \A i \in 1..4 : s2[7 + i] = BlobSteps[i]
    BY <1>2j, <1>1a, PartOfBlobSteps DEF IsJoin
  <1>3j. IsJoin(s3, s2, SettleSteps)
    BY <1>2a, PartOfSettleSteps, Joined
  <1> HIDE DEF s3
  <1>3a. s3 \in Seq(Steps) /\ Len(s3) = 15
    BY <1>3j, <1>2a, PartOfSettleSteps DEF IsJoin
  <1>3b. \A i \in 1..11 : s3[i] = s2[i]
    BY <1>3j, <1>2a DEF IsJoin
  <1>3c. \A i \in 1..4 : s3[11 + i] = SettleSteps[i]
    BY <1>3j, <1>2a, PartOfSettleSteps DEF IsJoin
  <1>4j. IsJoin(s4, s3, t4)
    BY <1>3a, <1>4t, Joined
  <1> HIDE DEF s4
  <1>4a. s4 \in Seq(Steps) /\ Len(s4) = 18
    BY <1>4j, <1>3a, <1>4t DEF IsJoin
  <1>4b. \A i \in 1..15 : s4[i] = s3[i]
    BY <1>4j, <1>3a DEF IsJoin
  <1>4c. \A i \in 1..3 : s4[15 + i] = t4[i]
    BY <1>4j, <1>3a, <1>4t DEF IsJoin
  <1>5j. IsJoin(s5, s4, t5)
    BY <1>4a, <1>5t, Joined
  <1> HIDE DEF s5
  <1>5a. s5 \in Seq(Steps) /\ Len(s5) = 21
    BY <1>5j, <1>4a, <1>5t DEF IsJoin
  <1>5b. \A i \in 1..18 : s5[i] = s4[i]
    BY <1>5j, <1>4a DEF IsJoin
  <1>5c. \A i \in 1..3 : s5[18 + i] = t5[i]
    BY <1>5j, <1>4a, <1>5t DEF IsJoin
  <1>6j. IsJoin(s6, s5, t6)
    BY <1>5a, <1>6t, Joined
  <1> HIDE DEF s6
  <1>6a. s6 \in Seq(Steps) /\ Len(s6) = 26
    BY <1>6j, <1>5a, <1>6t DEF IsJoin
  <1>6b. \A i \in 1..21 : s6[i] = s5[i]
    BY <1>6j, <1>5a DEF IsJoin
  <1>6c. \A i \in 1..5 : s6[21 + i] = t6[i]
    BY <1>6j, <1>5a, <1>6t DEF IsJoin
  <1>7j. IsJoin(s7, s6, t7)
    BY <1>6a, <1>7t, Joined
  <1> HIDE DEF s7
  <1>7a. s7 \in Seq(Steps) /\ Len(s7) = 31
    BY <1>7j, <1>6a, <1>7t DEF IsJoin
  <1>7b. \A i \in 1..26 : s7[i] = s6[i]
    BY <1>7j, <1>6a DEF IsJoin
  <1>7c. \A i \in 1..5 : s7[26 + i] = t7[i]
    BY <1>7j, <1>6a, <1>7t DEF IsJoin
  <1>8j. IsJoin(s8, s7, ReceiptSteps)
    BY <1>7a, PartOfReceiptSteps, Joined
  <1> HIDE DEF s8
  <1>8a. s8 \in Seq(Steps) /\ Len(s8) = 33
    BY <1>8j, <1>7a, PartOfReceiptSteps DEF IsJoin
  <1>8b. \A i \in 1..31 : s8[i] = s7[i]
    BY <1>8j, <1>7a DEF IsJoin
  <1>8c. \A i \in 1..2 : s8[31 + i] = ReceiptSteps[i]
    BY <1>8j, <1>7a, PartOfReceiptSteps DEF IsJoin
  <1>9j. IsJoin(s9, s8, PublishSteps)
    BY <1>8a, PartOfPublishSteps, Joined
  <1> HIDE DEF s9
  <1>9a. s9 \in Seq(Steps) /\ Len(s9) = 40
    BY <1>9j, <1>8a, PartOfPublishSteps DEF IsJoin
  <1>9b. \A i \in 1..33 : s9[i] = s8[i]
    BY <1>9j, <1>8a DEF IsJoin
  <1>9c. \A i \in 1..7 : s9[33 + i] = PublishSteps[i]
    BY <1>9j, <1>8a, PartOfPublishSteps DEF IsJoin
  <1>17. \A i \in 1..31 : Script[i] = s7[i]
    BY <1>s, <1>8b, <1>9b
  <1>15. \A i \in 1..21 : Script[i] = s5[i]
    BY <1>17, <1>6b, <1>7b
  <1>13. \A i \in 1..15 : Script[i] = s3[i]
    BY <1>15, <1>4b, <1>5b
  <1>11. \A i \in 1..7 : Script[i] = s1[i]
    BY <1>13, <1>2b, <1>3b
  <1>20. \A i \in 1..3 : Script[i] = Opening[i]
    BY <1>11, <1>1b
  <1>21. \A i \in 1..4 : Script[3 + i] = IntentSteps[i]
    BY <1>11, <1>1c
  <1>22. \A i \in 1..4 : Script[7 + i] = BlobSteps[i]
    BY <1>13, <1>3b, <1>2c
  <1>23. \A i \in 1..4 : Script[11 + i] = SettleSteps[i]
    BY <1>13, <1>3c
  <1>24. \A i \in 1..3 : Script[15 + i] = t4[i]
    BY <1>15, <1>5b, <1>4c
  <1>25. \A i \in 1..3 : Script[18 + i] = t5[i]
    BY <1>15, <1>5c
  <1>26. \A i \in 1..5 : Script[21 + i] = t6[i]
    BY <1>17, <1>7b, <1>6c
  <1>27. \A i \in 1..5 : Script[26 + i] = t7[i]
    BY <1>17, <1>7c
  <1>28. \A i \in 1..2 : Script[31 + i] = ReceiptSteps[i]
    BY <1>s, <1>9b, <1>8c
  <1>29. \A i \in 1..7 : Script[33 + i] = PublishSteps[i]
    BY <1>s, <1>9c
  <1> QED
    BY <1>s, <1>9a, <1>20, <1>21, <1>22, <1>23, <1>24, <1>25, <1>26, <1>27, <1>28, <1>29 DEF t4,
       t5, t6, t7
\* The step of each place.
LEMMA ScriptIs ==
  /\ Script[1] = Write("root", "whole")
  /\ Script[2] = Write("cache", "whole")
  /\ Script[3] = Write("ext", "whole")
  /\ Script[4] = Write("input", "empty")
  /\ Script[5] = Write("intent", "torn")
  /\ Script[6] = Write("intent", "loose")
  /\ Script[7] = Write("intent", "whole")
  /\ Script[8] = Write("blob", "torn")
  /\ Script[9] = Write("blob", "sealed")
  /\ Script[10] = Write("blob", "linked")
  /\ Script[11] = Write("blob", "whole")
  /\ Script[12] = Write("sentinel", "torn")
  /\ Script[13] = Write("sentinel", "whole")
  /\ Script[14] = Write("settle", "torn")
  /\ Script[15] = Write("settle", "whole")
  /\ Script[16] = Write("arch-kata", "torn")
  /\ Script[17] = Write("arch-kata", "sealed")
  /\ Script[18] = Write("arch-kata", "whole")
  /\ Script[19] = Write("arch-containerd", "torn")
  /\ Script[20] = Write("arch-containerd", "sealed")
  /\ Script[21] = Write("arch-containerd", "whole")
  /\ Script[22] = Write("tree-kata", "empty")
  /\ Script[23] = Write("mark-kata", "torn")
  /\ Script[24] = Write("mark-kata", "whole")
  /\ Script[25] = Write("tree-kata", "whole")
  /\ Script[26] = Write("mark-kata", "none")
  /\ Script[27] = Write("tree-containerd", "empty")
  /\ Script[28] = Write("mark-containerd", "torn")
  /\ Script[29] = Write("mark-containerd", "whole")
  /\ Script[30] = Write("tree-containerd", "whole")
  /\ Script[31] = Write("mark-containerd", "none")
  /\ Script[32] = Write("receipt", "torn")
  /\ Script[33] = Write("receipt", "whole")
  /\ Script[34] = Write("staging", "empty")
  /\ Script[35] = Write("staging", "torn")
  /\ Script[36] = Write("staging", "some")
  /\ Script[37] = Write("active", "torn")
  /\ Script[38] = Write("active", "whole")
  /\ Script[39] = Rename("staging", "staged", "none")
  /\ Script[40] = Rename("tree-kata", "kata", "rest")
  <1>0. /\ Script[1] = Write("root", "whole")
        /\ Script[2] = Write("cache", "whole")
        /\ Script[3] = Write("ext", "whole")
    <2>1. \A i \in 1..3 : Script[i] = Opening[i]
      BY Places
    <2>2. /\ Script[1] = Opening[1]
          /\ Script[2] = Opening[2]
          /\ Script[3] = Opening[3]
      BY <2>1
    <2> QED
      BY <2>2, PartOfOpening
  <1>1. /\ Script[4] = Write("input", "empty")
        /\ Script[5] = Write("intent", "torn")
        /\ Script[6] = Write("intent", "loose")
        /\ Script[7] = Write("intent", "whole")
    <2>1. \A i \in 1..4 : Script[3 + i] = IntentSteps[i]
      BY Places
    <2>2. /\ Script[4] = IntentSteps[1]
          /\ Script[5] = IntentSteps[2]
          /\ Script[6] = IntentSteps[3]
          /\ Script[7] = IntentSteps[4]
      BY <2>1
    <2> QED
      BY <2>2, PartOfIntentSteps
  <1>2. /\ Script[8] = Write("blob", "torn")
        /\ Script[9] = Write("blob", "sealed")
        /\ Script[10] = Write("blob", "linked")
        /\ Script[11] = Write("blob", "whole")
    <2>1. \A i \in 1..4 : Script[7 + i] = BlobSteps[i]
      BY Places
    <2>2. /\ Script[8] = BlobSteps[1]
          /\ Script[9] = BlobSteps[2]
          /\ Script[10] = BlobSteps[3]
          /\ Script[11] = BlobSteps[4]
      BY <2>1
    <2> QED
      BY <2>2, PartOfBlobSteps
  <1>3. /\ Script[12] = Write("sentinel", "torn")
        /\ Script[13] = Write("sentinel", "whole")
        /\ Script[14] = Write("settle", "torn")
        /\ Script[15] = Write("settle", "whole")
    <2>1. \A i \in 1..4 : Script[11 + i] = SettleSteps[i]
      BY Places
    <2>2. /\ Script[12] = SettleSteps[1]
          /\ Script[13] = SettleSteps[2]
          /\ Script[14] = SettleSteps[3]
          /\ Script[15] = SettleSteps[4]
      BY <2>1
    <2> QED
      BY <2>2, PartOfSettleSteps
  <1>4. /\ Script[16] = Write("arch-kata", "torn")
        /\ Script[17] = Write("arch-kata", "sealed")
        /\ Script[18] = Write("arch-kata", "whole")
    <2>1. \A i \in 1..3 : Script[15 + i] = DownloadSteps("kata")[i]
      BY Places
    <2>2. /\ Script[16] = DownloadSteps("kata")[1]
          /\ Script[17] = DownloadSteps("kata")[2]
          /\ Script[18] = DownloadSteps("kata")[3]
      BY <2>1
    <2> QED
      BY <2>2, PartOfDownloadStepsKata
  <1>5. /\ Script[19] = Write("arch-containerd", "torn")
        /\ Script[20] = Write("arch-containerd", "sealed")
        /\ Script[21] = Write("arch-containerd", "whole")
    <2>1. \A i \in 1..3 : Script[18 + i] = DownloadSteps("containerd")[i]
      BY Places
    <2>2. /\ Script[19] = DownloadSteps("containerd")[1]
          /\ Script[20] = DownloadSteps("containerd")[2]
          /\ Script[21] = DownloadSteps("containerd")[3]
      BY <2>1
    <2> QED
      BY <2>2, PartOfDownloadStepsContainerd
  <1>6. /\ Script[22] = Write("tree-kata", "empty")
        /\ Script[23] = Write("mark-kata", "torn")
        /\ Script[24] = Write("mark-kata", "whole")
        /\ Script[25] = Write("tree-kata", "whole")
        /\ Script[26] = Write("mark-kata", "none")
    <2>1. \A i \in 1..5 : Script[21 + i] = ExtractSteps("kata")[i]
      BY Places
    <2>2. /\ Script[22] = ExtractSteps("kata")[1]
          /\ Script[23] = ExtractSteps("kata")[2]
          /\ Script[24] = ExtractSteps("kata")[3]
          /\ Script[25] = ExtractSteps("kata")[4]
          /\ Script[26] = ExtractSteps("kata")[5]
      BY <2>1
    <2> QED
      BY <2>2, PartOfExtractStepsKata
  <1>7. /\ Script[27] = Write("tree-containerd", "empty")
        /\ Script[28] = Write("mark-containerd", "torn")
        /\ Script[29] = Write("mark-containerd", "whole")
        /\ Script[30] = Write("tree-containerd", "whole")
        /\ Script[31] = Write("mark-containerd", "none")
    <2>1. \A i \in 1..5 : Script[26 + i] = ExtractSteps("containerd")[i]
      BY Places
    <2>2. /\ Script[27] = ExtractSteps("containerd")[1]
          /\ Script[28] = ExtractSteps("containerd")[2]
          /\ Script[29] = ExtractSteps("containerd")[3]
          /\ Script[30] = ExtractSteps("containerd")[4]
          /\ Script[31] = ExtractSteps("containerd")[5]
      BY <2>1
    <2> QED
      BY <2>2, PartOfExtractStepsContainerd
  <1>8. /\ Script[32] = Write("receipt", "torn")
        /\ Script[33] = Write("receipt", "whole")
    <2>1. \A i \in 1..2 : Script[31 + i] = ReceiptSteps[i]
      BY Places
    <2>2. /\ Script[32] = ReceiptSteps[1]
          /\ Script[33] = ReceiptSteps[2]
      BY <2>1
    <2> QED
      BY <2>2, PartOfReceiptSteps
  <1>9. /\ Script[34] = Write("staging", "empty")
        /\ Script[35] = Write("staging", "torn")
        /\ Script[36] = Write("staging", "some")
        /\ Script[37] = Write("active", "torn")
        /\ Script[38] = Write("active", "whole")
        /\ Script[39] = Rename("staging", "staged", "none")
        /\ Script[40] = Rename("tree-kata", "kata", "rest")
    <2>1. \A i \in 1..7 : Script[33 + i] = PublishSteps[i]
      BY Places
    <2>2. /\ Script[34] = PublishSteps[1]
          /\ Script[35] = PublishSteps[2]
          /\ Script[36] = PublishSteps[3]
          /\ Script[37] = PublishSteps[4]
          /\ Script[38] = PublishSteps[5]
          /\ Script[39] = PublishSteps[6]
          /\ Script[40] = PublishSteps[7]
      BY <2>1
    <2> QED
      BY <2>2, PartOfPublishSteps
  <1> QED
    BY <1>0, <1>1, <1>2, <1>3, <1>4, <1>5, <1>6, <1>7, <1>8, <1>9

\* The steps by what they are about.
StepAt(pc) ==
    \/ pc = 1 /\ Script[pc] = Write("root", "whole")
    \/ pc = 2 /\ Script[pc] = Write("cache", "whole")
    \/ pc = 3 /\ Script[pc] = Write("ext", "whole")
    \/ pc = 4 /\ Script[pc] = Write("input", "empty")
    \/ pc \in 5..15 /\ (\E n \in InputNames, w \in Words : Script[pc] = Write(n, w))
    \/ pc \in 16..21 /\ (\E r \in Archives, w \in Words : Script[pc] = Write(Arch[r], w))
    \/ pc = 22 /\ Script[pc] = Write("tree-kata", "empty")
    \/ pc \in {23, 24, 26} /\ (\E w \in Words : Script[pc] = Write("mark-kata", w))
    \/ pc = 25 /\ Script[pc] = Write("tree-kata", "whole")
    \/ pc = 27 /\ Script[pc] = Write("tree-containerd", "empty")
    \/ pc \in {28, 29, 31} /\ (\E w \in Words : Script[pc] = Write("mark-containerd", w))
    \/ pc = 30 /\ Script[pc] = Write("tree-containerd", "whole")
    \/ pc = 32 /\ Script[pc] = Write("receipt", "torn")
    \/ pc = 33 /\ Script[pc] = Write("receipt", "whole")
    \/ pc \in 34..36 /\ (\E w \in Words \ {"none"} : Script[pc] = Write("staging", w))
    \/ pc = 37 /\ Script[pc] = Write("active", "torn")
    \/ pc = 38 /\ Script[pc] = Write("active", "whole")
    \/ pc = 39 /\ Script[pc] = Rename("staging", "staged", "none")
    \/ pc = 40 /\ Script[pc] = Rename("tree-kata", "kata", "rest")

LEMMA Kinds ==
  ASSUME NEW pc \in 1..40
  PROVE  StepAt(pc)
  <1>0. pc = 1 \/ pc = 2 \/ pc = 3 \/ pc = 4 \/ pc \in 5..15 \/ pc \in 16..21 \/ pc = 22 \/ pc \in {23, 24, 26} \/ pc = 25
        \/ pc = 27 \/ pc \in {28, 29, 31} \/ pc = 30 \/ pc = 32 \/ pc = 33 \/ pc \in 34..36 \/ pc = 37 \/ pc = 38 \/ pc = 39 \/ pc = 40
    OBVIOUS
  <1>1. CASE pc = 1
    BY <1>1, ScriptIs DEF StepAt
  <1>2. CASE pc = 2
    BY <1>2, ScriptIs DEF StepAt
  <1>3. CASE pc = 3
    BY <1>3, ScriptIs DEF StepAt
  <1>4. CASE pc = 4
    BY <1>4, ScriptIs DEF StepAt
  <1>5. CASE pc \in 5..15
    <2>1. \E n \in InputNames, w \in Words : Script[pc] = Write(n, w)
      <3>0. pc = 5 \/ pc = 6 \/ pc = 7 \/ pc = 8 \/ pc = 9 \/ pc = 10 \/ pc = 11 \/ pc = 12 \/ pc = 13 \/ pc = 14 \/ pc = 15
        BY <1>5
      <3>5. CASE pc = 5
        <4>1. Script[pc] = Write("intent", "torn")
          BY <3>5, ScriptIs
        <4> QED
          BY <4>1 DEF Words, InputNames
      <3>6. CASE pc = 6
        <4>1. Script[pc] = Write("intent", "loose")
          BY <3>6, ScriptIs
        <4> QED
          BY <4>1 DEF Words, InputNames
      <3>7. CASE pc = 7
        <4>1. Script[pc] = Write("intent", "whole")
          BY <3>7, ScriptIs
        <4> QED
          BY <4>1 DEF Words, InputNames
      <3>8. CASE pc = 8
        <4>1. Script[pc] = Write("blob", "torn")
          BY <3>8, ScriptIs
        <4> QED
          BY <4>1 DEF Words, InputNames
      <3>9. CASE pc = 9
        <4>1. Script[pc] = Write("blob", "sealed")
          BY <3>9, ScriptIs
        <4> QED
          BY <4>1 DEF Words, InputNames
      <3>10. CASE pc = 10
        <4>1. Script[pc] = Write("blob", "linked")
          BY <3>10, ScriptIs
        <4> QED
          BY <4>1 DEF Words, InputNames
      <3>11. CASE pc = 11
        <4>1. Script[pc] = Write("blob", "whole")
          BY <3>11, ScriptIs
        <4> QED
          BY <4>1 DEF Words, InputNames
      <3>12. CASE pc = 12
        <4>1. Script[pc] = Write("sentinel", "torn")
          BY <3>12, ScriptIs
        <4> QED
          BY <4>1 DEF Words, InputNames
      <3>13. CASE pc = 13
        <4>1. Script[pc] = Write("sentinel", "whole")
          BY <3>13, ScriptIs
        <4> QED
          BY <4>1 DEF Words, InputNames
      <3>14. CASE pc = 14
        <4>1. Script[pc] = Write("settle", "torn")
          BY <3>14, ScriptIs
        <4> QED
          BY <4>1 DEF Words, InputNames
      <3>15. CASE pc = 15
        <4>1. Script[pc] = Write("settle", "whole")
          BY <3>15, ScriptIs
        <4> QED
          BY <4>1 DEF Words, InputNames
      <3> QED
        BY <3>0, <3>5, <3>6, <3>7, <3>8, <3>9, <3>10, <3>11, <3>12, <3>13, <3>14, <3>15
    <2> QED
      BY <1>5, <2>1 DEF StepAt
  <1>6. CASE pc \in 16..21
    <2>1. \E r \in Archives, w \in Words : Script[pc] = Write(Arch[r], w)
      <3>0. pc = 16 \/ pc = 17 \/ pc = 18 \/ pc = 19 \/ pc = 20 \/ pc = 21
        BY <1>6
      <3>16. CASE pc = 16
        <4>1. Script[pc] = Write("arch-kata", "torn")
          BY <3>16, ScriptIs
        <4> QED
          BY <4>1, ArchivesAre DEF Words, Archives
      <3>17. CASE pc = 17
        <4>1. Script[pc] = Write("arch-kata", "sealed")
          BY <3>17, ScriptIs
        <4> QED
          BY <4>1, ArchivesAre DEF Words, Archives
      <3>18. CASE pc = 18
        <4>1. Script[pc] = Write("arch-kata", "whole")
          BY <3>18, ScriptIs
        <4> QED
          BY <4>1, ArchivesAre DEF Words, Archives
      <3>19. CASE pc = 19
        <4>1. Script[pc] = Write("arch-containerd", "torn")
          BY <3>19, ScriptIs
        <4> QED
          BY <4>1, ArchivesAre DEF Words, Archives
      <3>20. CASE pc = 20
        <4>1. Script[pc] = Write("arch-containerd", "sealed")
          BY <3>20, ScriptIs
        <4> QED
          BY <4>1, ArchivesAre DEF Words, Archives
      <3>21. CASE pc = 21
        <4>1. Script[pc] = Write("arch-containerd", "whole")
          BY <3>21, ScriptIs
        <4> QED
          BY <4>1, ArchivesAre DEF Words, Archives
      <3> QED
        BY <3>0, <3>16, <3>17, <3>18, <3>19, <3>20, <3>21
    <2> QED
      BY <1>6, <2>1 DEF StepAt
  <1>7. CASE pc = 22
    BY <1>7, ScriptIs DEF StepAt
  <1>8. CASE pc \in {23, 24, 26}
    <2>1. \E w \in Words : Script[pc] = Write("mark-kata", w)
      <3>0. pc = 23 \/ pc = 24 \/ pc = 26
        BY <1>8
      <3>23. CASE pc = 23
        <4>1. Script[pc] = Write("mark-kata", "torn")
          BY <3>23, ScriptIs
        <4> QED
          BY <4>1 DEF Words
      <3>24. CASE pc = 24
        <4>1. Script[pc] = Write("mark-kata", "whole")
          BY <3>24, ScriptIs
        <4> QED
          BY <4>1 DEF Words
      <3>26. CASE pc = 26
        <4>1. Script[pc] = Write("mark-kata", "none")
          BY <3>26, ScriptIs
        <4> QED
          BY <4>1 DEF Words
      <3> QED
        BY <3>0, <3>23, <3>24, <3>26
    <2> QED
      BY <1>8, <2>1 DEF StepAt
  <1>9. CASE pc = 25
    BY <1>9, ScriptIs DEF StepAt
  <1>10. CASE pc = 27
    BY <1>10, ScriptIs DEF StepAt
  <1>11. CASE pc \in {28, 29, 31}
    <2>1. \E w \in Words : Script[pc] = Write("mark-containerd", w)
      <3>0. pc = 28 \/ pc = 29 \/ pc = 31
        BY <1>11
      <3>28. CASE pc = 28
        <4>1. Script[pc] = Write("mark-containerd", "torn")
          BY <3>28, ScriptIs
        <4> QED
          BY <4>1 DEF Words
      <3>29. CASE pc = 29
        <4>1. Script[pc] = Write("mark-containerd", "whole")
          BY <3>29, ScriptIs
        <4> QED
          BY <4>1 DEF Words
      <3>31. CASE pc = 31
        <4>1. Script[pc] = Write("mark-containerd", "none")
          BY <3>31, ScriptIs
        <4> QED
          BY <4>1 DEF Words
      <3> QED
        BY <3>0, <3>28, <3>29, <3>31
    <2> QED
      BY <1>11, <2>1 DEF StepAt
  <1>12. CASE pc = 30
    BY <1>12, ScriptIs DEF StepAt
  <1>13. CASE pc = 32
    BY <1>13, ScriptIs DEF StepAt
  <1>14. CASE pc = 33
    BY <1>14, ScriptIs DEF StepAt
  <1>15. CASE pc \in 34..36
    <2>1. \E w \in Words \ {"none"} : Script[pc] = Write("staging", w)
      <3>0. pc = 34 \/ pc = 35 \/ pc = 36
        BY <1>15
      <3>34. CASE pc = 34
        <4>1. Script[pc] = Write("staging", "empty")
          BY <3>34, ScriptIs
        <4> QED
          BY <4>1 DEF Words
      <3>35. CASE pc = 35
        <4>1. Script[pc] = Write("staging", "torn")
          BY <3>35, ScriptIs
        <4> QED
          BY <4>1 DEF Words
      <3>36. CASE pc = 36
        <4>1. Script[pc] = Write("staging", "some")
          BY <3>36, ScriptIs
        <4> QED
          BY <4>1 DEF Words
      <3> QED
        BY <3>0, <3>34, <3>35, <3>36
    <2> QED
      BY <1>15, <2>1 DEF StepAt
  <1>16. CASE pc = 37
    BY <1>16, ScriptIs DEF StepAt
  <1>19. CASE pc = 38
    BY <1>19, ScriptIs DEF StepAt
  <1>17. CASE pc = 39
    BY <1>17, ScriptIs DEF StepAt
  <1>18. CASE pc = 40
    BY <1>18, ScriptIs DEF StepAt
  <1> QED
    BY <1>0, <1>1, <1>2, <1>3, <1>4, <1>5, <1>6, <1>7, <1>8, <1>9, <1>10, <1>11, <1>12, <1>13,
       <1>14, <1>15, <1>16, <1>17, <1>18, <1>19

\* A step of the script changes one name, or moves a tree.
LEMMA WriteChanges ==
  ASSUME disk \in [Names -> Words], NEW n \in Names, NEW w \in Words
  PROVE  Written(Write(n, w)) = [disk EXCEPT ![n] = w]
  <1>1. n # "nothing" /\ "nothing" \notin Names
    BY NamesAre
  <1> QED
    BY <1>1 DEF Written, Write

LEMMA RenameChanges ==
  ASSUME disk \in [Names -> Words], NEW n \in Names, NEW m \in Names, NEW w \in Words, n # m
  PROVE  Written(Rename(n, m, w)) = [disk EXCEPT ![m] = "whole", ![n] = w]
  BY DEF Written, Rename

LEMMA WrittenType ==
  ASSUME disk \in [Names -> Words], NEW step \in Steps
  PROVE  Written(step) \in [Names -> Words]
  BY DEF Written, Steps

LEMMA ScriptLength == Len(Script) = 40
  BY Places

LEMMA ElementOf ==
  ASSUME NEW S, NEW s \in Seq(S), NEW i \in 1..Len(s)
  PROVE  s[i] \in S
  OBVIOUS

LEMMA ScriptSteps == \A i \in 1..40 : Script[i] \in Steps
  <1> DEFINE s == Script
  <1>1. s \in Seq(Steps) /\ Len(s) = 40
    BY Places
  <1> HIDE DEF s
  <1>2. \A i \in 1..40 : s[i] \in Steps
    BY <1>1, ElementOf
  <1> QED
    BY <1>2 DEF s

\* The extractor runs at none of the steps that begin a part.
LEMMA ExtractingAt ==
  ASSUME NEW r \in Archives, Extracting(r)
  PROVE  prep.pc <= 40 /\ prep.pc \notin {1, 2, 4, 22, 27, 32, 33, 34, 38}
  <1>1. prep.pc <= 40 /\ Script[prep.pc] = Write(Tree[r], "whole")
    BY ScriptLength DEF Extracting
  <1>2. Script[prep.pc].name \in {"tree-kata", "tree-containerd"} /\ Script[prep.pc].word = "whole"
    BY <1>1, ArchivesAre DEF Archives, Write
  <1>3. /\ Script[1].name = "root" /\ Script[2].name = "cache" /\ Script[4].name = "input"
        /\ Script[22].word = "empty" /\ Script[27].word = "empty" /\ Script[32].name = "receipt"
        /\ Script[33].name = "receipt" /\ Script[34].name = "staging" /\ Script[38].name = "active"
    BY ScriptIs DEF Write
  <1> QED
    BY <1>1, <1>2, <1>3
-----------------------------------------------------------------------------
(* The steps by what they may change. *)

\* A step of the preparation or of its rollback; one of the collector, the
\* reviewer or the host; one of the custody.
Preparing ==
    /\ StillRecorded
    /\ exposed' = (exposed \/ (adm.kind = "forward" /\ ~busy /\ prep'.act = "rollback"))
    /\ UNCHANGED <<controlVars, adm>>
PrepNext ==
    \/ Prepare \/ Advance \/ StartTar \/ TarWrites \/ TarEnds
    \/ Prepared \/ InstalledDiffers \/ RegistryRefuses \/ DownloadRefuses \/ PrepareFails \/ PrepareDies
    \/ UnwindNext \/ RecoveryClaims \/ RecoverPreparation
ControlNext ==
    Collect \/ PublishStarts \/ PublishEnds \/ CollectorStops \/ StageCustody \/ StageControl \/ Upgrade

LEMMA NextSplit ==
  ASSUME Next
  PROVE  \/ Preparing /\ PrepNext
         \/ ControlNext /\ UNCHANGED <<adm, recorded, exposed>>
         \/ AdmissionNext
  BY DEF Next, PrepStep, ControlStep, Preparing, PrepNext, ControlNext, UnwindNext

PrepTypes ==
    /\ disk \in [Names -> Words] /\ prep \in PrepType /\ tar \in Archives \cup {"none"}
    /\ prep.act = "prepare" => prep.pc # 0
AdmTypes == adm \in AdmType
ControlTypes ==
    /\ host \in Generations /\ package \in [Members -> Generations]
    /\ cand \in Generations /\ col \in [act : {"none", "collected", "publishing"}, gen : Generations]

LEMMA TypeParts == TypeInv <=> PrepTypes /\ AdmTypes /\ ControlTypes
  BY DEF TypeInv, PrepTypes, AdmTypes, ControlTypes

LEMMA NamesOfPlaces ==
  /\ \A r \in Archives : Arch[r] \in Names /\ Tree[r] \in Names /\ Mark[r] \in Names
  /\ NextInput \in Names
  BY NamesAre, ArchivesAre DEF Archives, NextInput

LEMMA RollbackType ==
  ASSUME NEW d, NEW known \in BOOLEAN
  PROVE  Rollback(d, known) \in PrepType /\ Rollback(d, known).act = "rollback"
  BY DEF Rollback, Idle, PrepType

\* A failure of the preparation: its partial downloads go, its extractor is
\* killed.
LEMMA FailsTypes ==
  ASSUME PrepTypes, RollsBack
  PROVE  PrepTypes'
  <1>1. disk' \in [Names -> Words] /\ tar' = "none"
    BY DEF PrepTypes, RollsBack, Words
  <1>2. Idle \in PrepType /\ Idle.act = "none"
    BY DEF Idle, PrepType
  <1>3. prep' = Idle \/ prep' = Rollback(disk', prep.known)
    BY DEF RollsBack
  <1>4. Rollback(disk', prep.known) \in PrepType /\ Rollback(disk', prep.known).act = "rollback"
    BY RollbackType DEF PrepTypes, PrepType
  <1> QED
    BY <1>1, <1>2, <1>3, <1>4 DEF PrepTypes

LEMMA NextClassTypes ==
  ASSUME PrepTypes, NextClass
  PROVE  PrepTypes'
  <1>1. prep' = [prep EXCEPT !.pc = prep.pc + 1, !.checked = FALSE, !.cut = FALSE] /\ UNCHANGED <<disk, tar>>
    BY DEF NextClass, Marked
  <1>2. prep' \in PrepType
    <2>1. ASSUME NEW p \in PrepType, NEW x \in Nat
          PROVE  [p EXCEPT !.pc = x, !.checked = FALSE, !.cut = FALSE] \in PrepType
      BY DEF PrepType
    <2>2. prep \in PrepType /\ prep.pc + 1 \in Nat
      BY DEF PrepTypes, PrepType
    <2> QED
      BY <1>1, <2>1, <2>2
  <1>3. prep'.pc = prep.pc + 1 /\ prep.pc \in Nat
    BY <1>1 DEF PrepTypes, PrepType
  <1> QED
    BY <1>1, <1>2, <1>3 DEF PrepTypes

LEMMA UncertainTypes ==
  ASSUME PrepTypes, Uncertain
  PROVE  PrepTypes'
  BY DEF PrepTypes, Uncertain, Marked, PrepType, Idle

LEMMA ChangedTypes ==
  ASSUME PrepTypes, NEW d \in [Names -> Words], Changed(d)
  PROVE  PrepTypes'
  BY DEF PrepTypes, Changed

\* The disk with one name changed.
LEMMA OneName ==
  ASSUME PrepTypes, NEW n \in Names, NEW w \in Words
  PROVE  [disk EXCEPT ![n] = w] \in [Names -> Words]
  BY DEF PrepTypes

LEMMA PrepTypesStep ==
  ASSUME PrepTypes, PrepNext
  PROVE  PrepTypes'
  <1>0. prep.act \in {"none", "prepare", "rollback", "claimed"} /\ prep.pc \in Nat
    BY DEF PrepTypes, PrepType
  <1>1. CASE Prepare
    <2>1. prep' \in PrepType
      BY <1>1 DEF Prepare, Idle, PrepType
    <2>2. prep'.pc = 1
      BY <1>1 DEF Prepare, Idle
    <2> QED
      BY <1>1, <2>1, <2>2 DEF Prepare, PrepTypes
  <1>2. CASE Advance
    <2>1. prep.act = "prepare" /\ prep.pc <= Len(Script)
      BY <1>2 DEF Advance
    <2>2. prep.pc \in 1..40
      BY <1>0, <2>1, ScriptLength DEF PrepTypes
    <2>3. Script[prep.pc] \in Steps
      BY <2>2, ScriptSteps
    <2>4. disk' \in [Names -> Words] /\ tar' = tar
      BY <1>2, <2>3, WrittenType DEF Advance, PrepTypes
    <2>5. prep' \in PrepType /\ prep'.pc # 0
      BY <1>0, <1>2 DEF Advance, PrepTypes, PrepType
    <2> QED
      BY <2>4, <2>5 DEF PrepTypes
  <1>3. CASE StartTar
    BY <1>3, <1>0, NamesOfPlaces DEF StartTar, PrepTypes, PrepType, Words, Archives
  <1>4. CASE TarWrites
    BY <1>4, <1>0, NamesOfPlaces DEF TarWrites, PrepTypes, PrepType, Words, Archives
  <1>5. CASE TarEnds
    BY <1>5, <1>0, NamesOfPlaces DEF TarEnds, PrepTypes, PrepType, Words, Archives
  <1>6. CASE Prepared
    BY <1>6, <1>0, NamesOfPlaces DEF Prepared, PrepTypes, PrepType, Words, Archives, Idle
  <1>7. CASE RegistryRefuses
    BY <1>7, FailsTypes DEF RegistryRefuses, Fails
  <1>8. CASE DownloadRefuses
    BY <1>8, FailsTypes DEF DownloadRefuses, Fails
  <1>9. CASE PrepareFails
    BY <1>9, FailsTypes DEF PrepareFails, Fails
  <1>10. CASE PrepareDies
    BY <1>10, <1>0, NamesOfPlaces DEF PrepareDies, PrepTypes, PrepType, Words, Archives, Idle
  <1>11. CASE UnwindRuntime
    <2>1. Class \in Names /\ "active" \in Names
      BY <1>11, NamesAre DEF UnwindRuntime, Unwinding
    <2>2. \A n \in Names : [disk EXCEPT ![n] = "some"] \in [Names -> Words] /\ [disk EXCEPT ![n] = "none"] \in [Names -> Words]
      BY OneName DEF Words
    <2> QED
      BY <1>11, <2>1, <2>2, NextClassTypes, UncertainTypes, ChangedTypes DEF UnwindRuntime
  <1>12. CASE UnwindKata
    <2>1. [disk EXCEPT !["kata"] = IF @ = "open" THEN "none" ELSE "open"] \in [Names -> Words]
      BY NamesAre DEF PrepTypes, Words
    <2>2. ASSUME Marked([prep EXCEPT !.checked = TRUE])
          PROVE  PrepTypes'
      BY <2>2 DEF Marked, PrepTypes, PrepType
    <2> QED
      BY <1>12, <2>1, <2>2, NextClassTypes, UncertainTypes, ChangedTypes DEF UnwindKata
  <1>13. CASE UnwindMark
    BY <1>13, <1>0, NamesOfPlaces DEF UnwindMark, PrepTypes, PrepType, Words, Archives
  <1>14. CASE UnwindTree
    <2>1. Tree[NextTree] \in Names
      BY NamesOfPlaces DEF NextTree, Archives
    <2>2. \A w \in Words : [disk EXCEPT ![Tree[NextTree]] = w] \in [Names -> Words]
      BY <2>1, OneName
    <2>3. disk' \in [Names -> Words] /\ tar' \in Archives \cup {"none"}
      BY <1>14, <2>2 DEF UnwindTree, PrepTypes, Words
    <2>4. prep' \in PrepType /\ prep'.act = prep.act /\ prep'.pc = prep.pc
      BY <1>14 DEF UnwindTree, PrepTypes, PrepType
    <2> QED
      BY <2>3, <2>4 DEF PrepTypes
  <1>15. CASE UnwindTreeRefused
    BY <1>15, <1>0, NamesOfPlaces DEF UnwindTreeRefused, PrepTypes, PrepType, Words, Archives,
       Uncertain, Marked, Idle
  <1>16. CASE UnwindExtracted
    <2>1. [disk EXCEPT !["ext"] = "none"] \in [Names -> Words]
      BY NamesAre, OneName DEF Words
    <2> QED
      BY <1>16, <2>1, NextClassTypes, ChangedTypes DEF UnwindExtracted
  <1>17. CASE UnwindCache
    <2>1. [disk EXCEPT !["cache"] = "none"] \in [Names -> Words]
      BY NamesAre, OneName DEF Words
    <2>2. \A r \in Archives : [disk EXCEPT ![Arch[r]] = RemovePartial(@)] \in [Names -> Words]
      BY NamesOfPlaces DEF Words, RemovePartial, PrepTypes
    <2> QED
      BY <1>17, <2>1, <2>2, NextClassTypes, UncertainTypes, ChangedTypes DEF UnwindCache, Archives
  <1>18. CASE UnwindReceipt
    <2>1. [disk EXCEPT !["receipt"] = "none"] \in [Names -> Words]
      BY NamesAre, OneName DEF Words
    <2> QED
      BY <1>18, <2>1, NextClassTypes, ChangedTypes DEF UnwindReceipt
  <1>19. CASE UnwindInput
    <2>1. [disk EXCEPT ![NextInput] = "none"] \in [Names -> Words]
      BY NamesOfPlaces, OneName DEF Words
    <2> QED
      BY <1>19, <2>1, NextClassTypes, UncertainTypes, ChangedTypes DEF UnwindInput
  <1>20. CASE UnwindRoot
    BY <1>20, <1>0, NamesOfPlaces DEF UnwindRoot, PrepTypes, PrepType, Words, Archives, Idle
  <1>21. CASE RecoverPreparation
    <2>1. UNCHANGED <<disk, tar>> /\ (prep' = Idle \/ prep' = Rollback(disk, control # "none"))
      BY <1>21 DEF RecoverPreparation
    <2>2. Idle \in PrepType /\ Idle.act = "none"
      BY DEF Idle, PrepType
    <2>3. Rollback(disk, control # "none") \in PrepType /\ Rollback(disk, control # "none").act = "rollback"
      BY RollbackType
    <2> QED
      BY <2>1, <2>2, <2>3 DEF PrepTypes
  <1>22. CASE RecoveryClaims
    BY <1>22 DEF RecoveryClaims, PrepTypes, PrepType, Idle
  <1>23. CASE InstalledDiffers
    BY <1>23, FailsTypes DEF InstalledDiffers
  <1> QED
    BY <1>1, <1>2, <1>3, <1>4, <1>5, <1>6, <1>7, <1>8, <1>9, <1>10, <1>11, <1>12, <1>13, <1>14,
       <1>15, <1>16, <1>17, <1>18, <1>19, <1>20, <1>21, <1>22, <1>23 DEF PrepNext, UnwindNext

LEMMA ControlTypesStep ==
  ASSUME ControlTypes, ControlNext
  PROVE  ControlTypes' /\ UNCHANGED <<disk, prep, tar>>
  BY MaxUpgradesNat DEF ControlTypes, ControlNext, Collect, PublishStarts, PublishEnds,
     CollectorStops, StageCustody,
     StageControl, Upgrade, prepVars, controlVars, ToolsObserved, NoCollector, BuildControl, Generations

LEMMA AdmTypesStep ==
  ASSUME AdmTypes, ControlTypes, AdmissionNext
  PROVE  AdmTypes'
  <1>0. host \in Nat /\ package["contract"] \in Nat /\ None \in Nat
    BY MaxUpgradesNat DEF ControlTypes, Generations, None, Members
  <1>r. NoRoles \in [Roles -> Nat]
    BY <1>0 DEF NoRoles
  <1>n. NoAdm \in AdmType
    BY <1>0, <1>r DEF NoAdm, AdmType, StaticFds
  <1>c. \A k \in {"forward", "recovery"} : Custody(k) \in AdmType
    BY <1>0, <1>r DEF Custody, NoAdm, AdmType, StaticFds
  <1>f. FailedState \in AdmType
    BY <1>r DEF FailedState, AdmTypes, AdmType
  <1>o. \A r \in Roles : RoleOpens(r, adm.contract) \subseteq Nat
    BY <1>0 DEF RoleOpens
  <1>d. \A r \in Roles, g \in Nat : Claimed(r, g) \in AdmType
    BY DEF Claimed, AdmTypes, AdmType
  <1>1. CASE ClaimStatic
    BY <1>1, <1>c DEF ClaimStatic, AdmTypes
  <1>2. CASE ClaimRecovery
    BY <1>2, <1>c DEF ClaimRecovery, AdmTypes, Now
  <1>3. CASE AcquireRootfs
    BY <1>3 DEF AcquireRootfs, AdmTypes, AdmType
  <1>4. CASE ClaimMapping
    BY <1>4 DEF ClaimMapping, AdmTypes, AdmType, Now
  <1>5. CASE ClaimRole
    BY <1>5, <1>o, <1>d DEF ClaimRole, AdmTypes, Now
  <1>6. CASE DuplicateRole
    BY <1>6 DEF DuplicateRole, DuplicateOf, AdmTypes, AdmType, Now
  <1>7. CASE IssueOwner
    BY <1>7 DEF IssueOwner, AdmTypes, AdmType, Now
  <1>8. CASE RoleRefused
    BY <1>8, <1>f DEF RoleRefused, AdmTypes, Now
  <1>9. CASE AdmissionFails
    BY <1>9, <1>f DEF AdmissionFails, AdmTypes
  <1>10. CASE RecoveryOwner
    <2>1. ASSUME NEW a \in AdmType
          PROVE  [a EXCEPT !.owner = "lazy"] \in AdmType
      BY DEF AdmType
    <2>2. "ssh" \in Roles
      BY DEF Roles, HostRoles
    <2> QED
      BY <1>10, <1>o, <1>d, <2>1, <2>2 DEF RecoveryOwner, Now, AdmTypes
  <1>11. CASE RecoveryRefused
    BY <1>11, <1>n DEF RecoveryRefused, AdmTypes, Now
  <1>12. CASE LazyRole
    BY <1>12, <1>o, <1>d DEF LazyRole, AdmTypes, Now
  <1>13. CASE CreateInputs
    BY <1>13 DEF CreateInputs, AdmTypes, AdmType
  <1>14. CASE RemoveInputs
    BY <1>14 DEF RemoveInputs, AdmTypes, AdmType
  <1>15. CASE ClaimPrepared
    BY <1>15 DEF ClaimPrepared, AdmTypes, AdmType, Now
  <1>16. CASE ConsumePrepared
    BY <1>16 DEF ConsumePrepared, AdmTypes, AdmType
  <1>17. CASE VerifyPrepared
    BY <1>17 DEF VerifyPrepared, AdmTypes, AdmType, Now
  <1>18. CASE PreparedRefused
    BY <1>18, <1>f DEF PreparedRefused, AdmTypes, Now
  <1>19. CASE CleanPrepared
    BY <1>19 DEF CleanPrepared, AdmTypes, AdmType
  <1>20. CASE WorkEnds
    BY <1>20 DEF WorkEnds, AdmTypes, AdmType, Now
  <1>21. CASE ReleaseLease
    BY <1>21 DEF ReleaseLease, AdmTypes, AdmType, Now
  <1>22. CASE RetireOwner
    BY <1>22, <1>r DEF RetireOwner, AdmTypes, AdmType, Now, OwnerAborted
  <1>23. CASE RetireOperation
    BY <1>23 DEF RetireOperation, AdmTypes, AdmType
  <1>24. CASE AbortCustody
    BY <1>24, <1>n DEF AbortCustody, AdmTypes, Now
  <1>25. CASE AdmissionDies
    BY <1>25, <1>n DEF AdmissionDies, AdmTypes
  <1>26. CASE CleanupRefused
    BY <1>26, <1>n DEF CleanupRefused, AdmTypes, Now
  <1> QED
    BY <1>1, <1>2, <1>3, <1>4, <1>5, <1>6, <1>7, <1>8, <1>9, <1>10, <1>11, <1>12, <1>13, <1>14,
       <1>15, <1>16, <1>17, <1>18, <1>19, <1>20, <1>21, <1>22, <1>23, <1>24, <1>25, <1>26 DEF
       AdmissionNext

\* The custody leaves the preparation and the control alone; only its cleanup
\* of the prepared runtime changes the disk.
LEMMA AdmissionOutside ==
  ASSUME AdmissionNext
  PROVE  /\ UNCHANGED <<prep, tar, control, package, controlVars>>
         /\ CleanPrepared \/ disk' = disk
         /\ ClaimStatic \/ exposed' = exposed
  <1>1. CASE ClaimStatic
    BY <1>1 DEF ClaimStatic, prepVars, controlVars
  <1>2. CASE ClaimRecovery
    BY <1>2 DEF ClaimRecovery, outside, controlVars, Now
  <1>3. CASE AcquireRootfs
    BY <1>3 DEF AcquireRootfs, outside, controlVars
  <1>4. CASE ClaimMapping
    BY <1>4 DEF ClaimMapping, outside, controlVars, Now
  <1>5. CASE ClaimRole
    BY <1>5 DEF ClaimRole, outside, controlVars, Now
  <1>6. CASE DuplicateRole
    BY <1>6 DEF DuplicateRole, outside, controlVars, Now
  <1>7. CASE IssueOwner
    BY <1>7 DEF IssueOwner, outside, controlVars, Now
  <1>8. CASE RoleRefused
    BY <1>8 DEF RoleRefused, outside, controlVars, Now
  <1>9. CASE AdmissionFails
    BY <1>9 DEF AdmissionFails, controlVars
  <1>10. CASE RecoveryOwner
    BY <1>10 DEF RecoveryOwner, outside, controlVars, Now
  <1>11. CASE RecoveryRefused
    BY <1>11 DEF RecoveryRefused, outside, controlVars, Now
  <1>12. CASE LazyRole
    BY <1>12 DEF LazyRole, outside, controlVars, Now
  <1>13. CASE CreateInputs
    BY <1>13 DEF CreateInputs, outside, controlVars
  <1>14. CASE RemoveInputs
    BY <1>14 DEF RemoveInputs, outside, controlVars
  <1>15. CASE ClaimPrepared
    BY <1>15 DEF ClaimPrepared, outside, controlVars, Now
  <1>16. CASE ConsumePrepared
    BY <1>16 DEF ConsumePrepared, outside, controlVars
  <1>17. CASE VerifyPrepared
    BY <1>17 DEF VerifyPrepared, outside, controlVars, Now
  <1>18. CASE PreparedRefused
    BY <1>18 DEF PreparedRefused, outside, controlVars, Now
  <1>19. CASE CleanPrepared
    BY <1>19 DEF CleanPrepared, controlVars
  <1>20. CASE WorkEnds
    BY <1>20 DEF WorkEnds, outside, controlVars, Now
  <1>21. CASE ReleaseLease
    BY <1>21 DEF ReleaseLease, outside, controlVars, Now
  <1>22. CASE RetireOwner
    BY <1>22 DEF RetireOwner, outside, controlVars, Now
  <1>23. CASE RetireOperation
    BY <1>23 DEF RetireOperation, outside, controlVars
  <1>24. CASE AbortCustody
    BY <1>24 DEF AbortCustody, outside, controlVars, Now
  <1>25. CASE AdmissionDies
    BY <1>25 DEF AdmissionDies, controlVars
  <1>26. CASE CleanupRefused
    BY <1>26 DEF CleanupRefused, outside, controlVars, Now
  <1> QED
    BY <1>1, <1>2, <1>3, <1>4, <1>5, <1>6, <1>7, <1>8, <1>9, <1>10, <1>11, <1>12, <1>13, <1>14,
       <1>15, <1>16, <1>17, <1>18, <1>19, <1>20, <1>21, <1>22, <1>23, <1>24, <1>25, <1>26 DEF
       AdmissionNext

\* No step of the preparation begins or ends an operation, or stages a
\* control.
LEMMA PrepBusy ==
  ASSUME PrepNext
  PROVE  busy' = busy /\ control' = control /\ package' = package
  BY DEF PrepNext, Prepare, Advance, StartTar, TarWrites, TarEnds, Prepared, InstalledDiffers,
     RegistryRefuses, DownloadRefuses, PrepareFails, PrepareDies, Fails, RollsBack, UnwindNext,
     UnwindRuntime, UnwindKata, UnwindMark, UnwindTree, UnwindTreeRefused, UnwindExtracted,
     UnwindCache, UnwindReceipt, UnwindInput, UnwindRoot, RecoveryClaims, RecoverPreparation,
     NextClass, Uncertain, Changed, Marked

LEMMA TypeStep ==
  ASSUME TypeInv, [Next]_vars
  PROVE  TypeInv'
  <1>0. PrepTypes /\ AdmTypes /\ ControlTypes
    BY TypeParts
  <1>1. CASE Preparing /\ PrepNext
    <2>1. PrepTypes'
      BY <1>0, <1>1, PrepTypesStep
    <2>2. AdmTypes' /\ ControlTypes'
      BY <1>0, <1>1, PrepBusy DEF Preparing, controlVars, AdmTypes, ControlTypes
    <2> QED
      BY <2>1, <2>2 DEF TypeInv, PrepTypes, AdmTypes, ControlTypes
  <1>2. CASE ControlNext /\ UNCHANGED <<adm, recorded, exposed>>
    <2>1. ControlTypes' /\ UNCHANGED <<disk, prep, tar>>
      BY <1>0, <1>2, ControlTypesStep
    <2> QED
      BY <1>0, <1>2, <2>1 DEF TypeInv, PrepTypes, AdmTypes, ControlTypes
  <1>3. CASE AdmissionNext
    <2>1. AdmTypes'
      BY <1>0, <1>3, AdmTypesStep
    <2>2. PrepTypes'
      <3>1. CASE CleanPrepared
        BY <1>0, <3>1 DEF CleanPrepared, PrepTypes, Words
      <3>2. CASE disk' = disk
        BY <1>0, <1>3, <3>2, AdmissionOutside DEF PrepTypes
      <3> QED
        BY <1>3, <3>1, <3>2, AdmissionOutside
    <2>3. ControlTypes'
      BY <1>0, <1>3, AdmissionOutside DEF ControlTypes, controlVars
    <2> QED
      BY <2>1, <2>2, <2>3 DEF TypeInv, PrepTypes, AdmTypes, ControlTypes
  <1>4. CASE UNCHANGED vars
    BY <1>4 DEF vars, prepVars, controlVars, TypeInv
  <1> QED
    BY <1>1, <1>2, <1>3, <1>4, NextSplit
-----------------------------------------------------------------------------
(* The custody. *)

\* A step of the preparation when nothing is being prepared or taken back and
\* the inputs are installed: an orphaned extractor may write a tree of the
\* preparation, and a recovery may begin if no operation is active.
LEMMA QuietPreparation ==
  ASSUME PrepTypes, PrepNext, prep.act \notin {"prepare", "rollback"}, disk["kata"] = "whole"
  PROVE  /\ \A n \in {"kata", "blob", "staged", "active"} : disk'[n] = disk[n]
         /\ prep'.act \in {"none", "claimed"} \/ (prep'.act = "rollback" /\ ~busy)
  <1>0. prep.act \in {"none", "claimed"}
    BY DEF PrepTypes, PrepType
  <1>1. TarWrites \/ TarEnds \/ PrepareDies \/ RecoveryClaims \/ RecoverPreparation
    BY <1>0 DEF PrepNext, Prepare, Gone, Advance, StartTar, Extracting, Prepared, InstalledDiffers,
       RegistryRefuses, DownloadRefuses, At, PrepareFails, UnwindNext, UnwindRuntime, UnwindKata, UnwindMark,
       UnwindTree, UnwindTreeRefused, UnwindExtracted, UnwindCache, UnwindReceipt, UnwindInput, UnwindRoot,
       Unwinding
  <1>2. CASE TarWrites
    <2>1. tar \in Archives
      BY <1>2 DEF TarWrites, PrepTypes
    <2>2. Tree[tar] \in {"tree-kata", "tree-containerd"}
      BY <2>1, ArchivesAre DEF Archives
    <2>3. \E v : disk' = [disk EXCEPT ![Tree[tar]] = v]
      BY <1>2 DEF TarWrites
    <2>4. \A n \in {"kata", "blob", "staged", "active"} : disk'[n] = disk[n]
      BY <2>2, <2>3, NamesAre DEF PrepTypes
    <2> QED
      BY <1>0, <1>2, <2>4 DEF TarWrites
  <1>3. CASE TarEnds
    BY <1>0, <1>3 DEF TarEnds
  <1>4. CASE PrepareDies \/ RecoveryClaims
    BY <1>4 DEF PrepareDies, RecoveryClaims, Idle
  <1>5. CASE RecoverPreparation
    <2>1. disk' = disk /\ (prep' = Idle \/ (~busy /\ prep' = Rollback(disk, control # "none")))
      BY <1>5 DEF RecoverPreparation
    <2>2. Idle.act = "none" /\ Rollback(disk, control # "none").act = "rollback"
      BY RollbackType DEF Idle
    <2> QED
      BY <2>1, <2>2
  <1> QED
    BY <1>1, <1>2, <1>3, <1>4, <1>5

LEMMA CustodyPreparing ==
  ASSUME TypeInv, CustodyInv, Preparing, PrepNext
  PROVE  CustodyInv'
  BY PrepBusy DEF Preparing, CustodyInv

LEMMA InputPreparing ==
  ASSUME TypeInv, InputInv, Preparing, PrepNext
  PROVE  InputInv'
  <1>1. busy' = busy /\ adm' = adm
    BY PrepBusy DEF Preparing
  <1>2. recorded' = "this" => disk'["staged"] # "none"
    BY DEF Preparing, StillRecorded
  <1>3. exposed => exposed'
    BY DEF Preparing
  <1>4. CASE ~exposed' /\ (busy \/ adm.kind = "forward")
    <2>1. ~exposed /\ prep.act \notin {"prepare", "rollback"} /\ disk["kata"] = "whole" /\ disk["blob"] = "whole"
      BY <1>3, <1>4 DEF InputInv
    <2>2. /\ \A n \in {"kata", "blob", "staged", "active"} : disk'[n] = disk[n]
          /\ prep'.act \in {"none", "claimed"} \/ (prep'.act = "rollback" /\ ~busy)
      BY <2>1, QuietPreparation, TypeParts
    <2>3. prep'.act # "rollback"
      BY <1>4, <2>2 DEF Preparing
    <2> QED
      BY <1>1, <1>2, <2>1, <2>2, <2>3 DEF InputInv, Forward
  <1>5. CASE exposed' \/ ~(busy \/ adm.kind = "forward")
    BY <1>1, <1>2, <1>5 DEF InputInv, Forward
  <1> QED
    BY <1>4, <1>5

LEMMA CustodyControl ==
  ASSUME TypeInv, CustodyInv, InputInv, ControlNext, UNCHANGED <<adm, recorded, exposed>>
  PROVE  CustodyInv' /\ InputInv'
  <1>1. busy' = busy /\ prep' = prep /\ disk' = disk
    BY DEF ControlNext, Collect, PublishStarts, PublishEnds, CollectorStops, StageCustody,
       StageControl, Upgrade, prepVars
  <1>2. control = "none" \/ (control' = control /\ package' = package)
    BY DEF ControlNext, Collect, PublishStarts, PublishEnds, CollectorStops, StageCustody, StageControl,
       Upgrade, prepVars
  <1>3. CASE adm.kind = "none"
    <2>1. adm.kind = "none" /\ adm = NoAdm /\ \A r \in Roles : adm.ver[r] = None /\ adm.dup[r] = None
      BY <1>3 DEF NoAdm, NoRoles, CustodyInv
    <2> QED
      BY <1>1, <2>1 DEF CustodyInv, InputInv, Forward
  <1>4. CASE adm.kind # "none"
    <2>1. control' = control /\ package' = package
      BY <1>2, <1>4 DEF CustodyInv
    <2> QED
      BY <1>1, <2>1 DEF CustodyInv, InputInv, Forward
  <1> QED
    BY <1>3, <1>4

\* What a role's pathname yields is what the contract names.
LEMMA OpensReviewed ==
  ASSUME NEW r \in Roles, NEW c, NEW g \in RoleOpens(r, c)
  PROVE  g = c /\ (r = "containerd" => disk["staged"] = "whole")
  BY DEF RoleOpens, ContractMet, Roles, HostRoles

LEMMA NoAdmIs ==
  /\ NoAdm.kind = "none" /\ NoAdm.owner = "none" /\ NoAdm.prepared = "none" /\ ~NoAdm.retired
  /\ \A r \in Roles : NoAdm.ver[r] = None /\ NoAdm.dup[r] = None
  BY DEF NoAdm, NoRoles

\* A custody of either kind that has claimed no role.
LEMMA CustodyIs ==
  ASSUME NEW k
  PROVE  /\ Custody(k).kind = k /\ Custody(k).contract = package["contract"] /\ Custody(k).fds = StaticFds
         /\ Custody(k).owner = "none" /\ Custody(k).prepared = "none" /\ ~Custody(k).retired
         /\ \A r \in Roles : Custody(k).ver[r] = None /\ Custody(k).dup[r] = None
  BY DEF Custody, NoAdm, NoRoles

\* A step of the custody that leaves its claims and its duplicates alone, or
\* closes duplicates.
LEMMA CustodySame ==
  ASSUME CustodyInv, UNCHANGED <<control, package>>, adm.kind # "none",
         adm'.kind = adm.kind, adm'.contract = adm.contract,
         \A r \in Roles : adm'.ver[r] = adm.ver[r] /\ adm'.dup[r] \in {adm.dup[r], None}
  PROVE  CustodyInv'
  BY DEF CustodyInv

\* The custody ends.
LEMMA CustodyEnds ==
  ASSUME CustodyInv, UNCHANGED <<control, package>>, adm' = NoAdm
  PROVE  CustodyInv'
  BY NoAdmIs DEF CustodyInv

LEMMA CustodyStep ==
  ASSUME TypeInv, CustodyInv, DescriptorInv, AdmissionNext
  PROVE  CustodyInv'
  <1>0. adm \in AdmType /\ UNCHANGED <<control, package>>
    BY AdmissionOutside DEF TypeInv
  <1>k. adm.kind = "none" => adm.owner = "none" /\ adm.prepared = "none"
    BY NoAdmIs DEF CustodyInv
  <1>1. CASE ClaimStatic
    <2>1. adm' = Custody("forward") /\ control # "none" /\ PackageExact(package)
      BY <1>1 DEF ClaimStatic, Admissible, ControlRead
    <2> QED
      BY <1>0, <2>1, CustodyIs DEF CustodyInv
  <1>2. CASE ClaimRecovery
    <2>1. adm' = Custody("recovery") /\ control # "none" /\ PackageExact(package)
      BY <1>2 DEF ClaimRecovery, Admissible, ControlRead, RecoveryAdmissible, Now
    <2> QED
      BY <1>0, <2>1, CustodyIs DEF CustodyInv
  <1>3. CASE AcquireRootfs
    <2>1. adm.kind # "none"
      BY <1>3, <1>k DEF AcquireRootfs, Forward
    <2>2. /\ adm'.kind = adm.kind /\ adm'.contract = adm.contract
          /\ \A r \in Roles : adm'.ver[r] = adm.ver[r] /\ adm'.dup[r] \in {adm.dup[r], None}
      BY <1>3, <1>0 DEF AcquireRootfs, AdmType
    <2> QED
      BY <1>0, <2>1, <2>2, CustodySame
  <1>4. CASE ClaimMapping
    <2>1. adm.kind # "none"
      BY <1>4, <1>k DEF ClaimMapping, Forward
    <2>2. /\ adm'.kind = adm.kind /\ adm'.contract = adm.contract
          /\ \A r \in Roles : adm'.ver[r] = adm.ver[r] /\ adm'.dup[r] \in {adm.dup[r], None}
      BY <1>4, <1>0 DEF ClaimMapping, AdmType, Now
    <2> QED
      BY <1>0, <2>1, <2>2, CustodySame
  <1>5. CASE ClaimRole
    <2>1. PICK r \in Roles : \E g \in RoleOpens(r, adm.contract) : adm' = Claimed(r, g)
      BY <1>5 DEF ClaimRole, Now
    <2>2. PICK g \in RoleOpens(r, adm.contract) : adm' = Claimed(r, g)
      BY <2>1
    <2>3. adm.kind # "none" /\ g = package["contract"]
      BY <1>5, <1>k, <2>2, OpensReviewed DEF ClaimRole, Forward, CustodyInv
    <2>4. /\ adm'.kind = adm.kind /\ adm'.contract = adm.contract /\ adm'.dup = adm.dup
          /\ adm'.ver = [adm.ver EXCEPT ![r] = g] /\ adm.ver \in [Roles -> Nat]
      BY <1>0, <2>2 DEF Claimed, AdmType
    <2> QED
      BY <1>0, <2>3, <2>4 DEF CustodyInv
  <1>6. CASE DuplicateRole
    <2>1. PICK r \in Roles : adm.ver[r] # None /\ adm' = [adm EXCEPT !.dup[r] = adm.ver[r]]
      BY <1>6 DEF DuplicateRole, DuplicateOf, Now
    <2>2. adm.kind # "none"
      BY <1>6, <1>k DEF DuplicateRole, Forward
    <2>3. /\ adm'.kind = adm.kind /\ adm'.contract = adm.contract /\ adm'.ver = adm.ver
          /\ adm'.dup = [adm.dup EXCEPT ![r] = adm.ver[r]] /\ adm.dup \in [Roles -> Nat]
      BY <1>0, <2>1 DEF AdmType
    <2> QED
      BY <1>0, <2>1, <2>2, <2>3 DEF CustodyInv
  <1>7. CASE IssueOwner
    <2>1. adm.kind # "none"
      BY <1>7, <1>k DEF IssueOwner, Forward
    <2>2. /\ adm'.kind = adm.kind /\ adm'.contract = adm.contract
          /\ \A r \in Roles : adm'.ver[r] = adm.ver[r] /\ adm'.dup[r] \in {adm.dup[r], None}
      BY <1>7, <1>0 DEF IssueOwner, AdmType, Now
    <2> QED
      BY <1>0, <2>1, <2>2, CustodySame
  <1>8. CASE RoleRefused
    <2>1. adm.kind # "none"
      BY <1>8, <1>k DEF RoleRefused, Forward
    <2>2. /\ adm'.kind = adm.kind /\ adm'.contract = adm.contract
          /\ \A r \in Roles : adm'.ver[r] = adm.ver[r] /\ adm'.dup[r] \in {adm.dup[r], None}
      BY <1>8, <1>0 DEF RoleRefused, AdmType, FailedState, NoRoles, Now
    <2> QED
      BY <1>0, <2>1, <2>2, CustodySame
  <1>9. CASE AdmissionFails
    <2>1. adm.kind # "none"
      BY <1>9, <1>k DEF AdmissionFails, Forward
    <2>2. /\ adm'.kind = adm.kind /\ adm'.contract = adm.contract
          /\ \A r \in Roles : adm'.ver[r] = adm.ver[r] /\ adm'.dup[r] \in {adm.dup[r], None}
      BY <1>9, <1>0 DEF AdmissionFails, AdmType, FailedState, NoRoles
    <2> QED
      BY <1>0, <2>1, <2>2, CustodySame
  <1>10. CASE RecoveryOwner
    <2>1. PICK r \in Roles : \E g \in RoleOpens(r, adm.contract) : adm' = [Claimed(r, g) EXCEPT !.owner = "lazy"]
      BY <1>10 DEF RecoveryOwner, Now, Roles, HostRoles
    <2>2. PICK g \in RoleOpens(r, adm.contract) : adm' = [Claimed(r, g) EXCEPT !.owner = "lazy"]
      BY <2>1
    <2>3. adm.kind # "none" /\ g = package["contract"]
      BY <1>10, <1>k, <2>2, OpensReviewed DEF RecoveryOwner, Forward, CustodyInv
    <2>4. /\ adm'.kind = adm.kind /\ adm'.contract = adm.contract /\ adm'.dup = adm.dup
          /\ adm'.ver = [adm.ver EXCEPT ![r] = g] /\ adm.ver \in [Roles -> Nat]
      BY <1>0, <2>2 DEF Claimed, AdmType
    <2> QED
      BY <1>0, <2>3, <2>4 DEF CustodyInv
  <1>11. CASE RecoveryRefused
    BY <1>11, <1>0, CustodyEnds DEF RecoveryRefused, Now
  <1>12. CASE LazyRole
    <2>1. PICK r \in Roles : \E g \in RoleOpens(r, adm.contract) : adm' = Claimed(r, g)
      BY <1>12 DEF LazyRole, Now
    <2>2. PICK g \in RoleOpens(r, adm.contract) : adm' = Claimed(r, g)
      BY <2>1
    <2>3. adm.kind # "none" /\ g = package["contract"]
      BY <1>12, <1>k, <2>2, OpensReviewed DEF LazyRole, Forward, CustodyInv
    <2>4. /\ adm'.kind = adm.kind /\ adm'.contract = adm.contract /\ adm'.dup = adm.dup
          /\ adm'.ver = [adm.ver EXCEPT ![r] = g] /\ adm.ver \in [Roles -> Nat]
      BY <1>0, <2>2 DEF Claimed, AdmType
    <2> QED
      BY <1>0, <2>3, <2>4 DEF CustodyInv
  <1>13. CASE CreateInputs
    <2>1. adm.kind # "none"
      BY <1>13, <1>k DEF CreateInputs, Forward
    <2>2. /\ adm'.kind = adm.kind /\ adm'.contract = adm.contract
          /\ \A r \in Roles : adm'.ver[r] = adm.ver[r] /\ adm'.dup[r] \in {adm.dup[r], None}
      BY <1>13, <1>0 DEF CreateInputs, AdmType
    <2> QED
      BY <1>0, <2>1, <2>2, CustodySame
  <1>14. CASE RemoveInputs
    <2>1. adm.kind # "none"
      BY <1>14, <1>k DEF RemoveInputs, Forward
    <2>2. /\ adm'.kind = adm.kind /\ adm'.contract = adm.contract
          /\ \A r \in Roles : adm'.ver[r] = adm.ver[r] /\ adm'.dup[r] \in {adm.dup[r], None}
      BY <1>14, <1>0 DEF RemoveInputs, AdmType
    <2> QED
      BY <1>0, <2>1, <2>2, CustodySame
  <1>15. CASE ClaimPrepared
    <2>1. adm.kind # "none"
      BY <1>15, <1>k DEF ClaimPrepared, Forward
    <2>2. /\ adm'.kind = adm.kind /\ adm'.contract = adm.contract
          /\ \A r \in Roles : adm'.ver[r] = adm.ver[r] /\ adm'.dup[r] \in {adm.dup[r], None}
      BY <1>15, <1>0 DEF ClaimPrepared, AdmType, Now
    <2> QED
      BY <1>0, <2>1, <2>2, CustodySame
  <1>16. CASE ConsumePrepared
    <2>1. adm.kind # "none"
      BY <1>16, <1>k DEF ConsumePrepared, Forward
    <2>2. /\ adm'.kind = adm.kind /\ adm'.contract = adm.contract
          /\ \A r \in Roles : adm'.ver[r] = adm.ver[r] /\ adm'.dup[r] \in {adm.dup[r], None}
      BY <1>16, <1>0 DEF ConsumePrepared, AdmType
    <2> QED
      BY <1>0, <2>1, <2>2, CustodySame
  <1>17. CASE VerifyPrepared
    <2>1. adm.kind # "none"
      BY <1>17, <1>k DEF VerifyPrepared, Forward
    <2>2. /\ adm'.kind = adm.kind /\ adm'.contract = adm.contract
          /\ \A r \in Roles : adm'.ver[r] = adm.ver[r] /\ adm'.dup[r] \in {adm.dup[r], None}
      BY <1>17, <1>0 DEF VerifyPrepared, AdmType, Now
    <2> QED
      BY <1>0, <2>1, <2>2, CustodySame
  <1>18. CASE PreparedRefused
    <2>1. adm.kind # "none"
      BY <1>18, <1>k DEF PreparedRefused, Forward
    <2>2. /\ adm'.kind = adm.kind /\ adm'.contract = adm.contract
          /\ \A r \in Roles : adm'.ver[r] = adm.ver[r] /\ adm'.dup[r] \in {adm.dup[r], None}
      BY <1>18, <1>0 DEF PreparedRefused, AdmType, FailedState, NoRoles, Now
    <2> QED
      BY <1>0, <2>1, <2>2, CustodySame
  <1>19. CASE CleanPrepared
    <2>1. adm.kind # "none"
      BY <1>19, <1>k DEF CleanPrepared, Forward, MayClean
    <2>2. /\ adm'.kind = adm.kind /\ adm'.contract = adm.contract
          /\ \A r \in Roles : adm'.ver[r] = adm.ver[r] /\ adm'.dup[r] \in {adm.dup[r], None}
      BY <1>19, <1>0 DEF CleanPrepared, AdmType
    <2> QED
      BY <1>0, <2>1, <2>2, CustodySame
  <1>20. CASE WorkEnds
    <2>1. adm.kind # "none"
      BY <1>20, <1>k DEF WorkEnds, Forward
    <2>2. /\ adm'.kind = adm.kind /\ adm'.contract = adm.contract
          /\ \A r \in Roles : adm'.ver[r] = adm.ver[r] /\ adm'.dup[r] \in {adm.dup[r], None}
      BY <1>20, <1>0 DEF WorkEnds, AdmType, Now
    <2> QED
      BY <1>0, <2>1, <2>2, CustodySame
  <1>21. CASE ReleaseLease
    <2>1. adm.kind # "none"
      BY <1>21, <1>k DEF ReleaseLease, Forward
    <2>2. /\ adm'.kind = adm.kind /\ adm'.contract = adm.contract
          /\ \A r \in Roles : adm'.ver[r] = adm.ver[r] /\ adm'.dup[r] \in {adm.dup[r], None}
      BY <1>21, <1>0 DEF ReleaseLease, AdmType, Now
    <2> QED
      BY <1>0, <2>1, <2>2, CustodySame
  <1>22. CASE RetireOwner
    <2>1. adm.kind # "none"
      BY <1>22, <1>k DEF RetireOwner, Forward
    <2>2. /\ adm'.kind = adm.kind /\ adm'.contract = adm.contract
          /\ \A r \in Roles : adm'.ver[r] = adm.ver[r] /\ adm'.dup[r] \in {adm.dup[r], None}
      BY <1>22, <1>0 DEF RetireOwner, AdmType, OwnerAborted, NoRoles, Now
    <2> QED
      BY <1>0, <2>1, <2>2, CustodySame
  <1>23. CASE RetireOperation
    <2>1. adm.kind # "none"
      BY <1>23, <1>k DEF RetireOperation, Forward
    <2>2. /\ adm'.kind = adm.kind /\ adm'.contract = adm.contract
          /\ \A r \in Roles : adm'.ver[r] = adm.ver[r] /\ adm'.dup[r] \in {adm.dup[r], None}
      BY <1>23, <1>0 DEF RetireOperation, AdmType
    <2> QED
      BY <1>0, <2>1, <2>2, CustodySame
  <1>24. CASE AbortCustody
    BY <1>24, <1>0, CustodyEnds DEF AbortCustody, Now
  <1>25. CASE AdmissionDies
    BY <1>25, <1>0, CustodyEnds DEF AdmissionDies
  <1>26. CASE CleanupRefused
    BY <1>26, <1>0, CustodyEnds DEF CleanupRefused, Now
  <1> QED
    BY <1>1, <1>2, <1>3, <1>4, <1>5, <1>6, <1>7, <1>8, <1>9, <1>10, <1>11, <1>12, <1>13, <1>14,
       <1>15, <1>16, <1>17, <1>18, <1>19, <1>20, <1>21, <1>22, <1>23, <1>24, <1>25, <1>26 DEF
       AdmissionNext

\* A step of the custody that leaves the disk alone and claims no runtime.
LEMMA InputSame ==
  ASSUME InputInv, UNCHANGED <<disk, prep, exposed, recorded>>,
         busy' \/ adm'.kind = "forward" => busy \/ adm.kind = "forward",
         Forward' => /\ Forward
                     /\ adm'.ver["containerd"] # None => adm.ver["containerd"] # None
                     /\ adm'.dup["containerd"] # None => adm.dup["containerd"] # None
  PROVE  InputInv'
  BY DEF InputInv, Forward

LEMMA InputStep ==
  ASSUME TypeInv, CustodyInv, DescriptorInv, InputInv, AdmissionNext
  PROVE  InputInv'
  <1>0. adm \in AdmType /\ prep' = prep /\ (CleanPrepared \/ disk' = disk) /\ (ClaimStatic \/ exposed' = exposed)
    BY AdmissionOutside DEF TypeInv
  <1>c. "containerd" \in Roles /\ adm.ver \in [Roles -> Nat] /\ adm.dup \in [Roles -> Nat]
    BY <1>0 DEF Roles, AdmType
  <1>1. CASE ClaimStatic
    <2>1. /\ adm' = Custody("forward") /\ exposed' = (prep.act \in {"prepare", "rollback"})
          /\ UNCHANGED <<disk, prep, busy, recorded>> /\ ~busy
      BY <1>1 DEF ClaimStatic, prepVars
    <2>2. /\ disk["blob"] = "whole" /\ disk["kata"] = "whole" /\ disk["active"] = "whole" /\ disk["staged"] # "none"
      BY <1>1 DEF ClaimStatic, Admissible, RootfsRead, LiveConfiguration, ConfigurationExact
    <2>3. adm'.ver["containerd"] = None /\ adm'.dup["containerd"] = None
      BY <1>c, <2>1, CustodyIs
    <2> QED
      BY <2>1, <2>2, <2>3 DEF InputInv
  <1>2. CASE ClaimRecovery
    <2>1. adm'.kind = "recovery" /\ busy /\ UNCHANGED <<disk, prep, exposed, recorded>>
      BY <1>2, CustodyIs DEF ClaimRecovery, Now, outside
    <2> QED
      BY <2>1, InputSame DEF Forward
  <1>3. CASE AcquireRootfs
    <2>1. /\ adm'.kind = adm.kind /\ adm'.failed = adm.failed /\ adm'.ver = adm.ver /\ adm'.dup = adm.dup
          /\ UNCHANGED <<disk, prep, exposed, recorded>> /\ adm.kind = "forward"
      BY <1>3, <1>0 DEF AcquireRootfs, Forward, AdmType, outside
    <2> QED
      BY <2>1, InputSame DEF Forward
  <1>4. CASE ClaimMapping
    <2>1. /\ adm'.kind = adm.kind /\ adm'.failed = adm.failed /\ adm'.ver = adm.ver /\ adm'.dup = adm.dup
          /\ UNCHANGED <<disk, prep, busy, exposed, recorded>>
      BY <1>4, <1>0 DEF ClaimMapping, AdmType, outside, Now
    <2> QED
      BY <2>1, InputSame DEF Forward
  <1>5. CASE ClaimRole
    <2>1. PICK r \in Roles : \E g \in RoleOpens(r, adm.contract) : adm' = Claimed(r, g)
      BY <1>5 DEF ClaimRole, Now
    <2>2. PICK g \in RoleOpens(r, adm.contract) : adm' = Claimed(r, g)
      BY <2>1
    <2>3. r = "containerd" => disk["staged"] = "whole"
      BY <2>2, OpensReviewed
    <2>4. /\ adm'.kind = adm.kind /\ adm'.failed = adm.failed /\ adm'.dup = adm.dup
          /\ adm'.ver = [adm.ver EXCEPT ![r] = g]
      BY <1>0, <2>2 DEF Claimed, AdmType
    <2>5. UNCHANGED <<disk, prep, busy, exposed, recorded>>
      BY <1>5 DEF ClaimRole, Now, outside
    <2> QED
      BY <1>c, <2>3, <2>4, <2>5 DEF InputInv, Forward
  <1>6. CASE DuplicateRole
    <2>1. PICK r \in Roles : adm.ver[r] # None /\ adm' = [adm EXCEPT !.dup[r] = adm.ver[r]]
      BY <1>6 DEF DuplicateRole, DuplicateOf, Now
    <2>2. /\ adm'.kind = adm.kind /\ adm'.failed = adm.failed /\ adm'.ver = adm.ver
          /\ adm'.dup = [adm.dup EXCEPT ![r] = adm.ver[r]]
      BY <1>0, <2>1 DEF AdmType
    <2>3. UNCHANGED <<disk, prep, busy, exposed, recorded>>
      BY <1>6 DEF DuplicateRole, Now, outside
    <2> QED
      BY <1>c, <2>1, <2>2, <2>3 DEF InputInv, Forward
  <1>7. CASE IssueOwner
    <2>1. /\ adm'.kind = adm.kind /\ adm'.failed = adm.failed /\ adm'.ver = adm.ver /\ adm'.dup = adm.dup
          /\ UNCHANGED <<disk, prep, busy, exposed, recorded>>
      BY <1>7, <1>0 DEF IssueOwner, AdmType, outside, Now
    <2> QED
      BY <2>1, InputSame DEF Forward
  <1>8. CASE RoleRefused
    <2>1. /\ adm'.kind = adm.kind /\ adm'.failed
          /\ UNCHANGED <<disk, prep, busy, exposed, recorded>>
      BY <1>8, <1>0 DEF RoleRefused, AdmType, FailedState, outside, Now
    <2> QED
      BY <2>1, InputSame DEF Forward
  <1>9. CASE AdmissionFails
    <2>1. /\ adm'.kind = adm.kind /\ adm'.failed
          /\ UNCHANGED <<disk, prep, busy, exposed, recorded>>
      BY <1>9, <1>0 DEF AdmissionFails, AdmType, FailedState
    <2> QED
      BY <2>1, InputSame DEF Forward
  <1>10. CASE RecoveryOwner
    <2>1. PICK r \in Roles : \E g \in RoleOpens(r, adm.contract) : adm' = [Claimed(r, g) EXCEPT !.owner = "lazy"]
      BY <1>10 DEF RecoveryOwner, Now, Roles, HostRoles
    <2>2. PICK g \in RoleOpens(r, adm.contract) : adm' = [Claimed(r, g) EXCEPT !.owner = "lazy"]
      BY <2>1
    <2>3. r = "containerd" => disk["staged"] = "whole"
      BY <2>2, OpensReviewed
    <2>4. /\ adm'.kind = adm.kind /\ adm'.failed = adm.failed /\ adm'.dup = adm.dup
          /\ adm'.ver = [adm.ver EXCEPT ![r] = g]
      BY <1>0, <2>2 DEF Claimed, AdmType
    <2>5. UNCHANGED <<disk, prep, busy, exposed, recorded>>
      BY <1>10 DEF RecoveryOwner, Now, outside
    <2> QED
      BY <1>c, <2>3, <2>4, <2>5 DEF InputInv, Forward
  <1>11. CASE RecoveryRefused
    <2>1. adm'.kind = "none" /\ UNCHANGED <<disk, prep, busy, exposed, recorded>>
      BY <1>11, NoAdmIs DEF RecoveryRefused, outside, Now
    <2> QED
      BY <2>1, InputSame DEF Forward
  <1>12. CASE LazyRole
    <2>1. PICK r \in Roles : \E g \in RoleOpens(r, adm.contract) : adm' = Claimed(r, g)
      BY <1>12 DEF LazyRole, Now
    <2>2. PICK g \in RoleOpens(r, adm.contract) : adm' = Claimed(r, g)
      BY <2>1
    <2>3. r = "containerd" => disk["staged"] = "whole"
      BY <2>2, OpensReviewed
    <2>4. /\ adm'.kind = adm.kind /\ adm'.failed = adm.failed /\ adm'.dup = adm.dup
          /\ adm'.ver = [adm.ver EXCEPT ![r] = g]
      BY <1>0, <2>2 DEF Claimed, AdmType
    <2>5. UNCHANGED <<disk, prep, busy, exposed, recorded>>
      BY <1>12 DEF LazyRole, Now, outside
    <2> QED
      BY <1>c, <2>3, <2>4, <2>5 DEF InputInv, Forward
  <1>13. CASE CreateInputs
    <2>1. /\ adm'.kind = adm.kind /\ adm'.failed = adm.failed /\ adm'.ver = adm.ver /\ adm'.dup = adm.dup
          /\ UNCHANGED <<disk, prep, busy, exposed, recorded>>
      BY <1>13, <1>0 DEF CreateInputs, AdmType, outside
    <2> QED
      BY <2>1, InputSame DEF Forward
  <1>14. CASE RemoveInputs
    <2>1. /\ adm'.kind = adm.kind /\ adm'.failed = adm.failed /\ adm'.ver = adm.ver /\ adm'.dup = adm.dup
          /\ UNCHANGED <<disk, prep, busy, exposed, recorded>>
      BY <1>14, <1>0 DEF RemoveInputs, AdmType, outside
    <2> QED
      BY <2>1, InputSame DEF Forward
  <1>15. CASE ClaimPrepared
    <2>1. /\ adm'.kind = adm.kind /\ adm'.failed = adm.failed /\ adm'.ver = adm.ver /\ adm'.dup = adm.dup
          /\ UNCHANGED <<disk, prep, busy, exposed, recorded>>
      BY <1>15, <1>0 DEF ClaimPrepared, AdmType, outside, Now
    <2> QED
      BY <2>1, InputSame DEF Forward
  <1>16. CASE ConsumePrepared
    <2>1. /\ adm'.kind = adm.kind /\ adm'.failed = adm.failed /\ adm'.ver = adm.ver /\ adm'.dup = adm.dup
          /\ UNCHANGED <<disk, prep, busy, exposed>> /\ disk["staged"] = "whole"
      BY <1>16, <1>0 DEF ConsumePrepared, PreparedExact, outside, AdmType
    <2> QED
      BY <2>1 DEF InputInv, Forward
  <1>17. CASE VerifyPrepared
    <2>1. /\ adm'.kind = adm.kind /\ adm'.failed = adm.failed /\ adm'.ver = adm.ver /\ adm'.dup = adm.dup
          /\ UNCHANGED <<disk, prep, busy, exposed, recorded>>
      BY <1>17, <1>0 DEF VerifyPrepared, AdmType, outside, Now
    <2> QED
      BY <2>1, InputSame DEF Forward
  <1>18. CASE PreparedRefused
    <2>1. /\ adm'.kind = adm.kind /\ adm'.failed
          /\ UNCHANGED <<disk, prep, busy, exposed, recorded>>
      BY <1>18, <1>0 DEF PreparedRefused, AdmType, FailedState, outside, Now
    <2> QED
      BY <2>1, InputSame DEF Forward
  <1>19. CASE CleanPrepared
    <2>1. adm'.kind = adm.kind /\ adm'.failed /\ busy' = busy /\ exposed' = exposed
      BY <1>19, <1>0 DEF CleanPrepared, AdmType
    <2>2. disk'["kata"] = disk["kata"] /\ disk'["blob"] = disk["blob"]
      BY <1>19, NamesAre DEF CleanPrepared, TypeInv
    <2>3. recorded' = "this" => disk'["staged"] # "none"
      BY <1>19 DEF CleanPrepared, StillRecorded
    <2> QED
      BY <1>0, <2>1, <2>2, <2>3 DEF InputInv, Forward
  <1>20. CASE WorkEnds
    <2>1. /\ adm'.kind = adm.kind /\ adm'.failed
          /\ UNCHANGED <<disk, prep, busy, exposed, recorded>>
      BY <1>20, <1>0 DEF WorkEnds, AdmType, outside, Now
    <2> QED
      BY <2>1, InputSame DEF Forward
  <1>21. CASE ReleaseLease
    <2>1. /\ adm'.kind = adm.kind /\ adm'.failed = adm.failed /\ adm'.ver = adm.ver /\ adm'.dup = adm.dup
          /\ UNCHANGED <<disk, prep, busy, exposed, recorded>>
      BY <1>21, <1>0 DEF ReleaseLease, AdmType, outside, Now
    <2> QED
      BY <2>1, InputSame DEF Forward
  <1>22. CASE RetireOwner
    <2>1. /\ adm'.kind = adm.kind /\ adm'.failed
          /\ UNCHANGED <<disk, prep, busy, exposed, recorded>>
      BY <1>22, <1>0 DEF RetireOwner, AdmType, OwnerAborted, outside, Now
    <2> QED
      BY <2>1, InputSame DEF Forward
  <1>23. CASE RetireOperation
    <2>1. adm' = adm /\ ~busy' /\ recorded' = "none" /\ UNCHANGED <<disk, prep, exposed>>
      BY <1>23 DEF RetireOperation, outside
    <2> QED
      BY <2>1 DEF InputInv, Forward
  <1>24. CASE AbortCustody
    <2>1. adm'.kind = "none" /\ UNCHANGED <<disk, prep, busy, exposed, recorded>>
      BY <1>24, NoAdmIs DEF AbortCustody, outside, Now
    <2> QED
      BY <2>1, InputSame DEF Forward
  <1>25. CASE AdmissionDies
    <2>1. adm'.kind = "none" /\ UNCHANGED <<disk, prep, busy, exposed, recorded>>
      BY <1>25, NoAdmIs DEF AdmissionDies
    <2> QED
      BY <2>1, InputSame DEF Forward
  <1>26. CASE CleanupRefused
    <2>1. adm'.kind = "none" /\ UNCHANGED <<disk, prep, busy, exposed, recorded>>
      BY <1>26, NoAdmIs DEF CleanupRefused, outside, Now
    <2> QED
      BY <2>1, InputSame DEF Forward
  <1> QED
    BY <1>1, <1>2, <1>3, <1>4, <1>5, <1>6, <1>7, <1>8, <1>9, <1>10, <1>11, <1>12, <1>13, <1>14,
       <1>15, <1>16, <1>17, <1>18, <1>19, <1>20, <1>21, <1>22, <1>23, <1>24, <1>25, <1>26 DEF
       AdmissionNext

LEMMA DescriptorStep ==
  ASSUME TypeInv, CustodyInv, DescriptorInv, AdmissionNext
  PROVE  DescriptorInv'
  <1>0. adm \in AdmType /\ adm.ver \in [Roles -> Nat] /\ adm.dup \in [Roles -> Nat]
    BY DEF TypeInv, AdmType
  <1>k. adm.kind = "none" => adm.owner = "none" /\ adm.prepared = "none"
    BY NoAdmIs DEF CustodyInv
  <1>1. CASE ClaimStatic
    BY <1>1, CustodyIs DEF ClaimStatic, DescriptorInv, Forward
  <1>2. CASE ClaimRecovery
    BY <1>2, CustodyIs DEF ClaimRecovery, DescriptorInv, Forward, Now
  <1>3. CASE AcquireRootfs
    <2>1. /\ adm'.kind = adm.kind /\ adm'.retired = adm.retired /\ adm'.ver = adm.ver /\ adm'.dup = adm.dup
          /\ adm'.prepared = adm.prepared /\ adm'.fds = adm.fds /\ adm'.failed = adm.failed /\ adm'.owner = adm.owner
      BY <1>3, <1>0 DEF AcquireRootfs, AdmType
    <2> QED
      BY <2>1 DEF DescriptorInv, Forward
  <1>4. CASE ClaimMapping
    <2>1. /\ adm'.kind = adm.kind /\ adm'.retired = adm.retired /\ adm'.ver = adm.ver /\ adm'.dup = adm.dup
          /\ adm'.prepared = adm.prepared /\ adm.fds \subseteq adm'.fds /\ adm'.failed = adm.failed /\ adm'.owner = adm.owner
      BY <1>4, <1>0 DEF ClaimMapping, AdmType, Now
    <2> QED
      BY <2>1 DEF DescriptorInv, Forward
  <1>5. CASE ClaimRole
    <2>1. PICK r \in Roles : \E g : adm' = Claimed(r, g)
      BY <1>5 DEF ClaimRole, Now
    <2>g. PICK g : adm' = Claimed(r, g)
      BY <2>1
    <2>2. /\ adm'.kind = adm.kind /\ adm'.failed = adm.failed /\ adm'.retired = adm.retired /\ adm'.dup = adm.dup
          /\ adm'.prepared = adm.prepared /\ adm'.fds = adm.fds \cup {"role"}
      BY <1>0, <2>g DEF Claimed, AdmType
    <2>3. adm'.owner = adm.owner
      BY <1>5, <1>0, <2>g DEF ClaimRole, Claimed, AdmType
    <2> QED
      BY <2>2, <2>3 DEF DescriptorInv, Forward
  <1>6. CASE DuplicateRole
    <2>1. PICK r \in Roles : adm.ver[r] # None /\ adm' = [adm EXCEPT !.dup[r] = adm.ver[r]]
      BY <1>6 DEF DuplicateRole, DuplicateOf, Now
    <2>2. /\ adm'.kind = adm.kind /\ adm'.failed = adm.failed /\ adm'.retired = adm.retired /\ adm'.ver = adm.ver
          /\ adm'.prepared = adm.prepared /\ adm'.fds = adm.fds /\ adm'.owner = adm.owner
          /\ adm'.dup = [adm.dup EXCEPT ![r] = adm.ver[r]]
      BY <1>0, <2>1 DEF AdmType
    <2>3. "role" \in adm.fds /\ (adm.owner # "none" \/ Forward)
      BY <1>6, <2>1 DEF DuplicateRole, DescriptorInv, Forward
    <2> QED
      BY <1>0, <2>1, <2>2, <2>3 DEF DescriptorInv, Forward
  <1>7. CASE IssueOwner
    <2>1. /\ adm'.kind = adm.kind /\ adm'.retired = adm.retired /\ adm'.ver = adm.ver /\ adm'.dup = adm.dup
          /\ adm'.prepared = adm.prepared /\ adm'.fds = adm.fds /\ adm'.failed = adm.failed
          /\ adm'.owner = "issued" /\ Forward
      BY <1>7, <1>0 DEF IssueOwner, AdmType, Now
    <2>2. \A r \in Roles : adm.dup[r] # None
      <3>1. package["contract"] \in Generations /\ adm.contract = package["contract"]
        BY <1>7 DEF IssueOwner, Forward, CustodyInv, TypeInv, Members
      <3>2. adm.contract # None
        BY <3>1, MaxUpgradesNat DEF Generations, None
      <3> QED
        BY <1>7, <3>2 DEF IssueOwner
    <2>3. "role" \in adm.fds
      BY <2>2 DEF DescriptorInv, Roles
    <2> QED
      BY <2>1, <2>2, <2>3 DEF DescriptorInv, Forward
  <1>8. CASE RoleRefused
    <2>1. /\ adm'.kind = adm.kind /\ adm'.failed /\ adm'.retired = adm.retired /\ adm'.ver = adm.ver
          /\ adm'.prepared = adm.prepared /\ adm'.fds = adm.fds /\ adm'.owner = adm.owner
          /\ \A r \in Roles : adm'.dup[r] = IF adm.owner = "none" THEN None ELSE adm.dup[r]
      BY <1>8, <1>0 DEF RoleRefused, FailedState, NoRoles, AdmType, Now
    <2> QED
      BY <2>1 DEF DescriptorInv, Forward
  <1>9. CASE AdmissionFails
    <2>1. /\ adm'.kind = adm.kind /\ adm'.failed /\ adm'.retired = adm.retired /\ adm'.ver = adm.ver
          /\ adm'.prepared = adm.prepared /\ adm'.fds = adm.fds /\ adm'.owner = adm.owner
          /\ \A r \in Roles : adm'.dup[r] = IF adm.owner = "none" THEN None ELSE adm.dup[r]
      BY <1>9, <1>0 DEF AdmissionFails, FailedState, NoRoles, AdmType
    <2> QED
      BY <2>1 DEF DescriptorInv, Forward
  <1>10. CASE RecoveryOwner
    <2>1. PICK r \in Roles : \E g : adm' = [Claimed(r, g) EXCEPT !.owner = "lazy"]
      BY <1>10 DEF RecoveryOwner, Now, Roles, HostRoles
    <2>g. PICK g : adm' = [Claimed(r, g) EXCEPT !.owner = "lazy"]
      BY <2>1
    <2>2. /\ adm'.kind = adm.kind /\ adm'.failed = adm.failed /\ adm'.retired = adm.retired /\ adm'.dup = adm.dup
          /\ adm'.prepared = adm.prepared /\ adm'.fds = adm.fds \cup {"role"}
      BY <1>0, <2>g DEF Claimed, AdmType
    <2>3. adm'.owner = "lazy" /\ adm.kind = "recovery" /\ adm.owner = "none" /\ ~adm.retired
      BY <1>10, <1>0, <2>g DEF RecoveryOwner, Claimed, AdmType
    <2> QED
      BY <2>2, <2>3 DEF DescriptorInv, Forward
  <1>11. CASE RecoveryRefused
    <2>1. adm' = NoAdm
      BY <1>11 DEF RecoveryRefused, Now
    <2> QED
      BY <2>1, NoAdmIs DEF DescriptorInv, Forward
  <1>12. CASE LazyRole
    <2>1. PICK r \in Roles : \E g : adm' = Claimed(r, g)
      BY <1>12 DEF LazyRole, Now
    <2>g. PICK g : adm' = Claimed(r, g)
      BY <2>1
    <2>2. /\ adm'.kind = adm.kind /\ adm'.failed = adm.failed /\ adm'.retired = adm.retired /\ adm'.dup = adm.dup
          /\ adm'.prepared = adm.prepared /\ adm'.fds = adm.fds \cup {"role"}
      BY <1>0, <2>g DEF Claimed, AdmType
    <2>3. adm'.owner = adm.owner
      BY <1>12, <1>0, <2>g DEF LazyRole, Claimed, AdmType
    <2> QED
      BY <2>2, <2>3 DEF DescriptorInv, Forward
  <1>13. CASE CreateInputs
    <2>1. adm' = adm
      BY <1>13 DEF CreateInputs
    <2> QED
      BY <2>1 DEF DescriptorInv, Forward
  <1>14. CASE RemoveInputs
    <2>1. adm' = adm
      BY <1>14 DEF RemoveInputs
    <2> QED
      BY <2>1 DEF DescriptorInv, Forward
  <1>15. CASE ClaimPrepared
    <2>1. /\ adm'.kind = adm.kind /\ adm'.retired = adm.retired /\ adm'.ver = adm.ver /\ adm'.dup = adm.dup
          /\ adm.fds \subseteq adm'.fds /\ adm'.failed = adm.failed /\ adm'.owner = adm.owner
      BY <1>15, <1>0 DEF ClaimPrepared, AdmType, Now
    <2>2. adm.owner = "issued" /\ ~adm.failed
      BY <1>15 DEF ClaimPrepared, DescriptorInv, Forward
    <2> QED
      BY <2>1, <2>2 DEF DescriptorInv, Forward
  <1>16. CASE ConsumePrepared
    <2>1. /\ adm'.kind = adm.kind /\ adm'.retired = adm.retired /\ adm'.ver = adm.ver /\ adm'.dup = adm.dup
          /\ adm'.fds = adm.fds /\ adm'.failed = adm.failed /\ adm'.owner = adm.owner
      BY <1>16, <1>0 DEF ConsumePrepared, AdmType
    <2>2. adm.owner = "issued" /\ ~adm.failed
      BY <1>16 DEF ConsumePrepared, DescriptorInv, Forward
    <2> QED
      BY <2>1, <2>2 DEF DescriptorInv, Forward
  <1>17. CASE VerifyPrepared
    <2>1. /\ adm'.kind = adm.kind /\ adm'.retired = adm.retired /\ adm'.ver = adm.ver /\ adm'.dup = adm.dup
          /\ adm'.fds = adm.fds /\ adm'.failed = adm.failed /\ adm'.owner = adm.owner
      BY <1>17, <1>0 DEF VerifyPrepared, AdmType, Now
    <2>2. adm.owner = "issued" /\ ~adm.failed
      BY <1>17 DEF VerifyPrepared, DescriptorInv, Forward
    <2> QED
      BY <2>1, <2>2 DEF DescriptorInv, Forward
  <1>18. CASE PreparedRefused
    <2>1. /\ adm'.kind = adm.kind /\ adm'.failed /\ adm'.retired = adm.retired /\ adm'.ver = adm.ver
          /\ adm'.prepared = adm.prepared /\ adm'.fds = adm.fds /\ adm'.owner = adm.owner
          /\ \A r \in Roles : adm'.dup[r] = IF adm.owner = "none" THEN None ELSE adm.dup[r]
      BY <1>18, <1>0 DEF PreparedRefused, FailedState, NoRoles, AdmType, Now
    <2> QED
      BY <2>1 DEF DescriptorInv, Forward
  <1>19. CASE CleanPrepared
    <2>1. /\ adm'.kind = adm.kind /\ adm'.retired = adm.retired /\ adm'.ver = adm.ver /\ adm'.dup = adm.dup
          /\ adm'.prepared = adm.prepared /\ adm'.fds = adm.fds /\ adm'.failed /\ adm'.owner = adm.owner
      BY <1>19, <1>0 DEF CleanPrepared, AdmType
    <2>2. adm.owner # "none"
      BY <1>19 DEF CleanPrepared, MayClean, DescriptorInv
    <2> QED
      BY <2>1, <2>2 DEF DescriptorInv, Forward
  <1>20. CASE WorkEnds
    <2>1. /\ adm'.kind = adm.kind /\ adm'.retired = adm.retired /\ adm'.ver = adm.ver /\ adm'.dup = adm.dup
          /\ adm'.prepared = adm.prepared /\ adm'.fds = adm.fds /\ adm'.failed /\ adm'.owner = adm.owner
      BY <1>20, <1>0 DEF WorkEnds, AdmType, Now
    <2>2. adm.owner # "none"
      BY <1>20 DEF WorkEnds, Forward, DescriptorInv
    <2> QED
      BY <2>1, <2>2 DEF DescriptorInv, Forward
  <1>21. CASE ReleaseLease
    <2>1. /\ adm'.kind = adm.kind /\ adm'.retired = adm.retired /\ adm'.ver = adm.ver /\ adm'.dup = adm.dup
          /\ adm'.prepared = adm.prepared /\ adm'.fds = adm.fds /\ adm'.failed = adm.failed /\ adm'.owner = adm.owner
      BY <1>21, <1>0 DEF ReleaseLease, AdmType, Now
    <2> QED
      BY <2>1 DEF DescriptorInv, Forward
  <1>22. CASE RetireOwner
    <2>1. /\ adm'.kind = adm.kind /\ adm'.failed /\ adm'.retired /\ adm'.owner = "none"
          /\ \A r \in Roles : adm'.dup[r] = None
      BY <1>22, <1>0 DEF RetireOwner, OwnerAborted, NoRoles, AdmType, Now
    <2> QED
      BY <2>1 DEF DescriptorInv, Forward
  <1>23. CASE RetireOperation
    <2>1. adm' = adm
      BY <1>23 DEF RetireOperation
    <2> QED
      BY <2>1 DEF DescriptorInv, Forward
  <1>24. CASE AbortCustody
    <2>1. adm' = NoAdm
      BY <1>24 DEF AbortCustody, Now
    <2> QED
      BY <2>1, NoAdmIs DEF DescriptorInv, Forward
  <1>25. CASE AdmissionDies
    <2>1. adm' = NoAdm
      BY <1>25 DEF AdmissionDies
    <2> QED
      BY <2>1, NoAdmIs DEF DescriptorInv, Forward
  <1>26. CASE CleanupRefused
    <2>1. adm' = NoAdm
      BY <1>26 DEF CleanupRefused, Now
    <2> QED
      BY <2>1, NoAdmIs DEF DescriptorInv, Forward
  <1> QED
    BY <1>1, <1>2, <1>3, <1>4, <1>5, <1>6, <1>7, <1>8, <1>9, <1>10, <1>11, <1>12, <1>13, <1>14,
       <1>15, <1>16, <1>17, <1>18, <1>19, <1>20, <1>21, <1>22, <1>23, <1>24, <1>25, <1>26 DEF
       AdmissionNext
-----------------------------------------------------------------------------
(* The disk. *)

\* The names the invariants speak of.
LEMMA NamesIn ==
  /\ {"root", "cache", "ext", "input", "receipt", "staging", "staged", "active", "kata"} \subseteq Names
  /\ InputNames \subseteq Names
  /\ {"arch-kata", "arch-containerd", "tree-kata", "tree-containerd", "mark-kata", "mark-containerd"} \subseteq Names
  BY NamesAre DEF InputNames

\* A step that leaves the disk, the process and the extractor alone.
LEMMA DiskStutter ==
  ASSUME DiskInv, UNCHANGED <<disk, prep, tar>>
  PROVE  DiskInv'
  <1>1. Inside'
    BY DEF DiskInv, Inside
  <1>2. ProcessInv'
    BY DEF DiskInv, ProcessInv, WrittenBefore, RemovedBefore, Gone, TreesGone
  <1>3. ExtractorInv'
    BY DEF DiskInv, ExtractorInv, Extracting
  <1>4. Provable'
    BY DEF DiskInv, Provable, BaseAt
  <1> QED
    BY <1>1, <1>2, <1>3, <1>4 DEF DiskInv

\* The next step of the script.
LEMMA DiskAdvance ==
  ASSUME PrepTypes, DiskInv, Advance
  PROVE  DiskInv'
  <1> DEFINE p == prep.pc
  <1>1. /\ prep.act = "prepare" /\ p \in 1..40 /\ p \in Nat
        /\ prep'.act = "prepare" /\ p' = p + 1
    BY ScriptLength DEF Advance, PrepTypes, PrepType
  <1>2. disk' = Written(Script[p]) /\ disk \in [Names -> Words]
    BY DEF Advance, PrepTypes
  <1>3. tar = "none" /\ tar' = "none"
    BY <1>1 DEF Advance, DiskInv, ExtractorInv, PrepTypes, Archives
  <1>4. WrittenBefore(p) /\ Inside /\ Provable
    BY <1>1 DEF DiskInv, ProcessInv
  <1>5. ASSUME Inside', WrittenBefore(p)', Provable'
        PROVE  DiskInv'
    BY <1>1, <1>3, <1>5 DEF DiskInv, ProcessInv, ExtractorInv
  <1>6. Script[p] = ReceiptSteps[1] => disk["tree-kata"] = "whole"
    BY ArchivesAre DEF Advance, ArchiveValues
  <1>7. Script[p] # Write("tree-kata", "whole") /\ Script[p] # Write("tree-containerd", "whole")
    BY <1>1, ArchivesAre DEF Advance, Extracting
  <1>8. StepAt(p)
    BY <1>1, Kinds
  <1> HIDE DEF p
  <1>11. CASE p = 1 /\ Script[p] = Write("root", "whole")
    <2>1. Script[p] = Write("root", "whole")
      BY <1>11
    <2>2. disk' = [disk EXCEPT !["root"] = "whole"]
      BY <1>2, <2>1, NamesIn, WriteChanges DEF Words
    <2>3. WrittenBefore(p)'
      BY <1>1, <1>2, <1>4, <1>11, <2>2, NamesIn DEF WrittenBefore, Gone
    <2>4. Inside'
      BY <1>1, <1>2, <1>4, <1>11, <2>2, NamesIn DEF Inside, WrittenBefore, InputNames
    <2>5. Provable'
      BY <1>1, <1>2, <1>4, <1>11, <2>2, NamesIn DEF Provable, BaseAt, WrittenBefore, Gone
    <2> QED
      BY <1>5, <2>3, <2>4, <2>5
  <1>12. CASE p = 2 /\ Script[p] = Write("cache", "whole")
    <2>1. Script[p] = Write("cache", "whole")
      BY <1>12
    <2>2. disk' = [disk EXCEPT !["cache"] = "whole"]
      BY <1>2, <2>1, NamesIn, WriteChanges DEF Words
    <2>3. WrittenBefore(p)'
      BY <1>1, <1>2, <1>4, <1>12, <2>2, NamesIn DEF WrittenBefore, Gone
    <2>4. Inside'
      BY <1>1, <1>2, <1>4, <1>12, <2>2, NamesIn DEF Inside, WrittenBefore, InputNames
    <2>5. Provable'
      BY <1>1, <1>2, <1>4, <1>12, <2>2, NamesIn DEF Provable, BaseAt, WrittenBefore, Gone
    <2> QED
      BY <1>5, <2>3, <2>4, <2>5
  <1>13. CASE p = 3 /\ Script[p] = Write("ext", "whole")
    <2>1. Script[p] = Write("ext", "whole")
      BY <1>13
    <2>2. disk' = [disk EXCEPT !["ext"] = "whole"]
      BY <1>2, <2>1, NamesIn, WriteChanges DEF Words
    <2>3. WrittenBefore(p)'
      BY <1>1, <1>2, <1>4, <1>13, <2>2, NamesIn DEF WrittenBefore, Gone
    <2>4. Inside'
      BY <1>1, <1>2, <1>4, <1>13, <2>2, NamesIn DEF Inside, WrittenBefore, InputNames
    <2>5. Provable'
      BY <1>1, <1>2, <1>4, <1>13, <2>2, NamesIn DEF Provable, BaseAt, WrittenBefore, Gone
    <2> QED
      BY <1>5, <2>3, <2>4, <2>5
  <1>14. CASE p = 4 /\ Script[p] = Write("input", "empty")
    <2>1. Script[p] = Write("input", "empty")
      BY <1>14
    <2>2. disk' = [disk EXCEPT !["input"] = "empty"]
      BY <1>2, <2>1, NamesIn, WriteChanges DEF Words
    <2>3. WrittenBefore(p)'
      BY <1>1, <1>2, <1>4, <1>14, <2>2, NamesIn DEF WrittenBefore, Gone
    <2>4. Inside'
      BY <1>1, <1>2, <1>4, <1>14, <2>2, NamesIn DEF Inside, WrittenBefore, InputNames
    <2>5. Provable'
      BY <1>1, <1>2, <1>4, <1>14, <2>2, NamesIn DEF Provable, BaseAt, WrittenBefore, Gone
    <2> QED
      BY <1>5, <2>3, <2>4, <2>5
  <1>15. CASE p \in 5..15 /\ (\E n \in InputNames, w \in Words : Script[p] = Write(n, w))
    <2>1. PICK n \in InputNames, w \in Words : Script[p] = Write(n, w)
      BY <1>15
    <2>2. disk' = [disk EXCEPT ![n] = w]
      BY <1>2, <2>1, NamesIn, WriteChanges DEF Words
    <2>3. WrittenBefore(p)'
      BY <1>1, <1>2, <1>4, <1>15, <2>2, NamesIn DEF WrittenBefore, Gone, InputNames
    <2>4. Inside'
      BY <1>1, <1>2, <1>4, <1>15, <2>2, NamesIn DEF Inside, WrittenBefore, InputNames
    <2>5. Provable'
      BY <1>1, <1>2, <1>4, <1>15, <2>2, NamesIn DEF Provable, BaseAt, WrittenBefore, Gone,
         InputNames
    <2> QED
      BY <1>5, <2>3, <2>4, <2>5
  <1>16. CASE p \in 16..21 /\ (\E r \in Archives, w \in Words : Script[p] = Write(Arch[r], w))
    <2>1. PICK r \in Archives, w \in Words : Script[p] = Write(Arch[r], w)
      BY <1>16
    <2>n. Arch[r] \in {"arch-kata", "arch-containerd"}
      BY ArchivesAre DEF Archives
    <2>2. disk' = [disk EXCEPT ![Arch[r]] = w]
      BY <1>2, <2>1, <2>n, NamesIn, WriteChanges
    <2>3. WrittenBefore(p)'
      BY <1>1, <1>2, <1>4, <1>16, <2>2, <2>n, NamesIn DEF WrittenBefore, Gone
    <2>4. Inside'
      BY <1>1, <1>2, <1>4, <1>16, <2>2, <2>n, NamesIn DEF Inside, WrittenBefore, InputNames
    <2>5. Provable'
      BY <1>1, <1>2, <1>4, <1>16, <2>2, <2>n, NamesIn DEF Provable, BaseAt, WrittenBefore, Gone
    <2> QED
      BY <1>5, <2>3, <2>4, <2>5
  <1>17. CASE p = 22 /\ Script[p] = Write("tree-kata", "empty")
    <2>1. Script[p] = Write("tree-kata", "empty")
      BY <1>17
    <2>2. disk' = [disk EXCEPT !["tree-kata"] = "empty"]
      BY <1>2, <2>1, NamesIn, WriteChanges DEF Words
    <2>3. WrittenBefore(p)'
      BY <1>1, <1>2, <1>4, <1>17, <2>2, NamesIn DEF WrittenBefore, Gone
    <2>4. Inside'
      BY <1>1, <1>2, <1>4, <1>17, <2>2, NamesIn DEF Inside, WrittenBefore, InputNames
    <2>5. Provable'
      BY <1>1, <1>2, <1>4, <1>17, <2>2, NamesIn DEF Provable, BaseAt, WrittenBefore, Gone, Inside
    <2> QED
      BY <1>5, <2>3, <2>4, <2>5
  <1>18. CASE p \in {23, 24, 26} /\ (\E w \in Words : Script[p] = Write("mark-kata", w))
    <2>1. PICK w \in Words : Script[p] = Write("mark-kata", w)
      BY <1>18
    <2>2. disk' = [disk EXCEPT !["mark-kata"] = w]
      BY <1>2, <2>1, NamesIn, WriteChanges DEF Words
    <2>3. WrittenBefore(p)'
      BY <1>1, <1>2, <1>4, <1>18, <2>2, NamesIn DEF WrittenBefore, Gone
    <2>4. Inside'
      BY <1>1, <1>2, <1>4, <1>18, <2>2, NamesIn DEF Inside, WrittenBefore, InputNames
    <2>5. Provable'
      BY <1>1, <1>2, <1>4, <1>18, <2>2, NamesIn DEF Provable, BaseAt, WrittenBefore, Gone
    <2> QED
      BY <1>5, <2>3, <2>4, <2>5
  <1>19. CASE p = 25 /\ Script[p] = Write("tree-kata", "whole")
    BY <1>19, <1>7
  <1>20. CASE p = 27 /\ Script[p] = Write("tree-containerd", "empty")
    <2>1. Script[p] = Write("tree-containerd", "empty")
      BY <1>20
    <2>2. disk' = [disk EXCEPT !["tree-containerd"] = "empty"]
      BY <1>2, <2>1, NamesIn, WriteChanges DEF Words
    <2>3. WrittenBefore(p)'
      BY <1>1, <1>2, <1>4, <1>20, <2>2, NamesIn DEF WrittenBefore, Gone
    <2>4. Inside'
      BY <1>1, <1>2, <1>4, <1>20, <2>2, NamesIn DEF Inside, WrittenBefore, InputNames
    <2>5. Provable'
      BY <1>1, <1>2, <1>4, <1>20, <2>2, NamesIn DEF Provable, BaseAt, WrittenBefore, Gone
    <2> QED
      BY <1>5, <2>3, <2>4, <2>5
  <1>21. CASE p \in {28, 29, 31} /\ (\E w \in Words : Script[p] = Write("mark-containerd", w))
    <2>1. PICK w \in Words : Script[p] = Write("mark-containerd", w)
      BY <1>21
    <2>2. disk' = [disk EXCEPT !["mark-containerd"] = w]
      BY <1>2, <2>1, NamesIn, WriteChanges DEF Words
    <2>3. WrittenBefore(p)'
      BY <1>1, <1>2, <1>4, <1>21, <2>2, NamesIn DEF WrittenBefore, Gone
    <2>4. Inside'
      BY <1>1, <1>2, <1>4, <1>21, <2>2, NamesIn DEF Inside, WrittenBefore, InputNames
    <2>5. Provable'
      BY <1>1, <1>2, <1>4, <1>21, <2>2, NamesIn DEF Provable, BaseAt, WrittenBefore, Gone
    <2> QED
      BY <1>5, <2>3, <2>4, <2>5
  <1>22. CASE p = 30 /\ Script[p] = Write("tree-containerd", "whole")
    BY <1>22, <1>7
  <1>23. CASE p = 32 /\ Script[p] = Write("receipt", "torn")
    <2>1. Script[p] = Write("receipt", "torn")
      BY <1>23
    <2>2. disk' = [disk EXCEPT !["receipt"] = "torn"]
      BY <1>2, <2>1, NamesIn, WriteChanges DEF Words
    <2>r. disk["tree-kata"] = "whole"
      BY <1>6, <2>1, PartOfReceiptSteps
    <2>3. WrittenBefore(p)'
      BY <1>1, <1>2, <1>4, <1>23, <2>2, <2>r, NamesIn DEF WrittenBefore, Gone
    <2>4. Inside'
      BY <1>1, <1>2, <1>4, <1>23, <2>2, NamesIn DEF Inside, WrittenBefore, InputNames
    <2>5. Provable'
      BY <1>1, <1>2, <1>4, <1>23, <2>2, <2>r, NamesIn DEF Provable, BaseAt, WrittenBefore, Gone
    <2> QED
      BY <1>5, <2>3, <2>4, <2>5
  <1>24. CASE p = 33 /\ Script[p] = Write("receipt", "whole")
    <2>1. Script[p] = Write("receipt", "whole")
      BY <1>24
    <2>2. disk' = [disk EXCEPT !["receipt"] = "whole"]
      BY <1>2, <2>1, NamesIn, WriteChanges DEF Words
    <2>3. WrittenBefore(p)'
      BY <1>1, <1>2, <1>4, <1>24, <2>2, NamesIn DEF WrittenBefore, Gone
    <2>4. Inside'
      BY <1>1, <1>2, <1>4, <1>24, <2>2, NamesIn DEF Inside, WrittenBefore, InputNames
    <2>5. Provable'
      BY <1>1, <1>2, <1>4, <1>24, <2>2, NamesIn DEF Provable, BaseAt, WrittenBefore, Gone
    <2> QED
      BY <1>5, <2>3, <2>4, <2>5
  <1>25. CASE p \in 34..36 /\ (\E w \in Words \ {"none"} : Script[p] = Write("staging", w))
    <2>1. PICK w \in Words \ {"none"} : Script[p] = Write("staging", w)
      BY <1>25
    <2>2. disk' = [disk EXCEPT !["staging"] = w]
      BY <1>2, <2>1, NamesIn, WriteChanges DEF Words
    <2>3. WrittenBefore(p)'
      BY <1>1, <1>2, <1>4, <1>25, <2>2, NamesIn DEF WrittenBefore, Gone
    <2>4. Inside'
      BY <1>1, <1>2, <1>4, <1>25, <2>2, NamesIn DEF Inside, WrittenBefore, InputNames
    <2>5. Provable'
      BY <1>1, <1>2, <1>4, <1>25, <2>2, NamesIn DEF Provable, BaseAt, WrittenBefore, Gone
    <2> QED
      BY <1>5, <2>3, <2>4, <2>5
  <1>26. CASE p = 37 /\ Script[p] = Write("active", "torn")
    <2>1. Script[p] = Write("active", "torn")
      BY <1>26
    <2>2. disk' = [disk EXCEPT !["active"] = "torn"]
      BY <1>2, <2>1, NamesIn, WriteChanges DEF Words
    <2>3. WrittenBefore(p)'
      BY <1>1, <1>2, <1>4, <1>26, <2>2, NamesIn DEF WrittenBefore, Gone
    <2>4. Inside'
      BY <1>1, <1>2, <1>4, <1>26, <2>2, NamesIn DEF Inside, WrittenBefore, InputNames
    <2>5. Provable'
      BY <1>1, <1>2, <1>4, <1>26, <2>2, NamesIn DEF Provable, BaseAt, WrittenBefore, Gone
    <2> QED
      BY <1>5, <2>3, <2>4, <2>5
  <1>29. CASE p = 38 /\ Script[p] = Write("active", "whole")
    <2>1. Script[p] = Write("active", "whole")
      BY <1>29
    <2>2. disk' = [disk EXCEPT !["active"] = "whole"]
      BY <1>2, <2>1, NamesIn, WriteChanges DEF Words
    <2>3. WrittenBefore(p)'
      BY <1>1, <1>2, <1>4, <1>29, <2>2, NamesIn DEF WrittenBefore, Gone
    <2>4. Inside'
      BY <1>1, <1>2, <1>4, <1>29, <2>2, NamesIn DEF Inside, WrittenBefore, InputNames
    <2>5. Provable'
      BY <1>1, <1>2, <1>4, <1>29, <2>2, NamesIn DEF Provable, BaseAt, WrittenBefore, Gone
    <2> QED
      BY <1>5, <2>3, <2>4, <2>5
  <1>27. CASE p = 39 /\ Script[p] = Rename("staging", "staged", "none")
    <2>1. Script[p] = Rename("staging", "staged", "none")
      BY <1>27
    <2>2. disk' = [disk EXCEPT !["staged"] = "whole", !["staging"] = "none"]
      BY <1>2, <2>1, NamesIn, RenameChanges DEF Words
    <2>3. WrittenBefore(p)'
      BY <1>1, <1>2, <1>4, <1>27, <2>2, NamesIn DEF WrittenBefore, Gone
    <2>4. Inside'
      BY <1>1, <1>2, <1>4, <1>27, <2>2, NamesIn DEF Inside, WrittenBefore, InputNames
    <2>5. Provable'
      BY <1>1, <1>2, <1>4, <1>27, <2>2, NamesIn DEF Provable, BaseAt, WrittenBefore, Gone
    <2> QED
      BY <1>5, <2>3, <2>4, <2>5
  <1>28. CASE p = 40 /\ Script[p] = Rename("tree-kata", "kata", "rest")
    <2>1. Script[p] = Rename("tree-kata", "kata", "rest")
      BY <1>28
    <2>2. disk' = [disk EXCEPT !["kata"] = "whole", !["tree-kata"] = "rest"]
      BY <1>2, <2>1, NamesIn, RenameChanges DEF Words
    <2>3. WrittenBefore(p)'
      BY <1>1, <1>2, <1>4, <1>28, <2>2, NamesIn DEF WrittenBefore, Gone
    <2>4. Inside'
      BY <1>1, <1>2, <1>4, <1>28, <2>2, NamesIn DEF Inside, WrittenBefore, InputNames
    <2>5. Provable'
      BY <1>1, <1>2, <1>4, <1>28, <2>2, NamesIn DEF Provable, BaseAt, WrittenBefore, Gone
    <2> QED
      BY <1>5, <2>3, <2>4, <2>5
  <1> QED
    BY <1>8, <1>11, <1>12, <1>13, <1>14, <1>15, <1>16, <1>17, <1>18, <1>19, <1>20, <1>21, <1>22,
       <1>23, <1>24, <1>25, <1>26, <1>27, <1>28, <1>29 DEF StepAt
\* A process that has ended claims nothing.
LEMMA DiskIdle ==
  ASSUME DiskInv, prep'.act \notin {"prepare", "rollback"}, UNCHANGED <<disk, tar>>
  PROVE  DiskInv'
  <1>1. Inside'
    BY DEF DiskInv, Inside
  <1>2. Provable'
    BY DEF DiskInv, Provable, BaseAt
  <1> QED
    BY <1>1, <1>2 DEF DiskInv, ProcessInv, ExtractorInv

\* A rollback begins with nothing removed.
LEMMA DiskRollback ==
  ASSUME NEW known, Inside', Provable', prep' = Rollback(disk', known), tar' # "none" => disk'[Tree[tar']] # "none"
  PROVE  DiskInv'
  <1>1. prep'.act = "rollback" /\ prep'.pc = 1 /\ (disk'["kata"] # "none" => prep'.moved)
    BY DEF Rollback, Idle
  <1>2. ProcessInv'
    BY <1>1 DEF ProcessInv, RemovedBefore
  <1> QED
    BY <1>1, <1>2 DEF DiskInv, ExtractorInv

\* The extractor starts, writes and ends.
LEMMA DiskStartTar ==
  ASSUME PrepTypes, DiskInv, StartTar
  PROVE  DiskInv'
  <1>1. UNCHANGED <<disk, prep>> /\ \E r \in Archives : Extracting(r) /\ disk[Tree[r]] = "empty" /\ tar' = r
    BY DEF StartTar, Archives
  <1>2. Inside'
    BY <1>1 DEF DiskInv, Inside
  <1>3. Provable'
    BY <1>1 DEF DiskInv, Provable, BaseAt
  <1>4. ProcessInv'
    BY <1>1 DEF DiskInv, ProcessInv, WrittenBefore, RemovedBefore, Gone, TreesGone
  <1>5. ExtractorInv'
    BY <1>1 DEF ExtractorInv, Extracting
  <1> QED
    BY <1>2, <1>3, <1>4, <1>5 DEF DiskInv

LEMMA DiskTarWrites ==
  ASSUME PrepTypes, DiskInv, TarWrites
  PROVE  DiskInv'
  <1>1. tar \in Archives /\ UNCHANGED <<prep, tar>> /\ disk \in [Names -> Words]
    BY DEF TarWrites, PrepTypes
  <1>2. disk[Tree[tar]] \in {"empty", "cut", "some"}
    BY DEF TarWrites
  <1>3. PICK v \in Words \ {"none"} : disk' = [disk EXCEPT ![Tree[tar]] = v]
    BY DEF TarWrites, Words
  <1> DEFINE n == Tree[tar]
  <1>4. n \in {"tree-kata", "tree-containerd"} /\ disk[n] \in {"empty", "cut", "some"} /\ disk' = [disk EXCEPT ![n] = v]
    BY <1>1, <1>2, <1>3, ArchivesAre DEF Archives
  <1> HIDE DEF n
  <1>5. Inside'
    BY <1>1, <1>3, <1>4, NamesIn DEF DiskInv, Inside, InputNames
  <1>6. Provable'
    BY <1>1, <1>3, <1>4, NamesIn DEF DiskInv, Provable, BaseAt
  <1>7. ASSUME prep.act = "prepare"
        PROVE  WrittenBefore(prep.pc)'
    BY <1>1, <1>3, <1>4, <1>7, NamesIn DEF DiskInv, ProcessInv, WrittenBefore, Gone
  <1>8. ASSUME prep.act = "rollback"
        PROVE  RemovedBefore(prep.pc)' /\ (disk'["kata"] # "none" => prep'.moved)
    <2>1. RemovedBefore(prep.pc) /\ (disk["kata"] # "none" => prep.moved)
      BY <1>8 DEF DiskInv, ProcessInv
    <2>2. prep.pc \in 1..4
      BY <1>4, <2>1 DEF RemovedBefore, TreesGone, Gone
    <2> QED
      BY <1>1, <1>3, <1>4, <2>1, <2>2, NamesIn DEF RemovedBefore
  <1>9. ProcessInv'
    BY <1>1, <1>7, <1>8 DEF ProcessInv
  <1>10. ExtractorInv'
    <2>1. disk'[Tree[tar]] # "none"
      BY <1>1, <1>3, <1>4, NamesIn DEF n
    <2> QED
      BY <1>1, <2>1 DEF DiskInv, ExtractorInv, Extracting
  <1> QED
    BY <1>5, <1>6, <1>9, <1>10 DEF DiskInv

LEMMA DiskTarEnds ==
  ASSUME PrepTypes, DiskInv, TarEnds
  PROVE  DiskInv'
  <1>1. tar \in Archives /\ tar' = "none" /\ disk' = disk /\ prep.pc \in Nat
    BY DEF TarEnds, PrepTypes, PrepType
  <1>2. Inside'
    BY <1>1 DEF DiskInv, Inside
  <1>3. Provable'
    BY <1>1 DEF DiskInv, Provable, BaseAt
  <1>4. ExtractorInv'
    BY <1>1 DEF ExtractorInv
  <1>5. CASE prep.act = "prepare"
    <2>1. prep.pc <= 40 /\ prep.pc \notin {1, 2, 4, 22, 27, 32, 33, 34, 38}
      BY <1>1, <1>5, ExtractingAt DEF DiskInv, ExtractorInv, Archives
    <2>2. prep'.act = "prepare" /\ prep'.pc = prep.pc + 1
      BY <1>5 DEF TarEnds, PrepTypes, PrepType
    <2>3. WrittenBefore(prep.pc)
      BY <1>5 DEF DiskInv, ProcessInv
    <2>4. WrittenBefore(prep.pc)'
      BY <1>1, <2>1, <2>2, <2>3 DEF WrittenBefore, Gone
    <2> QED
      BY <1>2, <1>3, <1>4, <2>2, <2>4 DEF DiskInv, ProcessInv
  <1>6. CASE prep.act # "prepare"
    <2>1. prep' = prep
      BY <1>6 DEF TarEnds
    <2>2. ProcessInv'
      BY <1>1, <1>6, <2>1 DEF DiskInv, ProcessInv, RemovedBefore, Gone, TreesGone
    <2> QED
      BY <1>2, <1>3, <1>4, <2>2 DEF DiskInv
  <1> QED
    BY <1>5, <1>6

\* A failure of the preparation.
LEMMA DiskFails ==
  ASSUME PrepTypes, DiskInv, RollsBack
  PROVE  DiskInv'
  <1>1. /\ \A n \in Names : disk'[n] = disk[n] \/ (n \in {"arch-kata", "arch-containerd"} /\ disk'[n] = "none")
        /\ tar' = "none"
    BY ArchivesAre DEF RollsBack
  <1>2. Inside'
    BY <1>1, NamesIn DEF DiskInv, Inside, InputNames
  <1>3. Provable'
    BY <1>1, NamesIn DEF DiskInv, Provable, BaseAt
  <1>4. CASE prep.pc = 1
    <2>1. prep'.act = "none"
      BY <1>4 DEF RollsBack, Idle
    <2> QED
      BY <1>1, <1>2, <1>3, <2>1 DEF DiskInv, ProcessInv, ExtractorInv
  <1>5. CASE prep.pc # 1
    BY <1>1, <1>2, <1>3, <1>5, DiskRollback DEF RollsBack
  <1> QED
    BY <1>4, <1>5

\* The preparation begins on an empty disk.
LEMMA DiskPrepare ==
  ASSUME PrepTypes, DiskInv, Prepare
  PROVE  DiskInv'
  <1>1. disk["root"] = "none" /\ disk' = disk /\ tar' = tar /\ prep'.act = "prepare" /\ prep'.pc = 1
    BY DEF Prepare, Gone, Idle
  <1>2. \A n \in Names : disk[n] = "none"
    BY <1>1 DEF DiskInv, Inside
  <1>3. tar' = "none"
    BY <1>1, <1>2, NamesOfPlaces DEF DiskInv, ExtractorInv, PrepTypes
  <1>4. Inside' /\ Provable'
    BY <1>1 DEF DiskInv, Inside, Provable, BaseAt
  <1>5. WrittenBefore(prep.pc)'
    BY <1>1, <1>2, NamesIn DEF WrittenBefore, Gone
  <1> QED
    BY <1>1, <1>3, <1>4, <1>5 DEF DiskInv, ProcessInv, ExtractorInv

-----------------------------------------------------------------------------
(* The rollback. *)

LEMMA ClassAt ==
  ASSUME PrepTypes, DiskInv, NEW c, Unwinding(c)
  PROVE  /\ prep.act = "rollback" /\ prep.pc \in 1..8 /\ RemovedBefore(prep.pc)
         /\ disk["kata"] # "none" => prep.moved
         /\ Classes[prep.pc] = c
  BY DEF Unwinding, Class, DiskInv, ProcessInv, RemovedBefore

LEMMA ClassesAre ==
  /\ Classes[1] = "staged" /\ Classes[2] = "staging" /\ Classes[3] = "kata" /\ Classes[4] = "ext"
  /\ Classes[5] = "cache" /\ Classes[6] = "receipt" /\ Classes[7] = "input" /\ Classes[8] = "root"
  BY DEF Classes

LEMMA DiskNextClass ==
  ASSUME PrepTypes, DiskInv, NextClass, prep.act = "rollback", RemovedBefore(prep.pc + 1)
  PROVE  DiskInv'
  <1>1. prep' = [prep EXCEPT !.pc = prep.pc + 1, !.checked = FALSE, !.cut = FALSE] /\ UNCHANGED <<disk, tar>>
    BY DEF NextClass, Marked
  <1>2. prep'.act = "rollback" /\ prep'.pc = prep.pc + 1 /\ prep'.moved = prep.moved
    BY <1>1 DEF PrepTypes, PrepType
  <1>3. Inside'
    BY <1>1 DEF DiskInv, Inside
  <1>4. Provable'
    BY <1>1 DEF DiskInv, Provable, BaseAt
  <1>5. RemovedBefore(prep.pc)'
    BY <1>1, <1>2 DEF RemovedBefore, Gone, TreesGone
  <1>6. ProcessInv'
    BY <1>1, <1>2, <1>5 DEF DiskInv, ProcessInv
  <1> QED
    BY <1>1, <1>2, <1>3, <1>4, <1>6 DEF DiskInv, ExtractorInv

\* A removal at the class the rollback is at.
LEMMA DiskRemoval ==
  ASSUME DiskInv, prep.act = "rollback", prep'.act = "rollback", prep'.pc = prep.pc, prep'.moved = prep.moved,
         Inside', Provable', RemovedBefore(prep.pc)', disk'["kata"] # "none" => disk["kata"] # "none",
         tar' # "none" => disk'[Tree[tar']] # "none"
  PROVE  DiskInv'
  <1>1. ProcessInv'
    BY DEF DiskInv, ProcessInv
  <1> QED
    BY <1>1 DEF DiskInv, ExtractorInv

LEMMA DiskUncertain ==
  ASSUME PrepTypes, DiskInv, Uncertain
  PROVE  DiskInv'
  BY DiskIdle DEF Uncertain, Marked, Idle

LEMMA DiskUnwindRuntime ==
  ASSUME PrepTypes, DiskInv, UnwindRuntime
  PROVE  DiskInv'
  <1> DEFINE c == Class
  <1>1. prep.act = "rollback" /\ prep.pc \in 1..8 /\ RemovedBefore(prep.pc) /\ (disk["kata"] # "none" => prep.moved)
    BY ClassAt DEF UnwindRuntime
  <1>2. (prep.pc = 1 /\ c = "staged") \/ (prep.pc = 2 /\ c = "staging")
    BY <1>1, ClassAt, ClassesAre DEF UnwindRuntime, Class
  <1>3. CASE disk[c] = "none"
    <2>1. NextClass
      BY <1>3 DEF UnwindRuntime
    <2>2. RemovedBefore(prep.pc + 1)
      BY <1>1, <1>2, <1>3 DEF RemovedBefore
    <2> QED
      BY <1>1, <2>1, <2>2, DiskNextClass
  <1>4. CASE disk[c] # "none" /\ Uncertain
    BY <1>4, DiskUncertain
  <1>5. CASE disk[c] # "none" /\ ~Uncertain
    <2>1. /\ UNCHANGED <<prep, tar>> /\ disk \in [Names -> Words]
          /\ \/ disk' = [disk EXCEPT ![c] = "some"]
             \/ disk' = [disk EXCEPT !["active"] = "none"]
             \/ disk["active"] = "none" /\ disk' = [disk EXCEPT ![c] = "none"]
      BY <1>5 DEF UnwindRuntime, Changed, PrepTypes
    <2> HIDE DEF c
    <2>2. Inside'
      BY <1>2, <1>5, <2>1, NamesIn DEF DiskInv, Inside, InputNames
    <2>3. Provable'
      BY <1>2, <1>5, <2>1, NamesIn DEF DiskInv, Provable, BaseAt
    <2>4. RemovedBefore(prep.pc)'
      BY <1>1, <1>2, <2>1, NamesIn DEF RemovedBefore
    <2>5. \A n \in {"kata", "tree-kata", "tree-containerd"} : disk'[n] = disk[n]
      BY <1>2, <2>1, NamesIn
    <2>6. tar' # "none" => disk'[Tree[tar']] # "none"
      BY <2>1, <2>5, ArchivesAre DEF DiskInv, ExtractorInv, PrepTypes, Archives
    <2> QED
      BY <1>1, <2>1, <2>2, <2>3, <2>4, <2>5, <2>6, DiskRemoval
  <1> QED
    BY <1>3, <1>4, <1>5

LEMMA DiskUnwindKata ==
  ASSUME PrepTypes, DiskInv, UnwindKata
  PROVE  DiskInv'
  <1>1. prep.act = "rollback" /\ prep.pc \in 1..8 /\ RemovedBefore(prep.pc) /\ (disk["kata"] # "none" => prep.moved)
    BY ClassAt DEF UnwindKata
  <1>2. prep.pc = 3
    BY <1>1, ClassAt, ClassesAre DEF UnwindKata
  <1>3. CASE disk["kata"] = "none"
    <2>1. NextClass
      BY <1>3 DEF UnwindKata
    <2>2. RemovedBefore(prep.pc + 1)
      BY <1>1, <1>2, <1>3 DEF RemovedBefore
    <2> QED
      BY <1>1, <2>1, <2>2, DiskNextClass
  <1>4. CASE disk["kata"] # "none" /\ Uncertain
    BY <1>4, DiskUncertain
  <1>5. CASE disk["kata"] # "none" /\ ~Uncertain
    <2>1. disk["staged"] = "none" /\ disk["staging"] = "none" /\ disk["active"] = "none"
      BY <1>1, <1>2 DEF RemovedBefore, DiskInv, Inside
    <2>2. CASE Marked([prep EXCEPT !.checked = TRUE])
      <3>1. UNCHANGED <<disk, tar>> /\ prep' = [prep EXCEPT !.checked = TRUE]
        BY <2>2 DEF Marked
      <3>2. prep'.act = "rollback" /\ prep'.pc = prep.pc /\ prep'.moved = prep.moved
        BY <1>1, <3>1 DEF PrepTypes, PrepType
      <3>3. Inside'
        BY <3>1 DEF DiskInv, Inside
      <3>4. Provable'
        BY <3>1 DEF DiskInv, Provable, BaseAt
      <3>5. RemovedBefore(prep.pc)'
        BY <1>1, <3>1, <3>2 DEF RemovedBefore, Gone, TreesGone
      <3> QED
        BY <1>1, <3>1, <3>2, <3>3, <3>4, <3>5, DiskRemoval DEF DiskInv, ExtractorInv
    <2>3. CASE Changed([disk EXCEPT !["kata"] = IF @ = "open" THEN "none" ELSE "open"])
      <3>1. /\ UNCHANGED <<prep, tar>> /\ disk \in [Names -> Words]
            /\ disk' = [disk EXCEPT !["kata"] = IF @ = "open" THEN "none" ELSE "open"]
        BY <2>3 DEF Changed, PrepTypes
      <3>2. Inside'
        BY <1>5, <3>1, NamesIn DEF DiskInv, Inside, InputNames
      <3>3. Provable'
        BY <1>5, <2>1, <3>1, NamesIn DEF DiskInv, Provable, BaseAt
      <3>4. RemovedBefore(prep.pc)'
        BY <1>1, <1>2, <3>1, NamesIn DEF RemovedBefore
      <3>5. \A n \in {"tree-kata", "tree-containerd"} : disk'[n] = disk[n]
        BY <3>1, NamesIn
      <3>6. tar' # "none" => disk'[Tree[tar']] # "none"
        BY <3>1, <3>5, ArchivesAre DEF DiskInv, ExtractorInv, PrepTypes, Archives
      <3> QED
        BY <1>1, <1>5, <3>1, <3>2, <3>3, <3>4, <3>6, DiskRemoval
    <2> QED
      BY <1>1, <1>5, <2>2, <2>3 DEF UnwindKata
  <1> QED
    BY <1>3, <1>4, <1>5

\* Which tree is the next to go.
LEMMA NextTreeIs ==
  ASSUME ~TreesGone
  PROVE  \/ Tree[NextTree] = "tree-kata" /\ Mark[NextTree] = "mark-kata" /\ NextTree = "kata"
         \/ Tree[NextTree] = "tree-containerd" /\ Mark[NextTree] = "mark-containerd" /\ NextTree = "containerd"
  BY ArchivesAre DEF NextTree

LEMMA DiskUnwindMark ==
  ASSUME PrepTypes, DiskInv, UnwindMark
  PROVE  DiskInv'
  <1> DEFINE m == Mark[NextTree]
  <1>1. prep.act = "rollback" /\ prep.pc \in 1..8 /\ RemovedBefore(prep.pc) /\ (disk["kata"] # "none" => prep.moved)
    BY ClassAt DEF UnwindMark
  <1>2. prep.pc = 4 /\ m \in {"mark-kata", "mark-containerd"}
    BY <1>1, ClassAt, ClassesAre, NextTreeIs DEF UnwindMark
  <1>3. disk' = [disk EXCEPT ![m] = "none"] /\ tar' = tar /\ disk \in [Names -> Words]
    BY DEF UnwindMark, PrepTypes
  <1>4. prep'.act = "rollback" /\ prep'.pc = prep.pc /\ prep'.moved = prep.moved
    BY <1>1 DEF UnwindMark, PrepTypes, PrepType
  <1> HIDE DEF m
  <1>5. Inside'
    BY <1>2, <1>3, NamesIn DEF DiskInv, Inside, InputNames
  <1>6. \A n \in Names : disk'[n] = disk[n] \/ n \in {"mark-kata", "mark-containerd"}
    BY <1>2, <1>3
  <1>7. Provable'
    BY <1>6, NamesIn DEF DiskInv, Provable, BaseAt
  <1>8. RemovedBefore(prep.pc)'
    BY <1>1, <1>2, <1>4, <1>6, NamesIn DEF RemovedBefore
  <1>9. tar' # "none" => disk'[Tree[tar']] # "none"
    <2>1. disk'["tree-kata"] = disk["tree-kata"] /\ disk'["tree-containerd"] = disk["tree-containerd"]
      BY <1>6, NamesIn
    <2> QED
      BY <1>3, <2>1, ArchivesAre DEF DiskInv, ExtractorInv, PrepTypes, Archives
  <1>10. disk'["kata"] = disk["kata"]
    BY <1>6, NamesIn
  <1> QED
    BY <1>1, <1>4, <1>5, <1>7, <1>8, <1>9, <1>10, DiskRemoval

LEMMA DiskUnwindTree ==
  ASSUME PrepTypes, DiskInv, UnwindTree
  PROVE  DiskInv'
  <1>1. prep.act = "rollback" /\ prep.pc \in 1..8 /\ RemovedBefore(prep.pc) /\ (disk["kata"] # "none" => prep.moved)
    BY ClassAt DEF UnwindTree
  <1>2. prep.pc = 4
    BY <1>1, ClassAt, ClassesAre DEF UnwindTree
  <1>3. PICK v \in {"some", "none"} : /\ disk' = [disk EXCEPT ![Tree[NextTree]] = v]
                                      /\ prep' = [prep EXCEPT !.checked = TRUE, !.cut = v # "none" /\ prep.cut]
                                      /\ tar' = IF v = "none" /\ tar = NextTree THEN "none" ELSE tar
    BY DEF UnwindTree
  <1>4. prep'.act = "rollback" /\ prep'.pc = prep.pc /\ prep'.moved = prep.moved
    BY <1>1, <1>3 DEF PrepTypes, PrepType
  <1>5. disk["staged"] = "none" /\ disk["staging"] = "none" /\ disk["active"] = "none"
    BY <1>1, <1>2 DEF RemovedBefore, DiskInv, Inside
  <1>6. \/ Tree[NextTree] = "tree-kata" /\ disk["mark-kata"] = "none" /\ NextTree = "kata"
        \/ Tree[NextTree] = "tree-containerd" /\ disk["mark-containerd"] = "none" /\ NextTree = "containerd"
    BY NextTreeIs DEF UnwindTree
  <1>7. disk \in [Names -> Words] /\ disk[Tree[NextTree]] # "none"
    <2>1. ~TreesGone
      BY DEF UnwindTree
    <2> QED
      BY <2>1, ArchivesAre DEF PrepTypes, NextTree, TreesGone, Gone
  <1>8. Inside'
    BY <1>3, <1>6, <1>7, NamesIn DEF DiskInv, Inside, InputNames
  <1>9. \A n \in Names : disk'[n] = disk[n] \/ n \in {"tree-kata", "tree-containerd"}
    BY <1>3, <1>6, <1>7
  <1>10. Provable'
    BY <1>5, <1>9, NamesIn DEF DiskInv, Provable, BaseAt
  <1>11. RemovedBefore(prep.pc)'
    BY <1>1, <1>2, <1>4, <1>9, NamesIn DEF RemovedBefore
  <1>12. tar' # "none" => disk'[Tree[tar']] # "none"
    BY <1>3, <1>6, <1>7, NamesIn, ArchivesAre DEF DiskInv, ExtractorInv, PrepTypes, Archives
  <1>13. disk'["kata"] = disk["kata"]
    BY <1>9, NamesIn
  <1> QED
    BY <1>1, <1>4, <1>8, <1>10, <1>11, <1>12, <1>13, DiskRemoval

\* One name that nothing depends on any more.
LEMMA DiskRemoveOne ==
  ASSUME PrepTypes, DiskInv, NEW n \in Names, NEW w \in Words, prep.act = "rollback",
         disk' = [disk EXCEPT ![n] = w], prep' = prep, tar' = tar, disk[n] # "none",
         n \notin {"root", "tree-kata", "tree-containerd", "kata", "staging", "staged", "active",
                   "mark-kata", "mark-containerd"},
         n = "receipt" => prep.pc > 3,
         n = "cache" => disk["arch-kata"] = "none" /\ disk["arch-containerd"] = "none",
         n = "input" => \A i \in InputNames : disk[i] = "none"
  PROVE  DiskInv'
  <1>1. disk \in [Names -> Words] /\ RemovedBefore(prep.pc)
    BY DEF PrepTypes, DiskInv, ProcessInv
  <1>2. Inside'
    BY <1>1, NamesIn DEF DiskInv, Inside, InputNames
  <1>3. Provable'
    BY <1>1, NamesIn DEF DiskInv, Provable, BaseAt, RemovedBefore
  <1>4. RemovedBefore(prep.pc)'
    BY <1>1, NamesIn DEF RemovedBefore, TreesGone, Gone
  <1>5. disk'["kata"] = disk["kata"] /\ disk'["tree-kata"] = disk["tree-kata"]
        /\ disk'["tree-containerd"] = disk["tree-containerd"]
    BY <1>1, NamesIn
  <1>6. tar' # "none" => disk'[Tree[tar']] # "none"
    BY <1>5, ArchivesAre DEF DiskInv, ExtractorInv, PrepTypes, Archives
  <1> QED
    BY <1>2, <1>3, <1>4, <1>5, <1>6, DiskRemoval

LEMMA DiskUnwindExtracted ==
  ASSUME PrepTypes, DiskInv, UnwindExtracted
  PROVE  DiskInv'
  <1>1. prep.act = "rollback" /\ prep.pc \in 1..8 /\ RemovedBefore(prep.pc)
    BY ClassAt DEF UnwindExtracted
  <1>2. prep.pc = 4
    BY <1>1, ClassAt, ClassesAre DEF UnwindExtracted
  <1>3. CASE disk["ext"] = "none"
    <2>1. NextClass /\ TreesGone
      BY <1>3 DEF UnwindExtracted
    <2>2. RemovedBefore(prep.pc + 1)
      BY <1>1, <1>2, <1>3, <2>1 DEF RemovedBefore
    <2> QED
      BY <1>1, <2>1, <2>2, DiskNextClass
  <1>4. CASE disk["ext"] # "none"
    BY <1>1, <1>4, NamesIn, DiskRemoveOne DEF UnwindExtracted, Changed, Words
  <1> QED
    BY <1>3, <1>4

LEMMA DiskUnwindCache ==
  ASSUME PrepTypes, DiskInv, UnwindCache
  PROVE  DiskInv'
  <1>1. prep.act = "rollback" /\ prep.pc \in 1..8 /\ RemovedBefore(prep.pc)
    BY ClassAt DEF UnwindCache
  <1>2. prep.pc = 5
    BY <1>1, ClassAt, ClassesAre DEF UnwindCache
  <1>3. CASE disk["cache"] = "none"
    <2>1. NextClass
      BY <1>3 DEF UnwindCache
    <2>2. RemovedBefore(prep.pc + 1)
      BY <1>1, <1>2, <1>3 DEF RemovedBefore
    <2> QED
      BY <1>1, <2>1, <2>2, DiskNextClass
  <1>4. CASE Uncertain
    BY <1>4, DiskUncertain
  <1>5. CASE disk["cache"] # "none" /\ Gone({Arch["kata"], Arch["containerd"]}) /\ ~Uncertain
    <2>1. disk["arch-kata"] = "none" /\ disk["arch-containerd"] = "none"
      BY <1>5, ArchivesAre DEF Gone
    <2>2. Changed([disk EXCEPT !["cache"] = "none"])
      BY <1>5 DEF UnwindCache
    <2> QED
      BY <1>1, <1>5, <2>1, <2>2, NamesIn, DiskRemoveOne DEF Changed, Words
  <1>6. CASE disk["cache"] # "none" /\ ~Gone({Arch["kata"], Arch["containerd"]}) /\ ~Uncertain
    <2>1. PICK r \in Archives : disk[Arch[r]] # "none" /\ Changed([disk EXCEPT ![Arch[r]] = RemovePartial(@)])
      BY <1>6 DEF UnwindCache, Archives
    <2> DEFINE n == Arch[r]
               w == RemovePartial(disk[n])
    <2>2. n \in {"arch-kata", "arch-containerd"} /\ w \in Words
      BY ArchivesAre DEF Archives, RemovePartial, Words
    <2>3. disk[n] # "none" /\ disk' = [disk EXCEPT ![n] = w] /\ UNCHANGED <<prep, tar>>
      BY <2>1 DEF Changed
    <2> HIDE DEF n, w
    <2> QED
      BY <1>1, <2>2, <2>3, NamesIn, DiskRemoveOne
  <1> QED
    BY <1>3, <1>4, <1>5, <1>6

LEMMA DiskUnwindReceipt ==
  ASSUME PrepTypes, DiskInv, UnwindReceipt
  PROVE  DiskInv'
  <1>1. prep.act = "rollback" /\ prep.pc \in 1..8 /\ RemovedBefore(prep.pc)
    BY ClassAt DEF UnwindReceipt
  <1>2. prep.pc = 6
    BY <1>1, ClassAt, ClassesAre DEF UnwindReceipt
  <1>3. CASE disk["receipt"] = "none"
    <2>1. NextClass
      BY <1>3 DEF UnwindReceipt
    <2>2. RemovedBefore(prep.pc + 1)
      BY <1>1, <1>2, <1>3 DEF RemovedBefore
    <2> QED
      BY <1>1, <2>1, <2>2, DiskNextClass
  <1>4. CASE disk["receipt"] # "none"
    BY <1>1, <1>2, <1>4, NamesIn, DiskRemoveOne DEF UnwindReceipt, Changed, Words
  <1> QED
    BY <1>3, <1>4

LEMMA DiskUnwindInput ==
  ASSUME PrepTypes, DiskInv, UnwindInput
  PROVE  DiskInv'
  <1> DEFINE n == NextInput
  <1>1. prep.act = "rollback" /\ prep.pc \in 1..8 /\ RemovedBefore(prep.pc)
    BY ClassAt DEF UnwindInput
  <1>2. prep.pc = 7
    BY <1>1, ClassAt, ClassesAre DEF UnwindInput
  <1>3. CASE disk["input"] = "none"
    <2>1. NextClass
      BY <1>3 DEF UnwindInput
    <2>2. RemovedBefore(prep.pc + 1)
      BY <1>1, <1>2, <1>3 DEF RemovedBefore
    <2> QED
      BY <1>1, <2>1, <2>2, DiskNextClass
  <1>4. CASE Uncertain
    BY <1>4, DiskUncertain
  <1>5. CASE disk["input"] # "none" /\ ~Uncertain
    <2>1. disk' = [disk EXCEPT ![n] = "none"] /\ UNCHANGED <<prep, tar>>
      BY <1>5 DEF UnwindInput, Changed
    <2>2. n \in InputNames \cup {"input"} /\ disk[n] # "none" /\ (n = "input" => \A i \in InputNames : disk[i] = "none")
      BY <1>5 DEF NextInput, InputNames
    <2> HIDE DEF n
    <2> QED
      BY <1>1, <2>1, <2>2, NamesIn, DiskRemoveOne DEF Words, InputNames
  <1> QED
    BY <1>3, <1>4, <1>5

LEMMA DiskUnwindRoot ==
  ASSUME PrepTypes, DiskInv, UnwindRoot
  PROVE  DiskInv'
  <1>1. prep.act = "rollback" /\ prep.pc \in 1..8 /\ RemovedBefore(prep.pc)
    BY ClassAt DEF UnwindRoot
  <1>2. prep.pc = 8
    BY <1>1, ClassAt, ClassesAre DEF UnwindRoot
  <1>3. \A n \in Names \ {"root"} : disk[n] = "none"
    BY <1>1, <1>2, NamesAre DEF RemovedBefore, TreesGone, Gone, DiskInv, Inside, InputNames
  <1>4. disk' = [disk EXCEPT !["root"] = "none"] /\ tar' = tar /\ prep'.act = "none" /\ disk \in [Names -> Words]
    BY DEF UnwindRoot, Idle, PrepTypes
  <1>5. \A n \in Names : disk'[n] = "none"
    BY <1>3, <1>4
  <1>6. tar' = "none"
    BY <1>3, <1>4, NamesIn, ArchivesAre DEF DiskInv, ExtractorInv, PrepTypes, Archives
  <1>7. Inside' /\ Provable'
    BY <1>5, NamesIn DEF Inside, Provable
  <1> QED
    BY <1>4, <1>6, <1>7 DEF DiskInv, ProcessInv, ExtractorInv

LEMMA DiskPrepStep ==
  ASSUME PrepTypes, DiskInv, PrepNext
  PROVE  DiskInv'
  <1>1. CASE Prepare \/ Advance \/ StartTar \/ TarWrites \/ TarEnds
    BY <1>1, DiskPrepare, DiskAdvance, DiskStartTar, DiskTarWrites, DiskTarEnds
  <1>2. CASE RegistryRefuses \/ DownloadRefuses \/ PrepareFails \/ InstalledDiffers
    BY <1>2, DiskFails DEF RegistryRefuses, DownloadRefuses, PrepareFails, InstalledDiffers, Fails
  <1>3. CASE Prepared \/ PrepareDies \/ UnwindTreeRefused \/ RecoveryClaims
    BY <1>3, DiskIdle, DiskUncertain DEF Prepared, PrepareDies, UnwindTreeRefused, RecoveryClaims, Idle
  <1>4. CASE UnwindRuntime \/ UnwindKata \/ UnwindMark \/ UnwindTree \/ UnwindExtracted
    BY <1>4, DiskUnwindRuntime, DiskUnwindKata, DiskUnwindMark, DiskUnwindTree, DiskUnwindExtracted
  <1>5. CASE UnwindCache \/ UnwindReceipt \/ UnwindInput \/ UnwindRoot
    BY <1>5, DiskUnwindCache, DiskUnwindReceipt, DiskUnwindInput, DiskUnwindRoot
  <1>6. CASE RecoverPreparation
    <2>1. disk' = disk /\ tar' = tar /\ (prep' = Idle \/ prep' = Rollback(disk', control # "none"))
      BY <1>6 DEF RecoverPreparation
    <2>2. Inside'
      BY <2>1 DEF DiskInv, Inside
    <2>3. Provable'
      BY <2>1 DEF DiskInv, Provable, BaseAt
    <2>4. CASE prep' = Idle
      BY <2>1, <2>4, DiskIdle DEF Idle
    <2>5. CASE prep' = Rollback(disk', control # "none")
      BY <2>1, <2>2, <2>3, <2>5, DiskRollback DEF DiskInv, ExtractorInv
    <2> QED
      BY <2>1, <2>4, <2>5
  <1> QED
    BY <1>1, <1>2, <1>3, <1>4, <1>5, <1>6 DEF PrepNext, UnwindNext

\* The cleanup of an operation removes the prepared runtime, the
\* configuration before the directory.  A preparation it meets has published
\* that runtime, a rollback has not begun to remove it.
LEMMA DiskCleanPrepared ==
  ASSUME TypeInv, InputInv, DiskInv, CleanPrepared
  PROVE  DiskInv'
  <1>1. disk["staged"] # "none"
    BY DEF InputInv, CleanPrepared, MayClean
  <1>2. disk["active"] \in {"none", "whole"}
    BY <1>1 DEF DiskInv, Inside
  <1>3. /\ UNCHANGED <<prep, tar>> /\ disk \in [Names -> Words]
        /\ \/ disk' = [disk EXCEPT !["staged"] = "some"]
           \/ disk' = [disk EXCEPT !["active"] = "none"]
           \/ disk["active"] = "none" /\ disk' = [disk EXCEPT !["staged"] = "none"]
    BY <1>2 DEF CleanPrepared, TypeInv
  <1>4. Inside'
    BY <1>1, <1>2, <1>3, NamesIn DEF DiskInv, Inside, InputNames
  <1>5. Provable'
    BY <1>1, <1>2, <1>3, NamesIn DEF DiskInv, Provable, BaseAt
  <1>6. \A n \in Names \ {"staged", "active"} : disk'[n] = disk[n]
    BY <1>3
  <1>7. ExtractorInv'
    <2>1. disk'["tree-kata"] = disk["tree-kata"] /\ disk'["tree-containerd"] = disk["tree-containerd"]
      BY <1>6, NamesIn
    <2> QED
      BY <1>3, <2>1, ArchivesAre DEF DiskInv, ExtractorInv, Extracting, TypeInv, Archives
  <1>8. ASSUME prep.act = "prepare"
        PROVE  WrittenBefore(prep.pc)'
    <2>1. WrittenBefore(prep.pc)
      BY <1>8 DEF DiskInv, ProcessInv
    <2>2. prep.pc \in {40, 41} /\ prep' = prep
      BY <1>1, <1>3, <2>1 DEF WrittenBefore
    <2> QED
      BY <1>6, <2>1, <2>2, NamesIn DEF WrittenBefore
  <1>9. ASSUME prep.act = "rollback"
        PROVE  RemovedBefore(prep.pc)' /\ (disk'["kata"] # "none" => prep.moved)
    <2>1. RemovedBefore(prep.pc) /\ (disk["kata"] # "none" => prep.moved)
      BY <1>9 DEF DiskInv, ProcessInv
    <2>2. prep.pc = 1 /\ prep' = prep
      BY <1>1, <1>3, <2>1 DEF RemovedBefore
    <2>3. disk'["kata"] = disk["kata"]
      BY <1>6, NamesIn
    <2> QED
      BY <2>1, <2>2, <2>3 DEF RemovedBefore
  <1> QED
    BY <1>3, <1>4, <1>5, <1>7, <1>8, <1>9 DEF DiskInv, ProcessInv
-----------------------------------------------------------------------------
(* The theorems. *)

StaticInv == TypeInv /\ CustodyInv /\ InputInv /\ DescriptorInv /\ DiskInv

LEMMA StaticInit ==
  ASSUME Init
  PROVE  StaticInv
  <1>1. /\ disk = Nowhere /\ prep = Idle /\ tar = "none" /\ busy = FALSE /\ adm = NoAdm
        /\ host = 0 /\ col = NoCollector /\ cand = 0 /\ package = [m \in Members |-> 0] /\ recorded = "none"
    BY DEF Init, PrepInit, ControlInit
  <1>2. /\ prep.act = "none" /\ adm.kind = "none" /\ adm.owner = "none" /\ adm.prepared = "none"
        /\ ~adm.retired /\ \A r \in Roles : adm.ver[r] = None /\ adm.dup[r] = None
    BY <1>1, NoAdmIs DEF Idle
  <1>3. \A n \in Names : disk[n] = "none"
    BY <1>1 DEF Nowhere
  <1>4. TypeInv
    <2>1. disk \in [Names -> Words] /\ tar \in Archives \cup {"none"}
      BY <1>1 DEF Nowhere, Words
    <2>2. prep \in PrepType
      BY <1>1 DEF Idle, PrepType
    <2>3. adm \in AdmType
      BY <1>1, MaxUpgradesNat DEF NoAdm, NoRoles, AdmType, None, StaticFds
    <2>4. /\ host \in Generations /\ package \in [Members -> Generations] /\ cand \in Generations
          /\ col \in [act : {"none", "collected", "publishing"}, gen : Generations]
      BY <1>1, MaxUpgradesNat DEF NoCollector, Generations
    <2> QED
      BY <1>2, <2>1, <2>2, <2>3, <2>4 DEF TypeInv
  <1>5. CustodyInv /\ InputInv
    BY <1>1, <1>2 DEF CustodyInv, InputInv, Forward
  <1>6. DescriptorInv
    BY <1>2 DEF DescriptorInv, Forward
  <1>7. Inside /\ Provable
    BY <1>3, NamesIn DEF Inside, Provable
  <1>8. DiskInv
    BY <1>1, <1>2, <1>7 DEF DiskInv, ProcessInv, ExtractorInv
  <1> QED
    BY <1>4, <1>5, <1>6, <1>8 DEF StaticInv

LEMMA StaticStep ==
  ASSUME StaticInv, [Next]_vars
  PROVE  StaticInv'
  <1>1. TypeInv /\ CustodyInv /\ InputInv /\ DescriptorInv /\ DiskInv /\ PrepTypes /\ ControlTypes
    BY TypeParts DEF StaticInv
  <1>2. TypeInv'
    BY <1>1, TypeStep
  <1>3. CASE Preparing /\ PrepNext
    <2>1. CustodyInv' /\ InputInv'
      BY <1>1, <1>3, CustodyPreparing, InputPreparing
    <2>2. DescriptorInv'
      BY <1>1, <1>3 DEF Preparing, DescriptorInv, Forward
    <2>3. DiskInv'
      BY <1>1, <1>3, DiskPrepStep
    <2> QED
      BY <1>2, <2>1, <2>2, <2>3 DEF StaticInv
  <1>4. CASE ControlNext /\ UNCHANGED <<adm, recorded, exposed>>
    <2>1. CustodyInv' /\ InputInv'
      BY <1>1, <1>4, CustodyControl
    <2>2. DescriptorInv'
      BY <1>1, <1>4 DEF DescriptorInv, Forward
    <2>3. DiskInv'
      BY <1>1, <1>4, ControlTypesStep, DiskStutter
    <2> QED
      BY <1>2, <2>1, <2>2, <2>3 DEF StaticInv
  <1>5. CASE AdmissionNext
    <2>1. CustodyInv' /\ InputInv' /\ DescriptorInv'
      BY <1>1, <1>5, CustodyStep, InputStep, DescriptorStep
    <2>2. DiskInv'
      BY <1>1, <1>5, AdmissionOutside, DiskStutter, DiskCleanPrepared
    <2> QED
      BY <1>2, <2>1, <2>2 DEF StaticInv
  <1>6. CASE UNCHANGED vars
    <2>1. UNCHANGED <<disk, prep, tar, control, busy, package, adm, recorded, exposed>>
      BY <1>6 DEF vars, prepVars, controlVars
    <2>2. CustodyInv' /\ InputInv'
      BY <1>1, <2>1 DEF CustodyInv, InputInv, Forward
    <2>3. DescriptorInv'
      BY <1>1, <2>1 DEF DescriptorInv, Forward
    <2>4. DiskInv'
      BY <1>1, <2>1, DiskStutter
    <2> QED
      BY <1>2, <2>2, <2>3, <2>4 DEF StaticInv
  <1> QED
    BY <1>3, <1>4, <1>5, <1>6, NextSplit

LEMMA StaticInvariant == Spec => []StaticInv
  <1>1. Init => StaticInv
    BY StaticInit
  <1>2. StaticInv /\ [Next]_vars => StaticInv'
    BY StaticStep
  <1> QED
    BY <1>1, <1>2, PTL DEF Spec

\* Every word on the disk, every record and every generation keeps its type
\* (the files of `prepare()' and `_rollback_preparation()').
THEOREM StaticTypes == Spec => []TypeInv
  <1>1. StaticInv => TypeInv
    BY DEF StaticInv
  <1> QED
    BY <1>1, StaticInvariant, PTL

\* However many failures and deaths there are, and wherever they fall: an
\* installed tree has a whole receipt, a derived configuration has the base it
\* was derived from, and nothing is left outside of the private directory
\* (`_publish_runtime', `_rollback_preparation').
THEOREM InstalledStaysProvable == Spec => []InstalledIsProvable
  <1>1. StaticInv => InstalledIsProvable
    BY DEF StaticInv, DiskInv, Inside, Provable, InstalledIsProvable
  <1> QED
    BY <1>1, StaticInvariant, PTL

\* An operation that is active keeps its inputs, and a forward owner the
\* runtime it was issued for, whenever a recovery of the preparation is tried:
\* only a preparation or a rollback under way at its claim, or a rollback
\* begun before it was active, can take them (`recover_failed_preparation').
THEOREM WorkKeepsItsInputs == Spec => []WorkKeepsInputs
  <1>1. StaticInv => WorkKeepsInputs
    <2>1. "containerd" \in Roles
      BY DEF Roles
    <2>2. StaticInv /\ ~exposed =>
             /\ busy => prep.act \notin {"prepare", "rollback"} /\ disk["kata"] = "whole" /\ disk["blob"] = "whole"
             /\ Forward => disk["active"] = "whole"
             /\ Forward /\ adm.owner = "issued" => disk["staged"] = "whole"
      BY <2>1 DEF StaticInv, InputInv, DescriptorInv
    <2> QED
      BY <2>2 DEF WorkKeepsInputs
  <1> QED
    BY <1>1, StaticInvariant, PTL

\* The host may be upgraded at any time, between a claim, a duplication and
\* the issue too: every tool handed to an owner is of the generation that the
\* one reviewed package names (`_duplicate_role', `admitted_role').
THEOREM ToolsStayReviewed == Spec => []ToolsAreReviewed
  <1>1. StaticInv => ToolsAreReviewed
    <2>1. ASSUME StaticInv, NEW r \in Roles, adm.dup[r] # None
          PROVE  adm.dup[r] = package["contract"] /\ PackageExact(package)
      <3>1. adm.kind # "none"
        BY <2>1, NoAdmIs DEF StaticInv, CustodyInv
      <3> QED
        BY <2>1, <3>1 DEF StaticInv, CustodyInv
    <2> QED
      BY <2>1 DEF ToolsAreReviewed
  <1> QED
    BY <1>1, StaticInvariant, PTL

\* Duplicates never outlive the issue or the owner they were made for, and an
\* owner never outlives the descriptors it depends on
\* (`_issue_fixed_executable_owner').
THEOREM DuplicatesStayOwned == Spec => []DuplicatesAreOwned
  <1>1. StaticInv => DuplicatesAreOwned
    <2>1. StaticInv => /\ Dups # {} => adm.owner # "none" \/ Forward
                       /\ adm.owner # "none" => StaticFds \subseteq adm.fds /\ "role" \in adm.fds
      BY DEF StaticInv, TypeInv, AdmType, DescriptorInv, Dups
    <2> QED
      BY <2>1 DEF DuplicatesAreOwned
  <1> QED
    BY <1>1, StaticInvariant, PTL
====

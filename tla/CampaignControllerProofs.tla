---------------------- MODULE CampaignControllerProofs ----------------------
(***************************************************************************)
(* Proofs about the campaign controller, for every number of cycles and    *)
(* every number of failures, uncertainties and crashes.                    *)
(***************************************************************************)
EXTENDS CampaignController, SequenceTheorems, FiniteSetTheorems, TLAPS

RecordSet == Events \X (0..Cycles) \X Outcomes \X {"clear", "sticky"}

\* The control points of a normal attempt; no recovery enters them.
NormalPoints == {"step", "act", "settle"}

-----------------------------------------------------------------------------
(***************************************************************************)
(* The happy path.                                                         *)
(***************************************************************************)

CycleEvents ==
  {"CYCLE_OPENED", "PLAN_INTENT", "PLAN_ACCEPTED", "APPLY_INTENT", "APPLY_ACCEPTED",
   "RUNNING_OBSERVED", "REMOTE_INTENT", "REMOTE_ACCEPTED", "PRE_DESTROY_SEALED",
   "DESTROY_INTENT", "DESTROY_SETTLED", "ZERO_OBSERVATION_INTENT", "ZERO_ACCEPTED",
   "CYCLE_SEALED"}
FinalEvents ==
  {"FINAL_ZERO_OBSERVATION_INTENT", "FINAL_ZERO_ACCEPTED", "TERMINAL_CANDIDATE_VALIDATED",
   "SEALED"}

\* The events of a cycle and of the end, each at one place of its order.
LEMMA EventPlaces ==
  /\ \A k \in 1..14 : /\ CycleOrder[k] \in CycleEvents
                      /\ CycleOrder[k] = "APPLY_INTENT" => k = 4
                      /\ CycleOrder[k] = "ZERO_ACCEPTED" => k = 13
                      /\ \A l \in 1..14 : CycleOrder[k] = CycleOrder[l] => k = l
  /\ \A k \in 1..4 : /\ FinalOrder[k] \in FinalEvents
                     /\ FinalOrder[k] = "FINAL_ZERO_OBSERVATION_INTENT" => k = 1
                     /\ FinalOrder[k] = "FINAL_ZERO_ACCEPTED" => k = 2
  <1>1. \A k \in 1..14 : k \in {1, 2, 3, 4, 5, 6, 7, 8, 9, 10, 11, 12, 13, 14}
    OBVIOUS
  <1>2. \A k \in 1..4 : k \in {1, 2, 3, 4}
    OBVIOUS
  <1> QED
    BY <1>1, <1>2 DEF CycleOrder, FinalOrder, CycleEvents, FinalEvents

\* The sets of events that the contract builds from the orders.
LEMMA EventNames ==
  /\ {CycleOrder[i] : i \in 1..14} = CycleEvents
  /\ {FinalOrder[i] : i \in 1..4} = FinalEvents
  /\ Events = CycleEvents \union FinalEvents
              \union {"BATCH_ADMITTED", "FAILURE_RECORDED"} \union FailureTerminals
  <1>1. {CycleOrder[i] : i \in 1..14} = CycleEvents
    <2>1. 1..14 = {1, 2, 3, 4, 5, 6, 7, 8, 9, 10, 11, 12, 13, 14}
      OBVIOUS
    <2> QED
      BY <2>1 DEF CycleOrder, CycleEvents
  <1>2. {FinalOrder[i] : i \in 1..4} = FinalEvents
    <2>1. 1..4 = {1, 2, 3, 4}
      OBVIOUS
    <2> QED
      BY <2>1 DEF FinalOrder, FinalEvents
  <1> QED
    BY <1>1, <1>2 DEF Events

\* How many events the happy path has.
LEMMA HappyLen == Len(HappyPath) = 14 * Cycles + 5 /\ Len(HappyPath) \in Nat
  BY ControllerAssumption DEF HappyPath

\* The happy path reads: the admission, the places of a cycle, the end.
LEMMA HappyAt ==
  ASSUME NEW i \in 1..Len(HappyPath)
  PROVE  /\ i = 1 => HappyPath[i] = <<"BATCH_ADMITTED", 0>>
         /\ \A q \in 1..Cycles, k \in 1..14 :
               i = 14 * (q - 1) + k + 1 => HappyPath[i] = <<CycleOrder[k], q>>
         /\ \A k \in 1..4 : i = 14 * Cycles + 1 + k => HappyPath[i] = <<FinalOrder[k], 0>>
  <1>1. i \in 1..(14 * Cycles + 5)
    BY HappyLen
  <1>2. ASSUME NEW q \in 1..Cycles, NEW k \in 1..14, i = 14 * (q - 1) + k + 1
        PROVE  HappyPath[i] = <<CycleOrder[k], q>>
    <2>1. i # 1 /\ i <= 14 * Cycles + 1
      BY <1>2, ControllerAssumption
    <2>2. ((i - 2) % 14) + 1 = k /\ ((i - 2) \div 14) + 1 = q
      <3>1. i - 2 = 14 * (q - 1) + (k - 1) /\ k - 1 \in 0..13 /\ q - 1 \in Nat
        BY <1>2, ControllerAssumption
      <3> QED
        BY <3>1
    <2>3. HappyPath[i] = <<CycleOrder[((i - 2) % 14) + 1], ((i - 2) \div 14) + 1>>
      BY <1>1, <2>1 DEF HappyPath
    <2> QED
      BY <2>2, <2>3, Zenon
  <1>3. ASSUME NEW k \in 1..4, i = 14 * Cycles + 1 + k
        PROVE  HappyPath[i] = <<FinalOrder[k], 0>>
    <2>1. i # 1 /\ ~(i <= 14 * Cycles + 1) /\ i - 14 * Cycles - 1 = k
      BY <1>3, ControllerAssumption
    <2>2. HappyPath[i] = <<FinalOrder[i - 14 * Cycles - 1], 0>>
      BY <1>1, <2>1 DEF HappyPath
    <2> QED
      BY <2>1, <2>2, Zenon
  <1>4. i = 1 => HappyPath[i] = <<"BATCH_ADMITTED", 0>>
    BY <1>1 DEF HappyPath
  <1> QED
    BY <1>2, <1>3, <1>4

\* Every index is one of these.
LEMMA HappyIndex ==
  ASSUME NEW i \in 1..Len(HappyPath)
  PROVE  \/ i = 1
         \/ \E q \in 1..Cycles, k \in 1..14 : i = 14 * (q - 1) + k + 1
         \/ \E k \in 1..4 : i = 14 * Cycles + 1 + k
  <1>1. i \in 1..(14 * Cycles + 5)
    BY HappyLen
  <1>2. CASE i # 1 /\ i <= 14 * Cycles + 1
    <2> DEFINE k == ((i - 2) % 14) + 1
               q == ((i - 2) \div 14) + 1
    <2>1. k \in 1..14 /\ q \in 1..Cycles /\ i = 14 * (q - 1) + k + 1
      BY <1>1, <1>2, ControllerAssumption
    <2> QED
      BY <2>1
  <1>3. CASE i > 14 * Cycles + 1
    <2> DEFINE k == i - 14 * Cycles - 1
    <2>1. k \in 1..4 /\ i = 14 * Cycles + 1 + k
      BY <1>1, <1>3, ControllerAssumption
    <2> QED
      BY <2>1
  <1> QED
    BY <1>1, <1>2, <1>3, ControllerAssumption

\* The happy path holds events with their ordinals, and neither a failure nor
\* a failure terminal.
LEMMA HappyEvents ==
  ASSUME NEW i \in 1..Len(HappyPath)
  PROVE  /\ HappyPath[i] = <<HappyPath[i][1], HappyPath[i][2]>>
         /\ HappyPath[i][1] \in Events \ ({"FAILURE_RECORDED"} \union FailureTerminals)
         /\ HappyPath[i][2] \in 0..Cycles
  <1>1. ASSUME NEW e \in CycleEvents \union FinalEvents \union {"BATCH_ADMITTED"},
               NEW c \in 0..Cycles, HappyPath[i] = <<e, c>>
        PROVE  /\ HappyPath[i] = <<HappyPath[i][1], HappyPath[i][2]>>
               /\ HappyPath[i][1] \in Events \ ({"FAILURE_RECORDED"} \union FailureTerminals)
               /\ HappyPath[i][2] \in 0..Cycles
    BY <1>1, EventNames DEF FailureTerminals, CycleEvents, FinalEvents
  <1>2. CASE i = 1
    BY <1>1, <1>2, HappyAt, ControllerAssumption
  <1>3. ASSUME NEW q \in 1..Cycles, NEW k \in 1..14, i = 14 * (q - 1) + k + 1
        PROVE  \E e \in CycleEvents, c \in 0..Cycles : HappyPath[i] = <<e, c>>
    <2>1. HappyPath[i] = <<CycleOrder[k], q>> /\ CycleOrder[k] \in CycleEvents
      BY <1>3, HappyAt, EventPlaces, Zenon
    <2> QED
      BY <2>1, ControllerAssumption
  <1>4. ASSUME NEW k \in 1..4, i = 14 * Cycles + 1 + k
        PROVE  \E e \in FinalEvents, c \in 0..Cycles : HappyPath[i] = <<e, c>>
    <2>1. HappyPath[i] = <<FinalOrder[k], 0>> /\ FinalOrder[k] \in FinalEvents
      BY <1>4, HappyAt, EventPlaces, Zenon
    <2> QED
      BY <2>1, ControllerAssumption
  <1> QED
    BY <1>1, <1>2, <1>3, <1>4, HappyIndex

\* An event of a cycle stands at its place of the cycle, an event of the end
\* at its place of the end.
LEMMA HappyInverse ==
  ASSUME NEW i \in 1..Len(HappyPath)
  PROVE  /\ HappyPath[i][1] \in CycleEvents =>
              \E q \in 1..Cycles, k \in 1..14 :
                 i = 14 * (q - 1) + k + 1 /\ HappyPath[i][1] = CycleOrder[k] /\ HappyPath[i][2] = q
         /\ HappyPath[i][1] \in FinalEvents =>
              \E k \in 1..4 :
                 i = 14 * Cycles + 1 + k /\ HappyPath[i][1] = FinalOrder[k] /\ HappyPath[i][2] = 0
  <1>1. CASE i = 1
    <2>1. HappyPath[i] = <<"BATCH_ADMITTED", 0>>
      BY <1>1, HappyAt
    <2> QED
      BY <2>1 DEF CycleEvents, FinalEvents
  <1>2. ASSUME NEW q \in 1..Cycles, NEW k \in 1..14, i = 14 * (q - 1) + k + 1
        PROVE  /\ HappyPath[i][1] = CycleOrder[k] /\ HappyPath[i][2] = q
               /\ HappyPath[i][1] \notin FinalEvents
    <2>1. HappyPath[i] = <<CycleOrder[k], q>> /\ CycleOrder[k] \in CycleEvents
      BY <1>2, HappyAt, EventPlaces, Zenon
    <2> QED
      BY <2>1 DEF CycleEvents, FinalEvents
  <1>3. ASSUME NEW k \in 1..4, i = 14 * Cycles + 1 + k
        PROVE  /\ HappyPath[i][1] = FinalOrder[k] /\ HappyPath[i][2] = 0
               /\ HappyPath[i][1] \notin CycleEvents
    <2>1. HappyPath[i] = <<FinalOrder[k], 0>> /\ FinalOrder[k] \in FinalEvents
      BY <1>3, HappyAt, EventPlaces, Zenon
    <2> QED
      BY <2>1 DEF CycleEvents, FinalEvents
  <1> QED
    BY <1>1, <1>2, <1>3, HappyIndex, Zenon

\* The happy path names no event of a cycle or of the end twice.
LEMMA HappyNew ==
  ASSUME NEW i \in 1..Len(HappyPath), NEW j \in 1..Len(HappyPath),
         HappyPath[i][1] = HappyPath[j][1], HappyPath[i][2] = HappyPath[j][2],
         HappyPath[i][1] \in INTENT_EVENTS
  PROVE  i = j
  <1>1. CASE HappyPath[i][1] \in CycleEvents
    <2>1. PICK q \in 1..Cycles, k \in 1..14 :
             i = 14 * (q - 1) + k + 1 /\ HappyPath[i][1] = CycleOrder[k] /\ HappyPath[i][2] = q
      BY <1>1, HappyInverse, Zenon
    <2>2. PICK r \in 1..Cycles, l \in 1..14 :
             j = 14 * (r - 1) + l + 1 /\ HappyPath[j][1] = CycleOrder[l] /\ HappyPath[j][2] = r
      BY <1>1, HappyInverse, Zenon
    <2>3. CycleOrder[k] = CycleOrder[l] /\ q = r
      BY <2>1, <2>2, Zenon
    <2>4. k = l
      BY <2>3, EventPlaces, Zenon
    <2> QED
      BY <2>1, <2>2, <2>3, <2>4
  <1>2. CASE HappyPath[i][1] = "FINAL_ZERO_OBSERVATION_INTENT"
    <2>1. HappyPath[i][1] \in FinalEvents /\ HappyPath[j][1] \in FinalEvents
      BY <1>2 DEF FinalEvents
    <2>2. PICK k \in 1..4 : i = 14 * Cycles + 1 + k /\ HappyPath[i][1] = FinalOrder[k]
      BY <2>1, HappyInverse, Zenon
    <2>3. PICK l \in 1..4 : j = 14 * Cycles + 1 + l /\ HappyPath[j][1] = FinalOrder[l]
      BY <2>1, HappyInverse, Zenon
    <2>4. k = 1 /\ l = 1
      BY <1>2, <2>2, <2>3, EventPlaces, Zenon
    <2> QED
      BY <2>2, <2>3, <2>4
  <1> QED
    BY <1>1, <1>2 DEF INTENT_EVENTS, CycleEvents

\* Between the zero of a cycle and a later apply lies the seal of the cycle;
\* after the final zero there is no apply.
LEMMA HappyZero ==
  ASSUME NEW i \in 1..Len(HappyPath), NEW j \in 1..Len(HappyPath), i < j,
         HappyPath[j][1] = "APPLY_INTENT"
  PROVE  /\ HappyPath[i][1] # "FINAL_ZERO_ACCEPTED"
         /\ HappyPath[i][1] = "ZERO_ACCEPTED" =>
              /\ i + 1 < j
              /\ HappyPath[i + 1] = <<"CYCLE_SEALED", HappyPath[i][2]>>
  <1>1. PICK r \in 1..Cycles : j = 14 * (r - 1) + 5
    <2>1. HappyPath[j][1] \in CycleEvents
      BY DEF CycleEvents
    <2>2. PICK r \in 1..Cycles, k \in 1..14 :
             j = 14 * (r - 1) + k + 1 /\ HappyPath[j][1] = CycleOrder[k] /\ HappyPath[j][2] = r
      BY <2>1, HappyInverse, Zenon
    <2>3. k = 4
      BY <2>2, EventPlaces, Zenon
    <2> QED
      BY <2>2, <2>3
  <1>2. ASSUME HappyPath[i][1] = "FINAL_ZERO_ACCEPTED" PROVE FALSE
    <2>1. HappyPath[i][1] \in FinalEvents
      BY <1>2 DEF FinalEvents
    <2>2. PICK k \in 1..4 : i = 14 * Cycles + 1 + k
      BY <2>1, HappyInverse, Zenon
    <2> QED
      BY <1>1, <2>2, ControllerAssumption
  <1>3. ASSUME HappyPath[i][1] = "ZERO_ACCEPTED"
        PROVE  /\ i + 1 < j
               /\ HappyPath[i + 1] = <<"CYCLE_SEALED", HappyPath[i][2]>>
    <2>1. HappyPath[i][1] \in CycleEvents
      BY <1>3 DEF CycleEvents
    <2>2. PICK q \in 1..Cycles, k \in 1..14 :
             i = 14 * (q - 1) + k + 1 /\ HappyPath[i][1] = CycleOrder[k] /\ HappyPath[i][2] = q
      BY <2>1, HappyInverse, Zenon
    <2>3. k = 13
      BY <1>3, <2>2, EventPlaces, Zenon
    <2>4. i + 1 = 14 * (q - 1) + 14 + 1 /\ i + 1 < j /\ i + 1 \in 1..Len(HappyPath) /\ 14 \in 1..14
      BY <1>1, <2>2, <2>3, HappyLen, ControllerAssumption
    <2>5. HappyPath[i + 1] = <<CycleOrder[14], q>>
      BY <2>4, HappyAt, Zenon
    <2> QED
      BY <2>2, <2>4, <2>5 DEF CycleOrder
  <1> QED
    BY <1>2, <1>3

\* The end of the happy path.
LEMMA HappyEnd ==
  /\ 14 * Cycles + 3 \in 1..Len(HappyPath) /\ 14 * Cycles + 4 \in 1..Len(HappyPath)
  /\ HappyPath[14 * Cycles + 3] = <<"FINAL_ZERO_ACCEPTED", 0>>
  /\ HappyPath[14 * Cycles + 4] = <<"TERMINAL_CANDIDATE_VALIDATED", 0>>
  <1>1. /\ 14 * Cycles + 3 \in 1..Len(HappyPath) /\ 14 * Cycles + 3 = 14 * Cycles + 1 + 2
        /\ 14 * Cycles + 4 \in 1..Len(HappyPath) /\ 14 * Cycles + 4 = 14 * Cycles + 1 + 3
        /\ 2 \in 1..4 /\ 3 \in 1..4
    BY HappyLen, ControllerAssumption
  <1>2. HappyPath[14 * Cycles + 3] = <<FinalOrder[2], 0>>
    BY <1>1, HappyAt, Zenon
  <1>3. HappyPath[14 * Cycles + 4] = <<FinalOrder[3], 0>>
    BY <1>1, HappyAt, Zenon
  <1> QED
    BY <1>1, <1>2, <1>3 DEF FinalOrder

-----------------------------------------------------------------------------
(***************************************************************************)
(* The reducer.                                                            *)
(***************************************************************************)

\* The active cycle is a cycle that was opened and not sealed, or none.
LEMMA ActiveCycleIs ==
  ASSUME NEW rs
  PROVE  \/ ActiveCycle(rs) = 0
         \/ /\ ActiveCycle(rs) \in 1..Cycles
            /\ Has(rs, "CYCLE_OPENED", ActiveCycle(rs))
            /\ ~Has(rs, "CYCLE_SEALED", ActiveCycle(rs))
  <1> DEFINE open == {c \in 1..Cycles : Has(rs, "CYCLE_OPENED", c) /\ ~Has(rs, "CYCLE_SEALED", c)}
  <1>1. CASE open = {}
    BY <1>1 DEF ActiveCycle
  <1>2. CASE open # {}
    <2>1. ActiveCycle(rs) = CHOOSE c \in open : TRUE
      BY <1>2 DEF ActiveCycle
    <2>2. (CHOOSE c \in open : TRUE) \in open
      BY <1>2
    <2> QED
      BY <2>1, <2>2
  <1> QED
    BY <1>1, <1>2

\* Concatenations of short sequences, written out.
LEMMA ShortConcat ==
  ASSUME NEW a, NEW b, NEW c, NEW d
  PROVE  /\ <<>> \o <<>> = <<>> /\ <<>> \o <<a>> = <<a>>
         /\ <<a>> \o <<>> = <<a>> /\ <<a, b>> \o <<>> = <<a, b>>
         /\ <<a>> \o <<b>> = <<a, b>> /\ <<a, b>> \o <<c>> = <<a, b, c>>
         /\ <<a, b, c>> \o <<d>> = <<a, b, c, d>>
  <1>1. /\ <<>> \o <<>> = <<>> /\ <<>> \o <<a>> = <<a>>
        /\ <<a>> \o <<>> = <<a>> /\ <<a, b>> \o <<>> = <<a, b>>
    OBVIOUS
  <1>2. <<a>> \o <<b>> = <<a, b>>
    <2> DEFINE s == <<a>> \o <<b>>
               t == <<a, b>>
               S == {a, b}
    <2>1. s \in Seq(S) /\ Len(s) = 2 /\ s[1] = a /\ s[2] = b
      OBVIOUS
    <2>2. t \in Seq(S) /\ Len(t) = 2 /\ t[1] = a /\ t[2] = b
      OBVIOUS
    <2> HIDE DEF s, t, S
    <2>3. \A i \in 1..Len(s) : s[i] = t[i]
      BY <2>1, <2>2
    <2>4. s = t
      BY <2>1, <2>2, <2>3, SeqEqual
    <2> QED
      BY <2>4 DEF s, t
  <1>3. <<a, b>> \o <<c>> = <<a, b, c>>
    <2> DEFINE s == <<a, b>> \o <<c>>
               t == <<a, b, c>>
               S == {a, b, c}
    <2>1. s \in Seq(S) /\ Len(s) = 3 /\ s[1] = a /\ s[2] = b /\ s[3] = c
      OBVIOUS
    <2>2. t \in Seq(S) /\ Len(t) = 3 /\ t[1] = a /\ t[2] = b /\ t[3] = c
      OBVIOUS
    <2> HIDE DEF s, t, S
    <2>3. \A i \in 1..Len(s) : s[i] = t[i]
      BY <2>1, <2>2
    <2>4. s = t
      BY <2>1, <2>2, <2>3, SeqEqual
    <2> QED
      BY <2>4 DEF s, t
  <1>4. <<a, b, c>> \o <<d>> = <<a, b, c, d>>
    <2> DEFINE s == <<a, b, c>> \o <<d>>
               t == <<a, b, c, d>>
               S == {a, b, c, d}
    <2>1. s \in Seq(S) /\ Len(s) = 4 /\ s[1] = a /\ s[2] = b /\ s[3] = c /\ s[4] = d
      OBVIOUS
    <2>2. t \in Seq(S) /\ Len(t) = 4 /\ t[1] = a /\ t[2] = b /\ t[3] = c /\ t[4] = d
      OBVIOUS
    <2> HIDE DEF s, t, S
    <2>3. \A i \in 1..Len(s) : s[i] = t[i]
      BY <2>1, <2>2
    <2>4. s = t
      BY <2>1, <2>2, <2>3, SeqEqual
    <2> QED
      BY <2>4 DEF s, t
  <1> QED
    BY <1>1, <1>2, <1>3, <1>4

\* The concatenations a cleanup is built with.
LEMMA ChainConcat ==
  ASSUME NEW a, NEW b, NEW c, NEW d
  PROVE  /\ ((<<a>> \o <<b>>) \o <<c>>) \o <<d>> = <<a, b, c, d>>
         /\ ((<<a>> \o <<b>>) \o <<>>) \o <<c>> = <<a, b, c>>
         /\ ((<<>> \o <<a>>) \o <<b>>) \o <<c>> = <<a, b, c>>
         /\ ((<<>> \o <<a>>) \o <<>>) \o <<b>> = <<a, b>>
         /\ ((<<>> \o <<>>) \o <<a>>) \o <<b>> = <<a, b>>
         /\ ((<<>> \o <<>>) \o <<>>) \o <<a>> = <<a>>
  <1>1. <<a>> \o <<b>> = <<a, b>> /\ <<a, b>> \o <<c>> = <<a, b, c>>
        /\ <<a, b, c>> \o <<d>> = <<a, b, c, d>>
    BY ShortConcat
  <1>2. <<>> \o <<a>> = <<a>> /\ <<a>> \o <<>> = <<a>> /\ <<a, b>> \o <<>> = <<a, b>>
        /\ <<>> \o <<>> = <<>>
    BY ShortConcat
  <1>3. ((<<a>> \o <<b>>) \o <<c>>) \o <<d>> = <<a, b, c, d>>
    BY <1>1, Zenon
  <1>4. ((<<a>> \o <<b>>) \o <<>>) \o <<c>> = <<a, b, c>>
    BY <1>1, <1>2, Zenon
  <1>5. ((<<>> \o <<a>>) \o <<b>>) \o <<c>> = <<a, b, c>>
    BY <1>1, <1>2, Zenon
  <1>6. ((<<>> \o <<a>>) \o <<>>) \o <<b>> = <<a, b>>
    BY <1>1, <1>2, Zenon
  <1>7. ((<<>> \o <<>>) \o <<a>>) \o <<b>> = <<a, b>>
    BY <1>1, <1>2, Zenon
  <1>8. ((<<>> \o <<>>) \o <<>>) \o <<a>> = <<a>>
    BY <1>2, Zenon
  <1> QED
    BY <1>3, <1>4, <1>5, <1>6, <1>7, <1>8, Zenon

\* The forms a cleanup can have.
LEMMA CleanupForms ==
  ASSUME NEW p
  PROVE  LET S == CleanupSteps(p)
             c == ActiveCycle(p)
             DI == <<"DESTROY_INTENT", c>>
             DS == <<"DESTROY_SETTLED", c>>
             ZI == <<"ZERO_OBSERVATION_INTENT", c>>
             ZA == <<"ZERO_ACCEPTED", c>>
             FI == <<"FINAL_ZERO_OBSERVATION_INTENT", 0>>
             FA == <<"FINAL_ZERO_ACCEPTED", 0>>
         IN  \/ c = 0 /\ Has(p, "FINAL_ZERO_ACCEPTED", 0) /\ S = <<>>
             \/ c = 0 /\ ~Has(p, "FINAL_ZERO_OBSERVATION_INTENT", 0) /\ S = <<FI, FA>>
             \/ c = 0 /\ S = <<FA>>
             \/ c # 0 /\ Has(p, "ZERO_ACCEPTED", c) /\ S = <<>>
             \/ /\ c # 0 /\ ~Has(p, "DESTROY_INTENT", c) /\ ~Has(p, "ZERO_OBSERVATION_INTENT", c)
                /\ S = <<DI, DS, ZI, ZA>>
             \/ c # 0 /\ ~Has(p, "DESTROY_INTENT", c) /\ S = <<DI, DS, ZA>>
             \/ c # 0 /\ ~Has(p, "ZERO_OBSERVATION_INTENT", c) /\ S = <<DS, ZI, ZA>>
             \/ c # 0 /\ S = <<DS, ZA>>
             \/ c # 0 /\ ~Has(p, "ZERO_OBSERVATION_INTENT", c) /\ S = <<ZI, ZA>>
             \/ c # 0 /\ S = <<ZA>>
  <1> DEFINE c == ActiveCycle(p)
             D == Has(p, "APPLY_INTENT", c) /\ ~Has(p, "DESTROY_SETTLED", c)
             I == Has(p, "DESTROY_INTENT", c)
             Z == Has(p, "ZERO_OBSERVATION_INTENT", c)
             DI == <<"DESTROY_INTENT", c>>
             DS == <<"DESTROY_SETTLED", c>>
             ZI == <<"ZERO_OBSERVATION_INTENT", c>>
             ZA == <<"ZERO_ACCEPTED", c>>
             FI == <<"FINAL_ZERO_OBSERVATION_INTENT", 0>>
             FA == <<"FINAL_ZERO_ACCEPTED", 0>>
  <1>1. CASE c = 0
    <2>1. CASE Has(p, "FINAL_ZERO_ACCEPTED", 0)
      BY <1>1, <2>1 DEF CleanupSteps
    <2>2. CASE ~Has(p, "FINAL_ZERO_ACCEPTED", 0) /\ Has(p, "FINAL_ZERO_OBSERVATION_INTENT", 0)
      <3>1. CleanupSteps(p) = <<>> \o <<FA>>
        BY <1>1, <2>2 DEF CleanupSteps
      <3>2. <<>> \o <<FA>> = <<FA>>
        <4> HIDE DEF FA
        <4> QED
          BY ShortConcat
      <3>3. CleanupSteps(p) = <<FA>>
        BY <3>1, <3>2, Zenon
      <3> QED
        BY <1>1, <3>3
    <2>3. CASE ~Has(p, "FINAL_ZERO_ACCEPTED", 0) /\ ~Has(p, "FINAL_ZERO_OBSERVATION_INTENT", 0)
      <3>1. CleanupSteps(p) = <<FI>> \o <<FA>>
        BY <1>1, <2>3 DEF CleanupSteps
      <3>2. <<FI>> \o <<FA>> = <<FI, FA>>
        <4> HIDE DEF FA, FI
        <4> QED
          BY ShortConcat
      <3>3. CleanupSteps(p) = <<FI, FA>>
        BY <3>1, <3>2, Zenon
      <3> QED
        BY <1>1, <2>3, <3>3
    <2> QED
      BY <2>1, <2>2, <2>3
  <1>2. CASE c # 0 /\ Has(p, "ZERO_ACCEPTED", c)
    BY <1>2 DEF CleanupSteps
  <1>3. CASE c # 0 /\ ~Has(p, "ZERO_ACCEPTED", c)
    <2>1. CASE D /\ ~I /\ ~Z
      <3>1. CleanupSteps(p) = ((<<DI>> \o <<DS>>) \o <<ZI>>) \o <<ZA>>
        BY <1>3, <2>1 DEF CleanupSteps
      <3>2. CleanupSteps(p) = <<DI, DS, ZI, ZA>>
        <4>1. ((<<DI>> \o <<DS>>) \o <<ZI>>) \o <<ZA>> = <<DI, DS, ZI, ZA>>
          <5> HIDE DEF DI, DS, ZI, ZA
          <5> QED
            BY ChainConcat
        <4> QED
          BY <3>1, <4>1, Zenon
      <3> QED
        BY <1>3, <2>1, <3>2
    <2>2. CASE D /\ ~I /\ Z
      <3>1. CleanupSteps(p) = ((<<DI>> \o <<DS>>) \o <<>>) \o <<ZA>>
        BY <1>3, <2>2 DEF CleanupSteps
      <3>2. ((<<DI>> \o <<DS>>) \o <<>>) \o <<ZA>> = <<DI, DS, ZA>>
        <4> HIDE DEF DI, DS, ZA
        <4> QED
          BY ChainConcat
      <3>3. CleanupSteps(p) = <<DI, DS, ZA>>
        BY <3>1, <3>2, Zenon
      <3> QED
        BY <1>3, <2>2, <3>3
    <2>3. CASE D /\ I /\ ~Z
      <3>1. CleanupSteps(p) = ((<<>> \o <<DS>>) \o <<ZI>>) \o <<ZA>>
        BY <1>3, <2>3 DEF CleanupSteps
      <3>2. ((<<>> \o <<DS>>) \o <<ZI>>) \o <<ZA>> = <<DS, ZI, ZA>>
        <4> HIDE DEF DS, ZA, ZI
        <4> QED
          BY ChainConcat
      <3>3. CleanupSteps(p) = <<DS, ZI, ZA>>
        BY <3>1, <3>2, Zenon
      <3> QED
        BY <1>3, <2>3, <3>3
    <2>4. CASE D /\ I /\ Z
      <3>1. CleanupSteps(p) = ((<<>> \o <<DS>>) \o <<>>) \o <<ZA>>
        BY <1>3, <2>4 DEF CleanupSteps
      <3>2. ((<<>> \o <<DS>>) \o <<>>) \o <<ZA>> = <<DS, ZA>>
        <4> HIDE DEF DS, ZA
        <4> QED
          BY ChainConcat
      <3>3. CleanupSteps(p) = <<DS, ZA>>
        BY <3>1, <3>2, Zenon
      <3> QED
        BY <1>3, <2>4, <3>3
    <2>5. CASE ~D /\ ~Z
      <3>1. CleanupSteps(p) = ((<<>> \o <<>>) \o <<ZI>>) \o <<ZA>>
        BY <1>3, <2>5 DEF CleanupSteps
      <3>2. ((<<>> \o <<>>) \o <<ZI>>) \o <<ZA>> = <<ZI, ZA>>
        <4> HIDE DEF ZA, ZI
        <4> QED
          BY ChainConcat
      <3>3. CleanupSteps(p) = <<ZI, ZA>>
        BY <3>1, <3>2, Zenon
      <3> QED
        BY <1>3, <2>5, <3>3
    <2>6. CASE ~D /\ Z
      <3>1. CleanupSteps(p) = ((<<>> \o <<>>) \o <<>>) \o <<ZA>>
        BY <1>3, <2>6 DEF CleanupSteps
      <3>2. ((<<>> \o <<>>) \o <<>>) \o <<ZA>> = <<ZA>>
        <4> HIDE DEF ZA
        <4> QED
          BY ChainConcat
      <3>3. CleanupSteps(p) = <<ZA>>
        BY <3>1, <3>2, Zenon
      <3> QED
        BY <1>3, <2>6, <3>3
    <2> QED
      BY <2>1, <2>2, <2>3, <2>4, <2>5, <2>6
  <1> QED
    BY <1>1, <1>2, <1>3

CleanupEvents ==
  {"DESTROY_INTENT", "DESTROY_SETTLED", "ZERO_OBSERVATION_INTENT", "ZERO_ACCEPTED",
   "FINAL_ZERO_OBSERVATION_INTENT", "FINAL_ZERO_ACCEPTED"}

\* What every cleanup is made of: it takes no intent twice, ends with a zero,
\* and is empty only after a zero.
LEMMA CleanupFacts ==
  ASSUME NEW p
  PROVE  LET S == CleanupSteps(p)
             c == ActiveCycle(p)
         IN  /\ S = <<>> \/ Len(S) \in 1..4
             /\ S = <<>> => /\ c = 0 => Has(p, "FINAL_ZERO_ACCEPTED", 0)
                            /\ c # 0 => Has(p, "ZERO_ACCEPTED", c)
             /\ S # <<>> => S[Len(S)][1] \in {"ZERO_ACCEPTED", "FINAL_ZERO_ACCEPTED"}
             /\ \A k \in 1..Len(S) :
                   /\ S[k] = <<S[k][1], S[k][2]>> /\ S[k][2] \in 0..Cycles /\ S[k][1] \in CleanupEvents
                   /\ S[k][1] \in INTENT_EVENTS => ~Has(p, S[k][1], S[k][2])
             /\ \A k, l \in 1..Len(S) : S[k][1] = S[l][1] => k = l
  <1> DEFINE S == CleanupSteps(p)
             c == ActiveCycle(p)
             DI == <<"DESTROY_INTENT", c>>
             DS == <<"DESTROY_SETTLED", c>>
             ZI == <<"ZERO_OBSERVATION_INTENT", c>>
             ZA == <<"ZERO_ACCEPTED", c>>
             FI == <<"FINAL_ZERO_OBSERVATION_INTENT", 0>>
             FA == <<"FINAL_ZERO_ACCEPTED", 0>>
             G == /\ S = <<>> \/ Len(S) \in 1..4
                  /\ S = <<>> => /\ c = 0 => Has(p, "FINAL_ZERO_ACCEPTED", 0)
                                 /\ c # 0 => Has(p, "ZERO_ACCEPTED", c)
                  /\ S # <<>> => S[Len(S)][1] \in {"ZERO_ACCEPTED", "FINAL_ZERO_ACCEPTED"}
                  /\ \A k \in 1..Len(S) :
                        /\ S[k] = <<S[k][1], S[k][2]>> /\ S[k][2] \in 0..Cycles
                        /\ S[k][1] \in CleanupEvents
                        /\ S[k][1] \in INTENT_EVENTS => ~Has(p, S[k][1], S[k][2])
                  /\ \A k, l \in 1..Len(S) : S[k][1] = S[l][1] => k = l
  <1> SUFFICES G
    OBVIOUS
  <1>1. c \in 0..Cycles /\ 0 \in 0..Cycles
    BY ActiveCycleIs, ControllerAssumption
  <1>2. CASE S = <<>> /\ (c = 0 => Has(p, "FINAL_ZERO_ACCEPTED", 0))
                 /\ (c # 0 => Has(p, "ZERO_ACCEPTED", c))
    BY <1>2
  <1>3. CASE ~Has(p, "FINAL_ZERO_OBSERVATION_INTENT", 0) /\ S = <<FI, FA>>
    <2>1. Len(S) = 2 /\ S[1] = FI /\ S[2] = FA
      BY <1>3
    <2>2. \A k \in 1..Len(S) : k = 1 \/ k = 2
      BY <2>1
    <2>3. S # <<>>
      BY <1>3
    <2> HIDE DEF S, c
    <2>4. \A k \in 1..Len(S) : /\ S[k] = <<S[k][1], S[k][2]>> /\ S[k][2] \in 0..Cycles
                               /\ S[k][1] \in CleanupEvents
      BY <1>1, <2>1, <2>2 DEF CleanupEvents
    <2>5. \A k \in 1..Len(S) : S[k][1] \in INTENT_EVENTS => ~Has(p, S[k][1], S[k][2])
      BY <1>3, <2>1, <2>2 DEF INTENT_EVENTS
    <2>6. \A k, l \in 1..Len(S) : S[k][1] = S[l][1] => k = l
      BY <2>1, <2>2
    <2>7. Len(S) \in 1..4 /\ S[Len(S)][1] \in {"ZERO_ACCEPTED", "FINAL_ZERO_ACCEPTED"}
      BY <2>1
    <2> QED
      BY <2>3, <2>4, <2>5, <2>6, <2>7
  <1>4. CASE S = <<FA>>
    <2>1. Len(S) = 1 /\ S[1] = FA
      BY <1>4
    <2>2. \A k \in 1..Len(S) : k = 1
      BY <2>1
    <2>3. S # <<>>
      BY <1>4
    <2> HIDE DEF S, c
    <2>4. \A k \in 1..Len(S) : /\ S[k] = <<S[k][1], S[k][2]>> /\ S[k][2] \in 0..Cycles
                               /\ S[k][1] \in CleanupEvents
      BY <1>1, <2>1, <2>2 DEF CleanupEvents
    <2>5. \A k \in 1..Len(S) : S[k][1] \in INTENT_EVENTS => ~Has(p, S[k][1], S[k][2])
      BY <1>4, <2>1, <2>2 DEF INTENT_EVENTS
    <2>6. \A k, l \in 1..Len(S) : S[k][1] = S[l][1] => k = l
      BY <2>1, <2>2
    <2>7. Len(S) \in 1..4 /\ S[Len(S)][1] \in {"ZERO_ACCEPTED", "FINAL_ZERO_ACCEPTED"}
      BY <2>1
    <2> QED
      BY <2>3, <2>4, <2>5, <2>6, <2>7
  <1>5. CASE ~Has(p, "DESTROY_INTENT", c) /\ ~Has(p, "ZERO_OBSERVATION_INTENT", c)
             /\ S = <<DI, DS, ZI, ZA>>
    <2>1. Len(S) = 4 /\ S[1] = DI /\ S[2] = DS /\ S[3] = ZI /\ S[4] = ZA
      BY <1>5
    <2>2. \A k \in 1..Len(S) : k = 1 \/ k = 2 \/ k = 3 \/ k = 4
      BY <2>1
    <2>3. S # <<>>
      BY <1>5
    <2> HIDE DEF S, c
    <2>4. \A k \in 1..Len(S) : /\ S[k] = <<S[k][1], S[k][2]>> /\ S[k][2] \in 0..Cycles
                               /\ S[k][1] \in CleanupEvents
      BY <1>1, <2>1, <2>2 DEF CleanupEvents
    <2>5. \A k \in 1..Len(S) : S[k][1] \in INTENT_EVENTS => ~Has(p, S[k][1], S[k][2])
      BY <1>5, <2>1, <2>2 DEF INTENT_EVENTS
    <2>6. \A k, l \in 1..Len(S) : S[k][1] = S[l][1] => k = l
      BY <2>1, <2>2
    <2>7. Len(S) \in 1..4 /\ S[Len(S)][1] \in {"ZERO_ACCEPTED", "FINAL_ZERO_ACCEPTED"}
      BY <2>1
    <2> QED
      BY <2>3, <2>4, <2>5, <2>6, <2>7
  <1>6. CASE ~Has(p, "DESTROY_INTENT", c) /\ S = <<DI, DS, ZA>>
    <2>1. Len(S) = 3 /\ S[1] = DI /\ S[2] = DS /\ S[3] = ZA
      BY <1>6
    <2>2. \A k \in 1..Len(S) : k = 1 \/ k = 2 \/ k = 3
      BY <2>1
    <2>3. S # <<>>
      BY <1>6
    <2> HIDE DEF S, c
    <2>4. \A k \in 1..Len(S) : /\ S[k] = <<S[k][1], S[k][2]>> /\ S[k][2] \in 0..Cycles
                               /\ S[k][1] \in CleanupEvents
      BY <1>1, <2>1, <2>2 DEF CleanupEvents
    <2>5. \A k \in 1..Len(S) : S[k][1] \in INTENT_EVENTS => ~Has(p, S[k][1], S[k][2])
      BY <1>6, <2>1, <2>2 DEF INTENT_EVENTS
    <2>6. \A k, l \in 1..Len(S) : S[k][1] = S[l][1] => k = l
      BY <2>1, <2>2
    <2>7. Len(S) \in 1..4 /\ S[Len(S)][1] \in {"ZERO_ACCEPTED", "FINAL_ZERO_ACCEPTED"}
      BY <2>1
    <2> QED
      BY <2>3, <2>4, <2>5, <2>6, <2>7
  <1>7. CASE ~Has(p, "ZERO_OBSERVATION_INTENT", c) /\ S = <<DS, ZI, ZA>>
    <2>1. Len(S) = 3 /\ S[1] = DS /\ S[2] = ZI /\ S[3] = ZA
      BY <1>7
    <2>2. \A k \in 1..Len(S) : k = 1 \/ k = 2 \/ k = 3
      BY <2>1
    <2>3. S # <<>>
      BY <1>7
    <2> HIDE DEF S, c
    <2>4. \A k \in 1..Len(S) : /\ S[k] = <<S[k][1], S[k][2]>> /\ S[k][2] \in 0..Cycles
                               /\ S[k][1] \in CleanupEvents
      BY <1>1, <2>1, <2>2 DEF CleanupEvents
    <2>5. \A k \in 1..Len(S) : S[k][1] \in INTENT_EVENTS => ~Has(p, S[k][1], S[k][2])
      BY <1>7, <2>1, <2>2 DEF INTENT_EVENTS
    <2>6. \A k, l \in 1..Len(S) : S[k][1] = S[l][1] => k = l
      BY <2>1, <2>2
    <2>7. Len(S) \in 1..4 /\ S[Len(S)][1] \in {"ZERO_ACCEPTED", "FINAL_ZERO_ACCEPTED"}
      BY <2>1
    <2> QED
      BY <2>3, <2>4, <2>5, <2>6, <2>7
  <1>8. CASE S = <<DS, ZA>>
    <2>1. Len(S) = 2 /\ S[1] = DS /\ S[2] = ZA
      BY <1>8
    <2>2. \A k \in 1..Len(S) : k = 1 \/ k = 2
      BY <2>1
    <2>3. S # <<>>
      BY <1>8
    <2> HIDE DEF S, c
    <2>4. \A k \in 1..Len(S) : /\ S[k] = <<S[k][1], S[k][2]>> /\ S[k][2] \in 0..Cycles
                               /\ S[k][1] \in CleanupEvents
      BY <1>1, <2>1, <2>2 DEF CleanupEvents
    <2>5. \A k \in 1..Len(S) : S[k][1] \in INTENT_EVENTS => ~Has(p, S[k][1], S[k][2])
      BY <1>8, <2>1, <2>2 DEF INTENT_EVENTS
    <2>6. \A k, l \in 1..Len(S) : S[k][1] = S[l][1] => k = l
      BY <2>1, <2>2
    <2>7. Len(S) \in 1..4 /\ S[Len(S)][1] \in {"ZERO_ACCEPTED", "FINAL_ZERO_ACCEPTED"}
      BY <2>1
    <2> QED
      BY <2>3, <2>4, <2>5, <2>6, <2>7
  <1>9. CASE ~Has(p, "ZERO_OBSERVATION_INTENT", c) /\ S = <<ZI, ZA>>
    <2>1. Len(S) = 2 /\ S[1] = ZI /\ S[2] = ZA
      BY <1>9
    <2>2. \A k \in 1..Len(S) : k = 1 \/ k = 2
      BY <2>1
    <2>3. S # <<>>
      BY <1>9
    <2> HIDE DEF S, c
    <2>4. \A k \in 1..Len(S) : /\ S[k] = <<S[k][1], S[k][2]>> /\ S[k][2] \in 0..Cycles
                               /\ S[k][1] \in CleanupEvents
      BY <1>1, <2>1, <2>2 DEF CleanupEvents
    <2>5. \A k \in 1..Len(S) : S[k][1] \in INTENT_EVENTS => ~Has(p, S[k][1], S[k][2])
      BY <1>9, <2>1, <2>2 DEF INTENT_EVENTS
    <2>6. \A k, l \in 1..Len(S) : S[k][1] = S[l][1] => k = l
      BY <2>1, <2>2
    <2>7. Len(S) \in 1..4 /\ S[Len(S)][1] \in {"ZERO_ACCEPTED", "FINAL_ZERO_ACCEPTED"}
      BY <2>1
    <2> QED
      BY <2>3, <2>4, <2>5, <2>6, <2>7
  <1>10. CASE S = <<ZA>>
    <2>1. Len(S) = 1 /\ S[1] = ZA
      BY <1>10
    <2>2. \A k \in 1..Len(S) : k = 1
      BY <2>1
    <2>3. S # <<>>
      BY <1>10
    <2> HIDE DEF S, c
    <2>4. \A k \in 1..Len(S) : /\ S[k] = <<S[k][1], S[k][2]>> /\ S[k][2] \in 0..Cycles
                               /\ S[k][1] \in CleanupEvents
      BY <1>1, <2>1, <2>2 DEF CleanupEvents
    <2>5. \A k \in 1..Len(S) : S[k][1] \in INTENT_EVENTS => ~Has(p, S[k][1], S[k][2])
      BY <1>10, <2>1, <2>2 DEF INTENT_EVENTS
    <2>6. \A k, l \in 1..Len(S) : S[k][1] = S[l][1] => k = l
      BY <2>1, <2>2
    <2>7. Len(S) \in 1..4 /\ S[Len(S)][1] \in {"ZERO_ACCEPTED", "FINAL_ZERO_ACCEPTED"}
      BY <2>1
    <2> QED
      BY <2>3, <2>4, <2>5, <2>6, <2>7
  <1> QED
    BY <1>2, <1>3, <1>4, <1>5, <1>6, <1>7, <1>8, <1>9, <1>10, CleanupForms

OneFailure(rs) ==
  \A i, j \in 1..Len(rs) :
     rs[i][1] = "FAILURE_RECORDED" /\ rs[j][1] = "FAILURE_RECORDED" => i = j

\* A published sequence: what append_record has let through, record by record.
Custody(rs) ==
  /\ rs \in Seq(RecordSet) /\ \A i \in 1..Len(rs) : WellFormed(rs[i])
  /\ OneFailure(rs) /\ Reducible(rs)

\* The failure index is the place of the failure, and 0 without one.
LEMMA FailureIndexIs ==
  ASSUME NEW rs \in Seq(RecordSet), OneFailure(rs)
  PROVE  \/ FailureIndex(rs) = 0 /\ \A i \in 1..Len(rs) : rs[i][1] # "FAILURE_RECORDED"
         \/ /\ FailureIndex(rs) \in 1..Len(rs)
            /\ \A i \in 1..Len(rs) : rs[i][1] = "FAILURE_RECORDED" <=> i = FailureIndex(rs)
  <1>1. CASE ~Has(rs, "FAILURE_RECORDED", 0)
    BY <1>1 DEF FailureIndex, Has
  <1>2. CASE Has(rs, "FAILURE_RECORDED", 0)
    <2> DEFINE P(i) == /\ rs[i][1] = "FAILURE_RECORDED"
                       /\ \A j \in 1..(i - 1) : rs[j][1] # "FAILURE_RECORDED"
    <2>1. PICK m \in 1..Len(rs) : rs[m][1] = "FAILURE_RECORDED"
      BY <1>2 DEF Has
    <2>2. \A j \in 1..(m - 1) : rs[j][1] # "FAILURE_RECORDED"
      BY <2>1 DEF OneFailure
    <2>3. FailureIndex(rs) = CHOOSE i \in 1..Len(rs) : P(i)
      BY <1>2 DEF FailureIndex
    <2>4. \E i \in 1..Len(rs) : P(i)
      BY <2>1, <2>2
    <2> HIDE DEF P
    <2>5. FailureIndex(rs) \in 1..Len(rs) /\ P(FailureIndex(rs))
      BY <2>3, <2>4, Zenon
    <2> QED
      BY <2>5 DEF P, OneFailure
  <1> QED
    BY <1>1, <1>2

\* The records before a failure, all of them without one, follow the happy path.
LEMMA NormalPart ==
  ASSUME NEW rs \in Seq(RecordSet), Custody(rs), NEW i \in 1..Len(rs),
         FailureIndex(rs) = 0 \/ i < FailureIndex(rs)
  PROVE  /\ i \in 1..Len(HappyPath)
         /\ rs[i][1] = HappyPath[i][1] /\ rs[i][2] = HappyPath[i][2]
         /\ rs[i][3] \in required_outcomes(rs[i][1], FALSE)
  <1> DEFINE n == IF FailureIndex(rs) = 0 THEN Len(rs) ELSE FailureIndex(rs) - 1
  <1>0. OneFailure(rs) /\ Len(rs) \in Nat /\ Reducible(rs)
    BY DEF Custody
  <1>1. NormalPrefix(rs, n) /\ i \in 1..n /\ n \in Nat
    BY <1>0, FailureIndexIs DEF Reducible
  <1>2. /\ n <= Len(HappyPath) /\ <<rs[i][1], rs[i][2]>> = HappyPath[i]
        /\ rs[i][3] \in required_outcomes(rs[i][1], FALSE)
    BY <1>1 DEF NormalPrefix
  <1> HIDE DEF n
  <1>3. i \in 1..Len(HappyPath)
    BY <1>1, <1>2, HappyLen
  <1>4. HappyPath[i][1] = rs[i][1] /\ HappyPath[i][2] = rs[i][2]
    <2>1. <<rs[i][1], rs[i][2]>>[1] = rs[i][1] /\ <<rs[i][1], rs[i][2]>>[2] = rs[i][2]
      OBVIOUS
    <2> QED
      BY <1>2, <2>1, Zenon
  <1> QED
    BY <1>2, <1>3, <1>4

\* The records after a failure follow the cleanup and its terminal.
LEMMA CleanupPart ==
  ASSUME NEW rs \in Seq(RecordSet), Custody(rs), NEW i \in 1..Len(rs),
         FailureIndex(rs) # 0, i > FailureIndex(rs)
  PROVE  LET f == FailureIndex(rs)
             S == CleanupSteps(SubSeq(rs, 1, f - 1))
         IN  /\ i - f \in 1..Len(S) =>
                  rs[i][1] = S[i - f][1] /\ rs[i][2] = S[i - f][2] /\ rs[i][1] \in CleanupEvents
             /\ i - f \notin 1..Len(S) => rs[i][1] \in FailureTerminals
  <1> DEFINE f == FailureIndex(rs)
             S == CleanupSteps(SubSeq(rs, 1, f - 1))
  <1>1. f \in 1..Len(rs) /\ i \in (f + 1)..Len(rs) /\ i - f \in Nat \ {0} /\ Len(S) \in Nat
    <2>1. OneFailure(rs) /\ Len(rs) \in Nat
      BY DEF Custody
    <2>2. Len(S) \in Nat
      <3> HIDE DEF S
      <3>1. S = <<>> \/ Len(S) \in 1..4
        BY CleanupFacts DEF S
      <3> QED
        BY <3>1
    <2> QED
      BY <2>1, <2>2, FailureIndexIs
  <1>2. IF i - f <= Len(S) THEN <<rs[i][1], rs[i][2]>> = S[i - f]
        ELSE rs[i][1] \in FailureTerminals /\ rs[i][2] = 0
    BY <1>1 DEF Custody, Reducible
  <1>3. ASSUME i - f \in 1..Len(S)
        PROVE  rs[i][1] = S[i - f][1] /\ rs[i][2] = S[i - f][2] /\ rs[i][1] \in CleanupEvents
    <2>1. S[i - f][1] \in CleanupEvents
      BY <1>3, CleanupFacts
    <2>2. <<rs[i][1], rs[i][2]>> = S[i - f]
      BY <1>1, <1>2, <1>3
    <2> HIDE DEF S, f
    <2>3. S[i - f][1] = rs[i][1] /\ S[i - f][2] = rs[i][2]
      <3>1. <<rs[i][1], rs[i][2]>>[1] = rs[i][1] /\ <<rs[i][1], rs[i][2]>>[2] = rs[i][2]
        OBVIOUS
      <3> QED
        BY <2>2, <3>1, Zenon
    <2> QED
      BY <2>1, <2>3
  <1> QED
    BY <1>1, <1>2, <1>3

\* The next event that the reducer asks for: an event with its ordinal, never
\* a failure, and never an intent that was published before.
LEMMA NextFacts ==
  ASSUME NEW rs \in Seq(RecordSet), Custody(rs), reduce_campaign(rs).next # <<>>
  PROVE  LET s == reduce_campaign(rs)
         IN  /\ s.next = <<s.next[1], s.next[2]>>
             /\ s.next[1] \in Events \ {"FAILURE_RECORDED"} /\ s.next[2] \in 0..Cycles
             /\ s.next[1] \in INTENT_EVENTS =>
                  \A i \in 1..Len(rs) : ~(rs[i][1] = s.next[1] /\ rs[i][2] = s.next[2])
             /\ s.next[1] \in INTENT_EVENTS /\ s.status # "normal" => s.next[1] # "APPLY_INTENT"
             /\ s.status = "normal" => /\ FailureIndex(rs) = 0 /\ s.next = HappyPath[Len(rs) + 1]
                                       /\ Len(rs) + 1 \in 1..Len(HappyPath)
             /\ s.status # "normal" => s.next[1] \in CleanupEvents \union FailureTerminals
  <1> DEFINE s == reduce_campaign(rs)
             f == FailureIndex(rs)
             p == SubSeq(rs, 1, f - 1)
             S == CleanupSteps(p)
             done == Len(rs) - f
             term == IF Uncertainty(rs) = "sticky" THEN "TERMINAL_UNCERTAIN_SEALED"
                     ELSE "TERMINAL_FAILURE_SEALED"
  <1>0. OneFailure(rs) /\ Len(rs) \in Nat /\ Reducible(rs)
    BY DEF Custody
  <1>1. CASE f = 0
    <2> DEFINE n == Len(rs) + 1
    <2>1. Len(rs) <= Len(HappyPath)
      BY <1>0, <1>1 DEF Reducible, NormalPrefix
    <2>2. s = State("normal", HappyPath[n]) /\ Len(rs) # Len(HappyPath)
      BY <1>1 DEF reduce_campaign, State
    <2>3. n \in 1..Len(HappyPath) /\ n \in Nat
      BY <1>0, <2>1, <2>2, HappyLen
    <2>4. s.next = HappyPath[n] /\ s.status = "normal"
      BY <2>2 DEF State
    <2> HIDE DEF s
    <2>5. ASSUME HappyPath[n][1] \in INTENT_EVENTS, NEW i \in 1..Len(rs)
          PROVE  ~(rs[i][1] = HappyPath[n][1] /\ rs[i][2] = HappyPath[n][2])
      <3>1. i \in 1..Len(HappyPath) /\ rs[i][1] = HappyPath[i][1] /\ rs[i][2] = HappyPath[i][2]
        BY <1>1, NormalPart
      <3>2. i # n
        BY <1>0
      <3> HIDE DEF n
      <3> QED
        BY <2>3, <2>5, <3>1, <3>2, HappyNew
    <2>6. /\ HappyPath[n] = <<HappyPath[n][1], HappyPath[n][2]>>
          /\ HappyPath[n][1] \in Events \ {"FAILURE_RECORDED"} /\ HappyPath[n][2] \in 0..Cycles
      <3> HIDE DEF n
      <3> QED
        BY <2>3, HappyEvents
    <2> HIDE DEF n
    <2>7. /\ s.next = <<s.next[1], s.next[2]>>
          /\ s.next[1] \in Events \ {"FAILURE_RECORDED"} /\ s.next[2] \in 0..Cycles
          /\ s.next[1] \in INTENT_EVENTS =>
                  \A i \in 1..Len(rs) : ~(rs[i][1] = s.next[1] /\ rs[i][2] = s.next[2])
      BY <2>4, <2>5, <2>6, Zenon
    <2> QED
      BY <1>1, <2>3, <2>4, <2>7 DEF s, n
  <1>2. CASE f # 0
    <2>1. f \in 1..Len(rs) /\ rs[f][1] = "FAILURE_RECORDED" /\ done \in Nat
      BY <1>0, <1>2, FailureIndexIs
    <2>2. Len(S) \in Nat
      <3>1. S = <<>> \/ Len(S) \in 1..4
        BY CleanupFacts
      <3> HIDE DEF S
      <3> QED
        BY <3>1
    <2>3. CASE done < Len(S)
      <3> DEFINE m == done + 1
      <3>1. s = State("cleanup", S[m])
        BY <1>2, <2>3 DEF reduce_campaign, State
      <3>2. m \in 1..Len(S)
        BY <2>1, <2>2, <2>3
      <3>3. s.next = S[m] /\ s.status = "cleanup"
        BY <3>1 DEF State
      <3>4. /\ S[m] = <<S[m][1], S[m][2]>> /\ S[m][2] \in 0..Cycles /\ S[m][1] \in CleanupEvents
            /\ S[m][1] \in INTENT_EVENTS => ~Has(p, S[m][1], S[m][2])
        <4> HIDE DEF m, p
        <4> QED
          BY <3>2, CleanupFacts
      <3>5. ASSUME S[m][1] \in INTENT_EVENTS, NEW i \in 1..Len(rs)
            PROVE  ~(rs[i][1] = S[m][1] /\ rs[i][2] = S[m][2])
        <4>1. CASE i < f
          <5>1. i \in 1..Len(p) /\ p[i] = rs[i]
            BY <2>1, <4>1
          <5> QED
            BY <3>4, <3>5, <5>1 DEF Has
        <4>2. CASE i = f
          BY <2>1, <3>5, <4>2 DEF INTENT_EVENTS
        <4>3. CASE i > f
          <5>1. i - f \in Nat \ {0} /\ i - f \in 1..Len(S) /\ i - f # m
            BY <2>1, <2>2, <2>3, <4>3
          <5>2. rs[i][1] = S[i - f][1]
            BY <1>2, <4>3, <5>1, CleanupPart
          <5> HIDE DEF m, p, f
          <5>3. S[i - f][1] # S[m][1]
            BY <3>2, <5>1, CleanupFacts
          <5> QED
            BY <5>2, <5>3
        <4> QED
          BY <2>1, <4>1, <4>2, <4>3
      <3> HIDE DEF S, m, s
      <3>6. /\ s.next = <<s.next[1], s.next[2]>>
            /\ s.next[1] \in CleanupEvents /\ s.next[2] \in 0..Cycles
            /\ s.next[1] \in INTENT_EVENTS =>
                  \A i \in 1..Len(rs) : ~(rs[i][1] = s.next[1] /\ rs[i][2] = s.next[2])
        BY <3>3, <3>4, <3>5, Zenon
      <3>7. CleanupEvents \subseteq Events \ {"FAILURE_RECORDED"} /\ "APPLY_INTENT" \notin CleanupEvents
        BY EventNames DEF CleanupEvents, CycleEvents, FinalEvents
      <3> QED
        BY <3>3, <3>6, <3>7 DEF s
    <2>4. CASE done = Len(S)
      <3>1. s = State("cleanup", <<term, 0>>)
        BY <1>2, <2>4 DEF reduce_campaign, State
      <3>2. s.next = <<term, 0>> /\ s.status = "cleanup" /\ term \in FailureTerminals
        BY <3>1 DEF State, FailureTerminals
      <3> HIDE DEF s, term
      <3>3. s.next[1] = term /\ s.next[2] = 0
        BY <3>2
      <3>4. term \in Events \ {"FAILURE_RECORDED"} /\ term \notin INTENT_EVENTS /\ 0 \in 0..Cycles
        BY <3>2, EventNames, ControllerAssumption DEF FailureTerminals, INTENT_EVENTS
      <3> QED
        BY <3>2, <3>3, <3>4 DEF s
    <2>5. CASE done > Len(S)
      <3>1. s.next = <<>>
        BY <1>2, <2>1, <2>2, <2>5 DEF reduce_campaign, State
      <3> QED
        BY <3>1
    <2> QED
      BY <2>1, <2>2, <2>3, <2>4, <2>5
  <1> QED
    BY <1>1, <1>2

\* append_record keeps the custody well formed.
LEMMA AppendCustody ==
  ASSUME NEW rs \in Seq(RecordSet), Custody(rs), NEW r \in RecordSet, Appendable(rs, r)
  PROVE  /\ Custody(Append(rs, r))
         /\ r[1] = "FAILURE_RECORDED" \/ <<r[1], r[2]>> = reduce_campaign(rs).next
  <1> DEFINE new == Append(rs, r)
             s == reduce_campaign(rs)
  <1>1. /\ s.next # <<>> /\ WellFormed(r) /\ Reducible(new)
        /\ \/ s.status = "normal" /\ r[1] = "FAILURE_RECORDED"
           \/ <<r[1], r[2]>> = s.next
    BY DEF Appendable
  <1>2. /\ new \in Seq(RecordSet) /\ Len(new) = Len(rs) + 1 /\ new[Len(rs) + 1] = r
        /\ Len(rs) \in Nat /\ \A i \in 1..Len(rs) : new[i] = rs[i]
    OBVIOUS
  <1>3. r[1] = "FAILURE_RECORDED" => \A i \in 1..Len(rs) : rs[i][1] # "FAILURE_RECORDED"
    <2>1. CASE s.status = "normal"
      <3>1. FailureIndex(rs) = 0 /\ OneFailure(rs) /\ 0 \notin 1..Len(rs)
        BY <1>1, <2>1, NextFacts DEF Custody
      <3> QED
        BY <3>1, FailureIndexIs
    <2>2. CASE <<r[1], r[2]>> = s.next
      <3>1. s.next[1] # "FAILURE_RECORDED"
        BY <1>1, NextFacts
      <3>2. s.next[1] = r[1]
        <4> HIDE DEF s
        <4>1. <<r[1], r[2]>>[1] = r[1]
          OBVIOUS
        <4> QED
          BY <2>2, <4>1, Zenon
      <3> QED
        BY <3>1, <3>2
    <2> QED
      BY <1>1, <2>1, <2>2
  <1> HIDE DEF new, s
  <1>4. OneFailure(new)
    BY <1>2, <1>3 DEF OneFailure, Custody
  <1>5. \A i \in 1..Len(new) : WellFormed(new[i])
    BY <1>1, <1>2 DEF Custody
  <1> QED
    BY <1>1, <1>2, <1>4, <1>5 DEF Custody, new, s

\* An instance is excluded by a zero that no apply has followed.
ZeroHolds(rs) ==
  \E i \in 1..Len(rs) : rs[i][3] = "zero" /\ \A j \in (i + 1)..Len(rs) : rs[j][1] # "APPLY_INTENT"

\* A sealed campaign ends with its final zero, under the terminal candidate.
LEMMA SealedEnd ==
  ASSUME NEW rs \in Seq(RecordSet), Custody(rs), reduce_campaign(rs).status = "sealed"
  PROVE  /\ ZeroHolds(rs)
         /\ \E i \in 1..Len(rs) : rs[i][1] = "TERMINAL_CANDIDATE_VALIDATED"
  <1> DEFINE z == 14 * Cycles + 3
             t == 14 * Cycles + 4
  <1>1. FailureIndex(rs) = 0 /\ Len(rs) = Len(HappyPath)
    BY DEF reduce_campaign, State
  <1>2. /\ z \in 1..Len(rs) /\ HappyPath[z] = <<"FINAL_ZERO_ACCEPTED", 0>>
        /\ t \in 1..Len(rs) /\ HappyPath[t] = <<"TERMINAL_CANDIDATE_VALIDATED", 0>>
    BY <1>1, HappyEnd
  <1> HIDE DEF z, t
  <1>3. rs[z][1] = "FINAL_ZERO_ACCEPTED" /\ rs[z][3] = "zero"
    <2>1. rs[z][1] = HappyPath[z][1] /\ rs[z][3] \in required_outcomes(rs[z][1], FALSE)
      BY <1>1, <1>2, NormalPart
    <2> QED
      BY <1>2, <2>1 DEF required_outcomes, INTENT_EVENTS, FailureTerminals
  <1>4. rs[t][1] = "TERMINAL_CANDIDATE_VALIDATED"
    <2>1. rs[t][1] = HappyPath[t][1]
      BY <1>1, <1>2, NormalPart
    <2> QED
      BY <1>2, <2>1
  <1>5. ASSUME NEW j \in (z + 1)..Len(rs) PROVE rs[j][1] # "APPLY_INTENT"
    <2>1. j \in 1..Len(rs) /\ j \in 1..Len(HappyPath) /\ z < j /\ z \in 1..Len(HappyPath)
      BY <1>1, <1>2
    <2>2. rs[j][1] = HappyPath[j][1]
      BY <1>1, <2>1, NormalPart
    <2>3. HappyPath[z][1] = "FINAL_ZERO_ACCEPTED"
      BY <1>2
    <2> QED
      BY <2>1, <2>2, <2>3, HappyZero
  <1> QED
    BY <1>2, <1>3, <1>4, <1>5 DEF ZeroHolds

\* A failure without uncertainty ends with a zero that no apply follows: the
\* one of the cleanup, or the one the failed cycle already had.
LEMMA FailureEnd ==
  ASSUME NEW rs \in Seq(RecordSet), Custody(rs), reduce_campaign(rs).status = "terminal-failure"
  PROVE  ZeroHolds(rs)
  <1> DEFINE f == FailureIndex(rs)
             p == SubSeq(rs, 1, f - 1)
             c == ActiveCycle(p)
             S == CleanupSteps(p)
  <1>0. OneFailure(rs) /\ Len(rs) \in Nat /\ Reducible(rs)
    BY DEF Custody
  <1>1. f # 0 /\ ~(Len(rs) - f < Len(S)) /\ Len(rs) - f # Len(S) /\ Uncertainty(rs) # "sticky"
    BY DEF reduce_campaign, State
  <1>2. f \in 1..Len(rs) /\ rs[f][1] = "FAILURE_RECORDED"
    BY <1>0, <1>1, FailureIndexIs
  <1>3. S = <<>> \/ Len(S) \in 1..4
    BY CleanupFacts
  <1>4. \A i \in 1..Len(rs) : ~outcome_introduces_uncertainty(rs[i][1], rs[i][3])
    BY <1>1 DEF Uncertainty
  <1>5. ASSUME NEW j \in 1..Len(rs), j >= f PROVE rs[j][1] # "APPLY_INTENT"
    <2>1. CASE j = f
      BY <1>2, <2>1
    <2>2. CASE j > f
      BY <1>1, <2>2, CleanupPart DEF CleanupEvents, FailureTerminals
    <2> QED
      BY <1>2, <1>5, <2>1, <2>2
  <1>6. CASE S # <<>>
    <2> DEFINE i == f + Len(S)
    <2>1. Len(S) \in 1..4 /\ S[Len(S)][1] \in {"ZERO_ACCEPTED", "FINAL_ZERO_ACCEPTED"}
      BY <1>6, CleanupFacts
    <2>2. i \in 1..Len(rs) /\ i > f /\ i - f \in 1..Len(S) /\ i - f = Len(S)
      <3> DEFINE L == Len(S)
      <3>1. L \in 1..4 /\ f \in 1..Len(rs) /\ ~(Len(rs) - f < L) /\ Len(rs) - f # L
        BY <1>1, <1>2, <2>1
      <3> HIDE DEF L, f
      <3>2. i = f + L
        BY DEF L
      <3> HIDE DEF i
      <3>3. i \in 1..Len(rs) /\ i > f /\ i - f \in 1..L /\ i - f = L
        BY <1>0, <3>1, <3>2
      <3> QED
        BY <3>3 DEF L
    <2> HIDE DEF i
    <2>3. rs[i][1] = S[i - f][1]
      BY <1>1, <2>2, CleanupPart
    <2>4. rs[i][1] \in {"ZERO_ACCEPTED", "FINAL_ZERO_ACCEPTED"}
      <3> HIDE DEF S, f
      <3> QED
        BY <2>1, <2>2, <2>3
    <2>5. rs[i][3] = "zero"
      <3>1. rs[i][3] \in required_outcomes(rs[i][1], TRUE)
        BY <2>2 DEF Custody, WellFormed
      <3> QED
        BY <1>4, <2>2, <2>4, <3>1
          DEF required_outcomes, INTENT_EVENTS, FailureTerminals, outcome_introduces_uncertainty
    <2> HIDE DEF f
    <2>6. \A j \in (i + 1)..Len(rs) : rs[j][1] # "APPLY_INTENT"
      BY <1>2, <1>5, <2>2
    <2> QED
      BY <2>2, <2>5, <2>6 DEF ZeroHolds
  <1>7. CASE S = <<>>
    <2>1. PICK i \in 1..Len(p) : \/ c = 0 /\ p[i][1] = "FINAL_ZERO_ACCEPTED"
                                 \/ c # 0 /\ p[i][1] = "ZERO_ACCEPTED" /\ p[i][2] = c
      <3>1. (c = 0 => Has(p, "FINAL_ZERO_ACCEPTED", 0)) /\ (c # 0 => Has(p, "ZERO_ACCEPTED", c))
        BY <1>7, CleanupFacts
      <3> HIDE DEF c, p
      <3> QED
        BY <3>1 DEF Has
    <2>2. i \in 1..Len(rs) /\ i < f /\ rs[i] = p[i] /\ Len(p) = f - 1
          /\ \A j \in 1..(f - 1) : p[j] = rs[j]
      BY <1>0, <1>2
    <2>3. /\ i \in 1..Len(HappyPath)
          /\ rs[i][1] = HappyPath[i][1] /\ rs[i][2] = HappyPath[i][2]
          /\ rs[i][3] \in required_outcomes(rs[i][1], FALSE)
      BY <2>2, NormalPart
    <2>4. rs[i][3] = "zero"
      BY <2>1, <2>2, <2>3 DEF required_outcomes, INTENT_EVENTS, FailureTerminals
    <2>5. ASSUME NEW j \in (i + 1)..Len(rs), rs[j][1] = "APPLY_INTENT" PROVE FALSE
      <3>1. j \in 1..Len(rs) /\ i < j /\ j < f
        BY <1>0, <1>2, <1>5, <2>2, <2>5
      <3>2. j \in 1..Len(HappyPath) /\ HappyPath[j][1] = "APPLY_INTENT"
        BY <2>5, <3>1, NormalPart
      <3>3. /\ HappyPath[i][1] # "FINAL_ZERO_ACCEPTED"
            /\ HappyPath[i][1] = "ZERO_ACCEPTED" =>
                 i + 1 < j /\ HappyPath[i + 1] = <<"CYCLE_SEALED", HappyPath[i][2]>>
        BY <2>3, <3>1, <3>2, HappyZero
      <3>4. c # 0 /\ i + 1 < j /\ HappyPath[i + 1] = <<"CYCLE_SEALED", c>>
        BY <2>1, <2>2, <2>3, <3>3
      <3>5. i + 1 \in 1..Len(rs) /\ i + 1 < f
        BY <1>0, <1>2, <2>2, <3>1, <3>4
      <3>6. rs[i + 1][1] = HappyPath[i + 1][1] /\ rs[i + 1][2] = HappyPath[i + 1][2]
        BY <3>5, NormalPart
      <3>7. Has(p, "CYCLE_SEALED", c)
        <4>1. i + 1 \in 1..Len(p) /\ p[i + 1] = rs[i + 1]
          BY <1>2, <2>2, <3>5
        <4> HIDE DEF p, c
        <4>2. p[i + 1][1] = "CYCLE_SEALED" /\ p[i + 1][2] = c
          BY <3>4, <3>6, <4>1
        <4> QED
          BY <4>1, <4>2 DEF Has
      <3> QED
        BY <3>4, <3>7, ActiveCycleIs
    <2> QED
      BY <2>2, <2>4, <2>5 DEF ZeroHolds
  <1> QED
    BY <1>6, <1>7

-----------------------------------------------------------------------------
(***************************************************************************)
(* The inductive invariant.                                                *)
(***************************************************************************)
SealedAt(rs) == {i \in 1..Len(rs) : rs[i][1] = "CYCLE_SEALED"}

\* The types, calls without the bound that EffectsOnce gives them.
TypeInv ==
  /\ valid \in BOOLEAN /\ consumed \in BOOLEAN /\ live \in BOOLEAN
  /\ calls \in [ActionKinds \X (0..Cycles) -> Nat]
  /\ accepted \subseteq ActionKinds \X (0..Cycles) /\ sealedPre \subseteq 1..Cycles
  /\ chain \in [cycles : 0..Cycles, zeros : 0..(Cycles + 1), sealed : BOOLEAN]
  /\ why \in {"failed", "uncertain"} /\ faults \in 0..MaxFaults

\* The attempt runs on published records, and an action follows its intent.
PointInv ==
  /\ pc \in NormalPoints => records # <<>>
  /\ pc \in {"act", "settle", "cleanup-act", "cleanup-settle"} =>
       records # <<>> /\ Intent[1] \in INTENT_EVENTS

\* An effect was called at most once, only after its intent, and not yet when
\* its turn comes; an observation was called only if the attempt has accepted it.
CallsInv ==
  /\ \A k \in ActionKinds, c \in 0..Cycles :
       /\ calls[<<k, c>>] <= 1
       /\ k # "running" /\ calls[<<k, c>>] > 0 =>
            \E i \in 1..Len(records) : /\ records[i][1] \in INTENT_EVENTS
                                       /\ EffectKind[records[i][1]] = k /\ records[i][2] = c
       /\ k = "running" /\ calls[<<k, c>>] > 0 =>
            records # <<>> /\ (pc \in NormalPoints => <<k, c>> \in accepted)
  /\ pc \in {"act", "cleanup-act"} => calls[<<EffectKind[Intent[1]], Intent[2]>>] = 0

\* A zero that no apply has followed excludes an instance, and so does an
\* inventory that is about to be settled as zero.
ZeroInv ==
  /\ ZeroHolds(records) => ~live
  /\ pc \in {"settle", "cleanup-settle"} /\ EffectKind[Intent[1]] = "inventory" => ~live

\* The chain is level with the records until the attempt ends, and at most one
\* cycle ahead afterwards; the terminal candidate was validated over a sealed one.
ChainInv ==
  /\ pc \in NormalPoints \/ records = <<>> => chain.cycles = Cardinality(SealedAt(records))
  /\ ChainFollowsRecords
  /\ (\E i \in 1..Len(records) : records[i][1] = "TERMINAL_CANDIDATE_VALIDATED") =>
       chain.sealed /\ chain.zeros = Cycles + 1

ControllerInv ==
  TypeInv /\ Custody(records) /\ PointInv /\ CallsInv /\ ZeroInv /\ ChainInv

-----------------------------------------------------------------------------
(***************************************************************************)
(* What the steps the actions are built from do.                           *)
(***************************************************************************)

\* A failure leaves the attempt for the failure record or ends the invocation.
LEMMA RaisedFacts ==
  ASSUME why \in {"failed", "uncertain"}, NEW kind \in {"failed", "uncertain", "crash"}, Raised(kind)
  PROVE  pc' \in {"idle", "fail", "unsettled"} /\ why' \in {"failed", "uncertain"}
  BY DEF Raised

\* A well-formed record is a record.
LEMMA RecFacts ==
  ASSUME NEW e, NEW o, NEW out
  PROVE  /\ Rec(e, o, out)[1] = e /\ Rec(e, o, out)[2] = o /\ Rec(e, o, out)[3] = out
         /\ WellFormed(Rec(e, o, out)) => Rec(e, o, out) \in RecordSet
  <1> DEFINE u == IF Uncertainty(records) = "sticky" \/ outcome_introduces_uncertainty(e, out)
                  THEN "sticky" ELSE "clear"
  <1>1. Rec(e, o, out) = <<e, o, out, u>> /\ u \in {"clear", "sticky"}
    BY DEF Rec
  <1> HIDE DEF u
  <1>2. ASSUME WellFormed(<<e, o, out, u>>)
        PROVE  <<e, o, out, u>> \in RecordSet
    <2>1. e \in Events /\ out \in required_outcomes(e, TRUE)
      BY <1>2 DEF WellFormed
    <2>2. o \in 0..Cycles
      BY <1>2, ControllerAssumption DEF WellFormed
    <2>3. out \in Outcomes
      BY <2>1 DEF required_outcomes, Outcomes
    <2> QED
      BY <1>1, <2>1, <2>2, <2>3 DEF RecordSet
  <1> QED
    BY <1>1, <1>2

\* _emit publishes the record or leaves the records, and goes on only after a
\* publication.
LEMMA EmitFacts ==
  ASSUME TypeInv, Custody(records), NEW e, NEW o, NEW out, NEW nx, Emit(Rec(e, o, out), nx)
  PROVE  LET r == Rec(e, o, out)
         IN  /\ \/ records' = records
                \/ /\ records' = Append(records, r) /\ r \in RecordSet /\ Appendable(records, r)
             /\ Custody(records')
             /\ \/ pc' = nx /\ records' = Append(records, r)
                \/ pc' \in {"idle", "fail", "unsettled"}
             /\ why' \in {"failed", "uncertain"} /\ faults' \in 0..MaxFaults
  <1> DEFINE r == Rec(e, o, out)
  <1>1. records \in Seq(RecordSet) /\ why \in {"failed", "uncertain"} /\ faults \in 0..MaxFaults
    BY DEF TypeInv, Custody
  <1>2. \/ Appendable(records, r) /\ records' = Append(records, r) /\ pc' = nx /\ UNCHANGED <<why, faults>>
        \/ Raised("failed") /\ UNCHANGED <<records, faults>>
        \/ /\ Fault /\ \E kind \in {"failed", "uncertain", "crash"} : Raised(kind)
           /\ \/ records' = records
              \/ Appendable(records, r) /\ records' = Append(records, r)
    BY DEF Emit, Published
  <1>3. why' \in {"failed", "uncertain"} /\ faults' \in 0..MaxFaults
    BY <1>1, <1>2, RaisedFacts, ControllerAssumption DEF Fault
  <1>4. \/ pc' = nx /\ records' = Append(records, r)
        \/ pc' \in {"idle", "fail", "unsettled"}
    BY <1>1, <1>2, RaisedFacts
  <1>5. \/ records' = records
        \/ /\ records' = Append(records, r) /\ r \in RecordSet /\ Appendable(records, r)
    <2>1. Appendable(records, r) => r \in RecordSet
      BY RecFacts DEF Appendable
    <2> QED
      BY <1>2, <2>1
  <1> HIDE DEF r
  <1>6. Custody(records')
    BY <1>1, <1>5, AppendCustody
  <1> QED
    BY <1>3, <1>4, <1>5, <1>6 DEF r

\* An action counts its call and ends in the next point, or raises; only an
\* apply leaves an instance that was not there, and an inventory that returns
\* has found none.
LEMMA ActFacts ==
  ASSUME TypeInv, NEW kind, NEW c, NEW nx, Act(kind, c, nx)
  PROVE  /\ calls' = [calls EXCEPT ![<<kind, c>>] = @ + 1]
         /\ pc' = nx \/ pc' \in {"idle", "fail", "unsettled"}
         /\ live' \in BOOLEAN
         /\ kind # "apply" => (live' => live)
         /\ pc' = nx /\ kind = "inventory" => ~live' \/ pc' \in {"idle", "fail", "unsettled"}
         /\ why' \in {"failed", "uncertain"} /\ faults' \in 0..MaxFaults
  <1>1. live \in BOOLEAN /\ why \in {"failed", "uncertain"} /\ faults \in 0..MaxFaults
    BY DEF TypeInv
  <1> DEFINE effect == CASE kind = "apply" -> TRUE [] kind = "destroy" -> FALSE [] OTHER -> live
             nonzero == kind = "inventory" /\ live
  <1>2. /\ effect \in BOOLEAN /\ (kind # "apply" => (effect => live))
        /\ (kind = "inventory" => effect = live)
    BY <1>1
  <1>3. \/ ~nonzero /\ live' = effect /\ pc' = nx /\ UNCHANGED <<why, faults>>
        \/ /\ live' \in {live, live \/ kind = "apply", effect}
           /\ \E e \in {"failed", "uncertain", "crash"} : Raised(e)
           /\ faults' = faults \/ Fault
    BY DEF Act
  <1> HIDE DEF effect
  <1>4. why' \in {"failed", "uncertain"} /\ faults' \in 0..MaxFaults
    BY <1>1, <1>3, RaisedFacts, ControllerAssumption DEF Fault
  <1>5. \/ ~nonzero /\ live' = effect /\ pc' = nx
        \/ /\ live' \in {live, live \/ kind = "apply", effect}
           /\ pc' \in {"idle", "fail", "unsettled"}
    BY <1>1, <1>3, RaisedFacts
  <1>6. calls' = [calls EXCEPT ![<<kind, c>>] = @ + 1]
    BY DEF Act
  <1>7. live' \in BOOLEAN
    BY <1>1, <1>2, <1>5, Zenon
  <1>8. kind # "apply" => (live' => live)
    BY <1>2, <1>5, Zenon
  <1>9. pc' = nx /\ kind = "inventory" => ~live' \/ pc' \in {"idle", "fail", "unsettled"}
    BY <1>2, <1>5, Zenon
  <1> QED
    BY <1>4, <1>5, <1>6, <1>7, <1>8, <1>9

\* The action an intent names is not an observation, and two intents of one
\* action and one ordinal are the same intent.
LEMMA IntentKinds ==
  ASSUME NEW r, NEW t, WellFormed(r), WellFormed(t), r[1] \in INTENT_EVENTS, t[1] \in INTENT_EVENTS
  PROVE  /\ EffectKind[r[1]] \in ActionKinds \ {"running"}
         /\ EffectKind[r[1]] = EffectKind[t[1]] /\ r[2] = t[2] => r[1] = t[1]
  <1>1. /\ r[1] = "FINAL_ZERO_OBSERVATION_INTENT" <=> r[2] \notin 1..Cycles
        /\ t[1] = "FINAL_ZERO_OBSERVATION_INTENT" <=> t[2] \notin 1..Cycles
    BY EventNames, ControllerAssumption DEF WellFormed, CycleEvents, INTENT_EVENTS
  <1> QED
    BY <1>1 DEF INTENT_EVENTS, EffectKind, ActionKinds

\* A record other than a zero gives no new zero.
LEMMA ZeroAppend ==
  ASSUME NEW rs \in Seq(RecordSet), NEW r \in RecordSet, ZeroHolds(Append(rs, r)), r[3] # "zero"
  PROVE  ZeroHolds(rs)
  <1> DEFINE new == Append(rs, r)
  <1>1. /\ Len(new) = Len(rs) + 1 /\ new[Len(rs) + 1] = r
        /\ Len(rs) \in Nat /\ \A i \in 1..Len(rs) : new[i] = rs[i]
    OBVIOUS
  <1> HIDE DEF new
  <1>2. PICK i \in 1..Len(new) :
          new[i][3] = "zero" /\ \A j \in (i + 1)..Len(new) : new[j][1] # "APPLY_INTENT"
    BY DEF ZeroHolds, new
  <1>3. i \in 1..Len(rs)
    BY <1>1, <1>2
  <1> QED
    BY <1>1, <1>2, <1>3 DEF ZeroHolds

\* What every publication looks after: an action follows an intent, a zero
\* excludes an instance, and the attempt is not entered again.
GoesOn(e, out, nx) ==
  /\ nx \in {"step", "act", "cleanup-act", "cleanup"} /\ (nx \in NormalPoints => pc \in NormalPoints)
  /\ nx \in {"act", "cleanup-act"} => e \in INTENT_EVENTS
  /\ out = "zero" => live = FALSE

\* A publication keeps the parts of the invariant about points, calls and zeros.
LEMMA EmitKeeps ==
  ASSUME ControllerInv, NEW e, NEW o, NEW out, NEW nx, Emit(Rec(e, o, out), nx), GoesOn(e, out, nx),
         live' = live, calls' = calls, accepted \subseteq accepted'
  PROVE  /\ Custody(records') /\ PointInv' /\ CallsInv' /\ ZeroInv'
         /\ why' \in {"failed", "uncertain"} /\ faults' \in 0..MaxFaults
  <1> DEFINE r == Rec(e, o, out)
  <1> USE DEF GoesOn
  <1>0. TypeInv /\ Custody(records) /\ PointInv /\ CallsInv /\ ZeroInv
        /\ records \in Seq(RecordSet) /\ Len(records) \in Nat
    BY DEF ControllerInv, Custody
  <1>1. /\ \/ records' = records
           \/ records' = Append(records, r) /\ r \in RecordSet /\ Appendable(records, r)
        /\ Custody(records')
        /\ \/ pc' = nx /\ records' = Append(records, r)
           \/ pc' \in {"idle", "fail", "unsettled"}
        /\ why' \in {"failed", "uncertain"} /\ faults' \in 0..MaxFaults
    BY <1>0, EmitFacts
  <1>2. r[1] = e /\ r[2] = o /\ r[3] = out
    BY RecFacts
  <1> HIDE DEF r
  <1>3. records' = Append(records, r) =>
          /\ r \in RecordSet /\ records' \in Seq(RecordSet) /\ records' # <<>>
          /\ Len(records') = Len(records) + 1 /\ records'[Len(records) + 1] = r
          /\ \A i \in 1..Len(records) : records'[i] = records[i]
    <2> SUFFICES ASSUME records' = Append(records, r)
                 PROVE  /\ r \in RecordSet /\ records' \in Seq(RecordSet) /\ records' # <<>>
                        /\ Len(records') = Len(records) + 1 /\ records'[Len(records) + 1] = r
                        /\ \A i \in 1..Len(records) : records'[i] = records[i]
      OBVIOUS
    <2>1. records # Append(records, r)
      BY <1>0
    <2>2. r \in RecordSet
      BY <1>1, <2>1
    <2> QED
      BY <1>0, <2>2
  <1>4. PointInv'
    <2>1. pc' \in NormalPoints \union {"act", "settle", "cleanup-act", "cleanup-settle"} =>
            pc' = nx /\ records' = Append(records, r)
      BY <1>1 DEF NormalPoints
    <2>2. records' = Append(records, r) => Intent' = r
      BY <1>0, <1>3 DEF Intent
    <2> QED
      BY <1>2, <1>3, <2>1, <2>2 DEF PointInv, NormalPoints
  <1>5. CallsInv'
    <2>1. ASSUME NEW k \in ActionKinds, NEW c \in 0..Cycles
          PROVE  /\ calls'[<<k, c>>] <= 1
                 /\ k # "running" /\ calls'[<<k, c>>] > 0 =>
                      \E i \in 1..Len(records') :
                         /\ records'[i][1] \in INTENT_EVENTS
                         /\ EffectKind[records'[i][1]] = k /\ records'[i][2] = c
                 /\ k = "running" /\ calls'[<<k, c>>] > 0 =>
                      records' # <<>> /\ (pc' \in NormalPoints => <<k, c>> \in accepted')
      <3>1. /\ calls[<<k, c>>] <= 1
            /\ k # "running" /\ calls[<<k, c>>] > 0 =>
                 \E i \in 1..Len(records) :
                    /\ records[i][1] \in INTENT_EVENTS
                    /\ EffectKind[records[i][1]] = k /\ records[i][2] = c
            /\ k = "running" /\ calls[<<k, c>>] > 0 =>
                 records # <<>> /\ (pc \in NormalPoints => <<k, c>> \in accepted)
        BY <1>0 DEF CallsInv
      <3>2. ASSUME NEW i \in 1..Len(records)
            PROVE  i \in 1..Len(records') /\ records'[i] = records[i]
        BY <1>0, <1>1, <1>3
      <3>3. records # <<>> => records' # <<>>
        BY <1>1, <1>3
      <3>4. pc' \in NormalPoints => pc \in NormalPoints
        BY <1>1 DEF NormalPoints
      <3> QED
        BY <3>1, <3>2, <3>3, <3>4
    <2>2. ASSUME pc' \in {"act", "cleanup-act"}
          PROVE  calls'[<<EffectKind[Intent'[1]], Intent'[2]>>] = 0
      <3>1. records' = Append(records, r) /\ e \in INTENT_EVENTS
        BY <1>1, <2>2
      <3>2. Intent' = r /\ r \in RecordSet /\ WellFormed(r)
        <4>1. Intent' = r
          BY <1>0, <1>3, <3>1 DEF Intent
        <4>2. WellFormed(records'[Len(records')]) /\ Len(records') \in 1..Len(records')
          BY <1>0, <1>1, <1>3, <3>1 DEF Custody
        <4> QED
          BY <1>3, <3>1, <4>1, <4>2 DEF Intent
      <3>3. /\ EffectKind[e] \in ActionKinds \ {"running"} /\ o \in 0..Cycles
        BY <1>2, <3>1, <3>2, IntentKinds DEF RecordSet
      <3>4. \A i \in 1..Len(records) : ~(records[i][1] = e /\ records[i][2] = o)
        <4>1. Appendable(records, r)
          <5>1. records # Append(records, r)
            BY <1>0
          <5> QED
            BY <1>1, <3>1, <5>1
        <4>2. e # "FAILURE_RECORDED" /\ Current.next # <<>>
          BY <3>1, <4>1 DEF INTENT_EVENTS, Appendable, Current
        <4>3. <<r[1], r[2]>> = Current.next
          BY <1>0, <1>2, <3>2, <4>1, <4>2, AppendCustody DEF Current
        <4>4. Current.next[1] = e /\ Current.next[2] = o
          <5>1. <<r[1], r[2]>>[1] = r[1] /\ <<r[1], r[2]>>[2] = r[2]
            OBVIOUS
          <5> QED
            BY <1>2, <4>3, <5>1, Zenon
        <4> QED
          BY <1>0, <3>1, <4>2, <4>4, NextFacts DEF Current
      <3>5. calls[<<EffectKind[e], o>>] \in Nat
        BY <1>0, <3>3 DEF TypeInv
      <3>6. ~(calls[<<EffectKind[e], o>>] > 0)
        <4> SUFFICES ASSUME calls[<<EffectKind[e], o>>] > 0 PROVE FALSE
          OBVIOUS
        <4>1. PICK i \in 1..Len(records) :
                 /\ records[i][1] \in INTENT_EVENTS
                 /\ EffectKind[records[i][1]] = EffectKind[e] /\ records[i][2] = o
          BY <1>0, <3>3 DEF CallsInv
        <4>2. WellFormed(records[i])
          BY <1>0 DEF Custody
        <4>3. records[i][1] = e
          BY <1>2, <3>1, <3>2, <4>1, <4>2, IntentKinds
        <4> QED
          BY <3>4, <4>1, <4>3
      <3> QED
        BY <1>2, <3>2, <3>5, <3>6
    <2> QED
      BY <2>1, <2>2 DEF CallsInv
  <1>6. ZeroInv'
    <2>1. ZeroHolds(records') => ~live'
      <3>1. CASE records' = records
        BY <1>0, <3>1 DEF ZeroInv
      <3>2. CASE records' = Append(records, r)
        BY <1>0, <1>2, <1>3, <3>2, ZeroAppend DEF ZeroInv
      <3> QED
        BY <1>1, <3>1, <3>2
    <2>2. pc' \notin {"settle", "cleanup-settle"}
      BY <1>1
    <2> QED
      BY <2>1, <2>2 DEF ZeroInv
  <1> QED
    BY <1>1, <1>4, <1>5, <1>6

\* The seals of the records, and how one more record counts.
LEMMA SealedCount ==
  ASSUME NEW rs \in Seq(RecordSet), NEW r \in RecordSet
  PROVE  /\ Cardinality(SealedAt(rs)) \in Nat
         /\ Cardinality(SealedAt(Append(rs, r))) =
              Cardinality(SealedAt(rs)) + (IF r[1] = "CYCLE_SEALED" THEN 1 ELSE 0)
  <1> DEFINE new == Append(rs, r)
  <1>1. /\ Len(new) = Len(rs) + 1 /\ new[Len(rs) + 1] = r
        /\ Len(rs) \in Nat /\ \A i \in 1..Len(rs) : new[i] = rs[i]
    OBVIOUS
  <1>2. IsFiniteSet(1..Len(rs))
    BY <1>1, FS_Interval
  <1>3. IsFiniteSet(SealedAt(rs))
    <2>1. SealedAt(rs) \subseteq 1..Len(rs)
      BY DEF SealedAt
    <2> QED
      BY <1>2, <2>1, FS_Subset
  <1>4. Len(rs) + 1 \notin SealedAt(rs)
    BY <1>1 DEF SealedAt
  <1> HIDE DEF new
  <1>5. CASE r[1] = "CYCLE_SEALED"
    <2>1. SealedAt(new) = SealedAt(rs) \union {Len(rs) + 1}
      BY <1>1, <1>5 DEF SealedAt
    <2>2. Cardinality(SealedAt(new)) = Cardinality(SealedAt(rs)) + 1
      BY <1>3, <1>4, <2>1, FS_AddElement
    <2> QED
      BY <1>3, <1>5, <2>2, FS_CardinalityType DEF new
  <1>6. CASE r[1] # "CYCLE_SEALED"
    <2>1. SealedAt(new) = SealedAt(rs)
      BY <1>1, <1>6 DEF SealedAt
    <2>2. Cardinality(SealedAt(rs)) \in Nat
      BY <1>3, FS_CardinalityType
    <2> QED
      BY <1>6, <2>1, <2>2 DEF new
  <1> QED
    BY <1>5, <1>6

\* A publication of another event than a seal keeps the chain as it is.
LEMMA EmitChain ==
  ASSUME ControllerInv, NEW e, NEW o, NEW out, NEW nx, Emit(Rec(e, o, out), nx),
         chain' = chain, e \in {"CYCLE_SEALED", "TERMINAL_CANDIDATE_VALIDATED"} => out # "sealed",
         nx \in {"step", "act", "cleanup-act", "cleanup"}, nx \in NormalPoints => pc \in NormalPoints
  PROVE  ChainInv'
  <1> DEFINE r == Rec(e, o, out)
             n == Cardinality(SealedAt(records))
  <1>0. TypeInv /\ Custody(records) /\ ChainInv /\ records \in Seq(RecordSet) /\ Len(records) \in Nat
    BY DEF ControllerInv, Custody
  <1>1. /\ \/ records' = records
           \/ records' = Append(records, r) /\ r \in RecordSet /\ Appendable(records, r)
        /\ pc' = nx \/ pc' \in {"idle", "fail", "unsettled"}
    BY <1>0, EmitFacts
  <1>2. r[1] = e /\ r[3] = out
    BY RecFacts
  <1> HIDE DEF r
  <1>a. Appendable(records, r) => e \notin {"CYCLE_SEALED", "TERMINAL_CANDIDATE_VALIDATED"}
    <2>1. Appendable(records, r) => out \in required_outcomes(e, TRUE)
      BY <1>2 DEF Appendable, WellFormed
    <2> QED
      BY <2>1 DEF required_outcomes, INTENT_EVENTS, FailureTerminals
  <1>3. Cardinality(SealedAt(records')) = n /\ n \in Nat
    <2>1. CASE records' = Append(records, r) /\ r \in RecordSet /\ Appendable(records, r)
      <3>1. /\ n \in Nat
            /\ Cardinality(SealedAt(Append(records, r))) = n + (IF r[1] = "CYCLE_SEALED" THEN 1 ELSE 0)
        BY <1>0, <2>1, SealedCount
      <3> HIDE DEF n
      <3> QED
        BY <1>2, <1>a, <2>1, <3>1
    <2>2. CASE records' = records
      <3>1. RecordSet # {}
        <4>1. <<"SEALED", 0, "sealed", "clear">> \in RecordSet
          BY EventNames, ControllerAssumption DEF RecordSet, FinalEvents, Outcomes
        <4> QED
          BY <4>1
      <3>2. n \in Nat
        BY <1>0, <3>1, SealedCount
      <3> QED
        BY <2>2, <3>2
    <2> QED
      BY <1>1, <2>1, <2>2
  <1>4. (\E i \in 1..Len(records') : records'[i][1] = "TERMINAL_CANDIDATE_VALIDATED") =>
          \E i \in 1..Len(records) : records[i][1] = "TERMINAL_CANDIDATE_VALIDATED"
    <2>1. CASE records' = Append(records, r) /\ r \in RecordSet /\ Appendable(records, r)
      <3>1. /\ Len(records') = Len(records) + 1 /\ records'[Len(records) + 1] = r
            /\ \A i \in 1..Len(records) : records'[i] = records[i]
        BY <1>0, <2>1
      <3> QED
        BY <1>0, <1>2, <1>a, <2>1, <3>1
    <2> QED
      BY <1>1, <2>1
  <1>5. pc' \in NormalPoints \/ records' = <<>> => pc \in NormalPoints \/ records = <<>>
    <2>1. Append(records, r) # <<>>
      BY <1>0
    <2> QED
      BY <1>1, <2>1 DEF NormalPoints
  <1>6. ChainFollowsRecords'
    <2>1. chain.cycles \in {n, n + 1} /\ (chain.cycles > n => ~chain.sealed)
      BY <1>0 DEF ChainInv, ChainFollowsRecords, SealedAt
    <2> HIDE DEF n
    <2> QED
      BY <1>3, <2>1 DEF ChainFollowsRecords, SealedAt
  <1> QED
    BY <1>0, <1>3, <1>4, <1>5, <1>6 DEF ChainInv

\* An effect keeps the invariant: its intent was published, its call is the
\* first, only an apply makes an instance, and an inventory returns on none.
LEMMA EffectKeeps ==
  ASSUME ControllerInv, pc \in {"act", "cleanup-act"}, NEW nx, nx \in {"settle", "cleanup-settle"},
         nx = "settle" => pc = "act", Act(EffectKind[Intent[1]], Intent[2], nx),
         UNCHANGED <<valid, consumed, records, accepted, sealedPre, chain>>
  PROVE  ControllerInv'
  <1> DEFINE k == EffectKind[Intent[1]]
             c == Intent[2]
             n == Len(records)
  <1>0. /\ TypeInv /\ Custody(records) /\ PointInv /\ CallsInv /\ ZeroInv /\ ChainInv
        /\ records \in Seq(RecordSet) /\ n \in Nat
    BY DEF ControllerInv, Custody
  <1>1. /\ records # <<>> /\ Intent[1] \in INTENT_EVENTS /\ n \in 1..n /\ Intent = records[n]
    BY <1>0 DEF PointInv, Intent
  <1>2. /\ k \in ActionKinds \ {"running"} /\ c \in 0..Cycles /\ calls[<<k, c>>] = 0
    <2>1. WellFormed(Intent)
      BY <1>0, <1>1 DEF Custody
    <2>2. Intent[2] \in 0..Cycles
      <3>1. Intent \in RecordSet
        BY <1>0, <1>1
      <3> QED
        BY <3>1 DEF RecordSet
    <2> QED
      BY <1>0, <1>1, <2>1, <2>2, IntentKinds DEF CallsInv
  <1>3. /\ calls' = [calls EXCEPT ![<<k, c>>] = @ + 1]
        /\ pc' = nx \/ pc' \in {"idle", "fail", "unsettled"}
        /\ live' \in BOOLEAN
        /\ k # "apply" => (live' => live)
        /\ pc' = nx /\ k = "inventory" => ~live'
        /\ why' \in {"failed", "uncertain"} /\ faults' \in 0..MaxFaults
    BY <1>0, ActFacts
  <1>4. /\ calls' \in [ActionKinds \X (0..Cycles) -> Nat] /\ calls'[<<k, c>>] = 1
        /\ \A x \in ActionKinds \X (0..Cycles) : x # <<k, c>> => calls'[x] = calls[x]
    <2>1. calls \in [ActionKinds \X (0..Cycles) -> Nat] /\ <<k, c>> \in ActionKinds \X (0..Cycles)
      BY <1>0, <1>2 DEF TypeInv
    <2> HIDE DEF k, c
    <2> QED
      BY <1>2, <1>3, <2>1
  <1>5. TypeInv'
    BY <1>0, <1>3, <1>4 DEF TypeInv
  <1>6. PointInv'
    <2>1. Intent' = Intent /\ records' = records
      BY DEF Intent
    <2> QED
      BY <1>1, <1>3, <2>1 DEF PointInv, NormalPoints
  <1>7. CallsInv'
    <2>1. ASSUME NEW l \in ActionKinds, NEW d \in 0..Cycles
          PROVE  /\ calls'[<<l, d>>] <= 1
                 /\ l # "running" /\ calls'[<<l, d>>] > 0 =>
                      \E i \in 1..Len(records') :
                         /\ records'[i][1] \in INTENT_EVENTS
                         /\ EffectKind[records'[i][1]] = l /\ records'[i][2] = d
                 /\ l = "running" /\ calls'[<<l, d>>] > 0 =>
                      records' # <<>> /\ (pc' \in NormalPoints => <<l, d>> \in accepted')
      <3>1. CASE l = k /\ d = c
        <4>1. records'[n][1] \in INTENT_EVENTS /\ EffectKind[records'[n][1]] = l
              /\ records'[n][2] = d /\ n \in 1..Len(records')
          BY <1>1, <3>1
        <4> QED
          BY <1>2, <1>4, <3>1, <4>1
      <3>2. CASE ~(l = k /\ d = c)
        <4>1. calls'[<<l, d>>] = calls[<<l, d>>]
          BY <1>4, <3>2
        <4>2. pc' \in NormalPoints => pc \in NormalPoints
          BY <1>3 DEF NormalPoints
        <4> QED
          BY <1>0, <4>1, <4>2 DEF CallsInv
      <3> QED
        BY <3>1, <3>2
    <2>2. pc' \notin {"act", "cleanup-act"}
      BY <1>3
    <2> QED
      BY <2>1, <2>2 DEF CallsInv
  <1>8. ZeroInv'
    <2>1. ASSUME ZeroHolds(records)
          PROVE  ~live'
      <3>1. k # "apply"
        <4>1. PICK i \in 1..n : /\ records[i][3] = "zero"
                                /\ \A j \in (i + 1)..n : records[j][1] # "APPLY_INTENT"
          BY <2>1 DEF ZeroHolds
        <4>2. records[n][3] # "zero"
          <5>1. WellFormed(records[n])
            BY <1>0, <1>1 DEF Custody
          <5> QED
            BY <1>1, <5>1 DEF WellFormed, required_outcomes, INTENT_EVENTS, FailureTerminals
        <4>3. records[n][1] # "APPLY_INTENT"
          BY <1>0, <4>1, <4>2
        <4> QED
          BY <1>1, <4>3 DEF EffectKind, INTENT_EVENTS
      <3>2. ~live
        BY <1>0, <2>1 DEF ZeroInv
      <3> QED
        BY <1>3, <3>1, <3>2
    <2>2. pc' \in {"settle", "cleanup-settle"} /\ k = "inventory" => ~live'
      BY <1>3
    <2>3. EffectKind' = EffectKind /\ Intent' = Intent
      BY DEF EffectKind, Intent
    <2> QED
      BY <2>1, <2>2, <2>3 DEF ZeroInv
  <1>9. ChainInv'
    <2>1. pc' \in NormalPoints => pc \in NormalPoints
      BY <1>3 DEF NormalPoints
    <2> QED
      BY <1>0, <2>1 DEF ChainInv, ChainFollowsRecords, SealedAt
  <1> QED
    BY <1>0, <1>5, <1>6, <1>7, <1>8, <1>9 DEF ControllerInv

-----------------------------------------------------------------------------
(***************************************************************************)
(* The invariant is inductive.                                             *)
(***************************************************************************)

\* No record at all is a custody, and so is the admission alone.
LEMMA FirstCustody ==
  ASSUME records = <<>>
  PROVE  /\ Custody(<<>>) /\ Custody(<<Rec("BATCH_ADMITTED", 0, "accepted")>>)
         /\ Rec("BATCH_ADMITTED", 0, "accepted") \in RecordSet
  <1> DEFINE r == <<"BATCH_ADMITTED", 0, "accepted", "clear">>
  <1>1. Rec("BATCH_ADMITTED", 0, "accepted") = r
    BY DEF Rec, Uncertainty, outcome_introduces_uncertainty
  <1>2. WellFormed(r) /\ r \in RecordSet
    BY EventNames, ControllerAssumption
      DEF WellFormed, RecordSet, required_outcomes, outcome_introduces_uncertainty, Outcomes,
          INTENT_EVENTS, FailureTerminals, CycleEvents
  <1>3. Custody(<<>>)
    <2>1. <<>> \in Seq(RecordSet) /\ Len(<<>>) = 0 /\ OneFailure(<<>>)
      BY DEF OneFailure
    <2>2. FailureIndex(<<>>) = 0
      BY DEF FailureIndex, Has
    <2>3. Reducible(<<>>)
      BY <2>1, <2>2, HappyLen DEF Reducible, NormalPrefix
    <2> QED
      BY <2>1, <2>3 DEF Custody
  <1>4. Custody(<<r>>)
    <2>1. <<r>> \in Seq(RecordSet) /\ Len(<<r>>) = 1 /\ <<r>>[1] = r /\ \A i \in 1..1 : i = 1
      BY <1>2
    <2>2. r[1] = "BATCH_ADMITTED" /\ r[2] = 0 /\ r[3] = "accepted" /\ r[4] = "clear"
      OBVIOUS
    <2>3. FailureIndex(<<r>>) = 0 /\ OneFailure(<<r>>)
      BY <2>1, <2>2 DEF FailureIndex, Has, OneFailure
    <2>4. HappyPath[1] = <<"BATCH_ADMITTED", 0>> /\ 1 <= Len(HappyPath)
      BY HappyAt, HappyLen, ControllerAssumption
    <2>5. NormalPrefix(<<r>>, 1)
      BY <2>1, <2>2, <2>4 DEF NormalPrefix, required_outcomes, INTENT_EVENTS, FailureTerminals
    <2>6. \A i \in 1..1 : ~outcome_introduces_uncertainty(<<r>>[i][1], <<r>>[i][3])
      BY <2>1, <2>2 DEF outcome_introduces_uncertainty
    <2>7. Reducible(<<r>>)
      BY <2>1, <2>2, <2>3, <2>5, <2>6 DEF Reducible
    <2> QED
      BY <1>2, <2>1, <2>3, <2>7 DEF Custody
  <1> QED
    BY <1>1, <1>2, <1>3, <1>4

\* The invariant holds before anything is published.
LEMMA ControllerInit == Init => ControllerInv
  <1> SUFFICES ASSUME Init PROVE ControllerInv
    OBVIOUS
  <1> USE DEF Init
  <1>1. Custody(records)
    BY FirstCustody
  <1>2. TypeInv
    <2>1. calls \in [ActionKinds \X (0..Cycles) -> Nat]
      OBVIOUS
    <2>2. chain \in [cycles : 0..Cycles, zeros : 0..(Cycles + 1), sealed : BOOLEAN]
      BY ControllerAssumption
    <2>3. faults \in 0..MaxFaults
      BY ControllerAssumption
    <2> QED
      BY <2>1, <2>2, <2>3 DEF TypeInv
  <1>3. PointInv
    BY DEF PointInv, NormalPoints
  <1>4. CallsInv
    <2>1. \A k \in ActionKinds, c \in 0..Cycles : calls[<<k, c>>] = 0
      OBVIOUS
    <2> QED
      BY <2>1 DEF CallsInv
  <1>5. ZeroInv
    BY DEF ZeroInv
  <1>6. ChainInv
    <2>1. SealedAt(records) = {} /\ Len(records) = 0
      BY DEF SealedAt
    <2>2. Cardinality(SealedAt(records)) = 0
      BY <2>1, FS_EmptySet
    <2> QED
      BY <2>2 DEF ChainInv, NormalPoints, ChainFollowsRecords, SealedAt
  <1> QED
    BY <1>1, <1>2, <1>3, <1>4, <1>5, <1>6 DEF ControllerInv

\* run: the admission is the first record.
LEMMA AdmitKeeps == ControllerInv /\ Admit => ControllerInv'
  <1> SUFFICES ASSUME ControllerInv, Admit PROVE ControllerInv'
    OBVIOUS
  <1> DEFINE r == Rec("BATCH_ADMITTED", 0, "accepted")
  <1>0. TypeInv /\ CallsInv /\ ZeroInv /\ ChainInv
    BY DEF ControllerInv
  <1>1. /\ records = <<>> /\ records' = <<r>> /\ consumed' = TRUE /\ pc' \in {"step", "idle", "fail"}
        /\ UNCHANGED <<valid, live, calls, accepted, sealedPre, chain>>
    BY DEF Admit
  <1>2. why' \in {"failed", "uncertain"} /\ faults' \in 0..MaxFaults
    BY <1>0, ControllerAssumption DEF Admit, TypeInv, Fault
  <1>3. Custody(records') /\ r \in RecordSet /\ r[1] = "BATCH_ADMITTED" /\ r[3] = "accepted"
    BY <1>1, FirstCustody, RecFacts
  <1> HIDE DEF r
  <1>4. Len(records') = 1 /\ records'[1] = r /\ records' # <<>>
    BY <1>1
  <1>5. TypeInv'
    BY <1>0, <1>1, <1>2 DEF TypeInv
  <1>6. PointInv'
    BY <1>1, <1>4 DEF PointInv
  <1>7. CallsInv'
    <2>1. ~(records # <<>>) /\ ~\E i \in 1..Len(records) : TRUE
      BY <1>1
    <2>2. ASSUME NEW k \in ActionKinds, NEW c \in 0..Cycles
          PROVE  ~(calls[<<k, c>>] > 0) /\ calls[<<k, c>>] <= 1
      <3>1. /\ calls[<<k, c>>] <= 1
            /\ k # "running" /\ calls[<<k, c>>] > 0 => \E i \in 1..Len(records) : TRUE
            /\ k = "running" /\ calls[<<k, c>>] > 0 => records # <<>>
        BY <1>0 DEF CallsInv
      <3> QED
        BY <2>1, <3>1
    <2> QED
      BY <1>1, <2>2 DEF CallsInv
  <1>8. ZeroInv'
    <2>1. ~ZeroHolds(records')
      BY <1>3, <1>4 DEF ZeroHolds
    <2> QED
      BY <1>1, <2>1 DEF ZeroInv
  <1>9. ChainInv'
    <2>1. SealedAt(records) = {} /\ SealedAt(records') = {}
      BY <1>1, <1>3, <1>4 DEF SealedAt
    <2>2. Cardinality(SealedAt(records')) = 0 /\ Cardinality(SealedAt(records)) = 0
      BY <2>1, FS_EmptySet
    <2>3. chain'.cycles = 0
      BY <1>0, <1>1, <2>2 DEF ChainInv
    <2>4. ChainFollowsRecords'
      BY <2>2, <2>3 DEF ChainFollowsRecords, SealedAt
    <2> QED
      BY <1>3, <1>4, <2>2, <2>3, <2>4 DEF ChainInv
  <1> QED
    BY <1>3, <1>5, <1>6, <1>7, <1>8, <1>9 DEF ControllerInv

\* What an action that publishes something other than a seal looks after; of
\* the ports it changes receipts and commitments only.
MayPublish(e, out, nx) ==
  /\ GoesOn(e, out, nx)
  /\ e \in {"CYCLE_SEALED", "TERMINAL_CANDIDATE_VALIDATED"} => out # "sealed"
QuietPorts ==
  /\ UNCHANGED <<valid, consumed, live, calls, chain>>
  /\ accepted \subseteq accepted' /\ accepted' \subseteq ActionKinds \X (0..Cycles)
  /\ sealedPre' \subseteq 1..Cycles

\* A publication that is not a seal keeps the invariant.
LEMMA PublishKeeps ==
  ASSUME ControllerInv, NEW e, NEW o, NEW out, NEW nx, Emit(Rec(e, o, out), nx),
         MayPublish(e, out, nx), QuietPorts
  PROVE  ControllerInv'
  <1> USE DEF MayPublish, GoesOn, QuietPorts
  <1>1. /\ Custody(records') /\ PointInv' /\ CallsInv' /\ ZeroInv'
        /\ why' \in {"failed", "uncertain"} /\ faults' \in 0..MaxFaults
    BY EmitKeeps
  <1>2. ChainInv'
    BY EmitChain
  <1>3. TypeInv'
    BY <1>1 DEF ControllerInv, TypeInv
  <1> QED
    BY <1>1, <1>2, <1>3 DEF ControllerInv

\* A move of the control point that leaves the attempt keeps the invariant.
LEMMA MoveKeeps ==
  ASSUME ControllerInv, pc' \in {"idle", "fail", "cleanup"}, why' \in {"failed", "uncertain"},
         UNCHANGED <<valid, consumed, records, live, calls, accepted, sealedPre, chain, faults>>
  PROVE  ControllerInv'
  <1>0. TypeInv /\ Custody(records) /\ CallsInv /\ ZeroInv /\ ChainInv
    BY DEF ControllerInv
  <1>1. TypeInv' /\ Custody(records') /\ PointInv'
    BY <1>0 DEF TypeInv, PointInv, NormalPoints
  <1>2. CallsInv'
    <2>1. ASSUME NEW k \in ActionKinds, NEW c \in 0..Cycles
          PROVE  /\ calls'[<<k, c>>] <= 1
                 /\ k # "running" /\ calls'[<<k, c>>] > 0 =>
                      \E i \in 1..Len(records') :
                         /\ records'[i][1] \in INTENT_EVENTS
                         /\ EffectKind[records'[i][1]] = k /\ records'[i][2] = c
                 /\ k = "running" /\ calls'[<<k, c>>] > 0 =>
                      records' # <<>> /\ (pc' \in NormalPoints => <<k, c>> \in accepted')
      BY <1>0 DEF CallsInv, NormalPoints
    <2> QED
      BY <2>1 DEF CallsInv
  <1>3. ZeroInv'
    BY <1>0 DEF ZeroInv
  <1>4. ChainInv'
    BY <1>0 DEF ChainInv, NormalPoints, ChainFollowsRecords, SealedAt
  <1> QED
    BY <1>1, <1>2, <1>3, <1>4 DEF ControllerInv

\* Nothing changes.
LEMMA StutterKeeps == ControllerInv /\ UNCHANGED vars => ControllerInv'
  <1> SUFFICES ASSUME ControllerInv, UNCHANGED vars PROVE ControllerInv'
    OBVIOUS
  <1> USE DEF vars
  <1>1. TypeInv' /\ Custody(records')
    BY DEF ControllerInv, TypeInv
  <1>2. PointInv' /\ CallsInv' /\ ZeroInv'
    BY DEF ControllerInv, PointInv, CallsInv, ZeroInv, Intent
  <1>3. ChainInv'
    BY DEF ControllerInv, ChainInv, ChainFollowsRecords
  <1> QED
    BY <1>1, <1>2, <1>3 DEF ControllerInv

\* What the required next event is when the attempt looks at it.
LEMMA CurrentFacts ==
  ASSUME ControllerInv, ~Terminal
  PROVE  /\ Current.next[2] \in 0..Cycles
         /\ Current.next[1] = "PRE_DESTROY_SEALED" => Current.next[2] \in 1..Cycles
  <1>0. records \in Seq(RecordSet) /\ Custody(records) /\ Current.next # <<>>
    BY DEF ControllerInv, Custody, Terminal
  <1>1. Current.next[2] \in 0..Cycles
    BY <1>0, NextFacts DEF Current
  <1>2. ASSUME Current.next[1] = "PRE_DESTROY_SEALED"
        PROVE  Current.next[2] \in 1..Cycles
    <2>1. Current.status = "normal"
      BY <1>0, <1>2, NextFacts DEF Current, CleanupEvents, FailureTerminals
    <2>2. Current.next = HappyPath[Len(records) + 1] /\ Len(records) + 1 \in 1..Len(HappyPath)
      BY <1>0, <2>1, NextFacts DEF Current
    <2>3. HappyPath[Len(records) + 1][1] \in CycleEvents
      BY <1>2, <2>2 DEF CycleEvents
    <2>4. HappyPath[Len(records) + 1][2] \in 1..Cycles
      BY <2>2, <2>3, HappyInverse
    <2> QED
      BY <2>2, <2>4
  <1> QED
    BY <1>1, <1>2

\* The settlement of an intent is no seal, and a zero only for an inventory.
LEMMA SettledFacts ==
  ASSUME ControllerInv, pc \in {"settle", "cleanup-settle"}
  PROVE  /\ SettledBy[Intent[1]] \notin {"CYCLE_SEALED", "TERMINAL_CANDIDATE_VALIDATED"}
         /\ SettledOutcome(Intent[1]) = "zero" => live = FALSE
         /\ EffectKind[Intent[1]] \in ActionKinds /\ Intent[2] \in 0..Cycles
  <1>0. /\ TypeInv /\ Custody(records) /\ PointInv /\ ZeroInv
        /\ records \in Seq(RecordSet) /\ Len(records) \in Nat
    BY DEF ControllerInv, Custody
  <1>1. records # <<>> /\ Intent[1] \in INTENT_EVENTS
    BY <1>0 DEF PointInv
  <1>2. Intent \in RecordSet
    BY <1>0, <1>1 DEF Intent
  <1>3. Intent[2] \in 0..Cycles
    BY <1>2 DEF RecordSet
  <1>4. /\ SettledBy[Intent[1]] \notin {"CYCLE_SEALED", "TERMINAL_CANDIDATE_VALIDATED"}
        /\ EffectKind[Intent[1]] \in ActionKinds
    BY <1>1 DEF INTENT_EVENTS, SettledBy, EffectKind, ActionKinds
  <1>5. ASSUME SettledOutcome(Intent[1]) = "zero"
        PROVE  live = FALSE
    <2>1. EffectKind[Intent[1]] = "inventory"
      BY <1>5 DEF SettledOutcome
    <2>2. ~live
      BY <1>0, <2>1, Zenon DEF ZeroInv
    <2>3. live \in BOOLEAN
      BY <1>0 DEF TypeInv
    <2> QED
      BY <2>2, <2>3
  <1> QED
    BY <1>3, <1>4, <1>5

\* The normal attempt: intents, actions and settlements.
LEMMA EffectStepKeeps ==
  ASSUME ControllerInv, StepIntent \/ StepAct \/ StepSettle
  PROVE  ControllerInv'
  <1>0. accepted \subseteq ActionKinds \X (0..Cycles) /\ sealedPre \subseteq 1..Cycles
    BY DEF ControllerInv, TypeInv
  <1>1. CASE StepIntent
    <2>1. Emit(Rec(Current.next[1], Current.next[2], "intended"), "act")
      BY <1>1 DEF StepIntent
    <2>2. MayPublish(Current.next[1], "intended", "act")
      BY <1>1 DEF StepIntent, MayPublish, GoesOn, NormalPoints
    <2>3. QuietPorts
      BY <1>0, <1>1 DEF StepIntent, PortVars, QuietPorts
    <2> QED
      BY <2>1, <2>2, <2>3, PublishKeeps
  <1>2. CASE StepAct
    BY <1>2, EffectKeeps DEF StepAct
  <1>3. CASE StepSettle
    <2>1. Emit(Rec(SettledBy[Intent[1]], Intent[2], SettledOutcome(Intent[1])), "step")
      BY <1>3 DEF StepSettle
    <2>2. /\ pc = "settle"
          /\ accepted' \in {accepted, accepted \union {<<EffectKind[Intent[1]], Intent[2]>>}}
          /\ UNCHANGED <<valid, consumed, live, calls, sealedPre, chain>>
      BY <1>3 DEF StepSettle
    <2>3. /\ SettledBy[Intent[1]] \notin {"CYCLE_SEALED", "TERMINAL_CANDIDATE_VALIDATED"}
          /\ SettledOutcome(Intent[1]) = "zero" => live = FALSE
          /\ EffectKind[Intent[1]] \in ActionKinds /\ Intent[2] \in 0..Cycles
      BY <2>2, SettledFacts
    <2>4. MayPublish(SettledBy[Intent[1]], SettledOutcome(Intent[1]), "step")
      BY <2>2, <2>3 DEF MayPublish, GoesOn, NormalPoints
    <2>5. QuietPorts
      BY <1>0, <2>2, <2>3 DEF QuietPorts
    <2> QED
      BY <2>1, <2>4, <2>5, PublishKeeps
  <1> QED
    BY <1>1, <1>2, <1>3

\* The normal attempt: the observation, which is called once because it is
\* accepted before it is published.
LEMMA ObserveKeeps ==
  ASSUME ControllerInv, StepObserve
  PROVE  ControllerInv'
  <1> DEFINE c == Current.next[2]
  <1>0. TypeInv /\ Custody(records) /\ PointInv /\ CallsInv /\ ZeroInv /\ ChainInv
    BY DEF ControllerInv
  <1>1. /\ pc = "step" /\ ~Terminal /\ <<"running", c>> \notin accepted
        /\ Act("running", c, "step")
        /\ accepted' = IF pc' = "step" THEN accepted \union {<<"running", c>>} ELSE accepted
        /\ UNCHANGED <<valid, consumed, records, sealedPre, chain>>
    BY DEF StepObserve
  <1>2. c \in 0..Cycles /\ records # <<>>
    BY <1>0, <1>1, CurrentFacts DEF PointInv, NormalPoints
  <1> HIDE DEF c
  <1>3. /\ calls' = [calls EXCEPT ![<<"running", c>>] = @ + 1]
        /\ pc' \in {"step", "idle", "fail", "unsettled"}
        /\ live' \in BOOLEAN /\ (live' => live)
        /\ why' \in {"failed", "uncertain"} /\ faults' \in 0..MaxFaults
    BY <1>0, <1>1, ActFacts
  <1>4. calls[<<"running", c>>] = 0
    <2>1. "running" \in ActionKinds /\ pc \in NormalPoints
      BY <1>1 DEF ActionKinds, NormalPoints
    <2>2. calls[<<"running", c>>] > 0 => <<"running", c>> \in accepted
      BY <1>0, <1>2, <2>1 DEF CallsInv
    <2>3. calls[<<"running", c>>] \in Nat
      BY <1>0, <1>2, <2>1 DEF TypeInv
    <2> QED
      BY <1>1, <2>2, <2>3
  <1>5. /\ calls' \in [ActionKinds \X (0..Cycles) -> Nat] /\ calls'[<<"running", c>>] = 1
        /\ \A x \in ActionKinds \X (0..Cycles) : x # <<"running", c>> => calls'[x] = calls[x]
        /\ <<"running", c>> \in ActionKinds \X (0..Cycles)
    <2>1. calls \in [ActionKinds \X (0..Cycles) -> Nat]
          /\ <<"running", c>> \in ActionKinds \X (0..Cycles)
      BY <1>0, <1>2 DEF TypeInv, ActionKinds
    <2> QED
      BY <1>3, <1>4, <2>1
  <1>6. accepted \subseteq accepted' /\ accepted' \subseteq ActionKinds \X (0..Cycles)
    BY <1>0, <1>1, <1>5 DEF TypeInv
  <1>7. TypeInv'
    BY <1>0, <1>1, <1>3, <1>5, <1>6 DEF TypeInv
  <1>8. PointInv'
    BY <1>1, <1>2, <1>3 DEF PointInv
  <1>9. CallsInv'
    <2>1. ASSUME NEW l \in ActionKinds, NEW d \in 0..Cycles
          PROVE  /\ calls'[<<l, d>>] <= 1
                 /\ l # "running" /\ calls'[<<l, d>>] > 0 =>
                      \E i \in 1..Len(records') :
                         /\ records'[i][1] \in INTENT_EVENTS
                         /\ EffectKind[records'[i][1]] = l /\ records'[i][2] = d
                 /\ l = "running" /\ calls'[<<l, d>>] > 0 =>
                      records' # <<>> /\ (pc' \in NormalPoints => <<l, d>> \in accepted')
      <3>1. CASE l = "running" /\ d = c
        <4>1. pc' \in NormalPoints => <<"running", c>> \in accepted'
          BY <1>1, <1>3 DEF NormalPoints
        <4> QED
          BY <1>1, <1>2, <1>5, <3>1, <4>1
      <3>2. CASE ~(l = "running" /\ d = c)
        <4>1. calls'[<<l, d>>] = calls[<<l, d>>]
          BY <1>5, <3>2
        <4>2. pc \in NormalPoints
          BY <1>1 DEF NormalPoints
        <4>3. /\ calls[<<l, d>>] <= 1
              /\ l # "running" /\ calls[<<l, d>>] > 0 =>
                   \E i \in 1..Len(records) :
                      /\ records[i][1] \in INTENT_EVENTS
                      /\ EffectKind[records[i][1]] = l /\ records[i][2] = d
              /\ l = "running" /\ calls[<<l, d>>] > 0 => <<l, d>> \in accepted
          BY <1>0, <4>2 DEF CallsInv
        <4> QED
          BY <1>1, <1>2, <1>6, <4>1, <4>3
      <3> QED
        BY <3>1, <3>2
    <2> QED
      BY <1>3, <2>1 DEF CallsInv
  <1>10. ZeroInv'
    <2>1. ZeroHolds(records) => ~live'
      BY <1>0, <1>3, Zenon DEF ZeroInv
    <2> QED
      BY <1>1, <1>3, <2>1 DEF ZeroInv
  <1>11. ChainInv'
    BY <1>0, <1>1, <1>2 DEF ChainInv, ChainFollowsRecords, SealedAt, NormalPoints
  <1> QED
    BY <1>0, <1>1, <1>7, <1>8, <1>9, <1>10, <1>11 DEF ControllerInv

\* The normal attempt: the records that are neither an effect nor a seal of a
\* cycle or of the campaign.
LEMMA PlainStepKeeps ==
  ASSUME ControllerInv, StepRunning \/ StepPreDestroy \/ StepPlain \/ RunEnds
  PROVE  ControllerInv'
  <1>0. /\ accepted \subseteq ActionKinds \X (0..Cycles) /\ sealedPre \subseteq 1..Cycles
        /\ why \in {"failed", "uncertain"}
    BY DEF ControllerInv, TypeInv
  <1>1. CASE StepRunning
    <2>1. Emit(Rec("RUNNING_OBSERVED", Current.next[2], "observed"), "step")
      BY <1>1 DEF StepRunning
    <2>2. MayPublish("RUNNING_OBSERVED", "observed", "step")
      BY <1>1 DEF StepRunning, MayPublish, GoesOn, NormalPoints
    <2>3. QuietPorts
      BY <1>0, <1>1 DEF StepRunning, PortVars, QuietPorts
    <2> QED
      BY <2>1, <2>2, <2>3, PublishKeeps
  <1>2. CASE StepPreDestroy
    <2>1. Emit(Rec("PRE_DESTROY_SEALED", Current.next[2], "sealed"), "step")
      BY <1>2 DEF StepPreDestroy
    <2>2. MayPublish("PRE_DESTROY_SEALED", "sealed", "step")
      BY <1>2 DEF StepPreDestroy, MayPublish, GoesOn, NormalPoints
    <2>3. /\ ~Terminal /\ Current.next[1] = "PRE_DESTROY_SEALED"
          /\ sealedPre' = sealedPre \union {Current.next[2]}
          /\ UNCHANGED <<valid, consumed, live, calls, accepted, chain>>
      BY <1>2 DEF StepPreDestroy
    <2>4. QuietPorts
      BY <1>0, <2>3, CurrentFacts DEF QuietPorts
    <2> QED
      BY <2>1, <2>2, <2>4, PublishKeeps
  <1>3. CASE StepPlain
    <2> DEFINE out == IF Current.next[1] = "CYCLE_OPENED" THEN "accepted" ELSE "sealed"
    <2>1. Emit(Rec(Current.next[1], Current.next[2], out), "step")
      BY <1>3 DEF StepPlain
    <2>2. MayPublish(Current.next[1], out, "step")
      BY <1>3 DEF StepPlain, MayPublish, GoesOn, NormalPoints
    <2>3. QuietPorts
      BY <1>0, <1>3 DEF StepPlain, PortVars, QuietPorts
    <2> HIDE DEF out
    <2> QED
      BY <2>1, <2>2, <2>3, PublishKeeps
  <1>4. CASE RunEnds
    BY <1>0, <1>4, MoveKeeps DEF RunEnds, PortVars
  <1> QED
    BY <1>1, <1>2, <1>3, <1>4

\* The normal attempt: the seal of a cycle enters the chain before its record,
\* so the chain is level with the records or one ahead, and then never sealed.
LEMMA SealCycleKeeps ==
  ASSUME ControllerInv, StepSealCycle
  PROVE  ControllerInv'
  <1> DEFINE c == Current.next[2]
             n == Cardinality(SealedAt(records))
             r == Rec("CYCLE_SEALED", c, "sealed")
  <1>0. /\ TypeInv /\ Custody(records) /\ PointInv /\ ChainInv
        /\ records \in Seq(RecordSet) /\ Len(records) \in Nat
    BY DEF ControllerInv, Custody
  <1>1. /\ pc = "step" /\ c \in 1..Cycles /\ ~chain.sealed /\ c = chain.cycles + 1
        /\ chain' = [chain EXCEPT !.cycles = c, !.zeros = c]
        /\ UNCHANGED <<valid, consumed, live, calls, accepted, sealedPre>>
    BY DEF StepSealCycle, issue_cycle, accept_cycle
  <1>2. Emit(r, "step")
    BY DEF StepSealCycle
  <1>3. /\ Custody(records') /\ PointInv' /\ CallsInv' /\ ZeroInv'
        /\ why' \in {"failed", "uncertain"} /\ faults' \in 0..MaxFaults
    <2>1. GoesOn("CYCLE_SEALED", "sealed", "step")
      BY <1>1 DEF GoesOn, NormalPoints
    <2> QED
      BY <1>1, <1>2, <2>1, EmitKeeps
  <1>4. /\ \/ records' = records
           \/ records' = Append(records, r) /\ r \in RecordSet /\ Appendable(records, r)
        /\ \/ pc' = "step" /\ records' = Append(records, r)
           \/ pc' \in {"idle", "fail", "unsettled"}
    BY <1>0, <1>2, EmitFacts
  <1>5. r[1] = "CYCLE_SEALED"
    BY RecFacts
  <1>6. chain.cycles = n /\ records # <<>>
    BY <1>0, <1>1 DEF ChainInv, PointInv, NormalPoints
  <1>7. /\ chain \in [cycles : 0..Cycles, zeros : 0..(Cycles + 1), sealed : BOOLEAN]
        /\ chain' \in [cycles : 0..Cycles, zeros : 0..(Cycles + 1), sealed : BOOLEAN]
        /\ chain'.cycles = c /\ chain'.sealed = chain.sealed
    <2>1. chain \in [cycles : 0..Cycles, zeros : 0..(Cycles + 1), sealed : BOOLEAN]
      BY <1>0 DEF TypeInv
    <2>2. chain' = [chain EXCEPT !.cycles = c, !.zeros = c] /\ c \in 0..Cycles /\ c \in 0..(Cycles + 1)
      BY <1>1, ControllerAssumption
    <2> HIDE DEF c
    <2> QED
      BY <2>1, <2>2
  <1> HIDE DEF r, c
  <1>8. TypeInv'
    BY <1>0, <1>1, <1>3, <1>7 DEF TypeInv
  <1>9. ~\E i \in 1..Len(records') : records'[i][1] = "TERMINAL_CANDIDATE_VALIDATED"
    <2>1. ~\E i \in 1..Len(records) : records[i][1] = "TERMINAL_CANDIDATE_VALIDATED"
      BY <1>0, <1>1 DEF ChainInv
    <2>2. CASE records' = Append(records, r) /\ r \in RecordSet
      <3>1. /\ Len(records') = Len(records) + 1 /\ records'[Len(records) + 1] = r
            /\ \A i \in 1..Len(records) : records'[i] = records[i]
        BY <1>0, <2>2
      <3> QED
        BY <1>0, <1>5, <2>1, <3>1
    <2> QED
      BY <1>4, <2>1, <2>2
  <1>10. CASE records' = records
    <2>1. pc' \notin NormalPoints
      <3>1. Append(records, r) # records
        BY <1>0
      <3> QED
        BY <1>4, <1>10, <3>1 DEF NormalPoints
    <2>2. ChainFollowsRecords'
      BY <1>1, <1>6, <1>7, <1>10 DEF ChainFollowsRecords, SealedAt
    <2>3. ChainInv'
      BY <1>6, <1>9, <1>10, <2>1, <2>2 DEF ChainInv
    <2> QED
      BY <1>3, <1>8, <2>3 DEF ControllerInv
  <1>11. CASE records' = Append(records, r) /\ r \in RecordSet
    <2>1. /\ n \in Nat
          /\ Cardinality(SealedAt(Append(records, r))) = n + (IF r[1] = "CYCLE_SEALED" THEN 1 ELSE 0)
      BY <1>0, <1>11, SealedCount
    <2> HIDE DEF n
    <2>2. Cardinality(SealedAt(records')) = chain'.cycles /\ chain'.cycles = n + 1
      BY <1>1, <1>5, <1>6, <1>7, <1>11, <2>1
    <2>3. ChainFollowsRecords'
      BY <2>1, <2>2 DEF ChainFollowsRecords, SealedAt
    <2>4. ChainInv'
      BY <1>9, <2>2, <2>3 DEF ChainInv
    <2> QED
      BY <1>3, <1>8, <2>4 DEF ControllerInv
  <1> QED
    BY <1>4, <1>10, <1>11

\* The normal attempt: the terminal candidate seals a chain that is level with
\* the records.
LEMMA TerminalKeeps ==
  ASSUME ControllerInv, StepTerminal
  PROVE  ControllerInv'
  <1> DEFINE n == Cardinality(SealedAt(records))
             r == Rec("TERMINAL_CANDIDATE_VALIDATED", 0, "sealed")
  <1>0. /\ TypeInv /\ Custody(records) /\ PointInv /\ ChainInv
        /\ records \in Seq(RecordSet) /\ Len(records) \in Nat
    BY DEF ControllerInv, Custody
  <1>1. /\ pc = "step"
        /\ chain' = [chain EXCEPT !.zeros = Cycles + 1, !.sealed = TRUE]
        /\ UNCHANGED <<valid, consumed, live, calls, accepted, sealedPre>>
    BY DEF StepTerminal
  <1>2. Emit(r, "step")
    BY DEF StepTerminal
  <1>3. /\ Custody(records') /\ PointInv' /\ CallsInv' /\ ZeroInv'
        /\ why' \in {"failed", "uncertain"} /\ faults' \in 0..MaxFaults
    <2>1. GoesOn("TERMINAL_CANDIDATE_VALIDATED", "sealed", "step")
      BY <1>1 DEF GoesOn, NormalPoints
    <2> QED
      BY <1>1, <1>2, <2>1, EmitKeeps
  <1>4. \/ records' = records
        \/ records' = Append(records, r) /\ r \in RecordSet
    BY <1>0, <1>2, EmitFacts
  <1>5. r[1] = "TERMINAL_CANDIDATE_VALIDATED"
    BY RecFacts
  <1>6. chain.cycles = n /\ records # <<>>
    BY <1>0, <1>1 DEF ChainInv, PointInv, NormalPoints
  <1>7. /\ chain \in [cycles : 0..Cycles, zeros : 0..(Cycles + 1), sealed : BOOLEAN]
        /\ chain' \in [cycles : 0..Cycles, zeros : 0..(Cycles + 1), sealed : BOOLEAN]
        /\ chain'.cycles = chain.cycles /\ chain'.sealed /\ chain'.zeros = Cycles + 1
    <2>1. chain \in [cycles : 0..Cycles, zeros : 0..(Cycles + 1), sealed : BOOLEAN]
      BY <1>0 DEF TypeInv
    <2>2. /\ chain' = [chain EXCEPT !.zeros = Cycles + 1, !.sealed = TRUE]
          /\ Cycles + 1 \in 0..(Cycles + 1)
      BY <1>1, ControllerAssumption
    <2> QED
      BY <2>1, <2>2
  <1> HIDE DEF r
  <1>8. TypeInv'
    BY <1>0, <1>1, <1>3, <1>7 DEF TypeInv
  <1>9. Cardinality(SealedAt(records')) = n /\ n \in Nat
    <2>1. n \in Nat
      BY <1>6, <1>7
    <2>2. CASE records' = Append(records, r) /\ r \in RecordSet
      <3>1. Cardinality(SealedAt(Append(records, r))) = n + (IF r[1] = "CYCLE_SEALED" THEN 1 ELSE 0)
        BY <1>0, <2>2, SealedCount
      <3> HIDE DEF n
      <3> QED
        BY <1>5, <2>1, <2>2, <3>1
    <2> QED
      BY <1>4, <2>1, <2>2
  <1> HIDE DEF n
  <1>10. ChainFollowsRecords'
    BY <1>6, <1>7, <1>9 DEF ChainFollowsRecords, SealedAt
  <1>11. ChainInv'
    BY <1>6, <1>7, <1>9, <1>10 DEF ChainInv
  <1> QED
    BY <1>3, <1>8, <1>11 DEF ControllerInv

\* The failure record and the cleanup, whose unfinished effects are settled as
\* uncertain.
LEMMA CleanupKeeps ==
  ASSUME ControllerInv,
         RecordFailure \/ CleanupIntent \/ CleanupAct \/ CleanupSettle \/ CleanupUnsettled
           \/ CleanupUnreplayed \/ CleanupTerminal
  PROVE  ControllerInv'
  <1>0. /\ accepted \subseteq ActionKinds \X (0..Cycles) /\ sealedPre \subseteq 1..Cycles
        /\ why \in {"failed", "uncertain"}
    BY DEF ControllerInv, TypeInv
  <1>a. UNCHANGED PortVars => QuietPorts
    BY <1>0 DEF PortVars, QuietPorts
  <1>1. CASE RecordFailure
    <2>1. CASE Current.status # "normal"
      BY <1>0, <1>1, <2>1, MoveKeeps DEF RecordFailure, PortVars
    <2>2. CASE Current.status = "normal"
      <3>1. Emit(Rec("FAILURE_RECORDED", ActiveCycle(records), why), "cleanup") /\ QuietPorts
        BY <1>1, <1>a, <2>2 DEF RecordFailure
      <3>2. MayPublish("FAILURE_RECORDED", why, "cleanup")
        BY <1>0 DEF MayPublish, GoesOn, NormalPoints
      <3> QED
        BY <3>1, <3>2, PublishKeeps
    <2> QED
      BY <2>1, <2>2
  <1>2. CASE CleanupIntent
    <2>1. Emit(Rec(Current.next[1], Current.next[2], "intended"), "cleanup-act") /\ QuietPorts
      BY <1>2, <1>a DEF CleanupIntent
    <2>2. MayPublish(Current.next[1], "intended", "cleanup-act")
      BY <1>2 DEF CleanupIntent, MayPublish, GoesOn, NormalPoints
    <2> QED
      BY <2>1, <2>2, PublishKeeps
  <1>3. CASE CleanupAct
    BY <1>3, EffectKeeps DEF CleanupAct
  <1>4. CASE CleanupSettle
    <2>1. Emit(Rec(SettledBy[Intent[1]], Intent[2], SettledOutcome(Intent[1])), "cleanup")
          /\ QuietPorts /\ pc = "cleanup-settle"
      BY <1>4, <1>a DEF CleanupSettle
    <2>2. /\ SettledBy[Intent[1]] \notin {"CYCLE_SEALED", "TERMINAL_CANDIDATE_VALIDATED"}
          /\ SettledOutcome(Intent[1]) = "zero" => live = FALSE
      BY <2>1, SettledFacts
    <2>3. MayPublish(SettledBy[Intent[1]], SettledOutcome(Intent[1]), "cleanup")
      BY <2>2 DEF MayPublish, GoesOn, NormalPoints
    <2> QED
      BY <2>1, <2>3, PublishKeeps
  <1>5. CASE CleanupUnsettled
    <2> DEFINE i == CHOOSE j \in {Len(records) - 1, Len(records)} : records[j][1] \in INTENT_EVENTS
               e == SettledBy[records[i][1]]
               o == records[i][2]
    <2>1. Emit(Rec(e, o, "uncertain"), "cleanup") /\ QuietPorts
      BY <1>5, <1>a DEF CleanupUnsettled
    <2> HIDE DEF e, o
    <2>2. MayPublish(e, "uncertain", "cleanup")
      BY DEF MayPublish, GoesOn, NormalPoints
    <2> QED
      BY <2>1, <2>2, PublishKeeps
  <1>6. CASE CleanupUnreplayed
    <2>1. Emit(Rec(Current.next[1], Current.next[2], "uncertain"), "cleanup") /\ QuietPorts
      BY <1>6, <1>a DEF CleanupUnreplayed
    <2>2. MayPublish(Current.next[1], "uncertain", "cleanup")
      BY DEF MayPublish, GoesOn, NormalPoints
    <2> QED
      BY <2>1, <2>2, PublishKeeps
  <1>7. CASE CleanupTerminal
    <2>1. CASE Terminal
      BY <1>0, <1>7, <2>1, MoveKeeps DEF CleanupTerminal, PortVars
    <2>2. CASE ~Terminal
      <3>1. Emit(Rec(Current.next[1], 0, "sealed"), "cleanup") /\ QuietPorts
        BY <1>7, <1>a, <2>2 DEF CleanupTerminal
      <3>2. MayPublish(Current.next[1], "sealed", "cleanup")
        BY <1>7, <2>2 DEF CleanupTerminal, MayPublish, GoesOn, NormalPoints, FailureTerminals
      <3> QED
        BY <3>1, <3>2, PublishKeeps
    <2> QED
      BY <2>1, <2>2
  <1> QED
    BY <1>1, <1>2, <1>3, <1>4, <1>5, <1>6, <1>7

\* recover: the cleanup-only invocation starts on the records as they are.
LEMMA RecoverKeeps ==
  ASSUME ControllerInv, Recover
  PROVE  ControllerInv'
  <1>1. why \in {"failed", "uncertain"}
    BY DEF ControllerInv, TypeInv
  <1>2. /\ pc' \in {"fail", "cleanup"} /\ why' \in {"failed", "uncertain"}
        /\ UNCHANGED <<valid, consumed, records, live, calls, accepted, sealedPre, chain, faults>>
    BY <1>1 DEF Recover, PortVars
  <1> QED
    BY <1>2, MoveKeeps

\* Every step of the controller keeps the invariant.
LEMMA ControllerStep == ControllerInv /\ [Next]_vars => ControllerInv'
  <1> SUFFICES ASSUME ControllerInv, [Next]_vars PROVE ControllerInv'
    OBVIOUS
  <1>1. CASE Admit
    BY <1>1, AdmitKeeps
  <1>2. CASE Proceed
    BY <1>2, EffectStepKeeps, ObserveKeeps, PlainStepKeeps, SealCycleKeeps, TerminalKeeps,
       CleanupKeeps DEF Proceed
  <1>3. CASE Recover
    BY <1>3, RecoverKeeps
  <1>4. CASE Rest \/ UNCHANGED vars
    BY <1>4, StutterKeeps DEF Rest
  <1> QED
    BY <1>1, <1>2, <1>3, <1>4 DEF Next

-----------------------------------------------------------------------------
(***************************************************************************)
(* The theorems.                                                           *)
(***************************************************************************)

\* The invariant holds in every reachable state.
THEOREM ControllerInvariant == Spec => []ControllerInv
  BY ControllerInit, ControllerStep, PTL DEF Spec

\* Every variable has its type and every published record is well formed,
\* whatever the attempt, its cleanup and any number of recoveries publish.
THEOREM ControllerTypes == Spec => []ControllerTypeOK
  <1>1. ControllerInv => ControllerTypeOK
    <2> SUFFICES ASSUME ControllerInv PROVE ControllerTypeOK
      OBVIOUS
    <2>1. calls \in [ActionKinds \X (0..Cycles) -> 0..2]
      <3>1. calls \in [ActionKinds \X (0..Cycles) -> Nat]
        BY DEF ControllerInv, TypeInv
      <3>2. ASSUME NEW x \in ActionKinds \X (0..Cycles)
            PROVE  calls[x] \in 0..2
        <4>1. PICK k \in ActionKinds, c \in 0..Cycles : x = <<k, c>>
          OBVIOUS
        <4>2. calls[<<k, c>>] <= 1
          BY DEF ControllerInv, CallsInv
        <4> QED
          BY <3>1, <4>1, <4>2
      <3> QED
        BY <3>1, <3>2
    <2> QED
      BY <2>1 DEF ControllerInv, TypeInv, Custody, ControllerTypeOK
  <1> QED
    BY <1>1, ControllerInvariant, PTL

\* No effect on a cycle is attempted twice: an action is called only after its
\* intent is published, the reducer never asks for a published intent again,
\* and an intent without a result is settled as uncertain, never replayed.
THEOREM EffectsAreOnce == Spec => []EffectsOnce
  <1>1. ControllerInv => EffectsOnce
    <2> SUFFICES ASSUME ControllerInv, NEW x \in DOMAIN calls PROVE calls[x] <= 1
      BY DEF EffectsOnce
    <2>1. x \in ActionKinds \X (0..Cycles)
      BY DEF ControllerInv, TypeInv
    <2>2. PICK k \in ActionKinds, c \in 0..Cycles : x = <<k, c>>
      BY <2>1
    <2>3. calls[<<k, c>>] <= 1
      BY DEF ControllerInv, CallsInv
    <2> QED
      BY <2>2, <2>3
  <1> QED
    BY <1>1, ControllerInvariant, PTL

\* A clear end is a true one: a sealed campaign, or one that failed without
\* uncertainty, has a zero observation that no apply has followed, so no
\* instance is left; the sealed one was validated over the whole custody chain.
THEOREM ClearEndIsZero == Spec => []ClearEndMeansZero
  <1>1. ControllerInv => ClearEndMeansZero
    <2> SUFFICES ASSUME ControllerInv PROVE ClearEndMeansZero
      OBVIOUS
    <2>0. records \in Seq(RecordSet) /\ Custody(records) /\ ZeroInv /\ ChainInv
      BY DEF ControllerInv, Custody
    <2>1. ASSUME Current.status \in {"sealed", "terminal-failure"} PROVE ~live
      <3>1. ZeroHolds(records)
        BY <2>0, <2>1, SealedEnd, FailureEnd DEF Current
      <3> QED
        BY <2>0, <3>1 DEF ZeroInv
    <2>2. ASSUME Current.status = "sealed" PROVE chain.sealed /\ chain.zeros = Cycles + 1
      BY <2>0, <2>2, SealedEnd DEF Current, ChainInv
    <2> QED
      BY <2>1, <2>2 DEF ClearEndMeansZero
  <1> QED
    BY <1>1, ControllerInvariant, PTL

\* The custody chain holds exactly the sealed cycles and at most one more,
\* whose record was never published.
THEOREM ChainIsLevel == Spec => []ChainFollowsRecords
  <1>1. ControllerInv => ChainFollowsRecords
    BY DEF ControllerInv, ChainInv
  <1> QED
    BY <1>1, ControllerInvariant, PTL
=============================================================================

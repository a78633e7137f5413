----------------------- MODULE VlmNodeAndGate_proofs ------------------------
(***************************************************************************)
(* Proofs about the two ends of a VLM result.  RegionGate, which acts on   *)
(* it, never waits for an answer it has read, stays in step with the       *)
(* planner until the depth watchdog takes a goal away, and publishes on    *)
(* fresh agreement only; for every grid, every threshold and any number of *)
(* goals.  VlmNode, which makes it, runs one inference at a time and keeps *)
(* the promise of VlmService, for every interleaving of its two threads.   *)
(***************************************************************************)
EXTENDS RegionGate, VlmNode, SequenceTheorems, TLAPS

-----------------------------------------------------------------------------
(* RegionGate *)

\* The statuses of one callback go to the end of the queue.
LEMMA Delivered ==
  ASSUME status_topic \in Seq(Messages),
         said'.statuses \in Seq(Statuses),
         said'.about \in 1..MaxGoals,
         Deliver
  PROVE  /\ status_topic' \in Seq(Messages)
         /\ DOMAIN status_topic = 1..Len(status_topic)
         /\ Len(status_topic) \in Nat
         /\ DOMAIN status_topic' = 1..(Len(status_topic) + Len(said'.statuses))
         /\ \A i \in 1..Len(status_topic) : status_topic'[i] = status_topic[i]
         /\ \A i \in 1..Len(said'.statuses) :
              status_topic'[Len(status_topic) + i] =
                [status |-> said'.statuses[i], about |-> said'.about]
<1> DEFINE ss == said'.statuses
           new == [i \in 1..Len(ss) |-> [status |-> ss[i], about |-> said'.about]]
<1>1. DOMAIN ss = 1..Len(ss) /\ Len(ss) \in Nat
  BY LenProperties
<1>2. \A i \in 1..Len(ss) : ss[i] \in Statuses
  BY ElementOfSeq
<1>3. new \in Seq(Messages) /\ Len(new) = Len(ss)
  BY <1>1, <1>2 DEF Messages
<1>4. status_topic' = status_topic \o new
  BY <1>1 DEF Deliver
<1>5. Len(status_topic) \in Nat /\ DOMAIN status_topic = 1..Len(status_topic)
  BY LenProperties
<1> HIDE DEF new
<1>6. /\ status_topic' \in Seq(Messages)
      /\ Len(status_topic') = Len(status_topic) + Len(ss)
      /\ \A i \in 1..(Len(status_topic) + Len(ss)) :
           status_topic'[i] = IF i <= Len(status_topic) THEN status_topic[i]
                              ELSE new[i - Len(status_topic)]
  BY <1>3, <1>4, ConcatProperties
<1>7. DOMAIN status_topic' = 1..(Len(status_topic) + Len(ss))
  BY <1>6, LenProperties
<1>8. \A i \in 1..Len(ss) : new[i] = [status |-> ss[i], about |-> said'.about]
  BY DEF new
<1>9. \A i \in 1..Len(status_topic) : status_topic'[i] = status_topic[i]
  BY <1>1, <1>5, <1>6
<1>10. ASSUME NEW i \in 1..Len(ss)
       PROVE  status_topic'[Len(status_topic) + i] = [status |-> ss[i], about |-> said'.about]
  <2>1. /\ Len(status_topic) + i \in 1..(Len(status_topic) + Len(ss))
        /\ ~(Len(status_topic) + i <= Len(status_topic))
        /\ (Len(status_topic) + i) - Len(status_topic) = i
    BY <1>1, <1>5
  <2>2. QED
    BY <1>6, <1>8, <2>1
<1>11. QED
  BY <1>5, <1>6, <1>7, <1>9, <1>10

\* Reading takes the first status.
LEMMA Dequeued ==
  ASSUME status_topic \in Seq(Messages), status_topic # << >>,
         status_topic' = Tail(status_topic)
  PROVE  /\ status_topic' \in Seq(Messages)
         /\ Head(status_topic) = status_topic[1]
         /\ Head(status_topic) \in Messages
         /\ Len(status_topic) \in Nat \ {0}
         /\ DOMAIN status_topic = 1..Len(status_topic)
         /\ DOMAIN status_topic' = 1..(Len(status_topic) - 1)
         /\ \A i \in 1..(Len(status_topic) - 1) : status_topic'[i] = status_topic[i + 1]
<1>1. Len(status_topic) \in Nat \ {0} /\ DOMAIN status_topic = 1..Len(status_topic)
  BY EmptySeq, LenProperties
<1>2. /\ Head(status_topic) \in Messages
      /\ status_topic' \in Seq(Messages)
      /\ Len(status_topic') = Len(status_topic) - 1
      /\ \A i \in 1..Len(status_topic') : status_topic'[i] = status_topic[i + 1]
  BY HeadTailProperties
<1>3. DOMAIN status_topic' = 1..(Len(status_topic) - 1)
  BY <1>2, LenProperties
<1>4. Head(status_topic) = status_topic[1]
  OBVIOUS
<1>5. QED
  BY <1>1, <1>2, <1>3, <1>4

\* What the planner's answer to a goal does to the link: a rejection puts one
\* last word in the queue, an acceptance makes the goal the one flown.
LEMMA TookGoal ==
  ASSUME TypeOK, NewestOnly, TakeGoal, UNCHANGED gate
  PROVE  /\ goal_topic = published /\ goal_topic # 0 /\ goal_topic' = 0
         /\ received' = published
         /\ said' \in [bit : {0, 1}, statuses : Seq(Statuses), about : 0..MaxGoals]
         /\ status_topic' \in Seq(Messages)
         /\ \A i \in DOMAIN status_topic :
              i \in DOMAIN status_topic' /\ status_topic'[i] = status_topic[i]
         /\ \/ /\ current' = current
               /\ \E k \in DOMAIN status_topic' \ DOMAIN status_topic :
                    LastWords' = LastWords \cup {k} /\ status_topic'[k].about = published
            \/ current' = published /\ LastWords' = LastWords
<1>1. /\ goal_topic = published /\ goal_topic # 0 /\ goal_topic' = 0
      /\ received' = published /\ published \in 1..MaxGoals
  BY DEF TypeOK, NewestOnly, TakeGoal
<1>2. status_topic \in Seq(Messages) /\ said.bit \in {0, 1} /\ Deliver
  BY DEF TypeOK, TakeGoal
<1>3. CASE Planner!Reject
  <2>1. PICK reason \in Reasons :
          said' = [bit |-> 1 - said.bit, statuses |-> << <<"rejected", reason>> >>,
                   about |-> published]
    BY <1>1, <1>3 DEF Planner!Reject, Planner!Say
  <2>2. << <<"rejected", reason>> >> \in Seq(Statuses) /\ Len(<< <<"rejected", reason>> >>) = 1
    BY DEF Statuses
  <2>3. /\ said'.statuses = << <<"rejected", reason>> >>
        /\ said'.about = published
        /\ said' \in [bit : {0, 1}, statuses : Seq(Statuses), about : 0..MaxGoals]
    BY <1>1, <1>2, <2>1, <2>2
  <2> DEFINE k == Len(status_topic) + 1
  <2>4. /\ status_topic' \in Seq(Messages)
        /\ DOMAIN status_topic = 1..Len(status_topic) /\ Len(status_topic) \in Nat
        /\ DOMAIN status_topic' = 1..k
        /\ \A i \in 1..Len(status_topic) : status_topic'[i] = status_topic[i]
        /\ status_topic'[k] = [status |-> <<"rejected", reason>>, about |-> published]
    <3>1. said'.statuses \in Seq(Statuses) /\ said'.about \in 1..MaxGoals
      BY <1>1, <2>2, <2>3
    <3>2. Len(said'.statuses) = 1 /\ said'.statuses[1] = <<"rejected", reason>>
      BY <2>2, <2>3
    <3>3. QED
      BY <1>2, <2>3, <3>1, <3>2, Delivered
  <2>5. LastWords' = LastWords \cup {k}
    BY <2>4 DEF LastWords, Terminal
  <2>6. current' = current
    BY <1>3 DEF Planner!Reject
  <2>7. QED
    BY <1>1, <2>3, <2>4, <2>5, <2>6
<1>4. CASE Planner!Accept
  <2>1. said' = [bit |-> 1 - said.bit,
                 statuses |-> << <<"accepted:safety_bubble">>, <<"accepted">> >>,
                 about |-> published]
    BY <1>1, <1>4 DEF Planner!Accept, Planner!Say
  <2>2. /\ << <<"accepted:safety_bubble">>, <<"accepted">> >> \in Seq(Statuses)
        /\ Len(<< <<"accepted:safety_bubble">>, <<"accepted">> >>) = 2
    BY DEF Statuses
  <2>3. /\ said'.statuses = << <<"accepted:safety_bubble">>, <<"accepted">> >>
        /\ said'.about = published
        /\ said' \in [bit : {0, 1}, statuses : Seq(Statuses), about : 0..MaxGoals]
    BY <1>1, <1>2, <2>1, <2>2
  <2> DEFINE k == Len(status_topic)
  <2>4. /\ status_topic' \in Seq(Messages)
        /\ DOMAIN status_topic = 1..k /\ k \in Nat
        /\ DOMAIN status_topic' = 1..(k + 2)
        /\ \A i \in 1..k : status_topic'[i] = status_topic[i]
        /\ status_topic'[k + 1] = [status |-> <<"accepted:safety_bubble">>, about |-> published]
        /\ status_topic'[k + 2] = [status |-> <<"accepted">>, about |-> published]
    BY <1>1, <1>2, <2>2, <2>3, Delivered
  <2>5. LastWords' = LastWords
    BY <2>4 DEF LastWords, Terminal
  <2>6. current' = published
    BY <1>1, <1>4 DEF Planner!Accept
  <2>7. QED
    BY <1>1, <2>3, <2>4, <2>5, <2>6
<1>5. QED
  BY <1>3, <1>4 DEF TakeGoal

\* An arrival puts the last word on the goal flown in the queue.
LEMMA ReachedGoal ==
  ASSUME TypeOK, ReachGoal
  PROVE  /\ current # 0 /\ current' = 0
         /\ UNCHANGED <<goal_topic, received>>
         /\ said' \in [bit : {0, 1}, statuses : Seq(Statuses), about : 0..MaxGoals]
         /\ status_topic' \in Seq(Messages)
         /\ \A i \in DOMAIN status_topic :
              i \in DOMAIN status_topic' /\ status_topic'[i] = status_topic[i]
         /\ \E k \in DOMAIN status_topic' \ DOMAIN status_topic :
              LastWords' = LastWords \cup {k} /\ status_topic'[k].about = current
<1>1. /\ current # 0 /\ current' = 0 /\ current \in 1..MaxGoals
      /\ UNCHANGED <<goal_topic, received>>
      /\ said' = [bit |-> 1 - said.bit, statuses |-> << <<"reached">> >>, about |-> current]
  BY DEF TypeOK, ReachGoal, Planner!Reach, Planner!Say
<1>2. status_topic \in Seq(Messages) /\ said.bit \in {0, 1} /\ Deliver
  BY DEF TypeOK, ReachGoal
<1>3. << <<"reached">> >> \in Seq(Statuses) /\ Len(<< <<"reached">> >>) = 1
  BY DEF Statuses
<1>4. /\ said'.statuses = << <<"reached">> >>
      /\ said'.about = current
      /\ said' \in [bit : {0, 1}, statuses : Seq(Statuses), about : 0..MaxGoals]
  BY <1>1, <1>2, <1>3
<1> DEFINE k == Len(status_topic) + 1
<1>5. /\ status_topic' \in Seq(Messages)
      /\ DOMAIN status_topic = 1..Len(status_topic) /\ Len(status_topic) \in Nat
      /\ DOMAIN status_topic' = 1..k
      /\ \A i \in 1..Len(status_topic) : status_topic'[i] = status_topic[i]
      /\ status_topic'[k] = [status |-> <<"reached">>, about |-> current]
  BY <1>1, <1>2, <1>3, <1>4, Delivered
<1>6. LastWords' = LastWords \cup {k}
  BY <1>5 DEF LastWords, Terminal
<1>7. \A i \in DOMAIN status_topic : i \in DOMAIN status_topic' /\ status_topic'[i] = status_topic[i]
  BY <1>5
<1>8. k \in DOMAIN status_topic' \ DOMAIN status_topic /\ status_topic'[k].about = current
  BY <1>5
<1> HIDE DEF k
<1>9. \E j \in DOMAIN status_topic' \ DOMAIN status_topic :
        LastWords' = LastWords \cup {j} /\ status_topic'[j].about = current
  BY <1>6, <1>8
<1>10. status_topic' \in Seq(Messages)
  BY <1>5
<1> QED
  BY <1>1, <1>4, <1>7, <1>9, <1>10

\* Reading a status moves the last words of the queue one place forward.
LEMMA StatusRead ==
  ASSUME TypeOK, OnPlannerStatus
  PROVE  /\ status_topic' \in Seq(Messages)
         /\ Terminal(Head(status_topic).status) <=> 1 \in LastWords
         /\ \A i \in LastWords : i = 1 \/ i - 1 \in LastWords'
         /\ \A i \in LastWords' : i + 1 \in LastWords /\ status_topic'[i] = status_topic[i + 1]
         /\ \A i \in LastWords : i \in Nat \ {0}
         /\ \A i \in LastWords : i = 1 \/ status_topic'[i - 1] = status_topic[i]
<1>1. status_topic \in Seq(Messages) /\ status_topic # << >> /\ status_topic' = Tail(status_topic)
  BY DEF TypeOK, OnPlannerStatus
<1>2. /\ status_topic' \in Seq(Messages)
      /\ Head(status_topic) = status_topic[1]
      /\ Len(status_topic) \in Nat \ {0}
      /\ DOMAIN status_topic = 1..Len(status_topic)
      /\ DOMAIN status_topic' = 1..(Len(status_topic) - 1)
      /\ \A i \in 1..(Len(status_topic) - 1) : status_topic'[i] = status_topic[i + 1]
  BY <1>1, Dequeued
<1>3. Terminal(Head(status_topic).status) <=> 1 \in LastWords
  BY <1>2 DEF LastWords
<1>4. ASSUME NEW i \in LastWords, i # 1
      PROVE  i - 1 \in LastWords' /\ status_topic'[i - 1] = status_topic[i]
  <2>1. i \in 1..Len(status_topic) /\ Terminal(status_topic[i].status)
    BY <1>2 DEF LastWords
  <2>2. i - 1 \in 1..(Len(status_topic) - 1) /\ (i - 1) + 1 = i
    BY <1>2, <1>4, <2>1
  <2>3. status_topic'[i - 1] = status_topic[i]
    BY <1>2, <2>2
  <2>4. QED
    BY <1>2, <2>1, <2>2, <2>3 DEF LastWords, Terminal
<1>5. ASSUME NEW i \in LastWords'
      PROVE  i + 1 \in LastWords /\ status_topic'[i] = status_topic[i + 1]
  <2>1. i \in 1..(Len(status_topic) - 1) /\ Terminal(status_topic'[i].status)
    BY <1>2 DEF LastWords, Terminal
  <2>2. QED
    BY <1>2, <2>1 DEF LastWords
<1>6. \A i \in LastWords : i \in Nat \ {0}
  BY <1>2 DEF LastWords
<1>7. QED
  BY <1>2, <1>3, <1>4, <1>5, <1>6

-----------------------------------------------------------------------------
(* Decisions *)

\* A cell decided for is a cell of the grid.
LEMMA DecisionIsCell ==
  ASSUME NEW answer \in Answers, NEW scan,
         NEW r \in IF Candidates(answer, scan) = {} THEN {NoRegion} ELSE Candidates(answer, scan)
  PROVE  r \in Regions \cup {NoRegion}
<1>1. NamedCell(answer) \subseteq Regions
  BY DEF NamedCell, Answers
<1>2. QED
  BY <1>1 DEF Candidates, TargetCell, OpenSpace, OpenCells

\* The filter counts up to consistency_required.
LEMMA ObserveType ==
  ASSUME TypeOK, NEW r \in Regions \cup {NoRegion}
  PROVE  Observe(r) \in [region : Regions \cup {NoRegion}, count : 0..ConsistencyRequired]
BY ThresholdsAssumption DEF TypeOK, Observe, NoAgreement

\* LastFew keeps the end of a sequence.
LEMMA LastFewOf ==
  ASSUME NEW S, NEW s \in Seq(S)
  PROVE  /\ LastFew(s) \in Seq(S)
         /\ Len(LastFew(s)) = IF Len(s) <= ConsistencyRequired THEN Len(s) ELSE ConsistencyRequired
         /\ \A i \in 1..Len(LastFew(s)) : LastFew(s)[i] = s[Len(s) - Len(LastFew(s)) + i]
<1>1. Len(s) \in Nat /\ \A i \in 1..Len(s) : s[i] \in S
  BY LenProperties, ElementOfSeq
<1>2. CASE Len(s) <= ConsistencyRequired
  BY <1>1, <1>2, ThresholdsAssumption DEF LastFew
<1>3. CASE ~(Len(s) <= ConsistencyRequired)
  <2> DEFINE m == Len(s) - ConsistencyRequired + 1
  <2>1. /\ m \in Int /\ m >= 1 /\ m <= Len(s) /\ Len(s) - m + 1 = ConsistencyRequired
        /\ LastFew(s) = SubSeq(s, m, Len(s))
    BY <1>1, <1>3, ThresholdsAssumption DEF LastFew
  <2>2. \A i \in m..Len(s) : s[i] \in S
    BY <1>1, <2>1
  <2> HIDE DEF m
  <2>3. /\ LastFew(s) \in Seq(S)
        /\ Len(LastFew(s)) = ConsistencyRequired
        /\ \A i \in 1..ConsistencyRequired : LastFew(s)[i] = s[m + i - 1]
    BY <1>1, <2>1, <2>2, SubSeqProperties
  <2>4. \A i \in 1..ConsistencyRequired : m + i - 1 = Len(s) - ConsistencyRequired + i
    BY <1>1, ThresholdsAssumption DEF m
  <2>5. QED
    BY <1>3, <2>3, <2>4
<1>4. QED
  BY <1>2, <1>3

\* One more decision, kept with the last few.
LEMMA OneMore ==
  ASSUME NEW S, NEW s \in Seq(S), NEW r \in S, Len(s) <= ConsistencyRequired,
         NEW t, t = LastFew(Append(s, r))
  PROVE  /\ t \in Seq(S)
         /\ Len(t) = IF Len(s) < ConsistencyRequired THEN Len(s) + 1 ELSE ConsistencyRequired
         /\ t[Len(t)] = r
         /\ \A i \in 1..(Len(t) - 1) : t[i] = s[Len(s) - Len(t) + i + 1]
<1> DEFINE u == Append(s, r)
<1>1. /\ Len(s) \in Nat /\ u \in Seq(S) /\ Len(u) = Len(s) + 1 /\ u[Len(s) + 1] = r
      /\ \A i \in 1..Len(s) : u[i] = s[i]
  BY LenProperties
<1>2. t = LastFew(u)
  OBVIOUS
<1> HIDE DEF u
<1>3. /\ t \in Seq(S)
      /\ Len(t) = IF Len(u) <= ConsistencyRequired THEN Len(u) ELSE ConsistencyRequired
      /\ \A i \in 1..Len(t) : t[i] = u[Len(u) - Len(t) + i]
  BY <1>1, <1>2, LastFewOf
<1>4. /\ Len(t) = IF Len(s) < ConsistencyRequired THEN Len(s) + 1 ELSE ConsistencyRequired
      /\ Len(t) \in 1..Len(u)
  BY <1>1, <1>3, ThresholdsAssumption
<1>5. t[Len(t)] = r
  <2>1. Len(t) \in 1..Len(t) /\ Len(u) - Len(t) + Len(t) = Len(s) + 1
    BY <1>1, <1>4
  <2>2. QED
    BY <1>1, <1>3, <2>1
<1>6. ASSUME NEW i \in 1..(Len(t) - 1)
      PROVE  t[i] = s[Len(s) - Len(t) + i + 1]
  <2>1. i \in 1..Len(t) /\ Len(u) - Len(t) + i = Len(s) - Len(t) + i + 1
    BY <1>1, <1>4
  <2>2. Len(s) - Len(t) + i + 1 \in 1..Len(s)
    BY <1>1, <1>4
  <2>3. t[i] = u[Len(u) - Len(t) + i]
    BY <1>3, <2>1
  <2>4. u[Len(s) - Len(t) + i + 1] = s[Len(s) - Len(t) + i + 1]
    BY <1>1, <2>2
  <2>5. QED
    BY <2>1, <2>3, <2>4
<1>7. QED
  BY <1>3, <1>4, <1>5, <1>6

-----------------------------------------------------------------------------
(* The invariants *)

\* A publication makes the newest goal the unread one and the one held.
LEMMA Published ==
  ASSUME TypeOK, NewestOnly, NEW r, PublishGoal(r)
  PROVE  /\ published' = published + 1 /\ published' \in 1..MaxGoals
         /\ goal_topic' = published' /\ active_goal' = published' /\ active_region' = r
         /\ received < published'
         /\ active_unsafe_count' = 0
         /\ last_published_goal' \in Places
BY ThresholdsAssumption DEF TypeOK, NewestOnly, PublishGoal

\* A publication keeps the types, and its goal is the newest.
LEMMA PublicationFits ==
  ASSUME TypeOK, NewestOnly, NEW r \in Regions, PublishGoal(r),
         UNCHANGED <<params, status_topic, received, current, said>>,
         decision' \in Regions \cup {NoRegion},
         consensus' \in [region : Regions \cup {NoRegion}, count : 0..ConsistencyRequired],
         lately' \in Seq(Regions \cup {NoRegion}),
         taken_away' \in BOOLEAN
  PROVE  TypeOK' /\ NewestOnly'
<1>1. /\ published' \in 1..MaxGoals /\ goal_topic' = published' /\ active_goal' = published'
      /\ active_region' = r /\ received < published' /\ active_unsafe_count' = 0
      /\ last_published_goal' \in Places
  BY Published
<1>2. NewestOnly'
  <2>1. goal_topic' # 0 /\ received' < published'
    BY <1>1
  <2>2. {active_goal', goal_topic'} \subseteq {0, published'}
    BY <1>1
  <2> QED
    BY <2>1, <2>2 DEF NewestOnly
<1>3. goal_topic' \in 0..MaxGoals /\ published' \in 0..MaxGoals /\ active_goal' \in 0..published'
  BY <1>1, ThresholdsAssumption
<1>4. active_unsafe_count' \in 0..(SafetyLossRequired - 1)
  BY <1>1, ThresholdsAssumption
<1>5. active_region' \in Regions \cup {NoRegion} /\ last_published_goal' \in Places \cup {NoPlace}
  BY <1>1
<1>6. /\ status_topic' \in Seq(Messages) /\ received' \in 0..MaxGoals /\ current' \in 0..MaxGoals
      /\ said' \in [bit : {0, 1}, statuses : Seq(Statuses), about : 0..MaxGoals]
      /\ params' \in [target : BOOLEAN, use_vlm : BOOLEAN, auto : BOOLEAN]
  BY DEF TypeOK
<1>7. TypeOK'
  BY <1>3, <1>4, <1>5, <1>6 DEF TypeOK
<1> QED
  BY <1>2, <1>7

\* Every step keeps the types and has one goal, the newest, on its way.
LEMMA NextType ==
  ASSUME TypeOK, NewestOnly, AgreementIsRecent, [Next]_vars
  PROVE  TypeOK' /\ NewestOnly'
<1> USE ThresholdsAssumption
<1> DEFINE Cells == Regions \cup {NoRegion}
<1>1. ASSUME NEW answer \in Answers, NEW scan \in Scans \cup {NoDepth}, OnResult(answer, scan)
      PROVE  TypeOK' /\ NewestOnly'
  <2>1. PICK r \in IF Candidates(answer, scan) = {} THEN {NoRegion} ELSE Candidates(answer, scan) :
          /\ decision' = r
          /\ consensus' = IF Lost(scan) THEN NoAgreement ELSE Observe(r)
          /\ lately' = IF Lost(scan) THEN << >> ELSE LastFew(Append(lately, r))
          /\ taken_away' = (taken_away \/ Lost(scan))
          /\ \/ /\ Watch(scan)
                /\ UNCHANGED <<goal_topic, last_published_goal, published>>
             \/ CanPublish(r, consensus', active_goal # 0 /\ ~Lost(scan)) /\ PublishGoal(r)
          /\ UNCHANGED <<params, status_topic, planner>>
    BY <1>1 DEF OnResult
  <2>2. r \in Cells
    BY DecisionIsCell
  <2>3. consensus' \in [region : Cells, count : 0..ConsistencyRequired]
    BY <2>1, <2>2, ObserveType DEF NoAgreement
  <2>4. lately' \in Seq(Cells)
    <3>1. LastFew(Append(lately, r)) \in Seq(Cells)
      BY <2>2, OneMore DEF TypeOK, AgreementIsRecent
    <3>2. QED
      BY <2>1, <3>1
  <2>5. /\ UNCHANGED <<params, status_topic, received, current, said>>
        /\ decision' \in Cells
        /\ taken_away' \in BOOLEAN
    BY <2>1, <2>2 DEF planner, TypeOK
  <2>6. CASE Watch(scan) /\ UNCHANGED <<goal_topic, last_published_goal, published>>
    <3>1. active_goal' \in {0, active_goal} /\ active_region' \in Cells
      BY <2>6 DEF Watch, Release, TypeOK
    <3>2. active_unsafe_count' \in 0..(SafetyLossRequired - 1)
      <4>1. CASE Lost(scan)
        <5>1. active_unsafe_count' = 0
          BY <2>6, <4>1 DEF Watch, Release
        <5> QED
          BY <5>1
      <4>2. CASE ~Lost(scan)
        <5>1. active_unsafe_count' \in {0, active_unsafe_count}
                \/ (Unsafe(scan) /\ active_unsafe_count' = active_unsafe_count + 1)
          BY <2>6, <4>2 DEF Watch
        <5>2. active_unsafe_count \in 0..(SafetyLossRequired - 1)
          BY DEF TypeOK
        <5>3. ~Unsafe(scan) \/ ~(active_unsafe_count + 1 >= SafetyLossRequired)
          BY <4>2 DEF Lost
        <5>4. SafetyLossRequired \in Nat \ {0} /\ active_unsafe_count \in Nat
          BY <5>2, ThresholdsAssumption
        <5>5. CASE active_unsafe_count' \in {0, active_unsafe_count}
          BY <5>2, <5>4, <5>5
        <5>6. CASE Unsafe(scan) /\ active_unsafe_count' = active_unsafe_count + 1
          BY <5>3, <5>4, <5>6
        <5> QED
          BY <5>1, <5>5, <5>6
      <4> QED
        BY <4>1, <4>2
    <3>3. QED
      BY <2>3, <2>4, <2>5, <2>6, <3>1, <3>2 DEF TypeOK, NewestOnly
  <2>7. CASE CanPublish(r, consensus', active_goal # 0 /\ ~Lost(scan)) /\ PublishGoal(r)
    <3>1. r \in Regions
      BY <2>2, <2>7 DEF CanPublish
    <3>2. QED
      BY <2>3, <2>4, <2>5, <2>7, <3>1, PublicationFits
  <2>8. QED
    BY <2>1, <2>6, <2>7
<1>2. CASE OnExecuteNext
  <2>1. decision \in Regions /\ PublishGoal(decision)
    BY <1>2 DEF OnExecuteNext, CanPublish, TypeOK
  <2>2. /\ UNCHANGED <<params, status_topic, received, current, said>>
        /\ UNCHANGED <<decision, consensus, lately, taken_away>>
    BY <1>2 DEF OnExecuteNext, planner
  <2>3. /\ decision' \in Cells /\ lately' \in Seq(Cells) /\ taken_away' \in BOOLEAN
        /\ consensus' \in [region : Cells, count : 0..ConsistencyRequired]
    BY <2>2 DEF TypeOK
  <2>4. QED
    BY <2>1, <2>2, <2>3, PublicationFits
<1>3. CASE OnPlannerStatus
  <2>1. status_topic' \in Seq(Messages)
    BY <1>3, StatusRead
  <2>2. /\ UNCHANGED <<params, decision, published, taken_away, goal_topic, received, current, said>>
        /\ last_published_goal' \in {NoPlace, last_published_goal}
    BY <1>3 DEF OnPlannerStatus, planner
  <2>3. \/ /\ active_goal' = 0 /\ active_region' = NoRegion /\ active_unsafe_count' = 0
           /\ consensus' = NoAgreement /\ lately' = << >>
        \/ UNCHANGED <<active_goal, active_region, active_unsafe_count, consensus, lately>>
    BY <1>3 DEF OnPlannerStatus, Release
  <2>4. consensus' \in [region : Cells, count : 0..ConsistencyRequired] /\ lately' \in Seq(Cells)
    <3>1. consensus' \in {consensus, NoAgreement} /\ lately' \in {lately, << >>}
      BY <2>3
    <3>2. NoAgreement \in [region : Cells, count : 0..ConsistencyRequired]
      BY DEF NoAgreement
    <3>3. << >> \in Seq(Cells)
      OBVIOUS
    <3>4. QED
      BY <3>1, <3>2, <3>3 DEF TypeOK
  <2>5. /\ active_goal' \in {0, active_goal} /\ active_region' \in {NoRegion, active_region}
        /\ active_unsafe_count' \in {0, active_unsafe_count}
    BY <2>3
  <2>6. NewestOnly'
    BY <2>2, <2>5 DEF NewestOnly
  <2>7. TypeOK'
    BY <2>1, <2>2, <2>4, <2>5 DEF TypeOK
  <2>8. QED
    BY <2>6, <2>7
<1>4. CASE TakeGoal /\ UNCHANGED gate
  <2>1. current' \in {current, published} /\ published \in 1..MaxGoals
    BY <1>4, TookGoal DEF TypeOK, NewestOnly
  <2>2. /\ status_topic' \in Seq(Messages) /\ goal_topic' = 0 /\ received' = published
        /\ said' \in [bit : {0, 1}, statuses : Seq(Statuses), about : 0..MaxGoals]
        /\ UNCHANGED gate
    BY <1>4, TookGoal
  <2>3. NewestOnly'
    BY <2>2 DEF gate, NewestOnly
  <2>4. TypeOK'
    BY <2>1, <2>2 DEF gate, TypeOK
  <2>5. QED
    BY <2>3, <2>4
<1>5. CASE ReachGoal /\ UNCHANGED gate
  <2>1. /\ status_topic' \in Seq(Messages) /\ current' = 0 /\ UNCHANGED <<goal_topic, received>>
        /\ said' \in [bit : {0, 1}, statuses : Seq(Statuses), about : 0..MaxGoals]
    BY <1>5, ReachedGoal
  <2>2. UNCHANGED gate
    BY <1>5
  <2>3. NewestOnly'
    BY <2>1, <2>2 DEF gate, NewestOnly
  <2>4. TypeOK'
    BY <2>1, <2>2 DEF gate, TypeOK
  <2>5. QED
    BY <2>3, <2>4
<1>6. CASE UNCHANGED vars
  BY <1>6 DEF vars, link, gate, TypeOK, NewestOnly
<1>7. QED
  BY <1>1, <1>2, <1>3, <1>4, <1>5, <1>6 DEF Next

\* While a goal is held, it is unread, flown, or its last word is in the queue.
LEMMA NextWaits ==
  ASSUME TypeOK, NewestOnly, WaitsForAnAnswer, [Next]_vars
  PROVE  WaitsForAnAnswer'
<1> DEFINE Answered(n) == \E i \in LastWords : status_topic[i].about = n
<1>0. WaitsForAnAnswer <=>
        (active_goal # 0 => goal_topic = active_goal \/ current = active_goal \/ Answered(active_goal))
  BY DEF WaitsForAnAnswer, Pending, LastWords
<1>00. WaitsForAnAnswer' <=>
        (active_goal' # 0 => \/ goal_topic' = active_goal' \/ current' = active_goal'
                             \/ \E i \in LastWords' : status_topic'[i].about = active_goal')
  BY DEF WaitsForAnAnswer, Pending, LastWords, Terminal
<1>1. ASSUME UNCHANGED <<status_topic, current>>,
             active_goal' \in {0, active_goal}, UNCHANGED goal_topic
      PROVE  WaitsForAnAnswer'
  BY <1>1 DEF WaitsForAnAnswer, Pending, Terminal
<1>2. ASSUME NEW r, PublishGoal(r)
      PROVE  WaitsForAnAnswer'
  BY <1>2, <1>00 DEF PublishGoal
<1>3. ASSUME NEW answer \in Answers, NEW scan \in Scans \cup {NoDepth}, OnResult(answer, scan)
      PROVE  WaitsForAnAnswer'
  <2>1. UNCHANGED <<status_topic, current>>
    BY <1>3 DEF OnResult, planner
  <2>2. CASE Watch(scan) /\ UNCHANGED goal_topic
    BY <1>1, <2>1, <2>2 DEF Watch, Release
  <2>3. CASE \E r : PublishGoal(r)
    BY <1>2, <2>3
  <2>4. QED
    BY <1>3, <2>2, <2>3 DEF OnResult
<1>4. CASE OnExecuteNext
  BY <1>2, <1>4 DEF OnExecuteNext
<1>5. CASE OnPlannerStatus
  <2>1. UNCHANGED <<goal_topic, current>>
    BY <1>5 DEF OnPlannerStatus, planner
  <2>2. CASE active_goal' = 0
    BY <2>2, <1>00
  <2>3. CASE active_goal' # 0
    <3>1. UNCHANGED active_goal /\ ~Terminal(Head(status_topic).status)
      BY <1>5, <2>3 DEF OnPlannerStatus, Release
    <3>2. CASE Answered(active_goal)
      <4>1. PICK i \in LastWords : status_topic[i].about = active_goal
        BY <3>2
      <4>2. i - 1 \in LastWords' /\ status_topic'[i - 1] = status_topic[i]
        BY <1>5, <3>1, <4>1, StatusRead
      <4>3. QED
        BY <1>00, <3>1, <4>1, <4>2
    <3>3. QED
      BY <1>0, <1>00, <2>1, <2>3, <3>1, <3>2
  <2>4. QED
    BY <2>2, <2>3
<1>6. CASE TakeGoal /\ UNCHANGED gate
  <2>1. UNCHANGED active_goal /\ active_goal \in {0, published}
    BY <1>6 DEF gate, NewestOnly
  <2>2. CASE current' = published
    BY <1>00, <2>1, <2>2
  <2>3. CASE current' # published
    <3>1. PICK k \in LastWords' : status_topic'[k].about = published
      BY <1>6, <2>3, TookGoal
    <3>2. QED
      BY <1>00, <2>1, <3>1
  <2>4. QED
    BY <2>2, <2>3
<1>7. CASE ReachGoal /\ UNCHANGED gate
  <2>1. UNCHANGED <<active_goal, goal_topic>>
    BY <1>7, ReachedGoal DEF gate
  <2>2. PICK k : /\ LastWords' = LastWords \cup {k} /\ status_topic'[k].about = current
                 /\ \A i \in LastWords : status_topic'[i] = status_topic[i]
    BY <1>7, ReachedGoal DEF LastWords
  <2>3. QED
    BY <1>0, <1>00, <2>1, <2>2
<1>8. CASE UNCHANGED vars
  BY <1>1, <1>8 DEF vars, link, gate
<1>9. QED
  BY <1>3, <1>4, <1>5, <1>6, <1>7, <1>8 DEF Next

\* Before the watchdog takes a goal away, the goal held is in one place only.
LEMMA NextInStep ==
  ASSUME TypeOK, NewestOnly, InStep, OnePlace, [Next]_vars
  PROVE  InStep' /\ OnePlace'
<1>0. SUFFICES ASSUME ~taken_away'
               PROVE  InStep' /\ OnePlace'
  BY DEF InStep, OnePlace
<1>1. ~taken_away
  <2>1. ASSUME NEW answer, NEW scan, OnResult(answer, scan)
        PROVE  ~taken_away
    BY <1>0, <2>1, Zenon DEF OnResult
  <2>2. CASE UNCHANGED taken_away
    BY <1>0, <2>2
  <2>3. OnExecuteNext \/ OnPlannerStatus \/ UNCHANGED gate \/ UNCHANGED vars
          => UNCHANGED taken_away
    BY DEF OnExecuteNext, OnPlannerStatus, gate, vars
  <2>4. QED
    BY <2>1, <2>2, <2>3 DEF Next
<1>2. /\ goal_topic \in {0, active_goal}
      /\ current \in {0, active_goal}
      /\ \A i \in LastWords : status_topic[i].about = active_goal
      /\ goal_topic = 0 \/ current = 0
      /\ goal_topic # 0 \/ current # 0 => LastWords = {}
      /\ \A i, j \in LastWords : i = j
  BY <1>1 DEF InStep, OnePlace, LastWords
<1>3. ASSUME /\ goal_topic' \in {0, active_goal'}
             /\ current' \in {0, active_goal'}
             /\ \A i \in LastWords' : status_topic'[i].about = active_goal'
             /\ goal_topic' = 0 \/ current' = 0
             /\ goal_topic' # 0 \/ current' # 0 => LastWords' = {}
             /\ \A i, j \in LastWords' : i = j
      PROVE  InStep' /\ OnePlace'
  BY <1>3 DEF InStep, OnePlace, LastWords, Terminal
<1>4. ASSUME UNCHANGED <<goal_topic, status_topic, current, active_goal>>
      PROVE  InStep' /\ OnePlace'
  BY <1>2, <1>4 DEF InStep, OnePlace, LastWords, Terminal
<1>5. ASSUME NEW r, PublishGoal(r), active_goal = 0, UNCHANGED <<status_topic, current>>
      PROVE  InStep' /\ OnePlace'
  <2>1. goal_topic' = active_goal' /\ current = 0 /\ goal_topic = 0
    BY <1>2, <1>5 DEF PublishGoal
  <2>2. LastWords' = LastWords
    BY <1>5 DEF LastWords, Terminal
  <2>3. LastWords = {}
    <3>1. SUFFICES ASSUME NEW i \in LastWords PROVE FALSE
      OBVIOUS
    <3>2. status_topic[i].about = 0
      BY <1>2, <1>5
    <3>3. i \in 1..Len(status_topic) /\ status_topic[i] \in Messages
      BY LenProperties, ElementOfSeq DEF TypeOK, LastWords
    <3>4. QED
      BY <3>2, <3>3 DEF Messages
  <2>4. QED
    BY <1>3, <1>5, <2>1, <2>2, <2>3
<1>6. ASSUME NEW answer \in Answers, NEW scan \in Scans \cup {NoDepth}, OnResult(answer, scan)
      PROVE  InStep' /\ OnePlace'
  <2>1. ~Lost(scan) /\ UNCHANGED <<status_topic, current>>
    BY <1>0, <1>6 DEF OnResult, planner
  <2>2. CASE Watch(scan) /\ UNCHANGED goal_topic
    BY <1>4, <2>1, <2>2 DEF Watch
  <2>3. CASE \E r : CanPublish(r, consensus', active_goal # 0 /\ ~Lost(scan)) /\ PublishGoal(r)
    BY <1>5, <2>1, <2>3 DEF CanPublish
  <2>4. QED
    BY <1>6, <2>2, <2>3 DEF OnResult
<1>7. CASE OnExecuteNext
  BY <1>5, <1>7 DEF OnExecuteNext, CanPublish, planner
<1>8. CASE OnPlannerStatus
  <2>1. /\ UNCHANGED <<goal_topic, current>>
        /\ IF Terminal(Head(status_topic).status) /\ active_goal # 0 THEN active_goal' = 0
           ELSE UNCHANGED active_goal
    BY <1>8 DEF OnPlannerStatus, Release, planner
  <2>2. /\ Terminal(Head(status_topic).status) <=> 1 \in LastWords
        /\ \A i \in LastWords' : i + 1 \in LastWords /\ status_topic'[i] = status_topic[i + 1]
        /\ \A i \in LastWords' : i \in Nat \ {0}
    <3>1. DOMAIN status_topic' = 1..Len(status_topic')
      BY <1>8, StatusRead, LenProperties
    <3>2. QED
      BY <1>8, <3>1, StatusRead DEF LastWords
  <2>3. CASE Terminal(Head(status_topic).status)
    <3>1. LastWords' = {}
      BY <1>2, <2>2, <2>3
    <3>2. goal_topic = 0 /\ current = 0
      BY <1>2, <2>2, <2>3
    <3>3. QED
      BY <1>3, <2>1, <3>1, <3>2
  <2>4. CASE ~Terminal(Head(status_topic).status)
    <3>1. UNCHANGED active_goal
      BY <2>1, <2>4
    <3>2. \A i, j \in LastWords' : i = j
      BY <1>2, <2>2
    <3>3. LastWords = {} => LastWords' = {}
      BY <2>2
    <3>4. \A i \in LastWords' : status_topic'[i].about = active_goal
      BY <1>2, <2>2
    <3>5. QED
      BY <1>2, <1>3, <2>1, <3>1, <3>2, <3>3, <3>4
  <2>5. QED
    BY <2>3, <2>4
<1>9. CASE TakeGoal /\ UNCHANGED gate
  <2>1. UNCHANGED active_goal /\ goal_topic = active_goal /\ active_goal = published
    BY <1>2, <1>9, TookGoal DEF gate
  <2>2. LastWords = {} /\ current = 0 /\ goal_topic' = 0
    BY <1>2, <1>9, TookGoal
  <2>3. CASE current' = published /\ LastWords' = LastWords
    BY <1>3, <2>1, <2>2, <2>3
  <2>4. CASE current' = current /\ \E k \in DOMAIN status_topic' :
               LastWords' = LastWords \cup {k} /\ status_topic'[k].about = published
    BY <1>3, <2>1, <2>2, <2>4
  <2>5. QED
    BY <1>9, <2>3, <2>4, TookGoal
<1>10. CASE ReachGoal /\ UNCHANGED gate
  <2>1. /\ UNCHANGED active_goal /\ current = active_goal /\ current' = 0
        /\ goal_topic' = 0 /\ LastWords = {}
    BY <1>2, <1>10, ReachedGoal DEF gate
  <2>2. PICK k : LastWords' = {k} /\ status_topic'[k].about = active_goal
    BY <1>10, <2>1, ReachedGoal
  <2>3. QED
    BY <1>3, <2>1, <2>2
<1>11. CASE UNCHANGED vars
  BY <1>4, <1>11 DEF vars, link, gate
<1>12. QED
  BY <1>6, <1>7, <1>8, <1>9, <1>10, <1>11 DEF Next

\* The agreement counts decisions that are all among the last few.
LEMMA NextAgreement ==
  ASSUME TypeOK, AgreementIsRecent, [Next]_vars
  PROVE  AgreementIsRecent'
<1> USE ThresholdsAssumption
<1> DEFINE Cells == Regions \cup {NoRegion}
<1>1. ASSUME UNCHANGED <<decision, consensus, lately>>
      PROVE  AgreementIsRecent'
  BY <1>1 DEF AgreementIsRecent
<1>2. ASSUME consensus' = NoAgreement, lately' = << >>
      PROVE  AgreementIsRecent'
  BY <1>2 DEF AgreementIsRecent, NoAgreement
<1>3. ASSUME NEW answer \in Answers, NEW scan \in Scans \cup {NoDepth}, OnResult(answer, scan)
      PROVE  AgreementIsRecent'
  <2>1. PICK r \in IF Candidates(answer, scan) = {} THEN {NoRegion} ELSE Candidates(answer, scan) :
          /\ decision' = r
          /\ consensus' = IF Lost(scan) THEN NoAgreement ELSE Observe(r)
          /\ lately' = IF Lost(scan) THEN << >> ELSE LastFew(Append(lately, r))
    BY <1>3 DEF OnResult
  <2>2. CASE Lost(scan)
    BY <1>2, <2>1, <2>2
  <2>3. CASE ~Lost(scan)
    <3> DEFINE n == Len(lately)
               m == Len(lately')
               c == consensus.count
    <3>1. /\ r \in Cells /\ lately \in Seq(Cells) /\ n \in Nat /\ n <= ConsistencyRequired
          /\ c \in 0..ConsistencyRequired /\ c <= n
      BY DecisionIsCell, LenProperties DEF TypeOK, AgreementIsRecent
    <3>2. /\ m = IF n < ConsistencyRequired THEN n + 1 ELSE ConsistencyRequired
          /\ lately' \in Seq(Cells)
          /\ lately'[m] = r
          /\ \A i \in 1..(m - 1) : lately'[i] = lately[n - m + i + 1]
      <4>1. lately' = LastFew(Append(lately, r))
        BY <2>1, <2>3
      <4>2. Len(lately) <= ConsistencyRequired /\ lately \in Seq(Cells) /\ r \in Cells
        BY <3>1
      <4> HIDE DEF Cells
      <4>3. lately' \in Seq(Cells)
        BY <4>1, <4>2, OneMore
      <4>4. Len(lately') = IF Len(lately) < ConsistencyRequired THEN Len(lately) + 1
                           ELSE ConsistencyRequired
        BY <4>1, <4>2, OneMore
      <4>5. lately'[Len(lately')] = r
        BY <4>1, <4>2, OneMore
      <4>6. \A i \in 1..(Len(lately') - 1) :
              lately'[i] = lately[Len(lately) - Len(lately') + i + 1]
        BY <4>1, <4>2, OneMore
      <4>7. QED
        BY <4>3, <4>4, <4>5, <4>6
    <3>3. DOMAIN lately = 1..n /\ DOMAIN lately' = 1..m
      BY <3>1, <3>2, LenProperties
    <3>4. \A i \in 1..n : i > n - c => lately[i] = consensus.region
      BY <3>3 DEF AgreementIsRecent
    <3> HIDE DEF n, m, c
    <3>5. decision' = r /\ consensus' = Observe(r)
      BY <2>1, <2>3
    <3>6. m \in 1..ConsistencyRequired
      BY <3>1, <3>2
    <3>7. SUFFICES /\ consensus'.count <= m
                   /\ consensus'.count # 0 => consensus'.region = r
                   /\ \A i \in 1..m : i > m - consensus'.count => lately'[i] = consensus'.region
      BY <3>3, <3>5, <3>6 DEF AgreementIsRecent, m
    <3>8. CASE r = NoRegion
      <4>1. consensus' = NoAgreement
        BY <3>5, <3>8 DEF Observe
      <4>2. QED
        BY <3>6, <4>1 DEF NoAgreement
    <3>9. CASE r # NoRegion /\ r # consensus.region
      <4>1. consensus' = [region |-> r, count |-> 1]
        BY <3>5, <3>9 DEF Observe
      <4>2. QED
        BY <3>2, <3>6, <4>1
    <3>10. CASE r # NoRegion /\ r = consensus.region
      <4>1. consensus' = [region |-> r, count |-> IF c < ConsistencyRequired THEN c + 1
                                                  ELSE ConsistencyRequired]
        BY <3>5, <3>10 DEF Observe, c
      <4>2. consensus'.region = r /\ consensus'.count <= c + 1 /\ consensus'.count \in Nat
        BY <3>1, <4>1
      <4>3. consensus'.count <= m
        BY <3>1, <3>2, <4>1
      <4>4. ASSUME NEW i \in 1..m, i > m - consensus'.count, i # m
            PROVE  lately'[i] = r
        <5>1. i \in 1..(m - 1)
          BY <3>6, <4>4
        <5>2. n - m + i + 1 \in 1..n
          BY <3>1, <3>2, <3>6, <5>1
        <5>3. n - m + i + 1 > n - c
          <6> DEFINE d == consensus'.count
          <6>1. d \in Nat /\ d <= c + 1 /\ i > m - d /\ i \in Nat /\ m \in Nat
            BY <3>6, <4>2, <4>4
          <6> HIDE DEF d
          <6>2. QED
            BY <3>1, <6>1
        <5>4. QED
          BY <3>2, <3>4, <3>10, <5>1, <5>2, <5>3
      <4>5. QED
        BY <3>2, <4>2, <4>3, <4>4
    <3>11. QED
      BY <3>8, <3>9, <3>10
  <2>4. QED
    BY <2>2, <2>3
<1>4. CASE OnPlannerStatus
  BY <1>1, <1>2, <1>4 DEF OnPlannerStatus
<1>5. CASE OnExecuteNext \/ UNCHANGED gate \/ UNCHANGED vars
  BY <1>1, <1>5 DEF OnExecuteNext, gate, vars
<1>6. QED
  BY <1>3, <1>4, <1>5 DEF Next

\* The inductive invariant of the gate and its planner.
THEOREM Invariance == Spec => []IInv
<1>1. Init => IInv
  <2>1. ASSUME Init PROVE TypeOK
    <3>1. << >> \in Seq(Messages) /\ << >> \in Seq(Statuses) /\ << >> \in Seq(Regions \cup {NoRegion})
      OBVIOUS
    <3>2. /\ goal_topic = 0 /\ status_topic = << >> /\ received = 0 /\ current = 0
          /\ said = [bit |-> 0, statuses |-> << >>, about |-> 0]
      BY <2>1 DEF Init, LinkInit, Planner!Init
    <3>3. said \in [bit : {0, 1}, statuses : Seq(Statuses), about : 0..MaxGoals]
      BY <3>1, <3>2, ThresholdsAssumption
    <3>4. NoAgreement \in [region : Regions \cup {NoRegion}, count : 0..ConsistencyRequired]
      BY ThresholdsAssumption DEF NoAgreement
    <3>5. /\ params \in [target : BOOLEAN, use_vlm : BOOLEAN, auto : BOOLEAN]
          /\ decision = NoRegion /\ consensus = NoAgreement /\ active_goal = 0
          /\ active_region = NoRegion /\ active_unsafe_count = 0 /\ last_published_goal = NoPlace
          /\ published = 0 /\ lately = << >> /\ taken_away = FALSE
      BY <2>1 DEF Init
    <3>6. 0 \in 0..MaxGoals /\ 0 \in 0..(SafetyLossRequired - 1)
      BY ThresholdsAssumption
    <3>7. /\ status_topic \in Seq(Messages)
          /\ lately \in Seq(Regions \cup {NoRegion})
      BY <3>1, <3>2, <3>5
    <3>8. /\ goal_topic \in 0..MaxGoals /\ received \in 0..MaxGoals /\ current \in 0..MaxGoals
          /\ active_goal \in 0..published /\ published \in 0..MaxGoals
      BY <3>2, <3>5, <3>6
    <3>9. QED
      BY <3>3, <3>4, <3>5, <3>6, <3>7, <3>8 DEF TypeOK
  <2>2. ASSUME Init PROVE NewestOnly /\ WaitsForAnAnswer
    BY <2>2 DEF Init, LinkInit, Planner!Init, NewestOnly, WaitsForAnAnswer
  <2>3. ASSUME Init PROVE InStep /\ OnePlace
    BY <2>3 DEF Init, LinkInit, Planner!Init, InStep, OnePlace, LastWords
  <2>4. ASSUME Init PROVE AgreementIsRecent
    BY <2>4, ThresholdsAssumption DEF Init, AgreementIsRecent, NoAgreement
  <2>5. QED
    BY <2>1, <2>2, <2>3, <2>4 DEF IInv
<1>2. IInv /\ [Next]_vars => IInv'
  BY NextType, NextWaits, NextInStep, NextAgreement DEF IInv
<1>3. QED
  BY <1>1, <1>2, PTL DEF Spec

\* The variables of gate and link keep their types.
THEOREM TypeCorrect == Spec => []TypeOK
BY Invariance, PTL DEF IInv

\* The gate never waits for an answer of the planner that it has read already.
THEOREM AlwaysAnswered == Spec => []WaitsForAnAnswer
BY Invariance, PTL DEF IInv

\* Gate and planner are about the same goal until the watchdog takes one away.
THEOREM StaysInStep == Spec => []InStep
BY Invariance, PTL DEF IInv

\* Each goal goes out on consistency_required equal decisions made since the
\* goal before was let go.
THEOREM FreshlyAgreed == Spec => FreshAgreement
<1> DEFINE Fresh == /\ Len(lately') = ConsistencyRequired
                    /\ \A i \in DOMAIN lately' : lately'[i] = active_region'
<1>1. ASSUME TypeOK', AgreementIsRecent', NEW r, CanPublish(r, consensus', FALSE),
             PublishGoal(r), decision' = r
      PROVE  Fresh
  <2>1. /\ consensus'.count >= ConsistencyRequired /\ active_region' = r
        /\ Len(lately') <= ConsistencyRequired /\ consensus'.count <= Len(lately')
        /\ consensus'.count # 0 => consensus'.region = r
        /\ \A i \in DOMAIN lately' :
             i > Len(lately') - consensus'.count => lately'[i] = consensus'.region
    BY <1>1 DEF CanPublish, PublishGoal, AgreementIsRecent
  <2>2. Len(lately') \in Nat /\ DOMAIN lately' = 1..Len(lately') /\ consensus'.count \in Nat
    BY <1>1, LenProperties DEF TypeOK
  <2> DEFINE d == consensus'.count
             m == Len(lately')
  <2>3. d \in Nat /\ m \in Nat /\ d >= ConsistencyRequired /\ m <= ConsistencyRequired /\ d <= m
    BY <2>1, <2>2
  <2>4. \A i \in DOMAIN lately' : i \in 1..m
    BY <2>2
  <2>5. d # 0 => consensus'.region = r
    BY <2>1
  <2>6. \A i \in DOMAIN lately' : i > m - d => lately'[i] = consensus'.region
    BY <2>1
  <2> HIDE DEF d, m
  <2>7. m = ConsistencyRequired /\ d # 0 /\ \A i \in 1..m : i > m - d
    BY <2>3, ThresholdsAssumption
  <2>8. \A i \in DOMAIN lately' : lately'[i] = r
    BY <2>4, <2>5, <2>6, <2>7
  <2>9. QED
    BY <2>1, <2>7, <2>8 DEF m
<1>2. ASSUME TypeOK', AgreementIsRecent', Next, published' # published
      PROVE  Fresh
  <2>1. ASSUME NEW answer \in Answers, NEW scan \in Scans \cup {NoDepth}, OnResult(answer, scan)
        PROVE  Fresh
    <3>1. PICK r : /\ decision' = r
                   /\ CanPublish(r, consensus', active_goal # 0 /\ ~Lost(scan))
                   /\ PublishGoal(r)
      BY <1>2, <2>1 DEF OnResult
    <3>2. CanPublish(r, consensus', FALSE)
      BY <3>1 DEF CanPublish
    <3>3. QED
      BY <1>1, <1>2, <3>1, <3>2
  <2>2. CASE OnExecuteNext
    <3>1. /\ decision' = decision /\ consensus' = consensus
          /\ CanPublish(decision, consensus, FALSE) /\ PublishGoal(decision)
      BY <2>2 DEF OnExecuteNext, CanPublish
    <3>2. CanPublish(decision, consensus', FALSE)
      BY <3>1
    <3>3. QED
      BY <1>1, <1>2, <3>1, <3>2
  <2>3. CASE OnPlannerStatus \/ UNCHANGED gate
    BY <1>2, <2>3 DEF OnPlannerStatus, gate
  <2>4. QED
    BY <1>2, <2>1, <2>2, <2>3 DEF Next
<1>3. IInv' /\ [Next]_vars => [published' # published => Fresh]_vars
  BY <1>2 DEF IInv
<1>4. QED
  BY <1>3, Invariance, PTL DEF Spec, FreshAgreement

-----------------------------------------------------------------------------
(* VlmNode *)

NodeInv == NodeTypeOK /\ OneInference

LEMMA NodeInitInv == NodeInit => NodeInv
<1> SUFFICES ASSUME NodeInit PROVE NodeInv
  OBVIOUS
<1>1. NodeTypeOK
  BY DEF NodeInit, NodeTypeOK, NoWorker, StartModes, PromptModes
<1>2. OneInference
  BY DEF NodeInit, OneInference, NoWorker, Inferring, Joinable
<1> QED
  BY <1>1, <1>2 DEF NodeInv

\* Every step of either thread keeps the flag and the thread object in step.
LEMMA NodeStepInv == NodeInv /\ [NodeNext]_nodeVars => NodeInv'
<1> SUFFICES ASSUME NodeInv, [NodeNext]_nodeVars PROVE NodeInv'
  OBVIOUS
<1> USE DEF NodeInv, NodeTypeOK, OneInference, Joinable, Inferring, StartModes, PromptModes
<1>1. CASE ImageCallback
  BY <1>1 DEF ImageCallback, Idle
<1>2. CASE \E point \in BOOLEAN : HandleSetPointMode(point)
  BY <1>2 DEF HandleSetPointMode, Idle
<1>3. CASE TimerReaps
  BY <1>3 DEF TimerReaps, Idle, NoWorker
<1>4. CASE TimerClones
  BY <1>4 DEF TimerClones
<1>5. CASE TimerLaunches
  <2>1. CASE Joinable /\ ~inference_running
    BY <1>5, <2>1 DEF TimerLaunches
  <2>2. CASE ~Joinable /\ ~inference_running
    <3>1. /\ worker' = [at |-> "begin", mode |-> prompt_mode]
          /\ inference_running' = TRUE /\ executor' = "idle"
          /\ UNCHANGED <<has_frame, prompt_mode, terminated>>
      BY <1>5, <2>2 DEF TimerLaunches
    <3>2. worker'.at = "begin"
      BY <3>1
    <3>3. NodeTypeOK'
      BY <3>1
    <3>4. OneInference'
      BY <3>1, <3>2
    <3> QED
      BY <3>3, <3>4
  <2>3. CASE inference_running
    BY <1>5, <2>3 DEF TimerLaunches
  <2> QED
    BY <2>1, <2>2, <2>3
<1>6. CASE Close
  BY <1>6 DEF Close, Idle
<1>7. CASE Closed
  BY <1>7 DEF Closed, NoWorker
<1>8. CASE WorkerReadsMode
  BY <1>8 DEF WorkerReadsMode
<1>9. CASE WorkerInfers
  BY <1>9 DEF WorkerInfers, WorkerGoes
<1>10. CASE WorkerPublishes
  BY <1>10 DEF WorkerPublishes, WorkerGoes
<1>11. CASE WorkerFinishes
  BY <1>11 DEF WorkerFinishes, WorkerGoes
<1>12. CASE UNCHANGED nodeVars
  BY <1>12 DEF nodeVars
<1> QED
  BY <1>1, <1>2, <1>3, <1>4, <1>5, <1>6, <1>7, <1>8, <1>9, <1>10, <1>11, <1>12 DEF NodeNext

\* The inductive invariant of the two threads.
THEOREM NodeInvariance == NodeSpec => []NodeInv
<1>1. NodeInit => NodeInv
  BY NodeInitInv
<1>2. NodeInv /\ [NodeNext]_nodeVars => NodeInv'
  BY NodeStepInv
<1> QED
  BY <1>1, <1>2, PTL DEF NodeSpec

\* At most one inference runs, and the shared flag says whether one does.
THEOREM OneInferenceHolds == NodeSpec => []OneInference
<1>1. NodeInv => OneInference
  BY DEF NodeInv
<1> QED
  BY <1>1, NodeInvariance, PTL

\* A step of the two threads is a step of the promised service, or none.
LEMMA NodeStepKeepsPromise ==
  NodeInv /\ [NodeNext]_nodeVars => [Promise!ServiceNext]_(Promise!service)
<1> SUFFICES ASSUME NodeInv, [NodeNext]_nodeVars
             PROVE  Promise!ServiceNext \/ UNCHANGED Promise!service
  BY DEF Promise!service
<1> USE DEF NodeInv, NodeTypeOK, NodeRuns, Promise!service, StartModes, PromptModes
<1>1. CASE ImageCallback
  BY <1>1 DEF ImageCallback, Idle
<1>2. CASE \E point \in BOOLEAN : HandleSetPointMode(point)
  <2>1. PICK point \in BOOLEAN : HandleSetPointMode(point)
    BY <1>2
  <2>2. Promise!SetMode(prompt_mode') /\ prompt_mode' \in PromptModes
    BY <2>1 DEF HandleSetPointMode, Idle, Promise!SetMode
  <2> QED
    BY <2>2 DEF Promise!ServiceNext, Promise!PromptModes
<1>3. CASE TimerReaps
  BY <1>3 DEF TimerReaps, Idle, NoWorker
<1>4. CASE TimerClones
  BY <1>4 DEF TimerClones
<1>5. CASE TimerLaunches
  <2>1. CASE terminated'
    BY <1>5, <2>1 DEF TimerLaunches, Promise!ServiceNext, Promise!StopServing
  <2>2. CASE ~terminated'
    BY <1>5, <2>2 DEF TimerLaunches, Joinable
  <2> QED
    BY <2>1, <2>2
<1>6. CASE Close
  BY <1>6 DEF Close, Idle, Promise!ServiceNext, Promise!StopServing
<1>7. CASE Closed
  BY <1>7 DEF Closed, NoWorker
<1>8. CASE WorkerReadsMode
  BY <1>8 DEF WorkerReadsMode, Promise!ServiceNext, Promise!Ask
<1>9. CASE WorkerInfers
  BY <1>9 DEF WorkerInfers, WorkerGoes, Promise!ServiceNext, Promise!Answer
<1>10. CASE WorkerPublishes
  BY <1>10 DEF WorkerPublishes, WorkerGoes, Promise!ServiceNext, Promise!Answer
<1>11. CASE WorkerFinishes
  BY <1>11 DEF WorkerFinishes, WorkerGoes
<1>12. CASE UNCHANGED nodeVars
  BY <1>12 DEF nodeVars
<1> QED
  BY <1>1, <1>2, <1>3, <1>4, <1>5, <1>6, <1>7, <1>8, <1>9, <1>10, <1>11, <1>12 DEF NodeNext

\* The two threads together implement the one-question-at-a-time service.
THEOREM NodeKeepsPromise == NodeSpec => KeepsVlmPromise
<1>1. NodeInit => Promise!ServiceInit
  BY DEF NodeInit, Promise!ServiceInit, NoWorker, NodeRuns, StartModes, PromptModes,
         Promise!StartModes, Promise!PromptModes
<1>2. NodeInv /\ [NodeNext]_nodeVars => [Promise!ServiceNext]_(Promise!service)
  BY NodeStepKeepsPromise
<1> QED
  BY <1>1, <1>2, NodeInvariance, PTL DEF NodeSpec, KeepsVlmPromise, Promise!ServiceSpec
=============================================================================

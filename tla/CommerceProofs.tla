---------------------------- MODULE CommerceProofs ----------------------------
(***************************************************************************)
(* Proofs about what the agent sells, for any orders, drafts and limits:   *)
(* the screen under any number of handlers (Intake), the paper trading of  *)
(* the optimizer (PaperDay), and the work of one paid order and its bill   *)
(* (Research).                                                             *)
(***************************************************************************)
EXTENDS OperatorFiles, Intake, Research, PaperDay, Sums, TLAPS

(***************************************************************************)
(* Intake.  Orders the screen has let through are counted together with    *)
(* those that handlers have judged fine and not recorded yet: recording    *)
(* then changes nothing, and at the moment an order is judged fine all but *)
(* what the rule allows are in the hands of some handler.                  *)
(***************************************************************************)

Rules == {"topic", "customer"}   \* of one brief; of one customer within the hour
Alike(rule, a, b) == a.customer = b.customer /\ (rule = "topic" => a.topic = b.topic)
WindowOf(rule)  == IF rule = "topic" THEN DuplicateWindow ELSE BurstWindow
\* What may have been let through when one more is judged fine.
Allowance(rule) == IF rule = "topic" THEN 0 ELSE BurstLimit - 1

\* An order counts for a rule: as a duplicate only while it is alive, and not if it
\* came back to life unscreened.
Weighs(rule, b, j, rows, back) ==
    /\ Alike(rule, rows[j].brief, b)
    /\ rule = "topic" => rows[j].status \notin Dead /\ j \notin back

Counting(rule, b, rows, word, let, back, made, now) ==
    {j \in let \ word : Weighs(rule, b, j, rows, back) /\ made[j] >= now - WindowOf(rule)}

InHand(rule, b, hands, word) ==
    {j \in Submission \ word :
       \E h \in Screener : hands[h] # NoOrder /\ hands[h].fine /\ hands[h].id = j
                           /\ Alike(rule, hands[h].brief, b)}

AtMost(S, n) == IsFiniteSet(S) /\ Cardinality(S) <= n

Judged(rule, b, rows, word, let, back, made, now, hands) ==
    Counting(rule, b, rows, word, let, back, made, now) \cup InHand(rule, b, hands, word)

Rowed(rows) == {j \in Submission : rows[j] # Nowhere}

IntakeShapes ==
    /\ intakeClock \in 0..IntakeTime
    /\ desk \in [Submission -> Rows \cup {Nowhere, [status |-> "received"]}]
    /\ created \in [Submission -> 0..IntakeTime] /\ waved \in SUBSET Submission
    /\ screening \in [Screener -> Holding \cup {NoOrder}]
    /\ passed \in SUBSET {j \in Submission : Recorded(j)} /\ revived \in SUBSET Submission
    /\ IsFiniteSet(Rowed(desk))

ScreenBound(rule, b, rows, word, let, back, made, now, hands) ==
    Allowance(rule) >= 0 =>
        AtMost(Judged(rule, b, rows, word, let, back, made, now, hands), Allowance(rule) + Cardinality(Screener))

IntakeInv ==
    /\ IntakeShapes
    /\ \A b \in Brief, rule \in Rules :
         ScreenBound(rule, b, desk, waved, passed, revived, created, intakeClock, screening)

-----------------------------------------------------------------------------
(* Rows and hands.                                                         *)

\* A handler's hand is empty or holds an order of which it has made up its mind.
LEMMA HandFields ==
  ASSUME IntakeShapes, NEW h \in Screener
  PROVE  /\ screening[h] \in Holding \cup {NoOrder}
         /\ screening[h] # NoOrder => /\ screening[h].id \in Submission /\ screening[h].brief \in Brief
                                      /\ screening[h].fine \in BOOLEAN /\ screening[h] \in Holding
  BY DEF IntakeShapes, Holding

\* The rows of recorded orders have all columns, and the others are bare.
LEMMA RowFields ==
  ASSUME IntakeShapes, NEW j \in Submission
  PROVE  /\ desk[j] \in Rows \/ desk[j] = Nowhere \/ desk[j] = [status |-> "received"]
         /\ desk[j] \in Rows <=> Recorded(j)
         /\ desk[j] \in Rows => /\ desk[j].status \in {"pending_quote", "sold", "failed", "cancelled", "expired"}
                                /\ desk[j].brief \in Brief /\ desk[j].held \in BOOLEAN
  BY DEF IntakeShapes, Rows, Nowhere, Recorded, Dead

\* A finite set is within a bound that a larger one keeps.
LEMMA AtMostFewer ==
  ASSUME NEW S, NEW T, T \subseteq S, NEW n \in Int, AtMost(S, n)
  PROVE  AtMost(T, n)
<1>1. IsFiniteSet(T) /\ Cardinality(T) <= Cardinality(S)
  BY FS_Subset DEF AtMost
<1>2. Cardinality(S) \in Nat /\ Cardinality(T) \in Nat
  BY <1>1, FS_CardinalityType DEF AtMost
<1> QED
  BY <1>1, <1>2 DEF AtMost

\* No more orders are in the handlers' hands than there are handlers.
LEMMA HandsAreFew ==
  ASSUME NEW hands, NEW S, IsFiniteSet(Screener),
         \A j \in S : \E h \in Screener : hands[h].id = j
  PROVE  IsFiniteSet(S) /\ Cardinality(S) <= Cardinality(Screener)
<1> DEFINE H == {h \in Screener : hands[h].id \in S}
           f == [h \in H |-> hands[h].id]
<1>1. H \in SUBSET Screener /\ IsFiniteSet(H) /\ Cardinality(H) <= Cardinality(Screener)
  <2>1. H \in SUBSET Screener
    OBVIOUS
  <2> HIDE DEF H
  <2> QED
    BY <2>1, FS_Subset
<1>2. f \in Surjection(H, S)
  BY DEF Surjection
<1> HIDE DEF f, H
<1>3. IsFiniteSet(S) /\ Cardinality(S) <= Cardinality(H)
  BY <1>1, <1>2, FS_Surjection
<1> QED
  BY <1>1, <1>3, FS_CardinalityType

\* A step after which no order counts that did not count before.
LEMMA JudgedNoMore ==
  ASSUME IntakeInv, IntakeShapes',
         \A b \in Brief, rule \in Rules :
            Judged(rule, b, desk', waved', passed', revived', created', intakeClock', screening')
              \subseteq Judged(rule, b, desk, waved, passed, revived, created, intakeClock, screening)
  PROVE  IntakeInv'
<1>1. ASSUME NEW b \in Brief, NEW rule \in Rules
      PROVE  ScreenBound(rule, b, desk', waved', passed', revived', created', intakeClock', screening')
  <2> DEFINE S == Judged(rule, b, desk, waved, passed, revived, created, intakeClock, screening)
             T == Judged(rule, b, desk', waved', passed', revived', created', intakeClock', screening')
             n == Allowance(rule) + Cardinality(Screener)
  <2>1. T \subseteq S /\ (Allowance(rule) >= 0 => AtMost(S, n)) /\ n \in Int
    BY <1>1, FS_CardinalityType, IntakeAssumption DEF IntakeInv, ScreenBound, Allowance
  <2> HIDE DEF S, T, n
  <2>2. Allowance(rule) >= 0 => AtMost(T, n)
    BY <2>1, AtMostFewer
  <2> QED
    BY <2>2 DEF ScreenBound, T, n
<1> QED
  BY <1>1 DEF IntakeInv

\* When a handler judges an order fine, every other order that counts is in some
\* handler's hand, but for what the rule allows.
LEMMA FineIsWithin ==
  ASSUME IntakeShapes, NEW h \in Screener, NEW j \in Submission, NEW b0 \in Brief, NEW b \in Brief,
         NEW rule \in Rules, NEW hands, hands[h].id = j, Allowance(rule) >= 0,
         j \notin waved, Screen(j, b0), Alike(rule, b0, b)
  PROVE  AtMost(Judged(rule, b, desk, waved, passed, revived, created, intakeClock, hands),
                Allowance(rule) + Cardinality(Screener))
<1> DEFINE C == Counting(rule, b, desk, waved, passed, revived, created, intakeClock)
           I == InHand(rule, b, hands, waved)
           R == C \ {j}
           H == I \cup {j}
           J == Judged(rule, b, desk, waved, passed, revived, created, intakeClock, hands)
<1>1. ~ IsDuplicate(j, b0) /\ ~ IsBurst(j, b0)
  BY DEF Screen
<1>2. IsFiniteSet(H) /\ Cardinality(H) <= Cardinality(Screener)
  <2>1. \A k \in H : \E g \in Screener : hands[g].id = k
    BY DEF InHand
  <2> HIDE DEF H
  <2> QED
    BY <2>1, HandsAreFew, IntakeAssumption
<1>3. ASSUME NEW k \in R
      PROVE  /\ k \in History(j, b0) /\ created[k] >= intakeClock - WindowOf(rule)
             /\ rule = "topic" => desk[k].status \notin Dead /\ desk[k].brief.topic = b0.topic
  <2>1. k \in Submission \ {j} /\ Recorded(k) /\ Weighs(rule, b, k, desk, revived)
        /\ created[k] >= intakeClock - WindowOf(rule)
    BY DEF Counting, IntakeShapes
  <2> QED
    BY <2>1 DEF History, Weighs, Alike
<1>4. IsFiniteSet(R) /\ Cardinality(R) <= Allowance(rule)
  <2> HIDE DEF R
  <2>1. CASE rule = "topic"
    <3>1. ASSUME NEW k \in R PROVE FALSE
      BY <1>1, <1>3, <2>1, <3>1 DEF IsDuplicate, WindowOf
    <3>2. R = {}
      BY <3>1
    <3> QED
      BY <2>1, <3>2, FS_EmptySet DEF Allowance
  <2>2. CASE rule = "customer"
    <3> DEFINE E == {k \in History(j, b0) : created[k] >= intakeClock - BurstWindow}
    <3>1. R \subseteq E /\ E \subseteq Rowed(desk)
      <4>1. \A k \in R : k \in E
        BY <1>3, <2>2 DEF WindowOf
      <4>2. \A k \in E : k \in Rowed(desk)
        BY DEF History, Recorded, Rowed, Nowhere
      <4> QED
        BY <4>1, <4>2
    <3>2. ~ (Cardinality(E) >= BurstLimit)
      BY <1>1 DEF IsBurst
    <3>3. IsFiniteSet(Rowed(desk))
      BY DEF IntakeShapes
    <3> HIDE DEF R, E
    <3>4. IsFiniteSet(E) /\ IsFiniteSet(R) /\ Cardinality(R) <= Cardinality(E)
      BY <3>1, <3>3, FS_Subset
    <3>5. Cardinality(E) \in Nat /\ Cardinality(R) \in Nat
      BY <3>4, FS_CardinalityType
    <3> QED
      BY <2>2, <3>2, <3>4, <3>5, IntakeAssumption DEF Allowance
  <2> QED
    BY <2>1, <2>2 DEF Rules
<1>5. J \subseteq R \cup H
  BY DEF Judged
<1> HIDE DEF R, H, J
<1>6. AtMost(R \cup H, Allowance(rule) + Cardinality(Screener))
  <2>1. /\ IsFiniteSet(R \cup H)
        /\ Cardinality(R \cup H) = Cardinality(R) + Cardinality(H) - Cardinality(R \cap H)
    BY <1>2, <1>4, FS_Union
  <2>2. /\ Cardinality(R) \in Nat /\ Cardinality(H) \in Nat /\ Cardinality(R \cap H) \in Nat
        /\ Cardinality(Screener) \in Nat
    BY <1>2, <1>4, FS_CardinalityType, FS_Intersection, IntakeAssumption
  <2>3. Allowance(rule) \in Int
    BY IntakeAssumption DEF Allowance
  <2> DEFINE p == Cardinality(R \cup H)  q == Cardinality(R)  r == Cardinality(H)
             s == Cardinality(R \cap H)  t == Cardinality(Screener)  u == Allowance(rule)
  <2>4. p <= u + t
    <3>1. p = q + r - s /\ q \in Nat /\ r \in Nat /\ s \in Nat /\ t \in Nat /\ u \in Int /\ q <= u /\ r <= t
      BY <1>2, <1>4, <2>1, <2>2, <2>3
    <3> HIDE DEF p, q, r, s, t, u
    <3> QED
      BY <3>1
  <2> QED
    BY <2>1, <2>4 DEF AtMost
<1>7. Allowance(rule) + Cardinality(Screener) \in Int
  BY FS_CardinalityType, IntakeAssumption DEF Allowance
<1> QED
  BY <1>5, <1>6, <1>7, AtMostFewer DEF J

\* A handler takes an order up and makes up its mind.  The order has no row yet
\* that counts, or its row stays as it is.
LEMMA TakeStep ==
  ASSUME IntakeInv, NEW h \in Screener, NEW j \in Submission, NEW b0 \in Brief,
         screening[h] = NoOrder, Take(h, j, b0), UNCHANGED <<intakeClock, waved, tallies>>,
         \/ UNCHANGED <<desk, created>>
         \/ /\ desk[j] = Nowhere /\ desk' = [desk EXCEPT ![j] = [status |-> "received"]]
            /\ created' = [created EXCEPT ![j] = intakeClock]
  PROVE  IntakeInv'
<1>0. IntakeShapes
  BY DEF IntakeInv
<1> DEFINE x == [id |-> j, brief |-> b0, fine |-> Screen(j, b0)]
<1>1. Screen(j, b0) \in BOOLEAN
  BY IntakeAssumption DEF Screen, IsDuplicate, IsBurst
<1>2. x \in Holding /\ x.id = j /\ x.brief = b0 /\ x.fine = Screen(j, b0) /\ screening' = [screening EXCEPT ![h] = x]
  BY <1>1 DEF Holding, Take
<1> HIDE DEF x
<1>3. screening' \in [Screener -> Holding \cup {NoOrder}] /\ screening'[h] = x
      /\ \A g \in Screener \ {h} : screening'[g] = screening[g]
  BY <1>0, <1>2 DEF IntakeShapes
<1>4. /\ desk' \in [Submission -> Rows \cup {Nowhere, [status |-> "received"]}]
      /\ created' \in [Submission -> 0..IntakeTime]
      /\ \A k \in Submission \ {j} : desk'[k] = desk[k] /\ created'[k] = created[k]
      /\ desk'[j] # desk[j] => desk[j] = Nowhere /\ desk'[j] = [status |-> "received"]
      /\ desk'[j] = desk[j] => created'[j] = created[j] \/ desk[j] = Nowhere
  BY <1>0 DEF IntakeShapes
<1>5. IsFiniteSet(Rowed(desk'))
  <2>1. Rowed(desk') \subseteq Rowed(desk) \cup {j}
    BY <1>4 DEF Rowed
  <2>2. IsFiniteSet(Rowed(desk) \cup {j})
    BY <1>0, FS_AddElement DEF IntakeShapes
  <2> QED
    BY <2>1, <2>2, FS_Subset
<1>8. UNCHANGED <<passed, revived>> /\ \A k \in passed : k \in Submission /\ desk'[k] = desk[k] /\ Recorded(k)'
                                                     /\ created'[k] = created[k]
  BY <1>0, <1>4 DEF IntakeShapes, tallies, Recorded, Nowhere
<1>6. IntakeShapes'
  BY <1>0, <1>3, <1>4, <1>5, <1>8 DEF IntakeShapes
<1>7. ASSUME NEW b \in Brief, NEW rule \in Rules
      PROVE  ScreenBound(rule, b, desk', waved', passed', revived', created', intakeClock', screening')
  <2> DEFINE C == Counting(rule, b, desk, waved, passed, revived, created, intakeClock)
             D == Counting(rule, b, desk', waved', passed', revived', created', intakeClock')
  <2>1. \A k \in D : k \in C
    BY <1>8 DEF Counting, Weighs
  <2>2. CASE Screen(j, b0) /\ j \notin waved /\ Alike(rule, b0, b)
    <3> SUFFICES ASSUME Allowance(rule) >= 0
                 PROVE  AtMost(Judged(rule, b, desk', waved', passed', revived', created', intakeClock', screening'),
                               Allowance(rule) + Cardinality(Screener))
      BY DEF ScreenBound
    <3> DEFINE S == Judged(rule, b, desk, waved, passed, revived, created, intakeClock, screening')
               T == Judged(rule, b, desk', waved', passed', revived', created', intakeClock', screening')
               n == Allowance(rule) + Cardinality(Screener)
    <3>1. AtMost(S, n)
      BY <1>0, <1>2, <1>3, <2>2, FineIsWithin
    <3>2. T \subseteq S /\ n \in Int
      BY <2>1, FS_CardinalityType, IntakeAssumption DEF Judged, Allowance
    <3> HIDE DEF S, T, n
    <3>3. AtMost(T, n)
      BY <3>1, <3>2, AtMostFewer
    <3> QED
      BY <3>3 DEF T, n
  <2>3. CASE ~ (Screen(j, b0) /\ j \notin waved /\ Alike(rule, b0, b))
    <3> DEFINE S == Judged(rule, b, desk, waved, passed, revived, created, intakeClock, screening)
               T == Judged(rule, b, desk', waved', passed', revived', created', intakeClock', screening')
               n == Allowance(rule) + Cardinality(Screener)
    <3>1. InHand(rule, b, screening', waved') \subseteq InHand(rule, b, screening, waved)
      BY <1>2, <1>3, <2>3 DEF InHand
    <3>2. T \subseteq S /\ n \in Int
      BY <2>1, <3>1, FS_CardinalityType, IntakeAssumption DEF Judged, Allowance
    <3>3. Allowance(rule) >= 0 => AtMost(S, n)
      BY <1>7 DEF IntakeInv, ScreenBound
    <3> HIDE DEF S, T, n
    <3>4. Allowance(rule) >= 0 => AtMost(T, n)
      BY <3>2, <3>3, AtMostFewer
    <3> QED
      BY <3>4 DEF ScreenBound, T, n
  <2> QED
    BY <2>2, <2>3
<1> QED
  BY <1>6, <1>7 DEF IntakeInv

\* A step that edits one row, lets time pass, gives a word or empties a hand.
LEMMA EditStep ==
  ASSUME IntakeInv, NEW j \in Submission, UNCHANGED created,
         intakeClock' \in 0..IntakeTime, intakeClock <= intakeClock',
         waved' \in SUBSET Submission, waved \subseteq waved',
         passed' \in SUBSET {k \in Submission : Recorded(k)'}, revived' \in SUBSET Submission,
         passed' \subseteq passed \cup {j}, revived \subseteq revived' \cup {j},
         desk' \in [Submission -> Rows \cup {Nowhere, [status |-> "received"]}],
         \A k \in Submission \ {j} : desk'[k] = desk[k],
         screening' \in [Screener -> Holding \cup {NoOrder}],
         \A h \in Screener : screening'[h] = screening[h] \/ screening'[h] = NoOrder,
         \A b \in Brief, rule \in Rules :
            j \in passed' \ waved' /\ Weighs(rule, b, j, desk', revived') =>
              \/ j \in InHand(rule, b, screening, waved)
              \/ j \in passed \ waved /\ Weighs(rule, b, j, desk, revived)
  PROVE  IntakeInv'
<1>1. IntakeShapes
  BY DEF IntakeInv
<1>2. IsFiniteSet(Rowed(desk'))
  <2>1. Rowed(desk') \subseteq Rowed(desk) \cup {j}
    BY DEF Rowed
  <2>2. IsFiniteSet(Rowed(desk) \cup {j})
    BY <1>1, FS_AddElement DEF IntakeShapes
  <2> QED
    BY <2>1, <2>2, FS_Subset
<1>3. IntakeShapes'
  BY <1>1, <1>2 DEF IntakeShapes
<1>4. ASSUME NEW b \in Brief, NEW rule \in Rules
      PROVE  Judged(rule, b, desk', waved', passed', revived', created', intakeClock', screening')
               \subseteq Judged(rule, b, desk, waved, passed, revived, created, intakeClock, screening)
  <2>1. InHand(rule, b, screening', waved') \subseteq InHand(rule, b, screening, waved)
    BY DEF InHand
  <2>2. ASSUME NEW k \in Counting(rule, b, desk', waved', passed', revived', created', intakeClock')
        PROVE  k \in Judged(rule, b, desk, waved, passed, revived, created, intakeClock, screening)
    <3>1. created[k] >= intakeClock' - WindowOf(rule) /\ k \in Submission
      BY <2>2 DEF Counting
    <3>2. created[k] >= intakeClock - WindowOf(rule)
      <4>1. WindowOf(rule) \in Nat /\ created[k] \in Nat /\ intakeClock \in Nat /\ intakeClock' \in Nat
        BY <1>1, <3>1, IntakeAssumption DEF WindowOf, IntakeShapes
      <4> QED
        BY <3>1, <4>1
    <3>3. CASE k = j
      BY <2>2, <3>2, <3>3 DEF Counting, Judged
    <3>4. CASE k # j
      BY <2>2, <3>1, <3>2, <3>4 DEF Counting, Weighs, Judged
    <3> QED
      BY <3>3, <3>4
  <2> QED
    BY <2>1, <2>2 DEF Judged
<1> QED
  BY <1>3, <1>4, JudgedNoMore

\* An order that was judged fine was in hand when it is recorded; one that was not
\* is held.
LEMMA RecordStep ==
  ASSUME IntakeInv, NEW h \in Screener, Record(h) PROVE IntakeInv'
<1> DEFINE x == screening[h]
           j == x.id
           y == [status |-> IF x.fine THEN "pending_quote" ELSE "failed", brief |-> x.brief,
                 held |-> x.fine => Recorded(j) /\ desk[j].held]
<1>1. IntakeShapes
  BY DEF IntakeInv
<1>2. /\ x # NoOrder /\ desk' = [desk EXCEPT ![j] = y] /\ screening' = [screening EXCEPT ![h] = NoOrder]
      /\ UNCHANGED <<intakeClock, created, waved>>
      /\ passed' = (IF x.fine THEN passed \cup {j} ELSE passed \ {j}) /\ revived' = revived \ {j}
  BY DEF Record
<1>3. j \in Submission /\ x.brief \in Brief /\ x.fine \in BOOLEAN
  BY <1>1, <1>2, HandFields
<1>4. Recorded(j) => desk[j].held \in BOOLEAN
  BY <1>1, <1>3, RowFields
<1> HIDE DEF x
<1>5. (x.fine => Recorded(j) /\ desk[j].held) \in BOOLEAN
  BY <1>3, <1>4
<1>6. y \in Rows /\ y.brief = x.brief /\ (x.fine => y.status = "pending_quote")
      /\ (~ x.fine => y.status = "failed" /\ y.held)
  BY <1>3, <1>5 DEF Rows, Dead
<1> HIDE DEF y
<1>7. /\ desk' \in [Submission -> Rows \cup {Nowhere, [status |-> "received"]}] /\ desk'[j] = y
      /\ \A k \in Submission \ {j} : desk'[k] = desk[k]
      /\ screening' \in [Screener -> Holding \cup {NoOrder}]
      /\ \A g \in Screener : screening'[g] = screening[g] \/ screening'[g] = NoOrder
  BY <1>1, <1>2, <1>3, <1>6 DEF IntakeShapes
<1>8. ASSUME NEW b \in Brief, NEW rule \in Rules,
             j \in passed' \ waved', Weighs(rule, b, j, desk', revived')
      PROVE  j \in InHand(rule, b, screening, waved)
  <2>1. x.fine /\ j \notin waved
    BY <1>2, <1>8
  <2>2. Alike(rule, x.brief, b)
    BY <1>6, <1>7, <1>8 DEF Weighs
  <2> QED
    BY <1>2, <1>3, <2>1, <2>2 DEF InHand, x
<1>9. intakeClock' \in 0..IntakeTime /\ intakeClock <= intakeClock' /\ waved' = waved /\ created' = created
      /\ waved' \in SUBSET Submission
  BY <1>1, <1>2, IntakeAssumption DEF IntakeShapes
<1> HIDE DEF j
<1>10. /\ passed' \in SUBSET {k \in Submission : Recorded(k)'} /\ revived' \in SUBSET Submission
       /\ passed' \subseteq passed \cup {j} /\ revived \subseteq revived' \cup {j}
  <2>1. desk'[j].status \notin {"none", "received"}
    <3>1. y.status \in {"pending_quote", "failed"}
      BY <1>3, <1>6
    <3> QED
      BY <1>7, <3>1
  <2>2. \A k \in passed \ {j} : k \in Submission /\ Recorded(k)'
    BY <1>1, <1>7 DEF IntakeShapes, Recorded
  <2>3. \A k \in revived : k \in Submission
    BY <1>1 DEF IntakeShapes
  <2>4. \A k \in passed' : k \in passed \/ k = j
    BY <1>2
  <2>5. \A k \in revived' : k \in revived
    BY <1>2
  <2>6. \A k \in passed' : k \in Submission /\ Recorded(k)'
    BY <1>3, <2>1, <2>2, <2>4 DEF Recorded
  <2>7. revived \subseteq revived' \cup {j}
    BY <1>2
  <2> QED
    BY <2>3, <2>4, <2>5, <2>6, <2>7
<1> QED
  BY <1>3, <1>7, <1>8, <1>9, <1>10, EditStep

\* What an operator or the shop does to a recorded order lets no further one through:
\* one that is waved on is let through on the operator's word, and one that comes
\* back to life counts as a customer's order, as it did before, and no more as a
\* duplicate.
LEMMA RowStep ==
  ASSUME IntakeInv, NEW j \in Submission,
         Wave(j) \/ TurnAway(j) \/ Proceed(j) \/ Close(j) \/ Revive(j)
  PROVE  IntakeInv'
<1>1. IntakeShapes
  BY DEF IntakeInv
<1>2. UNCHANGED <<intakeClock, created, screening, passed>> /\ Recorded(j)
  BY DEF Wave, TurnAway, Proceed, Close, Revive, tallies, Recorded, Dead
<1>3. /\ desk[j] \in Rows /\ desk[j].status \in {"pending_quote", "sold", "failed", "cancelled", "expired"}
      /\ desk[j].brief \in Brief /\ desk[j].held \in BOOLEAN
  BY <1>1, <1>2, RowFields
<1>4. PICK s \in {"pending_quote", "sold"} \cup Dead, u \in BOOLEAN :
        /\ desk' = [desk EXCEPT ![j] = [desk[j] EXCEPT !.status = s, !.held = u]]
        /\ \/ waved' = waved \cup {j} /\ revived' = revived
           \/ waved' = waved /\ revived' = revived /\ s \in Dead
           \/ waved' = waved /\ revived' = revived /\ desk[j].status = "pending_quote" /\ s = "sold"
           \/ waved' = waved /\ revived' = revived \cup {j}
  <2>1. CASE Wave(j)
    BY <1>1, <2>1 DEF Wave, IntakeShapes, Dead, tallies
  <2>2. CASE TurnAway(j)
    BY <1>1, <2>2 DEF TurnAway, IntakeShapes, Dead, tallies
  <2>5. CASE Close(j)
    BY <1>1, <2>5 DEF Close, IntakeShapes, Dead, tallies
  <2>6. CASE desk' = [desk EXCEPT ![j].status = "sold"]
    <3>1. [desk[j] EXCEPT !.status = "sold"] = [desk[j] EXCEPT !.status = "sold", !.held = desk[j].held]
      BY <1>3 DEF Rows
    <3>2. desk' = [desk EXCEPT ![j] = [desk[j] EXCEPT !.status = "sold", !.held = desk[j].held]]
      BY <1>1, <2>6, <3>1 DEF IntakeShapes
    <3>3. CASE Proceed(j)
      BY <1>3, <3>2, <3>3 DEF Proceed, tallies
    <3>4. CASE Revive(j)
      BY <1>3, <3>2, <3>4 DEF Revive, tallies
    <3> QED
      BY <2>1, <2>2, <2>5, <3>3, <3>4
  <2>3. CASE Proceed(j)
    <3>2. CASE desk' = [desk EXCEPT ![j].status = "failed", ![j].held = FALSE]
      BY <1>1, <2>3, <3>2 DEF Proceed, IntakeShapes, Dead, tallies
    <3> QED
      BY <2>3, <2>6, <3>2 DEF Proceed
  <2>4. CASE Revive(j)
    BY <2>4, <2>6 DEF Revive
  <2> QED
    BY <2>1, <2>2, <2>3, <2>4, <2>5
<1> DEFINE y == [desk[j] EXCEPT !.status = s, !.held = u]
<1>5. y \in Rows /\ y.status = s /\ y.brief = desk[j].brief /\ desk' = [desk EXCEPT ![j] = y]
  BY <1>3, <1>4 DEF Rows
<1> HIDE DEF y
<1>6. /\ desk' \in [Submission -> Rows \cup {Nowhere, [status |-> "received"]}] /\ desk'[j] = y
      /\ \A k \in Submission \ {j} : desk'[k] = desk[k]
  BY <1>1, <1>5 DEF IntakeShapes
<1>7. ASSUME NEW b \in Brief, NEW rule \in Rules,
             j \in passed' \ waved', Weighs(rule, b, j, desk', revived')
      PROVE  j \in passed \ waved /\ Weighs(rule, b, j, desk, revived)
  BY <1>2, <1>3, <1>4, <1>5, <1>6, <1>7 DEF Weighs, Dead
<1>8. /\ intakeClock' \in 0..IntakeTime /\ intakeClock <= intakeClock' /\ created' = created
      /\ waved' \in SUBSET Submission /\ waved \subseteq waved'
      /\ screening' = screening /\ screening \in [Screener -> Holding \cup {NoOrder}]
  BY <1>1, <1>2, <1>4, IntakeAssumption DEF IntakeShapes
<1>9. /\ passed' \in SUBSET {k \in Submission : Recorded(k)'} /\ revived' \in SUBSET Submission
      /\ passed' \subseteq passed \cup {j} /\ revived \subseteq revived' \cup {j}
  <2>1. Recorded(j)'
    BY <1>5, <1>6 DEF Recorded, Rows, Dead
  <2>2. \A k \in passed : k \in Submission /\ Recorded(k)'
    BY <1>1, <1>6, <2>1 DEF IntakeShapes, Recorded
  <2>3. \A k \in revived : k \in Submission
    BY <1>1 DEF IntakeShapes
  <2> QED
    BY <1>2, <1>4, <2>2, <2>3
<1> QED
  BY <1>6, <1>7, <1>8, <1>9, EditStep

\* Time passes, or a handler dies with what it had in hand.
LEMMA IdleStep ==
  ASSUME IntakeInv, UNCHANGED <<desk, created, waved, tallies>>,
         intakeClock' \in 0..IntakeTime, intakeClock <= intakeClock',
         screening' \in [Screener -> Holding \cup {NoOrder}],
         \A h \in Screener : screening'[h] = screening[h] \/ screening'[h] = NoOrder
  PROVE  IntakeInv'
<1>1. IntakeShapes
  BY DEF IntakeInv
<1>2. IntakeShapes'
  BY <1>1 DEF IntakeShapes, Recorded, tallies
<1>3. ASSUME NEW b \in Brief, NEW rule \in Rules
      PROVE  Judged(rule, b, desk', waved', passed', revived', created', intakeClock', screening')
               \subseteq Judged(rule, b, desk, waved, passed, revived, created, intakeClock, screening)
  <2>1. InHand(rule, b, screening', waved') \subseteq InHand(rule, b, screening, waved)
    BY DEF InHand
  <2>2. ASSUME NEW k \in Submission, created[k] >= intakeClock' - WindowOf(rule)
        PROVE  created[k] >= intakeClock - WindowOf(rule)
    <3>1. WindowOf(rule) \in Nat /\ created[k] \in Nat /\ intakeClock \in Nat /\ intakeClock' \in Nat
      BY <1>1, IntakeAssumption DEF WindowOf, IntakeShapes
    <3> QED
      BY <2>2, <3>1
  <2>3. Counting(rule, b, desk', waved', passed', revived', created', intakeClock')
          \subseteq Counting(rule, b, desk, waved, passed, revived, created, intakeClock)
    BY <1>1, <2>2 DEF Counting, Weighs, tallies, IntakeShapes
  <2> QED
    BY <2>1, <2>3 DEF Judged
<1> QED
  BY <1>2, <1>3, JudgedNoMore

\* At first nothing has been ordered.
LEMMA IntakeInvInit == IntakeInit => IntakeInv
<1> SUFFICES ASSUME IntakeInit PROVE IntakeInv
  OBVIOUS
<1>1. Rowed(desk) = {}
  BY DEF IntakeInit, Rowed
<1>2. IntakeShapes
  BY <1>1, FS_EmptySet, IntakeAssumption DEF IntakeInit, IntakeShapes
<1>3. ASSUME NEW b \in Brief, NEW rule \in Rules
      PROVE  ScreenBound(rule, b, desk, waved, passed, revived, created, intakeClock, screening)
  <2> DEFINE J == Judged(rule, b, desk, waved, passed, revived, created, intakeClock, screening)
  <2>1. J = {}
    BY DEF IntakeInit, Judged, Counting, InHand
  <2>2. Cardinality(Screener) \in Nat /\ Allowance(rule) \in Int
    BY FS_CardinalityType, IntakeAssumption DEF Allowance
  <2> HIDE DEF J
  <2>3. IsFiniteSet(J) /\ Cardinality(J) = 0
    BY <2>1, FS_EmptySet
  <2> QED
    BY <2>2, <2>3 DEF ScreenBound, AtMost, J
<1> QED
  BY <1>2, <1>3 DEF IntakeInv

\* The orders the run counts are among those that are counted here.
LEMMA IntakeInvMeans == IntakeInv => ScreensHold
<1> SUFFICES ASSUME IntakeInv PROVE ScreensHold
  OBVIOUS
<1>1. IntakeTypeOK
  BY DEF IntakeInv, IntakeShapes, IntakeTypeOK
<1>2. ASSUME NEW b \in Brief
      PROVE  LET hers == {j \in LetThrough : desk[j].brief.customer = b.customer}
             IN  /\ Cardinality({j \in hers \ revived : /\ desk[j].brief.topic = b.topic
                                                        /\ desk[j].status \notin Dead
                                                        /\ created[j] >= intakeClock - DuplicateWindow})
                       <= Cardinality(Screener)
                 /\ BurstLimit > 0 =>
                      Cardinality({j \in hers : created[j] >= intakeClock - BurstWindow})
                         <= BurstLimit + Cardinality(Screener) - 1
  <2> DEFINE hers == {j \in LetThrough : desk[j].brief.customer = b.customer}
             A == {j \in hers \ revived : /\ desk[j].brief.topic = b.topic
                                /\ desk[j].status \notin Dead
                                /\ created[j] >= intakeClock - DuplicateWindow}
             B == {j \in hers : created[j] >= intakeClock - BurstWindow}
             J(rule) == Judged(rule, b, desk, waved, passed, revived, created, intakeClock, screening)
             n == Cardinality(Screener)
  <2>1. n \in Nat /\ BurstLimit \in Nat /\ Allowance("topic") = 0 /\ Allowance("customer") = BurstLimit - 1
    BY FS_CardinalityType, IntakeAssumption DEF Allowance
  <2>2. A \subseteq J("topic") /\ B \subseteq J("customer")
    BY DEF LetThrough, Judged, Counting, Weighs, Alike, WindowOf
  <2>3. \A rule \in Rules : Allowance(rule) >= 0 => AtMost(J(rule), Allowance(rule) + n)
    BY DEF IntakeInv, ScreenBound
  <2>4. "topic" \in Rules /\ "customer" \in Rules
    BY DEF Rules
  <2> HIDE DEF A, B, J, n
  <2>5. AtMost(J("topic"), n) /\ (BurstLimit > 0 => AtMost(J("customer"), BurstLimit - 1 + n))
    BY <2>1, <2>3, <2>4
  <2>6. AtMost(A, n)
    BY <2>1, <2>2, <2>5, AtMostFewer
  <2>7. BurstLimit > 0 => AtMost(B, BurstLimit - 1 + n)
    BY <2>1, <2>2, <2>5, AtMostFewer
  <2>8. Cardinality(A) <= n /\ (BurstLimit > 0 => Cardinality(B) <= BurstLimit + n - 1)
    BY <2>1, <2>6, <2>7 DEF AtMost
  <2> QED
    BY <2>8 DEF A, B, n
<1> QED
  BY <1>1, <1>2 DEF ScreensHold

\* Handlers that screen at the same time let through, of one brief, no more live
\* orders than there are handlers, those apart that were dead and came back to life
\* without a screening; and of one customer's orders within the hour no more than
\* the limit and the other handlers, dead, alive or back again, in every state of
\* every behaviour (intake.screen_job, which reads the history before the order is
\* recorded; stages.retry_job and a late payment, which screen nothing).
THEOREM ScreensAreBounded == IntakeSpec => []ScreensHold
<1>1. ASSUME IntakeInv, [IntakeNext]_intakeVars PROVE IntakeInv'
  <2>0. IntakeShapes /\ intakeClock <= intakeClock
    BY <1>1, IntakeAssumption DEF IntakeInv, IntakeShapes
  <2>1. CASE UNCHANGED intakeVars
    BY <1>1, <2>0, <2>1, IdleStep DEF intakeVars, IntakeShapes
  <2>2. CASE IntakeTick
    <3>1. intakeClock' \in 0..IntakeTime /\ intakeClock <= intakeClock'
      BY <2>0, <2>2, IntakeAssumption DEF IntakeTick, IntakeShapes
    <3> QED
      BY <1>1, <2>0, <2>2, <3>1, IdleStep DEF IntakeTick, IntakeShapes
  <2>3. ASSUME NEW h \in Screener, Abandon(h) PROVE IntakeInv'
    <3>1. /\ screening' \in [Screener -> Holding \cup {NoOrder}]
          /\ \A g \in Screener : screening'[g] = screening[g] \/ screening'[g] = NoOrder
      BY <2>0, <2>3 DEF Abandon, IntakeShapes
    <3>2. /\ UNCHANGED <<desk, created, waved, tallies>>
          /\ intakeClock' \in 0..IntakeTime /\ intakeClock <= intakeClock'
      BY <2>0, <2>3 DEF Abandon, IntakeShapes
    <3> QED
      BY <1>1, <3>1, <3>2, IdleStep
  <2>4. ASSUME NEW h \in Screener, NEW j \in Submission, Rescreen(h, j) PROVE IntakeInv'
    <3>1. desk[j].brief \in Brief
      BY <2>0, <2>4, RowFields DEF Rescreen
    <3> QED
      BY <1>1, <2>4, <3>1, TakeStep DEF Rescreen
  <2>5. ASSUME NEW h \in Screener, NEW j \in Submission, NEW b \in Brief, Receive(h, j, b)
        PROVE  IntakeInv'
    BY <1>1, <2>5, TakeStep DEF Receive
  <2> QED
    BY <1>1, <2>1, <2>2, <2>3, <2>4, <2>5, RecordStep, RowStep DEF IntakeNext
<1>2. IntakeSpec => []IntakeInv
  BY <1>1, IntakeInvInit, PTL DEF IntakeSpec
<1> QED
  BY <1>2, IntakeInvMeans, PTL

-----------------------------------------------------------------------------
(***************************************************************************)
(* PaperDay.  A trial's cash is what its figures say; the jobs it has      *)
(* heard are every other draw of the one stream; and as long as no job was *)
(* blocked, cash is not below both the seed and the reserve.               *)
(***************************************************************************)

Purses == [cash : Int, spent : Nat, cogs : Nat, over : BOOLEAN]
Bottom == Smaller(PaperSeed, PaperReserve)

\* A purse in the middle of a job: what was paid is booked, within the budget; the
\* job is over only if it was to be paid for, and high says cash was not short.
GoodPurse(q, total, budget, high) ==
    /\ q \in Purses /\ q.cash + q.cogs = total /\ q.spent <= PaperBudget
    /\ q.over => budget > 0
    /\ high => q.cash >= Bottom

GoodTrial(t, s) ==
    /\ t \in Trials
    /\ t.drawn = 2 * t.jobs /\ t.drawn <= Len(s) /\ Len(t.heard) = t.jobs
    /\ \A i \in 1..t.jobs : t.heard[i] = s[2 * i - 1]
    /\ t.cash = PaperSeed + t.revenue - t.cogs - t.refunded
    /\ t.accepted + t.declined + t.blocked = t.jobs /\ t.spent <= PaperBudget
    /\ t.blocked > 0 => t.refunded > 0
    /\ t.blocked = 0 => t.cash >= Bottom

PaperInv ==
    /\ stream \in Seq(Draw)
    /\ day \in [Cell -> Trials] /\ \A c \in Cell : GoodTrial(day[c], stream)

\* A line of a brief costs a whole number of cents, and nothing comes to nothing.
LEMMA BreakdownType ==
  ASSUME NEW asked \in [Dials -> Nat]
  PROVE  /\ Breakdown(ScopeFor(asked)) \in [Lines -> Nat]
         /\ Total(Breakdown(ScopeFor(asked))) \in Nat
         /\ \A l \in Lines : Breakdown(ScopeFor(asked))[l] <= Total(Breakdown(ScopeFor(asked)))
<1> DEFINE scope == ScopeFor(asked)
           b == Breakdown(scope)
<1>1. scope \in [Dials -> Nat]
  BY PricingAssumption DEF ScopeFor, Larger
<1> HIDE DEF scope
<1>2. ASSUME NEW l \in Lines PROVE (IF l \in Dials THEN scope[l] * Rates[l] ELSE Rates[l]) \in Nat
  <2>1. Rates[l] \in Nat
    BY PricingAssumption
  <2>2. l \in Dials => scope[l] \in Nat
    BY <1>1
  <2>3. \A x \in Nat, y \in Nat : x * y \in Nat
    OBVIOUS
  <2> QED
    BY <2>1, <2>2, <2>3
<1>3. b \in [Lines -> Nat]
  BY <1>2 DEF Breakdown
<1> HIDE DEF b
<1>4. /\ b["data"] \in Nat /\ b["tokens"] \in Nat /\ b["search"] \in Nat
      /\ b["pdf"] \in Nat /\ b["email"] \in Nat
  BY <1>3 DEF Lines, Dials
<1>5. Total(b) \in Nat /\ \A l \in Lines : b[l] <= Total(b)
  BY <1>4 DEF Total, Lines, Dials
<1> QED
  BY <1>3, <1>5 DEF b, scope

\* Rounding thousandths of cents.
LEMMA RoundNat ==
  ASSUME NEW n \in Nat
  PROVE  Round(n, 1000) \in Nat /\ (n = 0 => Round(n, 1000) = 0)
  BY DEF Round

\* Paying a line.
LEMMA PayLineGood ==
  ASSUME NEW q, NEW total, NEW budget, NEW high, GoodPurse(q, total, budget, high),
         NEW cents \in Nat, cents > 0 => budget > 0, NEW stopped \in BOOLEAN
  PROVE  GoodPurse(PayLine(q, cents, stopped), total, budget, high)
<1>1. /\ q \in Purses /\ q.cash \in Int /\ q.spent \in Nat /\ q.cogs \in Nat /\ q.over \in BOOLEAN
      /\ q.cash + q.cogs = total /\ q.spent <= PaperBudget /\ (q.over => budget > 0)
      /\ (high => q.cash >= Bottom)
  BY DEF GoodPurse, Purses
<1>2. CASE q.over \/ cents = 0
  BY <1>2 DEF PayLine
<1>3. CASE ~ (q.over \/ cents = 0) /\ (stopped \/ ~ PaperPermits(q, cents))
  <2> DEFINE r == [q EXCEPT !.over = TRUE]
  <2>1. PayLine(q, cents, stopped) = r
    BY <1>3 DEF PayLine
  <2>2. r \in Purses /\ r.cash = q.cash /\ r.spent = q.spent /\ r.cogs = q.cogs /\ r.over
    BY <1>1 DEF Purses
  <2> HIDE DEF r
  <2> QED
    BY <1>1, <1>3, <2>1, <2>2 DEF GoodPurse
<1>4. CASE ~ (q.over \/ cents = 0) /\ ~ stopped /\ PaperPermits(q, cents)
  <2> DEFINE r == [q EXCEPT !.cash = q.cash - cents, !.spent = q.spent + cents, !.cogs = q.cogs + cents]
  <2>1. PayLine(q, cents, stopped) = r
    BY <1>4 DEF PayLine
  <2>2. /\ r \in Purses /\ r.cash = q.cash - cents /\ r.spent = q.spent + cents
        /\ r.cogs = q.cogs + cents /\ r.over = q.over
    <3>1. q.cash - cents \in Int /\ q.spent + cents \in Nat /\ q.cogs + cents \in Nat
      BY <1>1
    <3> QED
      BY <1>1, <3>1 DEF Purses
  <2> HIDE DEF r
  <2>3. r.cash >= Bottom
    BY <1>1, <1>4, <2>2, PaperAssumption DEF PaperPermits, Bottom, Smaller
  <2>4. r.spent <= PaperBudget
    BY <1>1, <1>4, <2>2, PaperAssumption DEF PaperPermits
  <2>5. r.cash + r.cogs = total
    BY <1>1, <2>2
  <2> QED
    BY <1>1, <1>4, <2>1, <2>2, <2>3, <2>4, <2>5 DEF GoodPurse
<1> QED
  BY <1>2, <1>3, <1>4

\* Paying the lines of a job is paying one after the other.
LEMMA PayLinesGood ==
  ASSUME NEW s, NEW total, NEW budget, NEW high, GoodPurse(s, total, budget, high),
         NEW costs \in [Lines -> Nat], \A l \in Lines : costs[l] > 0 => budget > 0, NEW stop \in Nat
  PROVE  GoodPurse(PayLines(s, costs, stop), total, budget, high)
<1> DEFINE body(f) == [i \in 0..Len(PaperLines) |->
                         IF i = 0 THEN s ELSE PayLine(f[i - 1], costs[PaperLines[i]], i = stop)]
           paid == CHOOSE f : f = body(f)
           pay(q, i) == PayLine(q, costs[PaperLines[i]], i = stop)
           p1 == pay(s, 1)
           p2 == pay(p1, 2)
           p3 == pay(p2, 3)
           p4 == pay(p3, 4)
           p5 == pay(p4, 5)
           w == [i \in 0..5 |-> IF i = 0 THEN s ELSE IF i = 1 THEN p1 ELSE IF i = 2 THEN p2
                                ELSE IF i = 3 THEN p3 ELSE IF i = 4 THEN p4 ELSE p5]
<1>1. Len(PaperLines) = 5 /\ \A i \in 1..5 : PaperLines[i] \in Lines
  BY DEF PaperLines, Lines, Dials
<1>2. w[0] = s /\ w[1] = p1 /\ w[2] = p2 /\ w[3] = p3 /\ w[4] = p4 /\ w[5] = p5
  <2> HIDE DEF p1, p2, p3, p4, p5
  <2> QED
    OBVIOUS
<1>3. \E f : f = body(f)
  <2>1. \A i \in 0..5 : i = 0 \/ i = 1 \/ i = 2 \/ i = 3 \/ i = 4 \/ i = 5
    OBVIOUS
  <2>2. \A i \in 0..5 : w[i] = IF i = 0 THEN s ELSE pay(w[i - 1], i)
    <3>1. w[1] = pay(w[0], 1) /\ w[2] = pay(w[1], 2) /\ w[3] = pay(w[2], 3)
          /\ w[4] = pay(w[3], 4) /\ w[5] = pay(w[4], 5)
      BY <1>2
    <3> HIDE DEF w, pay
    <3> QED
      BY <1>2, <2>1, <3>1
  <2>3. w = [i \in 0..5 |-> w[i]]
    OBVIOUS
  <2>4. w = body(w)
    <3>1. body(w) = [i \in 0..5 |-> IF i = 0 THEN s ELSE pay(w[i - 1], i)]
      BY <1>1
    <3> HIDE DEF w, pay, body
    <3> QED
      BY <2>2, <2>3, <3>1
  <2> HIDE DEF w, body
  <2> QED
    BY <2>4
<1>4. paid = body(paid)
  BY <1>3
<1>5. PayLines(s, costs, stop) = paid[5]
  BY <1>1 DEF PayLines
<1>6. /\ paid[0] = s /\ \A i \in 1..5 : paid[i] = pay(paid[i - 1], i)
  <2>1. \A f : body(f)[0] = s /\ \A i \in 1..5 : body(f)[i] = pay(f[i - 1], i)
    BY <1>1
  <2> HIDE DEF body, paid, pay
  <2> QED
    BY <1>4, <2>1
<1>7. ASSUME NEW q, NEW i \in 1..5, GoodPurse(q, total, budget, high)
      PROVE  GoodPurse(pay(q, i), total, budget, high)
  <2>1. costs[PaperLines[i]] \in Nat /\ (costs[PaperLines[i]] > 0 => budget > 0) /\ (i = stop) \in BOOLEAN
    BY <1>1
  <2> QED
    BY <1>7, <2>1, PayLineGood
<1> HIDE DEF pay, paid, body, w, p1, p2, p3, p4, p5
<1>8. \A i \in 1..5 : GoodPurse(paid[i - 1], total, budget, high) => GoodPurse(paid[i], total, budget, high)
  BY <1>6, <1>7
<1>9. GoodPurse(paid[1], total, budget, high)
  BY <1>6, <1>8
<1>10. GoodPurse(paid[2], total, budget, high)
  BY <1>8, <1>9
<1>11. GoodPurse(paid[3], total, budget, high)
  BY <1>8, <1>10
<1>12. GoodPurse(paid[4], total, budget, high)
  BY <1>8, <1>11
<1> QED
  BY <1>5, <1>8, <1>12

\* A job that is taken pays for any line that costs anything.
LEMMA TakenPays ==
  ASSUME NEW c \in Cell, NEW job \in Draw, NEW cash, Takes(c, job, cash), NEW factor \in Nat
  PROVE  LET costs == [l \in Lines |-> Round(Breakdown(ScopeFor(job.asked))[l] * factor, 1000)]
         IN  /\ costs \in [Lines -> Nat]
             /\ \A l \in Lines : costs[l] > 0 => job.budget > 0
<1> DEFINE b == Breakdown(ScopeFor(job.asked))
<1>1. /\ job.budget \in Nat /\ job.asked \in [Dials -> Nat]
  BY PaperAssumption
<1>2. b \in [Lines -> Nat] /\ Total(b) \in Nat /\ \A l \in Lines : b[l] <= Total(b)
  BY <1>1, BreakdownType
<1>3. job.budget >= Total(b)
  BY DEF Takes
<1> HIDE DEF b
<1>4. ASSUME NEW l \in Lines
      PROVE  Round(b[l] * factor, 1000) \in Nat /\ (Round(b[l] * factor, 1000) > 0 => job.budget > 0)
  <2> DEFINE n == b[l] * factor
  <2>1. n \in Nat
    <3>1. \A x \in Nat, y \in Nat : x * y \in Nat
      OBVIOUS
    <3> QED
      BY <1>2, <3>1
  <2>2. b[l] = 0 => n = 0
    <3>1. \A y \in Nat : 0 * y = 0
      OBVIOUS
    <3> QED
      BY <3>1
  <2> HIDE DEF n
  <2>3. Round(n, 1000) \in Nat /\ (n = 0 => Round(n, 1000) = 0)
    BY <2>1, RoundNat
  <2>4. Round(n, 1000) > 0 => b[l] > 0
    BY <1>2, <2>2, <2>3
  <2>5. b[l] > 0 => job.budget > 0
    BY <1>1, <1>2, <1>3
  <2> QED
    BY <2>3, <2>4, <2>5 DEF n
<1> QED
  BY <1>4 DEF b

\* One job that is taken, from first to last.
LEMMA TradeGood ==
  ASSUME NEW t \in Trials, NEW c \in Cell, NEW job \in Draw, NEW cash, Takes(c, job, cash),
         NEW factor \in Nat, NEW stop \in Nat,
         t.cash = PaperSeed + t.revenue - t.cogs - t.refunded, t.spent <= PaperBudget,
         t.accepted + t.declined + t.blocked + 1 = t.jobs,
         t.blocked > 0 => t.refunded > 0, t.blocked = 0 => t.cash >= Bottom
  PROVE  LET u == Trade(t, job, factor, stop)
         IN  /\ u \in Trials /\ u.drawn = t.drawn /\ u.jobs = t.jobs /\ u.heard = t.heard
             /\ u.cash = PaperSeed + u.revenue - u.cogs - u.refunded
             /\ u.accepted + u.declined + u.blocked = u.jobs /\ u.spent <= PaperBudget
             /\ u.blocked > 0 => u.refunded > 0
             /\ u.blocked = 0 => u.cash >= Bottom
<1> DEFINE costs == [l \in Lines |-> Round(Breakdown(ScopeFor(job.asked))[l] * factor, 1000)]
           begun == [cash |-> t.cash + job.budget, spent |-> t.spent, cogs |-> t.cogs, over |-> FALSE]
           done == PayLines(begun, costs, stop)
           total == t.cash + job.budget + t.cogs
           high == (t.blocked = 0)
           budget == job.budget
           back == IF done.over THEN budget ELSE 0
           won == IF done.over THEN 0 ELSE 1
           lost == IF done.over THEN 1 ELSE 0
           u == [t EXCEPT !.cash = done.cash - back, !.spent = done.spent, !.cogs = done.cogs,
                          !.revenue = t.revenue + budget, !.refunded = t.refunded + back,
                          !.accepted = t.accepted + won, !.blocked = t.blocked + lost]
<1>1. budget \in Nat
  BY PaperAssumption
<1>2. /\ t.drawn \in Nat /\ t.jobs \in 0..PaperJobs /\ t.cash \in Int /\ t.spent \in Nat /\ t.revenue \in Nat
      /\ t.cogs \in Nat /\ t.refunded \in Nat /\ t.accepted \in Int /\ t.declined \in Nat
      /\ t.blocked \in Nat /\ t.heard \in Seq(Draw)
  BY DEF Trials
<1>3. Trade(t, job, factor, stop) = u
  BY DEF Trade
<1>4. costs \in [Lines -> Nat] /\ \A l \in Lines : costs[l] > 0 => budget > 0
  BY TakenPays
<1>5. GoodPurse(begun, total, budget, high)
  <2>1. begun \in Purses
    <3> HIDE DEF budget
    <3>1. t.cash + budget \in Int
      BY <1>1, <1>2
    <3> QED
      BY <1>2, <3>1 DEF Purses, budget
  <2>2. begun.cash = t.cash + budget /\ begun.cogs = t.cogs /\ begun.spent = t.spent /\ begun.over = FALSE
    OBVIOUS
  <2>3. Bottom \in Int
    BY PaperAssumption DEF Bottom, Smaller
  <2> HIDE DEF begun, budget
  <2>4. total = t.cash + budget + t.cogs
    BY DEF budget
  <2> HIDE DEF total
  <2> QED
    <3>1. begun.cash + begun.cogs = total /\ begun.spent <= PaperBudget /\ ~begun.over
      BY <1>1, <1>2, <2>2, <2>4
    <3>2. high => begun.cash >= Bottom
      BY <1>1, <1>2, <2>2, <2>3
    <3> HIDE DEF high
    <3> QED
      BY <2>1, <3>1, <3>2 DEF GoodPurse
<1> HIDE DEF costs, begun
<1>6. GoodPurse(done, total, budget, high)
  <2> HIDE DEF total, budget, high
  <2> QED
    BY <1>4, <1>5, PayLinesGood
<1> HIDE DEF done
<1>7. /\ done.cash \in Int /\ done.spent \in Nat /\ done.cogs \in Nat /\ done.over \in BOOLEAN
      /\ done.cash + done.cogs = t.cash + budget + t.cogs /\ done.spent <= PaperBudget
      /\ done.over => budget > 0
      /\ t.blocked = 0 => done.cash >= Bottom
  BY <1>6 DEF GoodPurse, Purses
<1>8. back \in Nat /\ won \in Nat /\ lost \in Nat /\ won + lost = 1
      /\ (lost > 0 => back > 0 /\ back = budget) /\ (lost = 0 => back = 0)
  BY <1>1, <1>7
<1> HIDE DEF back, won, lost, budget
<1>9. /\ u \in Trials /\ u.drawn = t.drawn /\ u.jobs = t.jobs /\ u.heard = t.heard
      /\ u.cash = done.cash - back /\ u.spent = done.spent /\ u.cogs = done.cogs
      /\ u.revenue = t.revenue + budget /\ u.refunded = t.refunded + back
      /\ u.accepted = t.accepted + won /\ u.blocked = t.blocked + lost /\ u.declined = t.declined
  <2>1. /\ done.cash - back \in Int /\ t.revenue + budget \in Nat /\ t.refunded + back \in Nat
        /\ t.accepted + won \in Int /\ t.blocked + lost \in Nat
    <3>1. \A a \in Int, b \in Nat : a - b \in Int /\ a + b \in Int
      OBVIOUS
    <3>2. \A a \in Nat, b \in Nat : a + b \in Nat
      OBVIOUS
    <3> QED
      BY <1>1, <1>2, <1>7, <1>8, <3>1, <3>2
  <2>2. u \in Trials
    BY <1>2, <1>7, <2>1 DEF Trials
  <2> QED
    BY <2>2 DEF Trials
<1> HIDE DEF u
<1>10. u.cash = PaperSeed + u.revenue - u.cogs - u.refunded
  <2> DEFINE p == done.cash  q == done.cogs  r == t.cash  x == t.cogs  y == t.revenue  z == t.refunded
  <2>1. /\ p \in Int /\ q \in Nat /\ r \in Int /\ x \in Nat /\ y \in Nat /\ z \in Nat
        /\ p + q = r + budget + x /\ r = PaperSeed + y - x - z
    BY <1>2, <1>7
  <2>2. /\ u.cash = p - back /\ u.cogs = q /\ u.revenue = y + budget /\ u.refunded = z + back
    BY <1>9
  <2> HIDE DEF p, q, r, x, y, z
  <2>3. p - back = PaperSeed + (y + budget) - q - (z + back)
    BY <1>1, <1>8, <2>1, PaperAssumption
  <2> QED
    BY <2>2, <2>3
<1>11. u.accepted + u.declined + u.blocked = u.jobs
  <2> DEFINE p == t.accepted  q == t.declined  r == t.blocked
  <2>1. p \in Int /\ q \in Nat /\ r \in Nat /\ p + q + r + 1 = t.jobs
    BY <1>2
  <2>2. u.accepted = p + won /\ u.declined = q /\ u.blocked = r + lost /\ u.jobs = t.jobs
    BY <1>9
  <2> HIDE DEF p, q, r
  <2>3. (p + won) + q + (r + lost) = p + q + r + 1
    BY <1>8, <2>1
  <2> QED
    BY <2>1, <2>2, <2>3
<1>12. u.blocked > 0 => u.refunded > 0
  BY <1>2, <1>8, <1>9
<1>13. u.blocked = 0 => u.cash >= Bottom
  <2>1. u.blocked = 0 => t.blocked = 0 /\ lost = 0
    BY <1>2, <1>8, <1>9
  <2>2. lost = 0 => u.cash = done.cash
    BY <1>7, <1>8, <1>9
  <2> QED
    BY <1>7, <2>1, <2>2
<1> QED
  BY <1>3, <1>7, <1>9, <1>10, <1>11, <1>12, <1>13

\* A job that is not taken.
LEMMA DeclinedGood ==
  ASSUME NEW t \in Trials
  PROVE  LET u == [t EXCEPT !.declined = t.declined + 1]
         IN  /\ u \in Trials /\ u.drawn = t.drawn /\ u.jobs = t.jobs /\ u.heard = t.heard
             /\ u.cash = t.cash /\ u.revenue = t.revenue /\ u.cogs = t.cogs /\ u.refunded = t.refunded
             /\ u.accepted = t.accepted /\ u.blocked = t.blocked /\ u.spent = t.spent
             /\ u.declined = t.declined + 1
<1>1. t.declined + 1 \in Nat
  BY DEF Trials
<1> QED
  BY <1>1 DEF Trials

\* The generator goes on where it was.
LEMMA StreamGoesOn ==
  ASSUME NEW s \in Seq(Draw), NEW n \in Nat, NEW more \in [1..n -> Draw]
  PROVE  /\ s \o more \in Seq(Draw) /\ Len(s \o more) = Len(s) + n
         /\ \A i \in 1..Len(s) : (s \o more)[i] = s[i]
<1>1. more \in Seq(Draw) /\ Len(more) = n
  OBVIOUS
<1> QED
  BY <1>1

\* What a trial has heard stays what the stream said.
LEMMA TrialGoesOn ==
  ASSUME NEW t, NEW s \in Seq(Draw), NEW r \in Seq(Draw), GoodTrial(t, s), Len(s) <= Len(r),
         \A i \in 1..Len(s) : r[i] = s[i]
  PROVE  GoodTrial(t, r)
<1>1. t.drawn = 2 * t.jobs /\ t.drawn <= Len(s) /\ t.jobs \in Nat
  BY PaperAssumption DEF GoodTrial, Trials
<1>2. t.drawn <= Len(r)
  BY <1>1
<1>3. ASSUME NEW i \in 1..t.jobs PROVE t.heard[i] = r[2 * i - 1]
  <2>1. 2 * i - 1 \in 1..Len(s)
    BY <1>1
  <2> QED
    BY <2>1 DEF GoodTrial
<1> QED
  BY <1>2, <1>3 DEF GoodTrial

\* A trial hears one more job.
LEMMA JobHeard ==
  ASSUME NEW t, NEW s \in Seq(Draw), GoodTrial(t, s), t.jobs < PaperJobs, t.drawn + 2 <= Len(s)
  PROVE  LET job == s[t.drawn + 1]
             u == [t EXCEPT !.jobs = t.jobs + 1, !.heard = Append(t.heard, job), !.drawn = t.drawn + 2]
         IN  /\ job \in Draw /\ s[t.drawn + 2] \in Draw
             /\ u \in Trials /\ u.jobs = t.jobs + 1 /\ u.drawn = 2 * u.jobs /\ u.drawn <= Len(s)
             /\ Len(u.heard) = u.jobs /\ \A i \in 1..u.jobs : u.heard[i] = s[2 * i - 1]
             /\ u.cash = t.cash /\ u.revenue = t.revenue /\ u.cogs = t.cogs /\ u.refunded = t.refunded
             /\ u.accepted = t.accepted /\ u.declined = t.declined /\ u.blocked = t.blocked
             /\ u.spent = t.spent
<1> DEFINE n == t.jobs
           job == s[t.drawn + 1]
           h == Append(t.heard, job)
           u == [t EXCEPT !.jobs = n + 1, !.heard = h, !.drawn = t.drawn + 2]
<1>1. /\ t \in Trials /\ t.drawn = 2 * n /\ n \in 0..PaperJobs /\ n < PaperJobs /\ n \in Nat
      /\ t.heard \in Seq(Draw) /\ Len(t.heard) = n /\ t.drawn \in Nat
      /\ \A i \in 1..n : t.heard[i] = s[2 * i - 1]
  <2>1. t \in Trials /\ t.drawn = 2 * n /\ Len(t.heard) = n /\ \A i \in 1..n : t.heard[i] = s[2 * i - 1]
    BY DEF GoodTrial
  <2>2. t.jobs \in 0..PaperJobs /\ t.heard \in Seq(Draw) /\ t.drawn \in Nat
    BY <2>1 DEF Trials
  <2> QED
    BY <2>1, <2>2, PaperAssumption
<1>2. job \in Draw /\ s[t.drawn + 2] \in Draw
  <2>1. t.drawn + 1 \in 1..Len(s) /\ t.drawn + 2 \in 1..Len(s)
    BY <1>1
  <2> QED
    BY <2>1
<1>3. h \in Seq(Draw) /\ Len(h) = n + 1 /\ h[n + 1] = job /\ \A i \in 1..n : h[i] = t.heard[i]
  <2> HIDE DEF job
  <2> QED
    BY <1>1, <1>2
<1>4. \A i \in 1..(n + 1) : h[i] = s[2 * i - 1]
  <2> SUFFICES ASSUME NEW i \in 1..(n + 1) PROVE h[i] = s[2 * i - 1]
    OBVIOUS
  <2>1. CASE i = n + 1
    <3>1. 2 * i - 1 = t.drawn + 1
      BY <1>1, <2>1
    <3> QED
      BY <1>3, <2>1, <3>1
  <2>2. CASE i \in 1..n
    BY <1>1, <1>3, <2>2
  <2> QED
    BY <1>1, <2>1, <2>2
<1> HIDE DEF h, job
<1>5. n + 1 \in 0..PaperJobs /\ t.drawn + 2 \in Nat /\ t.drawn + 2 = 2 * (n + 1)
  BY <1>1, PaperAssumption
<1> HIDE DEF n
<1>6. u \in Trials
  BY <1>1, <1>3, <1>5 DEF Trials
<1>7. /\ u.jobs = n + 1 /\ u.heard = h /\ u.drawn = t.drawn + 2
      /\ u.cash = t.cash /\ u.revenue = t.revenue /\ u.cogs = t.cogs /\ u.refunded = t.refunded
      /\ u.accepted = t.accepted /\ u.declined = t.declined /\ u.blocked = t.blocked
      /\ u.spent = t.spent
  BY <1>1 DEF Trials
<1> HIDE DEF u
<1> QED
  BY <1>2, <1>3, <1>4, <1>5, <1>6, <1>7 DEF u, h, job, n

\* Each job keeps the figures of a trial and leaves the others what they have heard.
LEMMA PaperStepGood ==
  ASSUME PaperInv, NEW c \in Cell, PaperStep(c) PROVE PaperInv'
<1>1. /\ stream \in Seq(Draw) /\ day \in [Cell -> Trials]
      /\ \A d \in Cell : GoodTrial(day[d], stream)
  BY DEF PaperInv
<1> DEFINE t == day[c]
<1>2. /\ t \in Trials /\ GoodTrial(t, stream) /\ t.drawn \in Nat /\ t.jobs < PaperJobs
  BY <1>1 DEF PaperStep, Trials
<1>3. PICK more \in UNION {[1..n -> Draw] : n \in {Larger(0, t.drawn + 2 - Len(stream))}}, stop \in {0, 2} :
         LET s == stream \o more
             job == s[t.drawn + 1]
             factor == s[t.drawn + 2]
             takes == Takes(c, job, t.cash)
             next == Draws([t EXCEPT !.jobs = @ + 1, !.heard = Append(@, job)], takes)
         IN  /\ stream' = s
             /\ ~takes => stop = 0
             /\ day' = [day EXCEPT ![c] =
                   IF takes THEN Trade(next, job, factor.factor, stop)
                   ELSE [next EXCEPT !.declined = @ + 1]]
  BY DEF PaperStep
<1> DEFINE s == stream \o more
           job == s[t.drawn + 1]
           factor == s[t.drawn + 2].factor
           takes == Takes(c, job, t.cash)
           next == [t EXCEPT !.jobs = t.jobs + 1, !.heard = Append(t.heard, job), !.drawn = t.drawn + 2]
           u == IF takes THEN Trade(next, job, factor, stop)
                ELSE [next EXCEPT !.declined = next.declined + 1]
<1>4. stream' = s /\ day' = [day EXCEPT ![c] = u]
  <2>1. Draws([t EXCEPT !.jobs = @ + 1, !.heard = Append(@, job)], takes) = next
    BY <1>2 DEF Draws, Trials
  <2> HIDE DEF next, job, takes, t
  <2> QED
    BY <1>3, <2>1 DEF job, takes, t
<1>5. /\ s \in Seq(Draw) /\ Len(stream) <= Len(s) /\ t.drawn + 2 <= Len(s)
      /\ \A i \in 1..Len(stream) : s[i] = stream[i]
  <2> DEFINE n == Larger(0, t.drawn + 2 - Len(stream))
  <2>1. n \in Nat /\ t.drawn + 2 <= Len(stream) + n
    BY <1>1, <1>2 DEF Larger
  <2>2. more \in [1..n -> Draw]
    OBVIOUS
  <2> HIDE DEF n
  <2>3. Len(s) = Len(stream) + n /\ s \in Seq(Draw) /\ \A i \in 1..Len(stream) : s[i] = stream[i]
    BY <1>1, <2>1, <2>2, StreamGoesOn
  <2> HIDE DEF s
  <2> QED
    BY <1>1, <2>1, <2>3
<1> HIDE DEF s
<1>6. \A d \in Cell : GoodTrial(day[d], s)
  BY <1>1, <1>5, TrialGoesOn
<1>7. /\ job \in Draw /\ s[t.drawn + 2] \in Draw
      /\ next \in Trials /\ next.jobs = t.jobs + 1 /\ next.drawn = 2 * next.jobs /\ next.drawn <= Len(s)
      /\ Len(next.heard) = next.jobs /\ \A i \in 1..next.jobs : next.heard[i] = s[2 * i - 1]
      /\ next.cash = t.cash /\ next.revenue = t.revenue /\ next.cogs = t.cogs /\ next.refunded = t.refunded
      /\ next.accepted = t.accepted /\ next.declined = t.declined /\ next.blocked = t.blocked
      /\ next.spent = t.spent
  <2>1. GoodTrial(t, s)
    BY <1>6
  <2> HIDE DEF t
  <2> QED
    BY <1>2, <1>5, <2>1, JobHeard
<1> HIDE DEF next, job
<1>8. factor \in Nat /\ stop \in Nat
  BY <1>7, PaperAssumption
<1> HIDE DEF factor
<1>9. /\ t.cash = PaperSeed + t.revenue - t.cogs - t.refunded
      /\ t.accepted + t.declined + t.blocked = t.jobs /\ t.spent <= PaperBudget
      /\ t.blocked > 0 => t.refunded > 0
      /\ t.blocked = 0 => t.cash >= Bottom
  BY <1>2 DEF GoodTrial
<1>10. GoodTrial(u, s)
  <2>1. CASE takes
    <3>1. next.accepted + next.declined + next.blocked + 1 = next.jobs
      BY <1>7, <1>9
    <3>2. u = Trade(next, job, factor, stop)
      BY <2>1
    <3> HIDE DEF u, t
    <3>3. /\ u \in Trials /\ u.drawn = next.drawn /\ u.jobs = next.jobs /\ u.heard = next.heard
          /\ u.cash = PaperSeed + u.revenue - u.cogs - u.refunded
          /\ u.accepted + u.declined + u.blocked = u.jobs /\ u.spent <= PaperBudget
          /\ u.blocked > 0 => u.refunded > 0
          /\ u.blocked = 0 => u.cash >= Bottom
      BY <1>7, <1>8, <1>9, <2>1, <3>1, <3>2, TradeGood
    <3> QED
      BY <1>7, <3>3 DEF GoodTrial
  <2>2. CASE ~ takes
    <3>1. u = [next EXCEPT !.declined = next.declined + 1]
      BY <2>2
    <3> HIDE DEF u
    <3>2. /\ u \in Trials /\ u.drawn = next.drawn /\ u.jobs = next.jobs /\ u.heard = next.heard
          /\ u.cash = next.cash /\ u.revenue = next.revenue /\ u.cogs = next.cogs
          /\ u.refunded = next.refunded /\ u.accepted = next.accepted /\ u.blocked = next.blocked
          /\ u.spent = next.spent /\ u.declined = next.declined + 1
      BY <1>7, <3>1, DeclinedGood
    <3>3. u.accepted + u.declined + u.blocked = u.jobs
      <4> DEFINE p == t.accepted  q == t.declined  r == t.blocked  n == t.jobs
      <4>1. p \in Int /\ q \in Nat /\ r \in Nat /\ n \in Nat /\ p + q + r = n
        BY <1>2, <1>9, PaperAssumption DEF Trials
      <4>2. u.accepted = p /\ u.declined = q + 1 /\ u.blocked = r /\ u.jobs = n + 1
        BY <1>7, <3>2
      <4> HIDE DEF p, q, r, n
      <4>3. p + (q + 1) + r = n + 1
        BY <4>1
      <4> QED
        BY <4>2, <4>3
    <3> QED
      BY <1>7, <1>9, <3>2, <3>3 DEF GoodTrial
  <2> QED
    BY <2>1, <2>2
<1> HIDE DEF u
<1>11. u \in Trials
  BY <1>10 DEF GoodTrial
<1>12. day' \in [Cell -> Trials] /\ \A d \in Cell : GoodTrial(day'[d], s)
  BY <1>1, <1>4, <1>6, <1>10, <1>11
<1> QED
  BY <1>4, <1>5, <1>12 DEF PaperInv

\* What a row of the trial's table holds.
PaperRows == [net : Int, below : BOOLEAN, floor : Nat, minimum : Nat]

\* The order in which rows are looked at has a first row among any finite number.
LEMMA BestRow ==
  ASSUME NEW S, IsFiniteSet(S), S \subseteq PaperRows, S # {}
  PROVE  \E r \in S : \A s \in S : Beats(r, s)
<1> DEFINE HasBest(T) == \E r \in T : \A s \in T : Beats(r, s)
           C == {T \in SUBSET S : T # {} /\ ~ HasBest(T)}
<1> SUFFICES ASSUME C # {} PROVE FALSE
  OBVIOUS
<1>1. PICK T \in C : \A U \in C : U \subseteq T => U = T
  <2>1. C \subseteq SUBSET S
    OBVIOUS
  <2> HIDE DEF C
  <2> QED
    BY <2>1, SmallestSet
<1>2. PICK t : t \in T
  BY <1>1
<1>3. \A r \in S : Beats(r, r)
  BY DEF Beats, PaperRows
<1>4. \A r \in S, s \in S : Beats(r, s) \/ Beats(s, r)
  BY DEF Beats, PaperRows
<1>5. \A q \in S, r \in S, s \in S : Beats(q, r) /\ Beats(r, s) => Beats(q, s)
  BY DEF Beats, PaperRows
<1> DEFINE U == T \ {t}
<1>6. CASE U = {}
  <2>1. T = {t}
    BY <1>2, <1>6
  <2> QED
    BY <1>1, <1>3, <2>1
<1>7. CASE U # {}
  <2>1. HasBest(U)
    <3>1. U \in SUBSET S /\ U \subseteq T /\ U # T /\ U # {}
      BY <1>1, <1>2, <1>7
    <3>2. U \notin C
      <4> HIDE DEF U, C
      <4> QED
        BY <1>1, <3>1
    <3> HIDE DEF U, HasBest
    <3> QED
      BY <3>1, <3>2
  <2>2. PICK r \in U : \A s \in U : Beats(r, s)
    BY <2>1
  <2>3. T \subseteq S /\ ~ HasBest(T) /\ T = U \cup {t} /\ r \in S /\ t \in S
    BY <1>1, <1>2
  <2>4. CASE Beats(r, t)
    <3>1. \A s \in T : Beats(r, s)
      BY <2>2, <2>3, <2>4
    <3> QED
      BY <2>3, <3>1
  <2>5. CASE Beats(t, r)
    <3>1. \A s \in T : Beats(t, s)
      BY <1>3, <1>5, <2>2, <2>3, <2>5
    <3> QED
      BY <1>2, <2>3, <3>1
  <2> QED
    BY <1>4, <2>3, <2>4, <2>5
<1> QED
  BY <1>6, <1>7

\* What the figures of a trial say of its row.
LEMMA RowOfTrial ==
  ASSUME PaperInv, NEW c \in Cell
  PROVE  /\ Row(c) \in PaperRows
         /\ Row(c).net = day[c].revenue - day[c].cogs - day[c].refunded
         /\ Row(c).below <=> day[c].cash < PaperReserve
         /\ day[c].cash = PaperSeed + Row(c).net /\ day[c].cash \in Int
         /\ day[c].blocked \in Nat
         /\ day[c].blocked > 0 => day[c].refunded > 0
         /\ day[c].blocked = 0 => day[c].cash >= Bottom
<1> DEFINE t == day[c]
<1>1. /\ t.cash \in Int /\ t.revenue \in Nat /\ t.cogs \in Nat /\ t.refunded \in Nat /\ t.blocked \in Nat
      /\ t.cash = PaperSeed + t.revenue - t.cogs - t.refunded
      /\ t.blocked > 0 => t.refunded > 0
      /\ t.blocked = 0 => t.cash >= Bottom
  BY DEF PaperInv, GoodTrial, Trials
<1>2. c.floor \in Nat /\ c.minimum \in Nat
  BY PaperAssumption
<1>3. /\ Row(c).net = t.revenue - t.cogs - t.refunded /\ (Row(c).below <=> t.cash < PaperReserve)
      /\ Row(c) = [net |-> t.revenue - t.cogs - t.refunded, below |-> t.cash < PaperReserve,
                   floor |-> c.floor, minimum |-> c.minimum]
  BY DEF Row
<1> DEFINE p == t.cash  q == t.revenue  r == t.cogs  s == t.refunded
<1>4. q - r - s \in Int /\ p = PaperSeed + (q - r - s)
  <2>1. p \in Int /\ q \in Nat /\ r \in Nat /\ s \in Nat /\ p = PaperSeed + q - r - s
    BY <1>1
  <2> HIDE DEF p, q, r, s
  <2> QED
    BY <2>1, PaperAssumption
<1>5. (t.cash < PaperReserve) \in BOOLEAN
  OBVIOUS
<1>6. Row(c) \in PaperRows
  BY <1>2, <1>3, <1>4, <1>5 DEF PaperRows
<1> QED
  BY <1>1, <1>3, <1>4, <1>6

\* What the operator is advised is the best that stays within the risk.
LEMMA AdviceFollows == PaperInv => AdviceIsSound
<1> SUFFICES ASSUME PaperInv
             PROVE  /\ ~Advice.within /\ PaperSeed >= PaperReserve => \A c \in Cell : day[c].refunded > 0
                    /\ Advice.within => /\ PaperSeed + Advice.row.net >= PaperReserve
                                        /\ \A c \in Cell : day[c].blocked = 0 /\ PaperSeed >= PaperReserve
                                                           => Row(c).net <= Advice.row.net
  BY DEF AdviceIsSound
<1> DEFINE rows == {Row(c) : c \in Cell}
           safe == {r \in rows : ~r.below}
           best == CHOOSE r \in safe : \A s \in safe : Beats(r, s)
           first == CHOOSE r \in rows : \A s \in rows : r.net >= s.net
<1>1. Advice = IF safe # {} THEN [row |-> best, within |-> TRUE] ELSE [row |-> first, within |-> FALSE]
  BY DEF Advice
<1>2. PaperSeed >= PaperReserve => Bottom = PaperReserve
  BY PaperAssumption DEF Bottom, Smaller
<1>3. CASE safe = {}
  <2>1. Advice.within = FALSE
    BY <1>1, <1>3
  <2>2. ASSUME NEW c \in Cell, PaperSeed >= PaperReserve PROVE day[c].refunded > 0
    <3>1. Row(c).below
      BY <1>3
    <3>2. day[c].cash < PaperReserve /\ day[c].cash \in Int /\ day[c].blocked \in Nat
      BY <3>1, RowOfTrial
    <3>3. day[c].blocked > 0
      BY <1>2, <2>2, <3>2, RowOfTrial, PaperAssumption
    <3> QED
      BY <3>3, RowOfTrial
  <2> QED
    BY <2>1, <2>2
<1>4. CASE safe # {}
  <2>1. Advice.within = TRUE /\ Advice.row = best
    BY <1>1, <1>4
  <2>2. IsFiniteSet(safe) /\ safe \subseteq PaperRows
    <3> DEFINE f == [c \in Cell |-> Row(c)]
    <3>1. f \in Surjection(Cell, rows)
      BY DEF Surjection
    <3> HIDE DEF f, rows
    <3>2. IsFiniteSet(rows)
      BY <3>1, FS_Surjection, PaperAssumption
    <3>3. safe \subseteq rows
      OBVIOUS
    <3>4. rows \subseteq PaperRows
      BY RowOfTrial DEF rows
    <3> HIDE DEF safe
    <3> QED
      BY <3>2, <3>3, <3>4, FS_Subset
  <2>3. best \in safe /\ \A s \in safe : Beats(best, s)
    <3> HIDE DEF safe
    <3>1. \E r \in safe : \A s \in safe : Beats(r, s)
      BY <1>4, <2>2, BestRow
    <3> QED
      BY <3>1
  <2> HIDE DEF best
  <2>4. PICK c \in Cell : best = Row(c) /\ ~ Row(c).below
    BY <2>3
  <2>5. PaperSeed + best.net >= PaperReserve
    BY <2>4, RowOfTrial, PaperAssumption
  <2>6. ASSUME NEW d \in Cell, day[d].blocked = 0, PaperSeed >= PaperReserve
        PROVE  Row(d).net <= best.net
    <3>1. day[d].cash >= PaperReserve /\ day[d].cash \in Int
      BY <1>2, <2>6, RowOfTrial
    <3>2. ~ Row(d).below
      BY <3>1, RowOfTrial, PaperAssumption
    <3>3. Beats(best, Row(d))
      BY <2>3, <3>2
    <3>4. best.net \in Int /\ Row(d).net \in Int
      BY <2>4, RowOfTrial DEF PaperRows
    <3> QED
      BY <3>3, <3>4 DEF Beats
  <2> QED
    BY <2>1, <2>5, <2>6
<1> QED
  BY <1>3, <1>4

\* At first no job has been heard of.
LEMMA PaperInvInit == PaperInit => PaperInv
<1> SUFFICES ASSUME PaperInit PROVE PaperInv
  OBVIOUS
<1> DEFINE t == [drawn |-> 0, jobs |-> 0, cash |-> PaperSeed, spent |-> 0,
                 revenue |-> 0, cogs |-> 0, refunded |-> 0,
                 accepted |-> 0, declined |-> 0, blocked |-> 0, heard |-> <<>>]
<1>1. stream = <<>> /\ day = [c \in Cell |-> t]
  BY DEF PaperInit
<1>2. t \in Trials
  BY PaperAssumption DEF Trials
<1>3. stream \in Seq(Draw) /\ Len(stream) = 0
  BY <1>1
<1>4. PaperSeed >= Bottom
  BY PaperAssumption DEF Bottom, Smaller
<1>5. /\ t.drawn = 0 /\ t.jobs = 0 /\ t.cash = PaperSeed /\ t.spent = 0 /\ t.revenue = 0 /\ t.cogs = 0
      /\ t.refunded = 0 /\ t.accepted = 0 /\ t.declined = 0 /\ t.blocked = 0 /\ t.heard = <<>>
  OBVIOUS
<1> HIDE DEF t
<1>6. GoodTrial(t, stream)
  BY <1>2, <1>3, <1>4, <1>5, PaperAssumption DEF GoodTrial
<1> QED
  BY <1>1, <1>2, <1>3, <1>6 DEF PaperInv

\* The inductive invariant has what the run checks in it.
LEMMA PaperInvMeans == PaperInv => PaperHolds
<1> SUFFICES ASSUME PaperInv PROVE PaperHolds
  OBVIOUS
<1>1. PaperTypeOK
  BY DEF PaperInv, PaperTypeOK
<1>2. ASSUME NEW c \in Cell, day[c].cash < Smaller(PaperSeed, PaperReserve)
      PROVE  day[c].blocked > 0 /\ day[c].refunded > 0
  <2>1. Bottom \in Int
    BY PaperAssumption DEF Bottom, Smaller
  <2>2. day[c].blocked # 0
    BY <1>2, <2>1, RowOfTrial DEF Bottom
  <2> QED
    BY <2>2, RowOfTrial
<1>3. DayTiesOut
  BY <1>2 DEF DayTiesOut, PaperInv, GoodTrial
<1>4. SameDemand
  <2> SUFFICES ASSUME NEW c \in Cell, NEW d \in Cell, day[c].jobs = day[d].jobs
               PROVE  day[c].heard = day[d].heard
    BY DEF SameDemand
  <2> DEFINE x == day[c].heard  y == day[d].heard
  <2>1. /\ x \in Seq(Draw) /\ y \in Seq(Draw) /\ Len(x) = Len(y)
        /\ \A i \in 1..Len(x) : x[i] = y[i]
    <3> DEFINE n == day[c].jobs
    <3>1. /\ x \in Seq(Draw) /\ Len(x) = n /\ \A i \in 1..n : x[i] = stream[2 * i - 1]
      BY DEF PaperInv, GoodTrial, Trials
    <3>2. /\ y \in Seq(Draw) /\ Len(y) = n /\ \A i \in 1..n : y[i] = stream[2 * i - 1]
      BY DEF PaperInv, GoodTrial, Trials
    <3> HIDE DEF x, y, n
    <3> QED
      BY <3>1, <3>2
  <2> HIDE DEF x, y
  <2>2. x = y
    BY <2>1
  <2> QED
    BY <2>2 DEF x, y
<1> QED
  BY <1>1, <1>3, <1>4, AdviceFollows DEF PaperHolds

\* The figures of every simulated day tie out, all policies are offered the same
\* jobs, and the advice keeps to the reserve it was asked to keep, in every state of
\* every behaviour (simulate.run_trial; optimize.sweep and recommend).
THEOREM PaperDaysTieOut == PaperSpec => []PaperHolds
<1>1. ASSUME PaperInv, [PaperNext]_paperVars PROVE PaperInv'
  <2>1. CASE UNCHANGED paperVars
    BY <1>1, <2>1 DEF paperVars, PaperInv
  <2>2. CASE PaperNext
    BY <1>1, <2>2, PaperStepGood DEF PaperNext
  <2> QED
    BY <1>1, <2>1, <2>2
<1>2. PaperSpec => []PaperInv
  BY <1>1, PaperInvInit, PTL DEF PaperSpec
<1> QED
  BY <1>2, PaperInvMeans, PTL

(***************************************************************************)
(* Research.  The tools a draft has called are within what the allowance   *)
(* says was used since, draft for draft and death for death: a call is     *)
(* debited before it is recorded, and what a dead process had recorded is  *)
(* forgotten while its debits stay.                                        *)
(***************************************************************************)

\* What the contexts of both drafts record is within the allowance used.
Accounted(c, d, u) == /\ d.search + c.search <= u["search"]
                     /\ d.calls + c.calls <= u["tool_calls"]

WithinAllowance(u) == u \in [Meter -> Nat] /\ \A m \in Meter : u[m] <= Allowed[m]

\* A first draft that was kept, and is to be redone.
FirstDraft(k) == k \in [draft : Draft, context : Contexts] /\ ShouldRetry(k.draft)

\* A handler at work: its first draft is kept exactly when it writes the second.
AtWork(n, k, r, c, u) ==
    /\ n \in 1..2 /\ n <= u["attempts"]
    /\ r \in 0..MaxRounds
    /\ n = 1 => k = NoDraft /\ Accounted(c, NoContext, u)
    /\ n = 2 => FirstDraft(k) /\ Accounted(c, k.context, u)

\* An order that has shipped.
Sound(s, k, u) ==
    /\ s \in [draft : Draft, attempts : 1..2, search : Nat, calls : Nat, tokens : Nat, exhausted : BOOLEAN]
    /\ s.search = u["search"] /\ s.tokens = u["tokens"]
    /\ s.calls <= u["tool_calls"] /\ s.attempts <= u["attempts"]
    /\ ShouldRetry(s.draft) => s.attempts = 2 \/ s.exhausted
    /\ s.attempts = 1 => k = NoDraft
    /\ s.attempts = 2 => FirstDraft(k) /\ ScoreOf(s.draft) >= ScoreOf(k.draft)

ResearchInv ==
    /\ at \in {"idle", "drafting", "closing", "shipped", "failed"}
    /\ WithinAllowance(used)
    /\ attempt \in 0..2 /\ rounds \in 0..MaxRounds /\ context \in Contexts /\ runs \in 0..Runs
    /\ kept \in [draft : Draft, context : Contexts] \cup {NoDraft}
    /\ at \in {"drafting", "closing"} => AtWork(attempt, kept, rounds, context, used)
    /\ at = "drafting" => rounds < MaxRounds
    /\ at = "shipped" => Sound(shipped, kept, used)
    /\ at # "shipped" => shipped = NoDraft
\* What dispatching one call keeps true, dispatching a message's calls does.
LEMMA DispatchAllKeeps ==
  ASSUME NEW R, NEW begun \in R, NEW tools \in Seq(Tool),
         \A s \in R, t \in Tool : Dispatch(s, t) \in R
  PROVE  DispatchAll(begun, tools) \in R
<1> DEFINE n == Len(tools)
           body(f) == [i \in 0..n |-> IF i = 0 THEN begun ELSE Dispatch(f[i - 1], tools[i])]
           done == CHOOSE f : f = body(f)
           F == [p \in R \X (1..n) |-> Dispatch(p[1], tools[p[2]])]
<1>1. n \in Nat /\ \A i \in 1..n : tools[i] \in Tool
  OBVIOUS
<1>2. DispatchAll(begun, tools) = done[n]
  BY DEF DispatchAll
<1> HIDE DEF n
<1>3. F \in [R \X (1..n) -> R] /\ \A s \in R, i \in 1..n : F[<<s, i>>] = Dispatch(s, tools[i])
  BY <1>1
<1> HIDE DEF F
<1>4. PICK g \in [0..n -> R] : g[0] = begun /\ \A i \in 1..n : g[i] = F[<<g[i - 1], i>>]
  <2>1. n \in Nat /\ F \in [R \X (1..n) -> R]
    BY <1>1, <1>3
  <2>2. \E g \in [0..n -> R] : Unrolled(g, begun, F, n)
    BY <2>1, Unrolls
  <2> QED
    BY <2>2 DEF Unrolled
<1>5. g = body(g)
  <2>1. g = [i \in 0..n |-> g[i]]
    OBVIOUS
  <2>2. \A i \in 0..n : g[i] = IF i = 0 THEN begun ELSE Dispatch(g[i - 1], tools[i])
    <3> SUFFICES ASSUME NEW i \in 0..n
                 PROVE  g[i] = IF i = 0 THEN begun ELSE Dispatch(g[i - 1], tools[i])
      OBVIOUS
    <3>1. i = 0 \/ (i \in 1..n /\ g[i - 1] \in R)
      BY <1>1
    <3> QED
      BY <1>1, <1>3, <1>4, <3>1
  <2> QED
    BY <2>1, <2>2
<1> HIDE DEF body
<1>6. done = body(done)
  BY <1>5
<1>7. \A f : body(f)[0] = begun /\ \A i \in 1..n : body(f)[i] = Dispatch(f[i - 1], tools[i])
  BY <1>1 DEF body
<1> HIDE DEF done
<1>8. done[0] = begun /\ \A i \in 1..n : done[i] = Dispatch(done[i - 1], tools[i])
  BY <1>6, <1>7
<1> DEFINE S == {i \in 0..n : done[i] \in R}
<1>9. 0..n \subseteq S
  <2>1. 0 \in S /\ \A i \in 1..n : i - 1 \in S => i \in S
    BY <1>1, <1>8
  <2> HIDE DEF S
  <2> QED
    BY <1>1, <2>1, UpTo
<1> QED
  BY <1>1, <1>2, <1>9

\* A debit adds one to the meters it names, and stays within the allowance.
LEMMA DebitAdds ==
  ASSUME NEW u, WithinAllowance(u), NEW meters \in SUBSET Meter
  PROVE  /\ Debited(u, meters) \in [Meter -> Nat]
         /\ \A m \in meters : Debited(u, meters)[m] = u[m] + 1
         /\ \A m \in Meter \ meters : Debited(u, meters)[m] = u[m]
         /\ \A m \in Meter : u[m] <= Debited(u, meters)[m]
         /\ Covers(u, meters) => WithinAllowance(Debited(u, meters))
<1>1. u \in [Meter -> Nat] /\ Allowed \in [Meter -> Nat] /\ \A m \in Meter : u[m] <= Allowed[m]
  BY ResearchAssumption DEF WithinAllowance
<1>2. \A m \in Meter : Debited(u, meters)[m] = IF m \in meters THEN u[m] + 1 ELSE u[m]
  BY DEF Debited
<1>3. Debited(u, meters) \in [Meter -> Nat]
  BY <1>1 DEF Debited
<1>4. Covers(u, meters) => \A m \in Meter : Debited(u, meters)[m] <= Allowed[m]
  BY <1>1, <1>2 DEF Covers
<1> QED
  BY <1>1, <1>2, <1>3, <1>4 DEF WithinAllowance

\* What a draft's tool calls may leave behind: its calls are accounted for,
\* next to those of the context given, and so are n attempts.
Tallies(c, n) ==
    {s \in [used : [Meter -> Nat], calls : Nat, search : Nat, exhausted : BOOLEAN] :
       WithinAllowance(s.used) /\ n <= s.used["attempts"] /\ Accounted(s, c, s.used)}

\* One call leaves such a state: it is recorded after its debits, or not at all.
LEMMA DispatchTallies ==
  ASSUME NEW c \in Contexts, NEW n \in Nat, NEW s \in Tallies(c, n), NEW tool \in Tool
  PROVE  Dispatch(s, tool) \in Tallies(c, n)
<1> DEFINE u == s.used
           meters == {"tool_calls"} \cup (IF tool = "search" THEN {"search"} ELSE {})
           after == Debited(u, meters)
           later == Debited(after, {"tokens"})
           Done(v) == [used |-> v, exhausted |-> s.exhausted, calls |-> s.calls + 1,
                       search |-> s.search + IF tool = "search" THEN 1 ELSE 0]
<1>1. /\ s \in [used : [Meter -> Nat], calls : Nat, search : Nat, exhausted : BOOLEAN]
      /\ WithinAllowance(u) /\ n <= u["attempts"] /\ u \in [Meter -> Nat]
      /\ c.search + s.search <= u["search"] /\ c.calls + s.calls <= u["tool_calls"]
      /\ c.search \in Nat /\ c.calls \in Nat /\ s.search \in Nat /\ s.calls \in Nat
      /\ s.exhausted \in BOOLEAN
  BY DEF Tallies, Accounted, Contexts
<1>2. meters \subseteq Meter /\ "tool_calls" \in meters /\ "attempts" \notin meters
      /\ "tokens" \notin meters /\ ("search" \in meters <=> tool = "search")
      /\ {"tokens"} \subseteq Meter /\ Meter = {"attempts", "tokens", "search", "tool_calls"}
  BY DEF Meter
<1> HIDE DEF meters, u
<1>3. /\ after \in [Meter -> Nat] /\ after["tool_calls"] = u["tool_calls"] + 1
      /\ after["attempts"] = u["attempts"]
      /\ after["search"] = u["search"] + IF tool = "search" THEN 1 ELSE 0
      /\ Covers(u, meters) => WithinAllowance(after)
  BY <1>1, <1>2, DebitAdds
<1> HIDE DEF after
<1>4. WithinAllowance(after) =>
      /\ later \in [Meter -> Nat] /\ later["tool_calls"] = after["tool_calls"]
      /\ later["attempts"] = after["attempts"] /\ later["search"] = after["search"]
      /\ Covers(after, {"tokens"}) => WithinAllowance(later)
  BY <1>2, DebitAdds
<1> HIDE DEF later
<1>5. [s EXCEPT !.exhausted = TRUE] \in Tallies(c, n)
  BY <1>1 DEF Tallies, Accounted, u
<1>6. ASSUME WithinAllowance(after)
      PROVE  [s EXCEPT !.used = after] \in Tallies(c, n)
  <2> DEFINE t == [s EXCEPT !.used = after]
  <2>1. t \in [used : [Meter -> Nat], calls : Nat, search : Nat, exhausted : BOOLEAN]
        /\ t.used = after /\ t.calls = s.calls /\ t.search = s.search
    BY <1>1, <1>3
  <2> HIDE DEF t
  <2>2. n <= t.used["attempts"] /\ c.search + t.search <= t.used["search"]
        /\ c.calls + t.calls <= t.used["tool_calls"]
    <3>1. u["search"] \in Nat /\ u["tool_calls"] \in Nat
      BY <1>1, <1>2
    <3> QED
      BY <1>1, <1>3, <2>1, <3>1
  <2> QED
    BY <1>6, <2>1, <2>2 DEF Tallies, Accounted, t
<1>7. ASSUME NEW v \in [Meter -> Nat], WithinAllowance(v), v["attempts"] = after["attempts"],
             v["search"] = after["search"], v["tool_calls"] = after["tool_calls"]
      PROVE  Done(v) \in Tallies(c, n)
  <2> DEFINE t == Done(v)
             one == IF tool = "search" THEN 1 ELSE 0
  <2>1. t.used = v /\ t.calls = s.calls + 1 /\ t.search = s.search + one /\ t.exhausted = s.exhausted
    OBVIOUS
  <2>2. one \in Nat
    OBVIOUS
  <2>3. t \in [used : [Meter -> Nat], calls : Nat, search : Nat, exhausted : BOOLEAN]
    BY <1>1, <2>2
  <2>4. u["search"] \in Nat /\ u["tool_calls"] \in Nat
    BY <1>1, <1>2
  <2>5. v["search"] = u["search"] + one /\ v["tool_calls"] = u["tool_calls"] + 1 /\ v["attempts"] = u["attempts"]
    BY <1>3, <1>7
  <2> HIDE DEF t, one
  <2>6. n <= v["attempts"] /\ c.search + t.search <= v["search"] /\ c.calls + t.calls <= v["tool_calls"]
    BY <1>1, <2>1, <2>2, <2>4, <2>5
  <2>7. t \in Tallies(c, n)
    BY <1>7, <2>1, <2>3, <2>6 DEF Tallies, Accounted
  <2> QED
    BY <2>7 DEF t
<1>8. Dispatch(s, tool) \in {s, [s EXCEPT !.exhausted = TRUE]}
      \/ (Covers(u, meters) /\ Dispatch(s, tool) \in {Done(after), [s EXCEPT !.used = after]})
      \/ (Covers(u, meters) /\ Covers(after, {"tokens"}) /\ Dispatch(s, tool) = Done(later))
  <2>1. Dispatch(s, tool) =
        CASE s.calls >= MaxCalls -> [s EXCEPT !.exhausted = TRUE]
          [] s.calls < MaxCalls /\ tool = "bogus" -> s
          [] s.calls < MaxCalls /\ tool # "bogus" /\ ~Covers(u, meters) -> [s EXCEPT !.exhausted = TRUE]
          [] OTHER -> IF tool = "search" THEN Done(after)
                      ELSE IF Covers(after, {"tokens"}) THEN Done(later)
                      ELSE [s EXCEPT !.used = after]
    BY DEF Dispatch, u, meters, after, later
  <2> HIDE DEF Done
  <2>2. s.calls >= MaxCalls \/ s.calls < MaxCalls
    BY <1>1, ResearchAssumption
  <2> QED
    BY <2>1, <2>2
<1> QED
  BY <1>3, <1>4, <1>5, <1>6, <1>7, <1>8
\* Scores are numbers: two drafts can be compared.
LEMMA ScoreIsNumber ==
  ASSUME NEW d \in Draft
  PROVE  ScoreOf(d) \in Int
<1> DEFINE p == Points(d)
<1>1. /\ d.sections \in Nat /\ d.length \in Nat /\ d.figures \in Nat /\ d.hits \in Nat
      /\ Keywords \in Nat
  BY ResearchAssumption DEF Drafts
<1>2. /\ p.sections = 450 * d.sections /\ p.length = 300 * Least(d.length, 4)
      /\ p.evidence = 400 * Least(d.figures, 3) /\ p.clean = IF d.clean THEN 900 ELSE 0
      /\ p.topic = IF Keywords = 0 \/ 2 * d.hits >= Keywords THEN 900
                   ELSE (900 * 2 * d.hits) \div Keywords
  BY DEF Points
<1>3. ScoreOf(d) = p.sections + p.length + p.evidence + p.clean + p.topic
  BY DEF ScoreOf
<1> HIDE DEF p
<1>4. p.topic \in Int
  <2> DEFINE h == d.hits  x == 900 * 2 * h
  <2>1. h \in Nat /\ x \in Int
    BY <1>1
  <2>2. p.topic = 900 \/ (Keywords # 0 /\ p.topic = x \div Keywords)
    BY <1>2
  <2> HIDE DEF h, x
  <2>3. Keywords # 0 => x \div Keywords \in Int
    BY <1>1, <2>1
  <2> QED
    BY <2>2, <2>3
<1>5. p.sections \in Int /\ p.length \in Int /\ p.evidence \in Int /\ p.clean \in Int
  <2> DEFINE a == d.sections  b == Least(d.length, 4)  c == Least(d.figures, 3)
  <2>1. a \in Int /\ b \in Int /\ c \in Int
    BY <1>1 DEF Least
  <2>2. p.sections = 450 * a /\ p.length = 300 * b /\ p.evidence = 400 * c
    BY <1>2
  <2> HIDE DEF a, b, c
  <2> QED
    BY <1>2, <2>1, <2>2
<1> QED
  <2> DEFINE a == p.sections  b == p.length  c == p.evidence  e == p.clean  f == p.topic
  <2>1. a \in Int /\ b \in Int /\ c \in Int /\ e \in Int /\ f \in Int
    BY <1>4, <1>5
  <2>2. ScoreOf(d) = a + b + c + e + f
    BY <1>3
  <2> HIDE DEF a, b, c, e, f
  <2> QED
    BY <2>1, <2>2

\* What ships bills all that was used, when its context is accounted for.
LEMMA ShippedIsSound ==
  ASSUME NEW d \in Draft, NEW n \in 1..2, NEW c \in Contexts, NEW u, WithinAllowance(u), NEW k,
         c.search <= u["search"], c.calls <= u["tool_calls"], n <= u["attempts"],
         ShouldRetry(d) => n = 2 \/ c.exhausted,
         n = 1 => k = NoDraft,
         n = 2 => FirstDraft(k) /\ ScoreOf(d) >= ScoreOf(k.draft),
         Ship(d, n, c, u)
  PROVE  at' = "shipped" /\ Sound(shipped', k, u)
<1>1. /\ u \in [Meter -> Nat] /\ u["search"] \in Nat /\ u["tool_calls"] \in Nat /\ u["tokens"] \in Nat
      /\ c.search \in Nat /\ c.calls \in Nat /\ c.exhausted \in BOOLEAN
  BY DEF WithinAllowance, Meter, Contexts
<1> DEFINE t == [draft |-> d, attempts |-> n, calls |-> c.calls,
                 search |-> IF c.search >= u["search"] THEN c.search ELSE u["search"],
                 tokens |-> u["tokens"], exhausted |-> c.exhausted]
<1>2. at' = "shipped" /\ shipped' = t
  BY DEF Ship
<1>3. t.draft = d /\ t.attempts = n /\ t.calls = c.calls /\ t.search = u["search"]
      /\ t.tokens = u["tokens"] /\ t.exhausted = c.exhausted
  BY <1>1
<1>4. t \in [draft : Draft, attempts : 1..2, search : Nat, calls : Nat, tokens : Nat, exhausted : BOOLEAN]
  BY <1>1
<1> HIDE DEF t
<1>5. Sound(t, k, u)
  BY <1>3, <1>4 DEF Sound, FirstDraft
<1> QED
  BY <1>2, <1>5

\* No kept draft is the missing one.
LEMMA KeptIsSome ==
  ASSUME NEW k \in [draft : Draft, context : Contexts]
  PROVE  k # NoDraft
<1>1. DOMAIN k = {"draft", "context"}
  OBVIOUS
<1>2. DOMAIN NoDraft = {"draft"}
  BY DEF NoDraft
<1> QED
  BY <1>1, <1>2

\* A handler that begins a draft has recorded nothing for it.
LEMMA BeginIsAccounted ==
  ASSUME NEW u, WithinAllowance(u)
  PROVE  Accounted(NoContext, NoContext, u) /\ NoContext \in Contexts
<1>1. u["search"] \in Nat /\ u["tool_calls"] \in Nat
  BY DEF WithinAllowance, Meter
<1> QED
  BY <1>1 DEF Accounted, NoContext, Contexts

\* The initial state.
LEMMA ResearchStarts == ResearchInit => ResearchInv
<1> SUFFICES ASSUME ResearchInit PROVE ResearchInv
  OBVIOUS
<1>1. NoContext \in Contexts /\ Runs \in Nat /\ MaxRounds \in Nat /\ Allowed \in [Meter -> Nat]
  BY ResearchAssumption DEF NoContext, Contexts
<1>2. WithinAllowance(used)
  BY <1>1 DEF ResearchInit, WithinAllowance
<1> QED
  BY <1>1, <1>2 DEF ResearchInit, ResearchInv

\* An attempt is debited before the order is taken up.
LEMMA TakeOrderKeeps == ResearchInv /\ TakeOrder => ResearchInv'
<1> SUFFICES ASSUME ResearchInv, TakeOrder PROVE ResearchInv'
  OBVIOUS
<1>1. WithinAllowance(used) /\ runs \in 0..Runs /\ shipped = NoDraft /\ attempt \in 0..2
  BY DEF ResearchInv, TakeOrder
<1>2. runs' \in 0..Runs
  BY <1>1, ResearchAssumption DEF TakeOrder
<1>3. NoContext \in Contexts
  BY DEF NoContext, Contexts
<1>4. rounds' = 0 /\ context' = NoContext /\ kept' = NoDraft /\ shipped' = NoDraft /\ MaxRounds \in Nat \ {0}
  BY <1>1, ResearchAssumption DEF TakeOrder
<1>5. CASE Covers(used, {"attempts"})
  <2>1. at' = "drafting" /\ used' = Debited(used, {"attempts"}) /\ attempt' = 1
    BY <1>5 DEF TakeOrder
  <2>2. WithinAllowance(used') /\ used'["attempts"] = used["attempts"] + 1 /\ used["attempts"] \in Nat
    BY <1>1, <1>5, <2>1, DebitAdds DEF Meter, WithinAllowance
  <2>3. Accounted(NoContext, NoContext, used')
    BY <2>2, BeginIsAccounted
  <2>4. AtWork(attempt', kept', rounds', context', used')
    BY <1>4, <2>1, <2>2, <2>3 DEF AtWork
  <2> QED
    BY <1>2, <1>3, <1>4, <2>1, <2>2, <2>4 DEF ResearchInv
<1>6. CASE ~Covers(used, {"attempts"})
  <2>1. at' = "failed" /\ used' = used /\ attempt' = attempt
    BY <1>6 DEF TakeOrder
  <2> QED
    BY <1>1, <1>2, <1>3, <1>4, <2>1 DEF ResearchInv
<1> QED
  BY <1>5, <1>6
\* What a handler at work relies on, spelled out.
LEMMA WorkFacts ==
  ASSUME ResearchInv, at \in {"drafting", "closing"}
  PROVE  /\ WithinAllowance(used) /\ AtWork(attempt, kept, rounds, context, used)
         /\ attempt \in 1..2 /\ attempt <= used["attempts"] /\ used["attempts"] \in Nat
         /\ used["search"] \in Nat /\ used["tool_calls"] \in Nat
         /\ context \in Contexts /\ context.search \in Nat /\ context.calls \in Nat
         /\ context.exhausted \in BOOLEAN
         /\ shipped = NoDraft /\ runs \in 0..Runs /\ rounds \in 0..MaxRounds
         /\ kept \in [draft : Draft, context : Contexts] \cup {NoDraft}
         /\ attempt = 1 => kept = NoDraft /\ Accounted(context, NoContext, used)
         /\ attempt = 2 => FirstDraft(kept) /\ Accounted(context, kept.context, used)
         /\ at = "drafting" => rounds < MaxRounds
<1>1. WithinAllowance(used) /\ AtWork(attempt, kept, rounds, context, used)
  BY DEF ResearchInv
<1>2. context \in Contexts /\ shipped = NoDraft /\ runs \in 0..Runs /\ (at = "drafting" => rounds < MaxRounds)
      /\ kept \in [draft : Draft, context : Contexts] \cup {NoDraft}
  BY DEF ResearchInv
<1>3. used["attempts"] \in Nat /\ used["search"] \in Nat /\ used["tool_calls"] \in Nat
  BY <1>1 DEF WithinAllowance, Meter
<1>4. context.search \in Nat /\ context.calls \in Nat /\ context.exhausted \in BOOLEAN
  BY <1>2 DEF Contexts
<1> QED
  BY <1>1, <1>2, <1>3, <1>4 DEF AtWork

\* A debit of other meters keeps what is recorded accounted for.
LEMMA AccountedKept ==
  ASSUME NEW c \in Contexts, NEW d \in Contexts, NEW u \in [Meter -> Nat], NEW v \in [Meter -> Nat],
         Accounted(c, d, u), \A m \in Meter : u[m] <= v[m]
  PROVE  Accounted(c, d, v)
<1>1. /\ u["search"] \in Nat /\ v["search"] \in Nat /\ u["search"] <= v["search"]
      /\ u["tool_calls"] \in Nat /\ v["tool_calls"] \in Nat /\ u["tool_calls"] <= v["tool_calls"]
      /\ d.search + c.search \in Nat /\ d.calls + c.calls \in Nat
  BY DEF Meter, Contexts
<1>2. d.search + c.search <= u["search"] /\ d.calls + c.calls <= u["tool_calls"]
  BY DEF Accounted
<1> HIDE DEF Accounted
<1> DEFINE a == d.search + c.search  b == d.calls + c.calls  e == u["search"]  f == v["search"]
           g == u["tool_calls"]  h == v["tool_calls"]
<1>3. a \in Nat /\ b \in Nat /\ e \in Nat /\ f \in Nat /\ g \in Nat /\ h \in Nat
      /\ a <= e /\ e <= f /\ b <= g /\ g <= h
  BY <1>1, <1>2
<1> HIDE DEF a, b, e, f, g, h
<1>4. a <= f /\ b <= h
  BY <1>3
<1> QED
  BY <1>4 DEF a, b, f, h, Accounted

\* A handler that goes on after a debit is still accounted for.
LEMMA WorkKept ==
  ASSUME NEW n, NEW k, NEW r, NEW c \in Contexts, NEW u, NEW v, NEW q \in 0..MaxRounds,
         WithinAllowance(u), WithinAllowance(v), \A m \in Meter : u[m] <= v[m],
         AtWork(n, k, r, c, u)
  PROVE  AtWork(n, k, q, c, v)
<1>1. u \in [Meter -> Nat] /\ v \in [Meter -> Nat] /\ NoContext \in Contexts
  BY DEF WithinAllowance, NoContext, Contexts
<1>2. n \in 1..2 /\ n <= u["attempts"] /\ u["attempts"] <= v["attempts"]
      /\ u["attempts"] \in Nat /\ v["attempts"] \in Nat
  BY <1>1 DEF AtWork, Meter
<1>3. n <= v["attempts"]
  BY <1>2
<1>4. n = 1 => k = NoDraft /\ Accounted(c, NoContext, v)
  BY <1>1, AccountedKept DEF AtWork
<1>5. n = 2 => FirstDraft(k) /\ Accounted(c, k.context, v)
  <2>1. FirstDraft(k) => k.context \in Contexts
    BY DEF FirstDraft
  <2> QED
    BY <1>1, <2>1, AccountedKept DEF AtWork
<1> QED
  BY <1>2, <1>3, <1>4, <1>5 DEF AtWork

\* The second request of a handler that has no tokens: the first draft ships.
LEMMA NoTokensKeeps == ResearchInv /\ NoTokens => ResearchInv'
<1> SUFFICES ASSUME ResearchInv, NoTokens PROVE ResearchInv'
  OBVIOUS
<1>1. /\ used' = used /\ attempt' = attempt /\ rounds' = rounds /\ context' = context
      /\ kept' = kept /\ runs' = runs /\ at \in {"drafting", "closing"}
  BY DEF NoTokens
<1>2. /\ WithinAllowance(used) /\ attempt \in 1..2 /\ attempt <= used["attempts"]
      /\ used["attempts"] \in Nat /\ used["search"] \in Nat /\ used["tool_calls"] \in Nat
      /\ context \in Contexts /\ context.search \in Nat /\ context.calls \in Nat
      /\ shipped = NoDraft /\ runs \in 0..Runs /\ rounds \in 0..MaxRounds
      /\ kept \in [draft : Draft, context : Contexts] \cup {NoDraft}
      /\ attempt = 2 => FirstDraft(kept) /\ Accounted(context, kept.context, used)
  BY <1>1, WorkFacts
<1>3. CASE attempt = 1
  <2>1. at' = "failed" /\ shipped' = NoDraft
    BY <1>2, <1>3 DEF NoTokens
  <2> QED
    BY <1>1, <1>2, <2>1 DEF ResearchInv
<1>4. CASE attempt = 2
  <2> DEFINE c == [kept.context EXCEPT !.exhausted = TRUE]  d == kept.draft
  <2>1. Ship(d, 2, c, used)
    BY <1>4 DEF NoTokens
  <2>2. FirstDraft(kept) /\ d \in Draft /\ kept.context \in Contexts /\ Accounted(context, kept.context, used)
    BY <1>2, <1>4 DEF FirstDraft
  <2>3. c \in Contexts /\ c.search = kept.context.search /\ c.calls = kept.context.calls
        /\ c.search \in Nat /\ c.calls \in Nat
    BY <2>2 DEF Contexts
  <2>4. c.search <= used["search"] /\ c.calls <= used["tool_calls"]
    <3>1. c.search + context.search <= used["search"] /\ c.calls + context.calls <= used["tool_calls"]
      BY <2>2, <2>3 DEF Accounted
    <3> HIDE DEF c
    <3> QED
      BY <1>2, <2>3, <3>1
  <2>5. ScoreOf(d) >= ScoreOf(d)
    BY <2>2, ScoreIsNumber
  <2> HIDE DEF c
  <2>6. at' = "shipped" /\ Sound(shipped', kept, used)
    BY <1>2, <1>4, <2>1, <2>2, <2>3, <2>4, <2>5, ShippedIsSound
  <2> QED
    BY <1>1, <1>2, <2>6 DEF ResearchInv
<1> QED
  BY <1>2, <1>3, <1>4

\* A round without tools, or with tools: its requests and calls are debited.
LEMMA RoundKeeps ==
  ASSUME ResearchInv, at = "drafting", WithinAllowance(used'),
         context' \in Contexts, AtWork(attempt, kept, rounds, context', used'),
         rounds' = rounds + 1, at' \in {"drafting", "closing"},
         rounds + 1 = MaxRounds => at' = "closing",
         attempt' = attempt, kept' = kept, shipped' = shipped, runs' = runs
  PROVE  ResearchInv'
<1>1. rounds \in 0..MaxRounds /\ rounds < MaxRounds /\ MaxRounds \in Nat
  BY WorkFacts, ResearchAssumption
<1>2. rounds' \in 0..MaxRounds /\ (at' = "drafting" => rounds' < MaxRounds)
  BY <1>1
<1>3. \A m \in Meter : used'[m] <= used'[m]
  BY DEF WithinAllowance
<1>4. AtWork(attempt', kept', rounds', context', used')
  BY <1>2, <1>3, WorkKept
<1> QED
  BY <1>2, <1>4 DEF ResearchInv

\* The model chats, or names the tools it wants.
LEMMA ChatKeeps == ResearchInv /\ Chat => ResearchInv'
<1> SUFFICES ASSUME ResearchInv, Chat PROVE ResearchInv'
  OBVIOUS
<1>1. /\ at = "drafting" /\ used' = Debited(used, {"tokens"}) /\ Covers(used, {"tokens"})
      /\ rounds' = rounds + 1 /\ at' = IF rounds + 1 = MaxRounds THEN "closing" ELSE "drafting"
      /\ attempt' = attempt /\ context' = context /\ kept' = kept /\ shipped' = shipped /\ runs' = runs
  BY DEF Chat
<1>2. WithinAllowance(used) /\ AtWork(attempt, kept, rounds, context, used) /\ context \in Contexts
      /\ rounds \in 0..MaxRounds
  BY <1>1, WorkFacts
<1>3. WithinAllowance(used') /\ \A m \in Meter : used[m] <= used'[m]
  BY <1>1, <1>2, DebitAdds DEF Meter
<1>4. AtWork(attempt, kept, rounds, context', used')
  BY <1>1, <1>2, <1>3, WorkKept
<1> QED
  BY <1>1, <1>2, <1>3, <1>4, RoundKeeps

\* The calls of one message are within the allowance, one after the other.
LEMMA AskToolsKeeps == \A tools \in Asked : ResearchInv /\ AskTools(tools) => ResearchInv'
<1> SUFFICES ASSUME NEW tools \in Asked, ResearchInv, AskTools(tools) PROVE ResearchInv'
  OBVIOUS
<1> DEFINE u == Debited(used, {"tokens"})
           begun == [used |-> u, calls |-> context.calls, search |-> context.search,
                     exhausted |-> context.exhausted]
           done == DispatchAll(begun, tools)
           base == IF attempt = 2 THEN kept.context ELSE NoContext
           R == Tallies(base, attempt)
<1>1. /\ at = "drafting" /\ Covers(used, {"tokens"}) /\ used' = done.used
      /\ context' = [calls |-> done.calls, search |-> done.search, exhausted |-> done.exhausted]
      /\ at' = IF done.exhausted \/ rounds + 1 = MaxRounds THEN "closing" ELSE "drafting"
      /\ rounds' = rounds + 1
      /\ attempt' = attempt /\ kept' = kept /\ shipped' = shipped /\ runs' = runs
  BY DEF AskTools
<1>2. /\ WithinAllowance(used) /\ AtWork(attempt, kept, rounds, context, used) /\ context \in Contexts
      /\ context.calls \in Nat /\ context.search \in Nat /\ context.exhausted \in BOOLEAN
      /\ rounds \in 0..MaxRounds /\ attempt \in 1..2
      /\ attempt = 2 => FirstDraft(kept)
  BY <1>1, WorkFacts
<1>3. WithinAllowance(u) /\ \A m \in Meter : used[m] <= u[m]
  BY <1>1, <1>2, DebitAdds DEF Meter
<1>4. AtWork(attempt, kept, rounds, context, u)
  <2> HIDE DEF u
  <2> QED
    BY <1>2, <1>3, WorkKept
<1>5. base \in Contexts /\ Accounted(context, base, u) /\ attempt <= u["attempts"]
  <2> HIDE DEF u
  <2>1. FirstDraft(kept) => kept.context \in Contexts
    BY DEF FirstDraft
  <2>2. NoContext \in Contexts
    BY DEF NoContext, Contexts
  <2> QED
    BY <1>2, <1>4, <2>1, <2>2 DEF AtWork
<1>6. begun \in R
  <2> HIDE DEF u, base
  <2>1. begun.used = u /\ begun.calls = context.calls /\ begun.search = context.search
        /\ begun \in [used : [Meter -> Nat], calls : Nat, search : Nat, exhausted : BOOLEAN]
    BY <1>2, <1>3 DEF WithinAllowance
  <2> HIDE DEF begun
  <2> QED
    BY <1>3, <1>5, <2>1 DEF Tallies, Accounted
<1>7. tools \in Seq(Tool)
  BY ResearchAssumption
<1>8. \A s \in R, t \in Tool : Dispatch(s, t) \in R
  <2> HIDE DEF base
  <2>1. attempt \in Nat
    BY <1>2
  <2> QED
    BY <1>5, <2>1, DispatchTallies
<1>9. done \in R
  <2> HIDE DEF R, begun
  <2> QED
    BY <1>6, <1>7, <1>8, DispatchAllKeeps
<1> HIDE DEF done, u, base
<1>10. /\ WithinAllowance(done.used) /\ done.used \in [Meter -> Nat] /\ done.calls \in Nat
       /\ done.search \in Nat /\ done.exhausted \in BOOLEAN /\ attempt <= done.used["attempts"]
       /\ Accounted(done, base, done.used)
  BY <1>9 DEF Tallies
<1>11. context' \in Contexts /\ Accounted(context', base, done.used)
  BY <1>1, <1>10 DEF Contexts, Accounted
<1>12. AtWork(attempt, kept, rounds, context', used')
  BY <1>1, <1>2, <1>4, <1>10, <1>11 DEF AtWork, base
<1> QED
  BY <1>1, <1>10, <1>11, <1>12, RoundKeeps
\* The draft is written: the better one ships, the only one ships, or the first
\* is kept and another attempt debited.
LEMMA WriteKeeps == \A d \in Draft : ResearchInv /\ Write(d) => ResearchInv'
<1> SUFFICES ASSUME NEW d \in Draft, ResearchInv, Write(d) PROVE ResearchInv'
  OBVIOUS
<1> DEFINE u == Debited(used, {"tokens"})
<1>1. /\ at \in {"drafting", "closing"} /\ Covers(used, {"tokens"}) /\ Finish(d, u, context)
      /\ runs' = runs
  BY DEF Write
<1>2. /\ WithinAllowance(used) /\ AtWork(attempt, kept, rounds, context, used) /\ attempt \in 1..2
      /\ context \in Contexts /\ context.search \in Nat /\ context.calls \in Nat
      /\ context.exhausted \in BOOLEAN
      /\ shipped = NoDraft /\ runs \in 0..Runs /\ rounds \in 0..MaxRounds
      /\ kept \in [draft : Draft, context : Contexts] \cup {NoDraft}
  BY <1>1, WorkFacts
<1>3. WithinAllowance(u) /\ \A m \in Meter : used[m] <= u[m]
  BY <1>1, <1>2, DebitAdds DEF Meter
<1> HIDE DEF u
<1>4. AtWork(attempt, kept, rounds, context, u)
  BY <1>2, <1>3, WorkKept
<1>5. u["attempts"] \in Nat /\ u["search"] \in Nat /\ u["tool_calls"] \in Nat /\ attempt <= u["attempts"]
  BY <1>3, <1>4 DEF WithinAllowance, Meter, AtWork
<1>6. CASE attempt = 2
  <2> DEFINE c == Both(kept.context, context)  e == Better(kept.draft, d)
  <2>1. /\ Ship(e, 2, c, u) /\ used' = u /\ context' = context
        /\ attempt' = attempt /\ rounds' = rounds /\ kept' = kept
    BY <1>1, <1>6 DEF Finish
  <2>2. FirstDraft(kept) /\ kept.draft \in Draft /\ kept.context \in Contexts
        /\ Accounted(context, kept.context, u)
    BY <1>4, <1>6 DEF AtWork, FirstDraft
  <2>3. c \in Contexts /\ c.search = kept.context.search + context.search
        /\ c.calls = kept.context.calls + context.calls
    BY <1>2, <2>2 DEF Both, Contexts
  <2>4. e \in Draft /\ ScoreOf(e) >= ScoreOf(kept.draft)
    <3>1. ScoreOf(d) \in Int /\ ScoreOf(kept.draft) \in Int
      BY <2>2, ScoreIsNumber
    <3> QED
      BY <2>2, <3>1 DEF Better
  <2>5. c.search <= u["search"] /\ c.calls <= u["tool_calls"]
    BY <2>2, <2>3 DEF Accounted
  <2> HIDE DEF c, e
  <2>6. at' = "shipped" /\ Sound(shipped', kept, u)
    BY <1>3, <1>5, <1>6, <2>1, <2>2, <2>3, <2>4, <2>5, ShippedIsSound
  <2> QED
    BY <1>1, <1>2, <1>3, <2>1, <2>6 DEF ResearchInv
<1>7. CASE attempt = 1 /\ ShouldRetry(d) /\ Covers(u, {"attempts"})
  <2> DEFINE v == Debited(u, {"attempts"})
             k == [draft |-> d, context |-> context]
  <2>1. /\ at' = "drafting" /\ attempt' = 2 /\ rounds' = 0 /\ context' = NoContext
        /\ used' = v /\ kept' = k /\ shipped' = shipped
    BY <1>1, <1>7 DEF Finish
  <2>2. /\ WithinAllowance(v) /\ v \in [Meter -> Nat] /\ v["attempts"] = u["attempts"] + 1
        /\ \A m \in Meter : u[m] <= v[m]
    BY <1>3, <1>7, DebitAdds DEF Meter
  <2> HIDE DEF v
  <2>3. FirstDraft(k) /\ k \in [draft : Draft, context : Contexts] /\ k.context = context
    BY <1>2, <1>7 DEF FirstDraft
  <2>4. NoContext \in Contexts /\ NoContext.search = 0 /\ NoContext.calls = 0
    BY DEF NoContext, Contexts
  <2>5. Accounted(context, NoContext, v)
    <3>1. Accounted(context, NoContext, u)
      BY <1>4, <1>7 DEF AtWork
    <3>2. u \in [Meter -> Nat]
      BY <1>3 DEF WithinAllowance
    <3> QED
      BY <1>2, <2>2, <2>4, <3>1, <3>2, AccountedKept
  <2>6. Accounted(NoContext, context, v)
    BY <1>2, <2>4, <2>5 DEF Accounted
  <2> HIDE DEF k
  <2>7. AtWork(2, k, 0, NoContext, v)
    BY <1>5, <1>7, <2>2, <2>3, <2>6, ResearchAssumption DEF AtWork
  <2>8. MaxRounds \in Nat \ {0}
    BY ResearchAssumption
  <2> QED
    BY <1>1, <1>2, <2>1, <2>2, <2>3, <2>4, <2>7, <2>8 DEF ResearchInv
<1>8. CASE attempt = 1 /\ ~ (ShouldRetry(d) /\ Covers(u, {"attempts"}))
  <2> DEFINE c == [context EXCEPT !.exhausted = context.exhausted \/ ShouldRetry(d)]
  <2>1. /\ Ship(d, 1, c, u) /\ used' = u /\ context' = context
        /\ attempt' = attempt /\ rounds' = rounds /\ kept' = kept
    BY <1>1, <1>8 DEF Finish
  <2>2. kept = NoDraft /\ Accounted(context, NoContext, u)
    BY <1>4, <1>8 DEF AtWork
  <2>3. /\ c \in Contexts /\ c.search = context.search /\ c.calls = context.calls
        /\ c.exhausted = (context.exhausted \/ ShouldRetry(d))
    BY <1>2 DEF Contexts
  <2> HIDE DEF c
  <2>4. c.search <= u["search"] /\ c.calls <= u["tool_calls"]
    BY <1>2, <1>5, <2>2, <2>3 DEF Accounted, NoContext
  <2>5. ShouldRetry(d) => c.exhausted
    BY <2>3
  <2>6. at' = "shipped" /\ Sound(shipped', kept, u)
    BY <1>3, <1>5, <1>8, <2>1, <2>2, <2>3, <2>4, <2>5, ShippedIsSound
  <2> QED
    BY <1>1, <1>2, <1>3, <2>1, <2>6 DEF ResearchInv
<1> QED
  BY <1>2, <1>6, <1>7, <1>8

\* A handler that dies or is stopped leaves what it has used debited.
LEMMA HaltKeeps ==
  ASSUME ResearchInv, Die \/ Forbid \/ UNCHANGED researchVars
  PROVE  ResearchInv'
<1>1. CASE Die
  <2>1. NoContext \in Contexts /\ MaxRounds \in Nat
    BY ResearchAssumption DEF NoContext, Contexts
  <2>2. WithinAllowance(used) /\ shipped = NoDraft /\ runs \in 0..Runs
    BY <1>1, WorkFacts DEF Die
  <2> QED
    BY <1>1, <2>1, <2>2 DEF Die, ResearchInv
<1>2. CASE Forbid
  <2>1. /\ WithinAllowance(used) /\ shipped = NoDraft /\ runs \in 0..Runs /\ attempt \in 0..2
        /\ rounds \in 0..MaxRounds /\ context \in Contexts
        /\ kept \in [draft : Draft, context : Contexts] \cup {NoDraft}
    BY <1>2, WorkFacts DEF Forbid, ResearchInv
  <2> QED
    BY <1>2, <2>1 DEF Forbid, ResearchInv
<1>3. CASE UNCHANGED researchVars
  BY <1>3 DEF ResearchInv, researchVars
<1> QED
  BY <1>1, <1>2, <1>3

\* The invariant gives what the runs check.
LEMMA ResearchImplied == ResearchInv => ResearchHolds
<1> SUFFICES ASSUME ResearchInv PROVE ResearchHolds
  OBVIOUS
<1>1. /\ at \in {"idle", "drafting", "closing", "shipped", "failed"} /\ WithinAllowance(used)
      /\ attempt \in 0..2 /\ rounds \in 0..MaxRounds /\ context \in Contexts /\ runs \in 0..Runs
      /\ kept \in [draft : Draft, context : Contexts] \cup {NoDraft}
      /\ at = "shipped" => Sound(shipped, kept, used)
      /\ at # "shipped" => shipped = NoDraft
  BY DEF ResearchInv
<1>2. shipped # NoDraft => Sound(shipped, kept, used)
  BY <1>1
<1>3. ResearchTypeOK
  BY <1>1 DEF ResearchTypeOK, WithinAllowance, Sound
<1>4. BriefBillsItsUse
  BY <1>1, <1>2 DEF BriefBillsItsUse, Sound, WithinAllowance
<1>5. ASSUME shipped # NoDraft
      PROVE  /\ kept # NoDraft => ScoreOf(shipped.draft) >= ScoreOf(kept.draft) /\ ShouldRetry(kept.draft)
             /\ ShouldRetry(shipped.draft) => shipped.attempts = 2 \/ shipped.exhausted
             /\ shipped.attempts = 2 => kept # NoDraft
  <2>1. Sound(shipped, kept, used) /\ shipped.attempts \in 1..2
    BY <1>2, <1>5 DEF Sound
  <2>2. kept # NoDraft => shipped.attempts = 2
    BY <2>1 DEF Sound
  <2>3. shipped.attempts = 2 => FirstDraft(kept) /\ ScoreOf(shipped.draft) >= ScoreOf(kept.draft)
    BY <2>1 DEF Sound
  <2>4. FirstDraft(kept) => kept # NoDraft /\ ShouldRetry(kept.draft)
    BY KeptIsSome DEF FirstDraft
  <2>5. ShouldRetry(shipped.draft) => shipped.attempts = 2 \/ shipped.exhausted
    BY <2>1 DEF Sound
  <2> QED
    BY <2>2, <2>3, <2>4, <2>5
<1>6. BetterDraftShips
  BY <1>5 DEF BetterDraftShips
<1> QED
  BY <1>3, <1>4, <1>6 DEF ResearchHolds

\* For any drafts a model may write and any calls it may ask for, however often
\* the process dies and the order is taken up again (service._fulfill,
\* nemotron.research_brief): what is used stays within the quote's allowance, the
\* deliverable bills all of it, and the better draft ships.
THEOREM ResearchIsBilled == ResearchSpec => []ResearchHolds
<1>1. ResearchInit => ResearchInv
  BY ResearchStarts
<1>2. ResearchInv /\ [ResearchNext]_researchVars => ResearchInv'
  <2> SUFFICES ASSUME ResearchInv, [ResearchNext]_researchVars PROVE ResearchInv'
    OBVIOUS
  <2>1. CASE TakeOrder
    BY <2>1, TakeOrderKeeps
  <2>2. CASE NoTokens
    BY <2>2, NoTokensKeeps
  <2>3. CASE Chat
    BY <2>3, ChatKeeps
  <2>4. CASE \E tools \in Asked : AskTools(tools)
    BY <2>4, AskToolsKeeps
  <2>5. CASE \E d \in Draft : Write(d)
    BY <2>5, WriteKeeps
  <2>6. CASE Die \/ Forbid \/ UNCHANGED researchVars
    BY <2>6, HaltKeeps
  <2> QED
    BY <2>1, <2>2, <2>3, <2>4, <2>5, <2>6 DEF ResearchNext
<1>3. ResearchInv => ResearchHolds
  BY ResearchImplied
<1> QED
  BY <1>1, <1>2, <1>3, PTL DEF ResearchSpec

(***************************************************************************)
(* OperatorFiles.  The list after i entries has, for every slug, what the  *)
(* last usable one of them says, and the base's product if there is none.  *)
(***************************************************************************)

\* The products a list may hold.
Listable == {Unsold} \cup {Catalog[s] : s \in Slug} \cup {ProductFrom(e) : e \in {d \in Entry : Usable(d)}}

\* Entry k is the last usable one for slug s among the first i.
LastFor(k, s, i) ==
    /\ k \in 1..i /\ Usable(entries[k]) /\ entries[k].slug = s
    /\ \A j \in (k + 1)..i : entries[j].slug = s => ~Usable(entries[j])

\* What the list holds for s after i entries.
SaysLast(list, s, i) ==
    \/ list[s] = Base[s] /\ \A k \in 1..i : entries[k].slug = s => ~Usable(entries[k])
    \/ \E k \in 1..i : LastFor(k, s, i) /\ list[s] = ProductFrom(entries[k])

\* int() of a written number is a number, and off by less than one.
LEMMA CutOff ==
  ASSUME NEW n \in Nat
  PROVE  n \div Grain \in Nat /\ Grain * (n \div Grain) <= n /\ n < Grain * ((n \div Grain) + 1)
<1> DEFINE q == n \div Grain  r == n % Grain
<1>1. Grain \in Nat \ {0}
  BY ProductsAssumption
<1>2. q \in Int /\ r \in 0..(Grain - 1) /\ n = Grain * q + r
  BY <1>1
<1> HIDE DEF q, r
<1>3. Grain * (q + 1) = Grain * q + Grain
  BY <1>1, <1>2
<1>4. q >= 0
  <2> SUFFICES ASSUME q <= -1 PROVE FALSE
    BY <1>2
  <2>1. Grain * q <= Grain * (-1)
    BY <1>1, <1>2
  <2> QED
    BY <1>1, <1>2, <2>1
<1> QED
  BY <1>1, <1>2, <1>3, <1>4 DEF q

\* What an entry says of a product that was made from it.
Follows(product, entry) ==
    \A f \in {"price", "scope"} :
      \/ /\ entry.says[f] \in Written
         /\ Grain * product[f] <= entry.says[f]
         /\ entry.says[f] < Grain * (product[f] + 1)
      \/ entry.says[f] = Absent /\ product[f] = Catalog[entry.slug][f]

\* An entry that is followed names a slug, and states a price that is a number.
LEMMA UsableIsPriced ==
  ASSUME NEW e \in Entry, Usable(e)
  PROVE  e.slug \in Slug /\ ProductFrom(e) # Unsold /\ Follows(ProductFrom(e), e)
<1>1. e.slug \in Slug /\ e.says \in Fields
  BY DEF Usable, Entry
<1>2. \A f \in {"price", "scope"} :
        /\ e.says[f] \in Written \cup {Absent}
        /\ e.says[f] = Absent => e.slug \in Builtin
  BY <1>1 DEF Usable, Readable, Raises, Fields, Says
<1>3. \A f \in {"price", "scope"} :
        ProductFrom(e)[f] = IF e.says[f] = Absent THEN Catalog[e.slug][f] ELSE e.says[f] \div Grain
  BY DEF ProductFrom
<1>4. Absent \notin Written /\ Written \subseteq Nat
  BY ProductsAssumption DEF Absent
<1>5. Follows(ProductFrom(e), e)
  <2> SUFFICES ASSUME NEW f \in {"price", "scope"}, e.says[f] \in Written
               PROVE  /\ Grain * ProductFrom(e)[f] <= e.says[f]
                      /\ e.says[f] < Grain * (ProductFrom(e)[f] + 1)
    BY <1>2, <1>3 DEF Follows
  <2>1. ProductFrom(e)[f] = e.says[f] \div Grain /\ e.says[f] \in Nat
    BY <1>3, <1>4
  <2> QED
    BY <2>1, CutOff
<1>6. ProductFrom(e)["price"] \in Nat
  <2>1. CASE e.says["price"] = Absent
    <3>1. e.slug \in Builtin
      BY <1>2, <2>1
    <3>2. Catalog[e.slug] = [price |-> ListPrice[e.slug], scope |-> ListScope[e.slug]]
      BY <1>1, <3>1 DEF Catalog
    <3>3. Catalog[e.slug]["price"] = ListPrice[e.slug] /\ ListPrice[e.slug] \in Nat
      BY <3>1, <3>2, ProductsAssumption
    <3> QED
      BY <1>3, <2>1, <3>3
  <2>2. CASE e.says["price"] # Absent
    <3>1. e.says["price"] \in Nat
      BY <1>2, <1>4, <2>2
    <3> QED
      BY <1>3, <2>2, <3>1, CutOff
  <2> QED
    BY <2>1, <2>2
<1>7. Unsold["price"] = -1
  BY DEF Unsold
<1>8. ProductFrom(e) # Unsold
  BY <1>6, <1>7
<1> QED
  BY <1>1, <1>5, <1>8

\* Something is built in, and has a price.
LEMMA CatalogSells == \E s \in Slug : Catalog[s] # Unsold
<1>1. PICK s \in Builtin : s \in Slug
  BY ProductsAssumption
<1>2. Catalog[s] = [price |-> ListPrice[s], scope |-> ListScope[s]]
  BY <1>1 DEF Catalog
<1>3. Catalog[s]["price"] \in Nat
  BY <1>2, ProductsAssumption
<1>4. Unsold["price"] = -1
  BY DEF Unsold
<1> QED
  BY <1>1, <1>3, <1>4

\* One more entry.
LEMMA MergeSaysLast ==
  ASSUME NEW i \in Nat \ {0}, entries \in Seq(Entry), i <= Len(entries),
         NEW list \in [Slug -> Listable], \A s \in Slug : SaysLast(list, s, i - 1)
  PROVE  /\ Merge(list, entries[i]) \in [Slug -> Listable]
         /\ \A s \in Slug : SaysLast(Merge(list, entries[i]), s, i)
<1> DEFINE e == entries[i]  m == Merge(list, e)
<1>1. e \in Entry /\ \A k \in 1..i : entries[k] \in Entry
  OBVIOUS
<1>2. CASE ~Usable(e)
  <2>1. m = list
    BY <1>2 DEF Merge
  <2>2. ASSUME NEW s \in Slug PROVE SaysLast(list, s, i)
    <3>1. CASE list[s] = Base[s] /\ \A k \in 1..(i - 1) : entries[k].slug = s => ~Usable(entries[k])
      <4>1. \A k \in 1..i : k = i \/ k \in 1..(i - 1)
        OBVIOUS
      <4> QED
        BY <1>2, <3>1, <4>1 DEF SaysLast
    <3>2. CASE \E k \in 1..(i - 1) : LastFor(k, s, i - 1) /\ list[s] = ProductFrom(entries[k])
      <4>1. PICK k \in 1..(i - 1) : LastFor(k, s, i - 1) /\ list[s] = ProductFrom(entries[k])
        BY <3>2
      <4>2. k \in 1..i /\ \A j \in (k + 1)..i : j = i \/ j \in (k + 1)..(i - 1)
        OBVIOUS
      <4>3. LastFor(k, s, i)
        BY <1>2, <4>1, <4>2 DEF LastFor
      <4> QED
        BY <4>1, <4>2, <4>3 DEF SaysLast
    <3> QED
      BY <3>1, <3>2 DEF SaysLast
  <2> QED
    BY <2>1, <2>2
<1>3. CASE Usable(e)
  <2>1. e.slug \in Slug /\ ProductFrom(e) \in Listable
    BY <1>1, <1>3, UsableIsPriced DEF Listable
  <2>2. m = [list EXCEPT ![e.slug] = ProductFrom(e)]
    BY <1>3 DEF Merge
  <2>3. m \in [Slug -> Listable] /\ m[e.slug] = ProductFrom(e) /\ \A s \in Slug \ {e.slug} : m[s] = list[s]
    BY <2>1, <2>2
  <2> HIDE DEF m
  <2>4. ASSUME NEW s \in Slug PROVE SaysLast(m, s, i)
    <3>1. CASE s = e.slug
      <4>1. i \in 1..i /\ \A j \in (i + 1)..i : FALSE
        OBVIOUS
      <4>2. LastFor(i, s, i)
        BY <1>3, <3>1, <4>1 DEF LastFor
      <4> QED
        BY <2>3, <3>1, <4>1, <4>2 DEF SaysLast
    <3>2. CASE s # e.slug
      <4>1. m[s] = list[s] /\ SaysLast(list, s, i - 1)
        BY <2>3, <3>2
      <4>2. CASE list[s] = Base[s] /\ \A k \in 1..(i - 1) : entries[k].slug = s => ~Usable(entries[k])
        <5>1. \A k \in 1..i : k = i \/ k \in 1..(i - 1)
          OBVIOUS
        <5> QED
          BY <3>2, <4>1, <4>2, <5>1 DEF SaysLast
      <4>3. CASE \E k \in 1..(i - 1) : LastFor(k, s, i - 1) /\ list[s] = ProductFrom(entries[k])
        <5>1. PICK k \in 1..(i - 1) : LastFor(k, s, i - 1) /\ list[s] = ProductFrom(entries[k])
          BY <4>3
        <5>2. k \in 1..i /\ \A j \in (k + 1)..i : j = i \/ j \in (k + 1)..(i - 1)
          OBVIOUS
        <5>3. LastFor(k, s, i)
          BY <3>2, <5>1, <5>2 DEF LastFor
        <5> QED
          BY <4>1, <5>1, <5>2, <5>3 DEF SaysLast
      <4> QED
        BY <4>1, <4>2, <4>3 DEF SaysLast
    <3> QED
      BY <3>1, <3>2
  <2> QED
    BY <2>3, <2>4 DEF m
<1> QED
  BY <1>2, <1>3

\* All entries: the list says what the last usable entry of a slug says.
LEMMA LaidSaysLast ==
  ASSUME entries \in Seq(Entry)
  PROVE  Laid \in [Slug -> Listable] /\ \A s \in Slug : SaysLast(Laid, s, Len(entries))
<1> DEFINE n == Len(entries)
           body(f) == [i \in 0..n |-> IF i = 0 THEN Base ELSE Merge(f[i - 1], entries[i])]
           list == CHOOSE f : f = body(f)
           R == [Slug -> Listable]
           F == [p \in R \X (1..n) |-> Merge(p[1], entries[p[2]])]
<1>1. n \in Nat /\ \A i \in 1..n : entries[i] \in Entry /\ i \in Nat \ {0} /\ i <= Len(entries)
  OBVIOUS
<1>2. Laid = list[n]
  BY DEF Laid
<1>3. Base \in R
  BY DEF Base, Listable, Catalog
<1>4. \A l \in R, i \in 1..n : Merge(l, entries[i]) \in R
  <2> SUFFICES ASSUME NEW l \in R, NEW i \in 1..n PROVE Merge(l, entries[i]) \in R
    OBVIOUS
  <2>1. entries[i] \in Entry
    BY <1>1
  <2>2. Usable(entries[i]) => entries[i].slug \in Slug /\ ProductFrom(entries[i]) \in Listable
    BY <2>1, UsableIsPriced DEF Listable
  <2> QED
    BY <2>2 DEF Merge
<1> HIDE DEF n, R
<1>5. F \in [R \X (1..n) -> R] /\ \A l \in R, i \in 1..n : F[<<l, i>>] = Merge(l, entries[i])
  BY <1>1, <1>4
<1> HIDE DEF F
<1>6. PICK g \in [0..n -> R] : g[0] = Base /\ \A i \in 1..n : g[i] = F[<<g[i - 1], i>>]
  <2>1. n \in Nat /\ F \in [R \X (1..n) -> R]
    BY <1>1, <1>5
  <2>2. \E g \in [0..n -> R] : Unrolled(g, Base, F, n)
    BY <1>3, <2>1, Unrolls
  <2> QED
    BY <2>2 DEF Unrolled
<1>7. g = body(g)
  <2>1. g = [i \in 0..n |-> g[i]]
    OBVIOUS
  <2>2. \A i \in 0..n : g[i] = IF i = 0 THEN Base ELSE Merge(g[i - 1], entries[i])
    <3> SUFFICES ASSUME NEW i \in 0..n
                 PROVE  g[i] = IF i = 0 THEN Base ELSE Merge(g[i - 1], entries[i])
      OBVIOUS
    <3>1. i = 0 \/ (i \in 1..n /\ g[i - 1] \in R)
      BY <1>1
    <3> QED
      BY <1>1, <1>5, <1>6, <3>1
  <2> QED
    BY <2>1, <2>2
<1> HIDE DEF body
<1>8. list = body(list)
  BY <1>7
<1>9. \A f : body(f)[0] = Base /\ \A i \in 1..n : body(f)[i] = Merge(f[i - 1], entries[i])
  BY <1>1 DEF body
<1> HIDE DEF list
<1>10. list[0] = Base /\ \A i \in 1..n : list[i] = Merge(list[i - 1], entries[i])
  BY <1>8, <1>9
<1> DEFINE Good(i) == list[i] \in R /\ \A s \in Slug : SaysLast(list[i], s, i)
           S == {i \in 0..n : Good(i)}
<1>11. Good(0)
  BY <1>3, <1>10 DEF SaysLast
<1>12. ASSUME NEW i \in 1..n, Good(i - 1) PROVE Good(i)
  <2>1. list[i] = Merge(list[i - 1], entries[i])
    BY <1>10
  <2>2. i \in Nat \ {0} /\ i <= Len(entries)
    BY <1>1
  <2>3. list[i - 1] \in [Slug -> Listable] /\ \A s \in Slug : SaysLast(list[i - 1], s, i - 1)
    BY <1>12 DEF R
  <2>4. /\ Merge(list[i - 1], entries[i]) \in [Slug -> Listable]
        /\ \A s \in Slug : SaysLast(Merge(list[i - 1], entries[i]), s, i)
    BY <2>2, <2>3, MergeSaysLast
  <2> QED
    BY <2>1, <2>4 DEF R
<1> HIDE DEF Good
<1>13. 0..n \subseteq S
  <2>1. 0 \in S /\ \A i \in 1..n : i - 1 \in S => i \in S
    BY <1>1, <1>11, <1>12
  <2> HIDE DEF S
  <2> QED
    BY <1>1, <2>1, UpTo
<1>14. Good(n)
  BY <1>1, <1>13
<1> QED
  BY <1>2, <1>14 DEF Good, n, R
\* The catalogue is what the file says.
LEMMA CatalogueFollows == ProductsTypeOK => CatalogueIsTheFile
<1> SUFFICES ASSUME ProductsTypeOK PROVE CatalogueIsTheFile
  OBVIOUS
<1> DEFINE n == Len(entries)
<1>1. entries \in Seq(Entry) /\ n \in Nat /\ \A i \in 1..n : entries[i] \in Entry
  BY DEF ProductsTypeOK
<1>2. \A s \in Slug : SaysLast(Laid, s, n)
  BY <1>1, LaidSaysLast
<1>3. \A s \in Slug : Merged[s] = IF s \in retired THEN Unsold ELSE Laid[s]
  BY DEF Merged
<1>4. Catalogue = Catalog \/ (Catalogue = Merged /\ \E s \in Slug : Merged[s] # Unsold)
  BY DEF Catalogue
<1>5. fileState = "object" => Catalogue = Merged \/ (Catalogue = Catalog /\ \A s \in Slug : Merged[s] = Unsold)
  BY DEF Catalogue
<1>6. \A i \in 1..n : Usable(entries[i]) =>
        /\ entries[i].slug \in Slug /\ ProductFrom(entries[i]) # Unsold
        /\ Follows(ProductFrom(entries[i]), entries[i])
  BY <1>1, UsableIsPriced
<1>7. \E s \in Slug : Catalogue[s] # Unsold
  BY <1>4, CatalogSells
<1>8. ASSUME NEW s \in Slug
      PROVE  \/ Catalogue[s] \in {Catalog[s], Unsold}
             \/ \E i \in 1..n : entries[i].slug = s /\ Follows(Catalogue[s], entries[i])
  <2>1. CASE Catalogue[s] \in {Catalog[s], Unsold}
    BY <2>1
  <2>2. CASE Catalogue[s] \notin {Catalog[s], Unsold}
    <3>1. Catalogue = Merged /\ Merged[s] = Laid[s]
      BY <1>3, <1>4, <2>2
    <3>2. Base[s] \in {Catalog[s], Unsold}
      BY DEF Base
    <3>3. PICK k \in 1..n : LastFor(k, s, n) /\ Laid[s] = ProductFrom(entries[k])
      BY <1>2, <2>2, <3>1, <3>2 DEF SaysLast
    <3>4. entries[k].slug = s /\ Usable(entries[k]) /\ Catalogue[s] = ProductFrom(entries[k])
      BY <3>1, <3>3 DEF LastFor
    <3>5. Follows(Catalogue[s], entries[k])
      BY <1>6, <3>4
    <3> QED
      BY <3>4, <3>5
  <2> QED
    BY <2>1, <2>2
<1>9. ASSUME NEW i \in 1..n, Usable(entries[i]), entries[i].slug \notin retired
      PROVE  Merged[entries[i].slug] # Unsold
  <2> DEFINE s == entries[i].slug
  <2>1. s \in Slug /\ Merged[s] = Laid[s]
    BY <1>3, <1>6, <1>9
  <2>2. PICK k \in 1..n : LastFor(k, s, n) /\ Laid[s] = ProductFrom(entries[k])
    BY <1>2, <1>9, <2>1 DEF SaysLast
  <2> QED
    BY <1>6, <2>1, <2>2 DEF LastFor
<1>10. ASSUME fileState = "object", NEW i \in 1..n
       PROVE  \/ entries[i].slug \in retired
              \/ \E k \in Problems : k >= i /\ entries[k].slug = entries[i].slug
              \/ Catalogue[entries[i].slug] = ProductFrom(entries[i])
  <2> DEFINE s == entries[i].slug
  <2>1. Problems = {k \in 1..n : ~Usable(entries[k]) \/ \E j \in 1..(k - 1) : entries[j].slug = entries[k].slug}
    BY <1>10 DEF Problems
  <2>2. CASE s \in retired
    BY <2>2
  <2>3. CASE ~Usable(entries[i])
    <3>1. i \in Problems /\ i >= i
      BY <2>1, <2>3
    <3> QED
      BY <3>1
  <2>4. CASE \E k \in 1..n : k > i /\ entries[k].slug = s
    <3>1. PICK k \in 1..n : k > i /\ entries[k].slug = s
      BY <2>4
    <3>2. i \in 1..(k - 1) /\ k >= i
      BY <3>1
    <3>3. k \in Problems
      BY <2>1, <3>1, <3>2
    <3> QED
      BY <3>1, <3>2, <3>3
  <2>5. CASE s \notin retired /\ Usable(entries[i]) /\ \A k \in 1..n : k > i => entries[k].slug # s
    <3>1. s \in Slug /\ Merged[s] = Laid[s] /\ Merged[s] # Unsold
      BY <1>3, <1>6, <1>9, <2>5
    <3>2. PICK k \in 1..n : LastFor(k, s, n) /\ Laid[s] = ProductFrom(entries[k])
      BY <1>2, <2>5, <3>1 DEF SaysLast
    <3>3. k <= i
      BY <2>5, <3>2 DEF LastFor
    <3>4. k = i
      <4>1. k < i => i \in (k + 1)..n
        OBVIOUS
      <4> QED
        BY <2>5, <3>2, <3>3, <4>1 DEF LastFor
    <3>5. Catalogue = Merged
      BY <1>5, <1>10, <3>1
    <3> QED
      BY <3>1, <3>2, <3>4, <3>5
  <2> QED
    BY <2>2, <2>3, <2>4, <2>5
<1>11. ASSUME fileState = "object", NEW s \in retired
       PROVE  \/ Catalogue[s] = Unsold
              \/ Catalogue = Catalog /\ \A i \in 1..n : entries[i].slug \in retired \/ ~Usable(entries[i])
  <2>1. s \in Slug /\ Merged[s] = Unsold
    BY <1>3 DEF ProductsTypeOK
  <2> QED
    BY <1>5, <1>6, <1>9, <1>11, <2>1
<1>12. ASSUME CatalogueRaises
       PROVE  \/ fileState = "foreign" \/ (fileState = "crooked" /\ ~ReportRaises)
              \/ \E i \in 1..n : Endless \in {entries[i].says["price"], entries[i].says["scope"]}
  <2>1. \A i \in 1..n : Raises(entries[i]) =>
          Endless \in {entries[i].says["price"], entries[i].says["scope"]}
    BY DEF Raises
  <2> QED
    BY <1>12, <2>1 DEF CatalogueRaises, ReportRaises
<1>13. fileState = "garbled" => ~CatalogueRaises /\ Catalogue = Catalog /\ Problems # {}
  BY DEF CatalogueRaises, ReportRaises, Catalogue, Problems
<1>14. ASSUME NEW s \in Slug
       PROVE  \/ Catalogue[s] \in {Catalog[s], Unsold}
              \/ \E i \in 1..n :
                   /\ entries[i].slug = s
                   /\ \A f \in {"price", "scope"} :
                        \/ /\ entries[i].says[f] \in Written
                           /\ Grain * Catalogue[s][f] <= entries[i].says[f]
                           /\ entries[i].says[f] < Grain * (Catalogue[s][f] + 1)
                        \/ entries[i].says[f] = Absent /\ Catalogue[s][f] = Catalog[s][f]
  BY <1>8 DEF Follows
<1> QED
  BY <1>7, <1>10, <1>11, <1>12, <1>13, <1>14 DEF CatalogueIsTheFile

\* The operator's steps keep the file one an editor may have written.
LEMMA FileIsWritten ==
  ASSUME ProductsTypeOK, ProductsNext \/ UNCHANGED productsVars
  PROVE  ProductsTypeOK'
<1>1. CASE \E entry \in Entry : AddEntry(entry)
  <2>1. PICK entry \in Entry : AddEntry(entry)
    BY <1>1
  <2>2. entries' = Append(entries, entry) /\ entries \in Seq(Entry) /\ Len(entries) < MaxEntries
    BY <2>1 DEF AddEntry, Writes, ProductsTypeOK
  <2>3. entries' \in Seq(Entry) /\ Len(entries') = Len(entries) + 1 /\ Len(entries) \in Nat
    BY <2>2
  <2>4. Len(entries') <= MaxEntries
    BY <2>2, <2>3, ProductsAssumption
  <2> QED
    BY <2>1, <2>3, <2>4 DEF AddEntry, Writes, ProductsTypeOK
<1>2. CASE \E s \in Slug : Retire(s)
  BY <1>2 DEF Retire, Writes, ProductsTypeOK
<1>3. CASE MakeWhole \/ Garble \/ Mend \/ UNCHANGED productsVars
  BY <1>3 DEF MakeWhole, Garble, Mend, Writes, productsVars, ProductsTypeOK
<1> QED
  BY <1>1, <1>2, <1>3 DEF ProductsNext
\* An amount an operator may write is a number, and none of the marks.
LEMMA MarksAreNoAmounts ==
  /\ Amount \subseteq Nat /\ 0 \in Amount
  /\ Unset \notin Nat /\ Wrong \notin Nat /\ Half \notin Nat /\ Infinite \notin Nat
  /\ Unset # Wrong /\ Unset # Half /\ Unset # Infinite /\ Half # Infinite
  BY PoliciesAssumption DEF Unset, Wrong, Half, Infinite

\* A spend policy in force lets through no more than what it was made from.
LEMMA SpendPolicyFollows == PoliciesTypeOK => SpendPolicyHolds
<1> SUFFICES ASSUME PoliciesTypeOK, ~Spoilt PROVE SpendPolicyHolds
  BY DEF SpendPolicyHolds, SpendPolicy
<1> DEFINE said(k) == IF Stated(k) THEN says[k] ELSE Standing[k]
           b == FromFile("job_budget")
           t == FromFile("threshold")
           eb == EnvCents("job_budget")
           et == EnvCents("threshold")
           takesBudget == eb # Unset /\ Tightens(eb, b)
           takesThreshold == et # Unset /\ (t = Unset \/ et <= t)
           pb == IF takesBudget THEN eb ELSE b
           pt == IF takesThreshold THEN et ELSE t
           warned == \/ b = 0 \/ b > Standing["job_budget"]
                     \/ eb # Unset /\ ~takesBudget
                     \/ et # Unset /\ ~takesThreshold
<1>1. \A k \in SpendKeys : FromFile(k) = said(k)
  BY DEF Spoilt, FromFile
<1>2. /\ SpendPolicy.txn = FromFile("txn") /\ SpendPolicy.job_budget = pb
      /\ SpendPolicy.threshold = pt /\ (SpendPolicy.warned <=> warned)
  BY DEF SpendPolicy
<1>3. /\ b = said("job_budget") /\ t = said("threshold") /\ FromFile("txn") = said("txn")
  BY <1>1 DEF SpendKeys
<1>4. \A k \in SpendKeys : Stated(k) => says[k] \in Nat
  BY DEF Spoilt, IsWholeCents
<1>5. b \in Nat /\ Standing["job_budget"] \in Nat /\ (t \in Nat \/ t = Unset)
  <2>1. /\ Standing \in [Keys -> Nat \cup {Unset}]
        /\ \A k \in Keys : Standing[k] = Unset <=> k = "threshold"
    BY PoliciesAssumption
  <2>2. "job_budget" \in Keys /\ "threshold" \in Keys /\ "job_budget" \in SpendKeys /\ "threshold" \in SpendKeys
    BY DEF Keys, SpendKeys
  <2>3. Standing["job_budget"] \in Nat /\ Standing["threshold"] = Unset
    BY <2>1, <2>2
  <2> QED
    BY <1>3, <1>4, <2>2, <2>3
<1>6. (eb \in Nat \/ eb = Unset) /\ (et \in Nat \/ et = Unset)
  BY DEF EnvCents
<1>7. Unset \notin Nat
  BY DEF Unset
<1>8. wholeness \in {"absent", "object"}
  BY DEF Spoilt, PoliciesTypeOK
<1>9. Probe \subseteq Nat
  <2>1. Amount \subseteq Nat /\ \A a \in Amount : a + 1 \in Nat
    BY PoliciesAssumption
  <2> QED
    BY <2>1 DEF Probe
<1>10. (takesBudget <=> eb # Unset /\ eb > 0 /\ (b = 0 \/ eb <= b))
  BY DEF Tightens
<1> HIDE DEF said, b, t, eb, et
<1>11. ASSUME NEW cents \in Nat, Lets(pb, cents)
       PROVE  Lets(b, cents) /\ (Lets(Standing["job_budget"], cents) \/ warned)
  BY <1>5, <1>6, <1>7, <1>10, <1>11 DEF Lets
<1>12. ASSUME NEW cents \in Nat, LetsAlone(pt, cents)
       PROVE  LetsAlone(t, cents) /\ (et = Unset \/ LetsAlone(et, cents))
  BY <1>5, <1>6, <1>7, <1>12 DEF LetsAlone
<1>13. warned \/ eb = Unset \/ \A cents \in Nat : Lets(pb, cents) => Lets(eb, cents)
  BY <1>5, <1>6, <1>7, <1>10
<1> HIDE DEF pb, pt, warned, takesBudget, takesThreshold
<1>14. \A cents \in Probe :
         /\ Lets(SpendPolicy.job_budget, cents) =>
              /\ Lets(said("job_budget"), cents)
              /\ Lets(Standing["job_budget"], cents) \/ SpendPolicy.warned
         /\ LetsAlone(SpendPolicy.threshold, cents) =>
              /\ LetsAlone(said("threshold"), cents)
              /\ EnvCents("threshold") = Unset \/ LetsAlone(EnvCents("threshold"), cents)
  BY <1>2, <1>3, <1>9, <1>11, <1>12 DEF et
<1>15. \/ SpendPolicy.warned \/ EnvCents("job_budget") = Unset
       \/ \A cents \in Probe : Lets(SpendPolicy.job_budget, cents) => Lets(EnvCents("job_budget"), cents)
  BY <1>2, <1>9, <1>13 DEF eb
<1>16. SpendPolicy.txn = said("txn")
  BY <1>2, <1>3
<1> QED
  BY <1>8, <1>14, <1>15, <1>16 DEF SpendPolicyHolds, said

\* The other two loaders keep what they can read, and the defaults for the rest.
LEMMA OtherPoliciesFollow == PoliciesTypeOK => OtherPoliciesHold
<1> SUFFICES ASSUME PoliciesTypeOK PROVE OtherPoliciesHold
  OBVIOUS
<1> DEFINE read == [k \in CheckoutKeys |-> CheckoutField(k)]
<1>1. /\ \A k \in CheckoutKeys : CheckoutPolicy[k] = IF read["expire_after"] # 0 THEN read[k] ELSE Standing[k]
      /\ \A k \in CheckoutKeys : read[k] = CheckoutField(k)
  BY DEF CheckoutPolicy
<1>2. "expire_after" \in CheckoutKeys /\ "expire_after" \notin {"reminders", "per_hour"}
      /\ \A k \in CheckoutKeys : k # "per_hour"
  BY DEF CheckoutKeys
<1>3. Standing["expire_after"] \in Nat \ {0}
  <2>1. Standing \in [Keys -> Nat \cup {Unset}] /\ Standing["expire_after"] > 0 /\ "expire_after" \in Keys
    BY PoliciesAssumption DEF Keys, CheckoutKeys
  <2>2. Standing["expire_after"] \in Nat \cup {Unset}
    BY <2>1
  <2> QED
    BY <2>1, <2>2 DEF Unset
<1>4. ASSUME NEW k \in CheckoutKeys
      PROVE  \/ CheckoutField(k) = Standing[k]
             \/ Stated(k) /\ CheckoutField(k) = says[k]
             \/ k = "reminders" /\ says[k] = Half /\ CheckoutField(k) = 0
  BY <1>2 DEF CheckoutField, Cut
<1>5. CheckoutField("expire_after") # Infinite
  <2>1. CheckoutField("expire_after") \in Nat \cup {Half}
    BY <1>2, <1>3 DEF CheckoutField, Cut
  <2> QED
    BY <2>1, MarksAreNoAmounts
<1>6. 0 # Infinite /\ Standing["expire_after"] # Infinite
  BY <1>3, MarksAreNoAmounts
<1> HIDE DEF read
<1>7. CheckoutPolicy["expire_after"] # 0 /\ CheckoutPolicy["expire_after"] # Infinite
  BY <1>1, <1>2, <1>3, <1>5, <1>6
<1>8. \A k \in CheckoutKeys :
         \/ CheckoutPolicy[k] = Standing[k]
         \/ Stated(k) /\ CheckoutPolicy[k] = says[k]
         \/ k = "reminders" /\ says[k] = Half /\ CheckoutPolicy[k] = 0
  BY <1>1, <1>4
<1>9. \A k \in IntakeKeys :
         \/ IntakePolicy[k] = Standing[k]
         \/ Stated(k) /\ IntakePolicy[k] = says[k]
         \/ k = "per_hour" /\ says[k] = Half /\ IntakePolicy[k] = 0
  <2>1. \A k \in IntakeKeys : IntakePolicy[k] =
          IF Stated(k) /\ says[k] \in Nat \cup {Half, Infinite} THEN Cut(k, says[k]) ELSE Standing[k]
    BY DEF IntakePolicy
  <2>2. \A k \in IntakeKeys : k # "reminders"
    BY DEF IntakeKeys
  <2> QED
    BY <2>1, <2>2 DEF Cut
<1>10. wholeness \in {"broken", "foreign"} => \A k \in CheckoutKeys : CheckoutPolicy[k] = Standing[k]
  BY <1>1 DEF CheckoutField, Stated
<1> QED
  BY <1>7, <1>8, <1>9, <1>10 DEF OtherPoliciesHold

\* For any price list and policy files an operator writes, in any order of edits:
\* the loaders read what is written, but for the fractions int() cuts off, or
\* refuse it, or warn; they raise in the named cases and in no other.
THEOREM FilesAreRead == FilesSpec => []FilesHold
<1> DEFINE Typed == ProductsTypeOK /\ PoliciesTypeOK
<1>1. ProductsInit /\ PoliciesInit => Typed
  <2> SUFFICES ASSUME ProductsInit, PoliciesInit PROVE Typed
    OBVIOUS
  <2>1. ProductsTypeOK
    <3>1. <<>> \in Seq(Entry) /\ Len(<<>>) = 0 /\ 0 <= MaxEntries
      BY ProductsAssumption
    <3> QED
      BY <3>1 DEF ProductsInit, ProductsTypeOK
  <2>2. PoliciesTypeOK
    BY DEF PoliciesInit, PoliciesTypeOK, Writable
  <2> QED
    BY <2>1, <2>2
<1>2. Typed /\ [FilesNext]_filesVars => Typed'
  <2> SUFFICES ASSUME ProductsTypeOK, PoliciesTypeOK, [FilesNext]_filesVars
               PROVE  ProductsTypeOK' /\ PoliciesTypeOK'
    OBVIOUS
  <2>1. ProductsNext \/ UNCHANGED productsVars
    BY DEF FilesNext, filesVars
  <2>2. ProductsTypeOK'
    BY <2>1, FileIsWritten
  <2>3. CASE PoliciesNext
    <3>1. CASE Break
      BY <2>2, <3>1 DEF Break, PoliciesTypeOK
    <3>2. CASE \E keys \in {SpendKeys, CheckoutKeys, IntakeKeys} : \E k \in keys, value \in Writable :
                 WriteKey(keys, k, value)
      BY <2>2, <3>2 DEF WriteKey, PoliciesTypeOK, Keys
    <3>3. CASE \E k \in EnvKeys, value \in Amount \cup {Unset, Wrong} : Export(k, value)
      BY <2>2, <3>3 DEF Export, PoliciesTypeOK
    <3> QED
      BY <2>3, <3>1, <3>2, <3>3 DEF PoliciesNext
  <2>4. CASE UNCHANGED policyVars
    BY <2>2, <2>4 DEF policyVars, PoliciesTypeOK
  <2> QED
    BY <2>2, <2>3, <2>4 DEF FilesNext, filesVars
<1>3. Typed => FilesHold
  BY CatalogueFollows, SpendPolicyFollows, OtherPoliciesFollow DEF FilesHold, PoliciesHold
<1> QED
  BY <1>1, <1>2, <1>3, PTL DEF FilesSpec
=============================================================================

--------------------------------- MODULE Sums ---------------------------------
(***************************************************************************)
(* Facts about SumFunctionOnSet of the community modules: the sum of the   *)
(* values a function has on a finite set.  The spend guard's proofs add up *)
(* what requests in flight may still cost, those of Access the rows that   *)
(* a sliding window counts, those of Custody the sweeps that chains cover, *)
(* and those of the shop's reports its ledger, in parts sorted one way and *)
(* another.                                                                *)
(*                                                                         *)
(* The sum is a recursive function, and what it returns takes an           *)
(* induction over finite sets.  Each induction here looks at a smallest    *)
(* counterexample among the subsets of a finite set (SmallestSet).  So     *)
(* does the induction over numbers (UpTo) by which a recursive function    *)
(* over the places of a sequence is unrolled (Unrolls).                    *)
(***************************************************************************)
EXTENDS FiniteSetsExt, FiniteSetTheorems, TLAPS

\* A nonempty set of subsets of a finite set has a smallest member.
LEMMA SmallestSet ==
  ASSUME NEW S, IsFiniteSet(S), NEW C, C \subseteq SUBSET S, C # {}
  PROVE  \E s \in C : \A t \in C : t \subseteq s => t = s
<1>1. IsWellFoundedOn(StrictSubsetOrdering(S), FiniteSubsetsOf(S))
  BY FS_StrictSubsetOrderingWellFounded
<1>2. C \subseteq FiniteSubsetsOf(S)
  BY FS_FiniteSubsetsOfFinite
<1>3. PICK s \in C : \A t \in C : ~ (<<t, s>> \in StrictSubsetOrdering(S))
  BY <1>1, <1>2, WFMin
<1>4. ASSUME NEW t \in C, t \subseteq s, t # s PROVE FALSE
  <2>1. t \in SUBSET S /\ s \in SUBSET S
    OBVIOUS
  <2>2. <<t, s>> \in StrictSubsetOrdering(S)
    BY <2>1, <1>4 DEF StrictSubsetOrdering
  <2> QED
    BY <1>3, <2>2
<1> QED
  BY <1>4

\* The member of a set that the sum adds first.
Pick(s) == CHOOSE x \in s : TRUE

\* g[s] is the sum of f on s, for the subsets s of S.
IsSum(g, f, S) ==
    g = [s \in SUBSET S |-> IF s = {} THEN 0 ELSE f[Pick(s)] + g[s \ {Pick(s)}]]

\* What is picked is a member.
LEMMA PickIsIn == ASSUME NEW s, s # {} PROVE Pick(s) \in s
  BY DEF Pick

\* The equation that defines a sum.
LEMMA SumEquation ==
  ASSUME NEW S, NEW f, NEW g, IsSum(g, f, S), NEW s \in SUBSET S
  PROVE  g[s] = IF s = {} THEN 0 ELSE f[Pick(s)] + g[s \ {Pick(s)}]
<1> DEFINE body(h) == [t \in SUBSET S |-> IF t = {} THEN 0 ELSE f[Pick(t)] + h[t \ {Pick(t)}]]
<1>1. g = body(g)
  BY DEF IsSum
<1>2. body(g)[s] = IF s = {} THEN 0 ELSE f[Pick(s)] + g[s \ {Pick(s)}]
  OBVIOUS
<1> HIDE DEF body
<1> QED
  BY <1>1, <1>2

\* Sums over two sets agree on the subsets of the smaller one.
LEMMA SumsAgree ==
  ASSUME NEW S, IsFiniteSet(S), NEW T \in SUBSET S, NEW f,
         NEW g, IsSum(g, f, S), NEW h, IsSum(h, f, T)
  PROVE  \A s \in SUBSET T : g[s] = h[s]
<1> DEFINE C == {s \in SUBSET T : g[s] # h[s]}
<1> SUFFICES ASSUME C # {} PROVE FALSE
  OBVIOUS
<1>1. PICK s \in C : \A t \in C : t \subseteq s => t = s
  <2>1. C \subseteq SUBSET S
    OBVIOUS
  <2> HIDE DEF C
  <2> QED
    BY <2>1, SmallestSet
<1>2. CASE s = {}
  BY <1>2, SumEquation
<1>3. CASE s # {}
  <2> DEFINE t == s \ {Pick(s)}
  <2>1. t \subseteq s /\ t # s
    BY <1>3, PickIsIn
  <2>2. g[t] = h[t]
    BY <1>1, <2>1
  <2>3. g[s] = f[Pick(s)] + g[t] /\ h[s] = f[Pick(s)] + h[t]
    BY <1>3, SumEquation
  <2> QED
    BY <2>2, <2>3
<1> QED
  BY <1>2, <1>3

\* Every finite set has a sum.
LEMMA SumExists ==
  ASSUME NEW S, IsFiniteSet(S), NEW f
  PROVE  \E g : IsSum(g, f, S)
<1> DEFINE C == {s \in SUBSET S : ~ \E g : IsSum(g, f, s)}
<1> SUFFICES ASSUME C # {} PROVE FALSE
  OBVIOUS
<1>1. PICK U \in C : \A t \in C : t \subseteq U => t = U
  <2>1. C \subseteq SUBSET S
    OBVIOUS
  <2> HIDE DEF C
  <2> QED
    BY <2>1, SmallestSet
<1> DEFINE the(s) == CHOOSE h : IsSum(h, f, s)
           g == [s \in SUBSET U |-> IF s = {} THEN 0
                                    ELSE f[Pick(s)] + the(s \ {Pick(s)})[s \ {Pick(s)}]]
<1>2. ASSUME NEW t \in SUBSET U, t # U PROVE IsSum(the(t), f, t) /\ IsFiniteSet(t)
  <2>1. \E h : IsSum(h, f, t)
    BY <1>1, <1>2
  <2>2. IsSum(the(t), f, t)
    BY <2>1
  <2> QED
    BY <2>2, FS_Subset
<1>3. ASSUME NEW t \in SUBSET U, t # U PROVE g[t] = the(t)[t]
  <2>0. IsSum(the(t), f, t) /\ IsFiniteSet(t)
    BY <1>2, <1>3
  <2>1. CASE t = {}
    <3>1. the(t)[t] = 0
      <4> HIDE DEF the
      <4> QED
        BY <2>0, <2>1, SumEquation
    <3> QED
      BY <2>1, <3>1
  <2>2. CASE t # {}
    <3> DEFINE r == t \ {Pick(t)}
    <3>1. r \subseteq t /\ r # t
      BY <2>2, PickIsIn
    <3>2. IsSum(the(r), f, r)
      BY <1>2, <3>1
    <3>3. the(t)[t] = f[Pick(t)] + the(t)[r]
      <4> HIDE DEF the
      <4> QED
        BY <2>0, <2>2, SumEquation
    <3>4. the(t)[r] = the(r)[r]
      <4>1. r \in SUBSET t /\ r \in SUBSET r
        BY <3>1
      <4> HIDE DEF the, r
      <4> QED
        BY <2>0, <3>2, <4>1, SumsAgree
    <3>5. g[t] = f[Pick(t)] + the(r)[r]
      BY <2>2
    <3> QED
      BY <3>3, <3>4, <3>5
  <2> QED
    BY <2>1, <2>2
<1>4. \A s \in SUBSET U : s # {} => the(s \ {Pick(s)})[s \ {Pick(s)}] = g[s \ {Pick(s)}]
  <2> SUFFICES ASSUME NEW s \in SUBSET U, s # {}
               PROVE  the(s \ {Pick(s)})[s \ {Pick(s)}] = g[s \ {Pick(s)}]
    OBVIOUS
  <2>1. s \ {Pick(s)} \in SUBSET U /\ s \ {Pick(s)} # U
    BY PickIsIn
  <2> HIDE DEF g, the
  <2> QED
    BY <1>3, <2>1
<1>5. IsSum(g, f, U)
  <2>1. \A s \in SUBSET U : g[s] = IF s = {} THEN 0 ELSE f[Pick(s)] + g[s \ {Pick(s)}]
    <3>1. \A s \in SUBSET U :
            g[s] = IF s = {} THEN 0
                   ELSE f[Pick(s)] + the(s \ {Pick(s)})[s \ {Pick(s)}]
      <4> HIDE DEF the
      <4> QED
        OBVIOUS
    <3> HIDE DEF g, the
    <3> QED
      BY <1>4, <3>1
  <2>2. g = [s \in SUBSET U |-> g[s]]
    OBVIOUS
  <2> HIDE DEF g
  <2>3. g = [s \in SUBSET U |-> IF s = {} THEN 0 ELSE f[Pick(s)] + g[s \ {Pick(s)}]]
    BY <2>1, <2>2
  <2> QED
    BY <2>3 DEF IsSum
<1> QED
  BY <1>1, <1>5

\* SumFunctionOnSet is such a sum.
LEMMA SumIsSum ==
  ASSUME NEW S, IsFiniteSet(S), NEW f
  PROVE  \E g : IsSum(g, f, S) /\ SumFunctionOnSet(f, S) = g[S]
<1> DEFINE g == CHOOSE h : IsSum(h, f, S)
<1>1. IsSum(g, f, S)
  BY SumExists
<1>2. SumFunctionOnSet(f, S) = g[S]
  BY DEF SumFunctionOnSet, FoldFunctionOnSet, MapThenFoldSet, IsSum, Pick
<1> QED
  BY <1>1, <1>2

\* The empty sum.
LEMMA SumEmpty == ASSUME NEW f PROVE SumFunctionOnSet(f, {}) = 0
<1>1. PICK g : IsSum(g, f, {}) /\ SumFunctionOnSet(f, {}) = g[{}]
  BY SumIsSum, FS_EmptySet
<1> QED
  BY <1>1, SumEquation

\* What the sum of a nonempty set adds first.
LEMMA SumPick ==
  ASSUME NEW S, IsFiniteSet(S), NEW f, S # {}
  PROVE  SumFunctionOnSet(f, S) = f[Pick(S)] + SumFunctionOnSet(f, S \ {Pick(S)})
<1> DEFINE T == S \ {Pick(S)}
<1>1. PICK g : IsSum(g, f, S) /\ SumFunctionOnSet(f, S) = g[S]
  BY SumIsSum
<1>2. IsFiniteSet(T)
  BY FS_RemoveElement
<1>3. PICK h : IsSum(h, f, T) /\ SumFunctionOnSet(f, T) = h[T]
  BY <1>2, SumIsSum
<1>4. g[T] = h[T]
  <2>1. T \in SUBSET S /\ T \in SUBSET T
    OBVIOUS
  <2> HIDE DEF T
  <2> QED
    BY <1>1, <1>3, <2>1, SumsAgree
<1>5. g[S] = f[Pick(S)] + g[T]
  BY <1>1, SumEquation
<1> QED
  BY <1>1, <1>3, <1>4, <1>5

-----------------------------------------------------------------------------
(* What a sum of integers does.                                            *)

\* Integers add up to an integer.
LEMMA SumType ==
  ASSUME NEW S, IsFiniteSet(S), NEW f, \A x \in S : f[x] \in Int
  PROVE  SumFunctionOnSet(f, S) \in Int
<1> DEFINE C == {s \in SUBSET S : SumFunctionOnSet(f, s) \notin Int}
<1> SUFFICES ASSUME C # {} PROVE FALSE
  OBVIOUS
<1>1. PICK s \in C : \A t \in C : t \subseteq s => t = s
  <2>1. C \subseteq SUBSET S
    OBVIOUS
  <2> HIDE DEF C
  <2> QED
    BY <2>1, SmallestSet
<1>2. IsFiniteSet(s) /\ s # {}
  <2>1. SumFunctionOnSet(f, {}) = 0
    BY SumEmpty
  <2>2. s # {}
    BY <2>1
  <2> QED
    BY <2>2, FS_Subset
<1>3. SumFunctionOnSet(f, s) = f[Pick(s)] + SumFunctionOnSet(f, s \ {Pick(s)})
  BY <1>2, SumPick
<1>4. Pick(s) \in s
  BY <1>2, PickIsIn
<1>5. SumFunctionOnSet(f, s \ {Pick(s)}) \in Int
  BY <1>1, <1>4
<1> QED
  BY <1>3, <1>4, <1>5

\* Any element may be taken out of a sum.
LEMMA SumTakeOut ==
  ASSUME NEW S, IsFiniteSet(S), NEW f, \A y \in S : f[y] \in Int, NEW x \in S
  PROVE  SumFunctionOnSet(f, S) = f[x] + SumFunctionOnSet(f, S \ {x})
<1> DEFINE sum(s) == SumFunctionOnSet(f, s)
           C == {s \in SUBSET S : \E y \in s : sum(s) # f[y] + sum(s \ {y})}
<1> SUFFICES ASSUME C # {} PROVE FALSE
  OBVIOUS
<1>1. PICK s \in C : \A t \in C : t \subseteq s => t = s
  <2>1. C \subseteq SUBSET S
    OBVIOUS
  <2> HIDE DEF C
  <2> QED
    BY <2>1, SmallestSet
<1>2. PICK y \in s : sum(s) # f[y] + sum(s \ {y})
  OBVIOUS
<1> DEFINE p == Pick(s)
<1>3. p \in s /\ s \in SUBSET S
  BY PickIsIn
<1>4. IsFiniteSet(s) /\ IsFiniteSet(s \ {p}) /\ IsFiniteSet((s \ {p}) \ {y})
  BY <1>3, FS_Subset
<1>5. sum(s) = f[p] + sum(s \ {p})
  BY <1>3, <1>4, SumPick
<1>6. y # p
  BY <1>2, <1>5
<1> HIDE DEF p
<1>7. sum(s \ {p}) = f[y] + sum((s \ {p}) \ {y})
  <2>1. s \ {p} \notin C /\ y \in s \ {p} /\ s \ {p} \in SUBSET S
    BY <1>1, <1>3, <1>6
  <2> QED
    BY <2>1
<1>8. sum(s \ {y}) = f[p] + sum((s \ {y}) \ {p})
  <2>1. s \ {y} \notin C /\ p \in s \ {y} /\ s \ {y} \in SUBSET S
    BY <1>1, <1>3, <1>6
  <2> QED
    BY <2>1
<1>9. (s \ {y}) \ {p} = (s \ {p}) \ {y}
  OBVIOUS
<1>10. sum((s \ {p}) \ {y}) \in Int /\ f[p] \in Int /\ f[y] \in Int
  BY <1>3, <1>4, SumType
<1>11. \A a, b, c \in Int : a + (b + c) = b + (a + c)
  OBVIOUS
<1> HIDE DEF sum, C
<1>12. sum(s) = f[p] + (f[y] + sum((s \ {p}) \ {y}))
  BY <1>5, <1>7
<1>13. f[y] + sum(s \ {y}) = f[y] + (f[p] + sum((s \ {p}) \ {y}))
  BY <1>8, <1>9
<1>14. sum(s) = f[y] + sum(s \ {y})
  BY <1>10, <1>11, <1>12, <1>13
<1> QED
  BY <1>2, <1>14

\* A function that is nowhere larger has no larger sum.
LEMMA SumMonotone ==
  ASSUME NEW S, IsFiniteSet(S), NEW f, NEW g,
         \A x \in S : f[x] \in Int /\ g[x] \in Int /\ f[x] <= g[x]
  PROVE  SumFunctionOnSet(f, S) <= SumFunctionOnSet(g, S)
<1> DEFINE C == {s \in SUBSET S : ~ (SumFunctionOnSet(f, s) <= SumFunctionOnSet(g, s))}
<1> SUFFICES ASSUME C # {} PROVE FALSE
  OBVIOUS
<1>1. PICK s \in C : \A t \in C : t \subseteq s => t = s
  <2>1. C \subseteq SUBSET S
    OBVIOUS
  <2> HIDE DEF C
  <2> QED
    BY <2>1, SmallestSet
<1>2. IsFiniteSet(s) /\ s # {}
  <2>1. SumFunctionOnSet(f, {}) = 0 /\ SumFunctionOnSet(g, {}) = 0
    BY SumEmpty
  <2>2. s # {}
    BY <2>1
  <2> QED
    BY <2>2, FS_Subset
<1> DEFINE t == s \ {Pick(s)}
<1>3. /\ SumFunctionOnSet(f, s) = f[Pick(s)] + SumFunctionOnSet(f, t)
      /\ SumFunctionOnSet(g, s) = g[Pick(s)] + SumFunctionOnSet(g, t)
  BY <1>2, SumPick
<1>4. Pick(s) \in s /\ s \subseteq S /\ IsFiniteSet(t)
  BY <1>2, PickIsIn, FS_RemoveElement
<1>5. SumFunctionOnSet(f, t) <= SumFunctionOnSet(g, t)
  BY <1>1, <1>4
<1>6. SumFunctionOnSet(f, t) \in Int /\ SumFunctionOnSet(g, t) \in Int
  BY <1>4, SumType
<1> QED
  BY <1>1, <1>3, <1>4, <1>5, <1>6

\* Functions that agree have one sum.
LEMMA SumEqual ==
  ASSUME NEW S, IsFiniteSet(S), NEW f, NEW g, \A x \in S : f[x] \in Int /\ f[x] = g[x]
  PROVE  SumFunctionOnSet(f, S) = SumFunctionOnSet(g, S)
<1>1. /\ SumFunctionOnSet(f, S) <= SumFunctionOnSet(g, S)
      /\ SumFunctionOnSet(g, S) <= SumFunctionOnSet(f, S)
  BY SumMonotone
<1>2. SumFunctionOnSet(f, S) \in Int /\ SumFunctionOnSet(g, S) \in Int
  BY SumType
<1> QED
  BY <1>1, <1>2

\* Where two functions differ in one element only, so do their sums.
LEMMA SumChange ==
  ASSUME NEW S, IsFiniteSet(S), NEW f, NEW g, NEW x \in S,
         \A y \in S : f[y] \in Int /\ g[y] \in Int, \A y \in S \ {x} : f[y] = g[y]
  PROVE  SumFunctionOnSet(g, S) = SumFunctionOnSet(f, S) + g[x] - f[x]
<1> DEFINE T == S \ {x}
<1>1. /\ SumFunctionOnSet(f, S) = f[x] + SumFunctionOnSet(f, T)
      /\ SumFunctionOnSet(g, S) = g[x] + SumFunctionOnSet(g, T)
  BY SumTakeOut
<1>2. IsFiniteSet(T)
  BY FS_RemoveElement
<1>3. SumFunctionOnSet(f, T) = SumFunctionOnSet(g, T)
  BY <1>2, SumEqual
<1>4. SumFunctionOnSet(f, T) \in Int
  BY <1>2, SumType
<1> QED
  BY <1>1, <1>3, <1>4

\* A sum of nothing but zeros.
LEMMA SumZero ==
  ASSUME NEW S, IsFiniteSet(S), NEW f, \A x \in S : f[x] = 0
  PROVE  SumFunctionOnSet(f, S) = 0
<1> DEFINE C == {s \in SUBSET S : SumFunctionOnSet(f, s) # 0}
<1> SUFFICES ASSUME C # {} PROVE FALSE
  OBVIOUS
<1>1. PICK s \in C : \A t \in C : t \subseteq s => t = s
  <2>1. C \subseteq SUBSET S
    OBVIOUS
  <2> HIDE DEF C
  <2> QED
    BY <2>1, SmallestSet
<1>2. IsFiniteSet(s) /\ s # {}
  <2>1. SumFunctionOnSet(f, {}) = 0
    BY SumEmpty
  <2>2. s # {}
    BY <2>1
  <2> QED
    BY <2>2, FS_Subset
<1>3. SumFunctionOnSet(f, s) = f[Pick(s)] + SumFunctionOnSet(f, s \ {Pick(s)})
  BY <1>2, SumPick
<1>4. Pick(s) \in s
  BY <1>2, PickIsIn
<1>5. SumFunctionOnSet(f, s \ {Pick(s)}) = 0
  BY <1>1, <1>4
<1> QED
  BY <1>3, <1>4, <1>5

\* Natural numbers add up to a natural number.
LEMMA SumNat ==
  ASSUME NEW S, IsFiniteSet(S), NEW f, \A x \in S : f[x] \in Nat
  PROVE  SumFunctionOnSet(f, S) \in Nat
<1> DEFINE zero == [x \in S |-> 0]
<1>1. SumFunctionOnSet(zero, S) = 0
  BY SumZero
<1>2. SumFunctionOnSet(zero, S) <= SumFunctionOnSet(f, S)
  <2>1. \A x \in S : zero[x] \in Int /\ f[x] \in Int /\ zero[x] <= f[x]
    OBVIOUS
  <2> HIDE DEF zero
  <2> QED
    BY <2>1, SumMonotone
<1>3. SumFunctionOnSet(f, S) \in Int
  BY SumType
<1> HIDE DEF zero
<1> QED
  BY <1>1, <1>2, <1>3

-----------------------------------------------------------------------------
(* How many.                                                               *)

\* A sum of naturals is no less than the sum of some of them.
LEMMA SumSubset ==
  ASSUME NEW S, IsFiniteSet(S), NEW f, \A x \in S : f[x] \in Nat, NEW T \in SUBSET S
  PROVE  SumFunctionOnSet(f, T) <= SumFunctionOnSet(f, S)
<1> DEFINE sum(s) == SumFunctionOnSet(f, s)
           C == {s \in SUBSET S : T \subseteq s /\ ~ (sum(T) <= sum(s))}
<1> SUFFICES ASSUME C # {} PROVE FALSE
  OBVIOUS
<1>1. PICK s \in C : \A t \in C : t \subseteq s => t = s
  <2>1. C \subseteq SUBSET S
    OBVIOUS
  <2> HIDE DEF C
  <2> QED
    BY <2>1, SmallestSet
<1>2. s \in SUBSET S /\ T \subseteq s /\ IsFiniteSet(s) /\ IsFiniteSet(T)
  BY <1>1, FS_Subset
<1>3. sum(T) \in Int
  BY <1>2, SumType
<1>4. s # T
  BY <1>1, <1>3
<1>5. PICK x \in s : x \notin T
  BY <1>2, <1>4
<1>6. s \ {x} \in SUBSET S /\ T \subseteq s \ {x} /\ IsFiniteSet(s \ {x})
  BY <1>2, <1>5, FS_RemoveElement
<1>7. sum(T) <= sum(s \ {x})
  BY <1>1, <1>5, <1>6
<1>8. sum(s) = f[x] + sum(s \ {x})
  BY <1>2, <1>5, SumTakeOut
<1>9. sum(s \ {x}) \in Int /\ f[x] \in Nat
  BY <1>2, <1>5, <1>6, SumType
<1>10. ~ (sum(T) <= sum(s))
  BY <1>1
<1> HIDE DEF sum
<1> QED
  BY <1>3, <1>7, <1>8, <1>9, <1>10

\* What one element, joining a finite set or leaving it, does to its size.
LEMMA SizeChange ==
  ASSUME NEW A, IsFiniteSet(A), NEW B, NEW x, A \ {x} = B \ {x}
  PROVE  /\ IsFiniteSet(B) /\ Cardinality(A) \in Nat /\ Cardinality(B) \in Nat
         /\ Cardinality(B) = Cardinality(A) + (IF x \in B THEN 1 ELSE 0)
                                           - (IF x \in A THEN 1 ELSE 0)
<1> DEFINE T == A \ {x}
<1>1. /\ IsFiniteSet(T)
      /\ Cardinality(T) = IF x \in A THEN Cardinality(A) - 1 ELSE Cardinality(A)
  BY FS_RemoveElement
<1>2. x \notin T /\ B \in {T, T \cup {x}} /\ (x \in B <=> B = T \cup {x})
  OBVIOUS
<1> HIDE DEF T
<1>3. IsFiniteSet(T \cup {x}) /\ Cardinality(T \cup {x}) = Cardinality(T) + 1
  BY <1>1, <1>2, FS_AddElement
<1>4. IsFiniteSet(B)
  BY <1>1, <1>2, <1>3
<1>5. Cardinality(A) \in Nat /\ Cardinality(B) \in Nat /\ Cardinality(T) \in Nat
  BY <1>1, <1>4, FS_CardinalityType
<1>6. Cardinality(B) = Cardinality(T) + (IF x \in B THEN 1 ELSE 0)
  <2>1. CASE x \in B
    BY <1>2, <1>3, <1>5, <2>1
  <2>2. CASE x \notin B
    BY <1>2, <1>5, <2>2
  <2> QED
    BY <2>1, <2>2
<1>7. Cardinality(T) = Cardinality(A) - (IF x \in A THEN 1 ELSE 0)
  BY <1>1, <1>5
<1> QED
  BY <1>4, <1>5, <1>6, <1>7

-----------------------------------------------------------------------------
(* Sums over several sets.                                                 *)

\* A sum of naturals over two sets is no more than their sums together.
LEMMA SumUnion ==
  ASSUME NEW A, IsFiniteSet(A), NEW B, IsFiniteSet(B), NEW f, \A x \in A \cup B : f[x] \in Nat
  PROVE  SumFunctionOnSet(f, A \cup B) <= SumFunctionOnSet(f, A) + SumFunctionOnSet(f, B)
<1> DEFINE sum(s) == SumFunctionOnSet(f, s)
           C == {s \in SUBSET B : ~ (sum(A \cup s) <= sum(A) + sum(s))}
<1> SUFFICES ASSUME C # {} PROVE FALSE
  OBVIOUS
<1>1. PICK s \in C : \A t \in C : t \subseteq s => t = s
  <2>1. C \subseteq SUBSET B
    OBVIOUS
  <2> HIDE DEF C
  <2> QED
    BY <2>1, SmallestSet
<1>2. /\ s \in SUBSET B /\ IsFiniteSet(s) /\ IsFiniteSet(A \cup s) /\ sum(A) \in Nat /\ sum(s) \in Nat
      /\ ~ (sum(A \cup s) <= sum(A) + sum(s))
  <2>1. s \in SUBSET B /\ IsFiniteSet(s) /\ IsFiniteSet(A \cup s)
    BY <1>1, FS_Subset, FS_Union
  <2>2. sum(A) \in Nat
    BY SumNat
  <2>3. sum(s) \in Nat
    BY <2>1, SumNat
  <2> QED
    BY <1>1, <2>1, <2>2, <2>3
<1>3. s # {}
  <2>1. A \cup {} = A /\ sum({}) = 0
    BY SumEmpty
  <2> QED
    BY <1>2, <2>1
<1>4. PICK x \in s : TRUE
  BY <1>3
<1> DEFINE r == s \ {x}
<1>5. r \in SUBSET B /\ IsFiniteSet(r) /\ IsFiniteSet(A \cup r) /\ sum(A \cup r) <= sum(A) + sum(r)
  <2>1. r \in SUBSET B /\ r \subseteq s /\ r # s
    BY <1>2, <1>4
  <2>2. r \notin C
    BY <1>1, <2>1
  <2>3. IsFiniteSet(r) /\ IsFiniteSet(A \cup r)
    BY <1>2, FS_RemoveElement, FS_Union
  <2> QED
    BY <2>1, <2>2, <2>3
<1>6. sum(s) = f[x] + sum(r) /\ f[x] \in Nat
  <2>1. \A y \in s : f[y] \in Int
    BY <1>2
  <2> QED
    BY <1>2, <2>1, SumTakeOut
<1>7. sum(r) \in Nat /\ sum(A \cup r) \in Nat
  <2>1. sum(r) \in Nat
    BY <1>5, SumNat
  <2>2. sum(A \cup r) \in Nat
    BY <1>5, SumNat
  <2> QED
    BY <2>1, <2>2
<1>8. sum(A \cup s) <= sum(A \cup r) + f[x]
  <2>1. CASE x \in A
    <3>1. A \cup s = A \cup r
      BY <1>4, <2>1
    <3> HIDE DEF r
    <3> QED
      BY <1>6, <1>7, <3>1
  <2>2. CASE x \notin A
    <3>1. (A \cup s) \ {x} = A \cup r /\ x \in A \cup s
      BY <1>4, <2>2
    <3>2. \A y \in A \cup s : f[y] \in Int
      BY <1>2
    <3>3. sum(A \cup s) = f[x] + sum((A \cup s) \ {x})
      BY <1>2, <3>1, <3>2, SumTakeOut
    <3>4. sum(A \cup s) = f[x] + sum(A \cup r)
      BY <3>1, <3>3
    <3> DEFINE u == sum(A \cup s)  v == sum(A \cup r)  e == f[x]
    <3>5. u = e + v /\ e \in Nat /\ v \in Nat
      BY <1>6, <1>7, <3>4
    <3>6. u <= v + e
      <4> HIDE DEF u, v, e
      <4> QED
        BY <3>5
    <3> QED
      BY <3>6
  <2> QED
    BY <2>1, <2>2
<1> DEFINE a == sum(A)  u == sum(A \cup s)  v == sum(A \cup r)  p == sum(s)  q == sum(r)  e == f[x]
<1>9. /\ a \in Nat /\ p \in Nat /\ q \in Nat /\ v \in Nat /\ e \in Nat
      /\ ~ (u <= a + p) /\ v <= a + q /\ p = e + q /\ u <= v + e
  BY <1>2, <1>5, <1>6, <1>7, <1>8
<1>10. u \in Nat
  BY <1>2, SumNat
<1> HIDE DEF a, u, v, p, q, e
<1> QED
  BY <1>9, <1>10

\* A set that n sets cover, each with a sum within b, has a sum within n times b.
LEMMA SumCover ==
  ASSUME NEW S, IsFiniteSet(S), NEW f, \A x \in S : f[x] \in Nat, NEW b \in Nat,
         NEW I, IsFiniteSet(I), NEW cover \in [I -> SUBSET S],
         \A x \in S : \E i \in I : x \in cover[i],
         \A i \in I : SumFunctionOnSet(f, cover[i]) <= b
  PROVE  SumFunctionOnSet(f, S) <= b * Cardinality(I)
<1> DEFINE sum(s) == SumFunctionOnSet(f, s)
           U(J) == UNION {cover[i] : i \in J}
           C == {J \in SUBSET I : ~ (sum(U(J)) <= b * Cardinality(J))}
<1>1. C = {}
  <2> SUFFICES ASSUME C # {} PROVE FALSE
    OBVIOUS
  <2>1. PICK J \in C : \A K \in C : K \subseteq J => K = J
    <3>1. C \subseteq SUBSET I
      OBVIOUS
    <3> HIDE DEF C
    <3> QED
      BY <3>1, SmallestSet
  <2>2. J \in SUBSET I /\ IsFiniteSet(J) /\ ~ (sum(U(J)) <= b * Cardinality(J))
    BY <2>1, FS_Subset
  <2>3. J # {}
    <3> SUFFICES ASSUME J = {} PROVE FALSE
      OBVIOUS
    <3>1. U(J) = {}
      OBVIOUS
    <3>2. sum(U(J)) = 0
      BY <3>1, SumEmpty
    <3>3. Cardinality(J) = 0
      BY FS_EmptySet
    <3>4. b * 0 = 0
      OBVIOUS
    <3> HIDE DEF U, sum
    <3> QED
      BY <2>2, <3>2, <3>3, <3>4
  <2>4. PICK i \in J : TRUE
    BY <2>3
  <2> DEFINE K == J \ {i}
  <2>5. K \in SUBSET I /\ IsFiniteSet(K) /\ Cardinality(K) \in Nat /\ Cardinality(J) = Cardinality(K) + 1
    <3>1. IsFiniteSet(K) /\ Cardinality(K) = Cardinality(J) - 1
      BY <2>2, <2>4, FS_RemoveElement
    <3>2. Cardinality(J) \in Nat /\ Cardinality(K) \in Nat
      BY <2>2, <3>1, FS_CardinalityType
    <3> HIDE DEF K
    <3> QED
      BY <2>2, <3>1, <3>2 DEF K
  <2>6. sum(U(K)) <= b * Cardinality(K)
    <3>1. K \subseteq J /\ K # J
      BY <2>4
    <3>2. K \notin C
      BY <2>1, <3>1
    <3> QED
      BY <2>5, <3>2
  <2>7. /\ cover[i] \subseteq S /\ U(K) \subseteq S /\ U(J) = U(K) \cup cover[i]
        /\ IsFiniteSet(cover[i]) /\ IsFiniteSet(U(K)) /\ sum(cover[i]) <= b
    <3>1. i \in I /\ cover[i] \subseteq S
      BY <2>2, <2>4
    <3>2. U(K) \subseteq S
      BY <2>2
    <3>3. U(J) = U(K) \cup cover[i]
      BY <2>4
    <3> HIDE DEF U, K
    <3> QED
      BY <3>1, <3>2, <3>3, FS_Subset
  <2> HIDE DEF U, K
  <2>8. sum(U(J)) <= sum(U(K)) + sum(cover[i])
    <3>1. \A x \in U(K) \cup cover[i] : f[x] \in Nat
      BY <2>7
    <3> QED
      BY <2>7, <3>1, SumUnion
  <2>9. sum(U(K)) \in Nat /\ sum(cover[i]) \in Nat /\ sum(U(J)) \in Nat
    <3>1. IsFiniteSet(U(J)) /\ U(J) \subseteq S
      BY <2>7, FS_Subset
    <3>2. \A T \in SUBSET S : IsFiniteSet(T) => sum(T) \in Nat
      BY SumNat
    <3> QED
      BY <2>7, <3>1, <3>2
  <2>10. b * Cardinality(J) = b * Cardinality(K) + b
    <3>1. \A m, n \in Nat : m * (n + 1) = m * n + m
      OBVIOUS
    <3> QED
      BY <2>5, <3>1
  <2>11. b * Cardinality(K) \in Nat
    <3>1. \A m, n \in Nat : m * n \in Nat
      OBVIOUS
    <3> QED
      BY <2>5, <3>1
  <2> DEFINE u == sum(U(J))  v == sum(U(K))  c == sum(cover[i])  d == b * Cardinality(K)
  <2>12. /\ u \in Nat /\ v \in Nat /\ c \in Nat /\ d \in Nat
         /\ ~ (u <= d + b) /\ v <= d /\ c <= b /\ u <= v + c
    BY <2>2, <2>6, <2>7, <2>8, <2>9, <2>10, <2>11
  <2> HIDE DEF u, v, c, d
  <2> QED
    BY <2>12
<1>2. U(I) = S
  OBVIOUS
<1>3. I \notin C /\ I \in SUBSET I
  BY <1>1
<1> HIDE DEF U
<1> QED
  BY <1>2, <1>3

-----------------------------------------------------------------------------
(* Sums of parts.                                                          *)

\* The sum of one.
LEMMA SumOne ==
  ASSUME NEW f, NEW x, f[x] \in Int
  PROVE  SumFunctionOnSet(f, {x}) = f[x]
<1>1. IsFiniteSet({x})
  BY FS_Singleton
<1>2. SumFunctionOnSet(f, {x}) = f[x] + SumFunctionOnSet(f, {x} \ {x})
  BY <1>1, SumTakeOut
<1>3. {x} \ {x} = {}
  OBVIOUS
<1> QED
  BY <1>2, <1>3, SumEmpty

\* The sums of the parts that a key sorts a set into make up its sum.
LEMMA SumSorted ==
  ASSUME NEW S, IsFiniteSet(S), NEW D, IsFiniteSet(D), NEW key \in [S -> D],
         NEW f, \A x \in S : f[x] \in Int
  PROVE  SumFunctionOnSet(f, S)
           = SumFunctionOnSet([d \in D |-> SumFunctionOnSet(f, {x \in S : key[x] = d})], D)
<1> DEFINE Part(s, d) == {x \in s : key[x] = d}
           parts(s) == [d \in D |-> SumFunctionOnSet(f, Part(s, d))]
           C == {s \in SUBSET S : SumFunctionOnSet(f, s) # SumFunctionOnSet(parts(s), D)}
<1>1. C = {}
  <2> SUFFICES ASSUME C # {} PROVE FALSE
    OBVIOUS
  <2>1. PICK s \in C : \A t \in C : t \subseteq s => t = s
    <3>1. C \subseteq SUBSET S
      OBVIOUS
    <3> HIDE DEF C
    <3> QED
      BY <3>1, SmallestSet
  <2>2. s \in SUBSET S /\ IsFiniteSet(s) /\ SumFunctionOnSet(f, s) # SumFunctionOnSet(parts(s), D)
    BY <2>1, FS_Subset
  <2>3. s # {}
    <3> SUFFICES ASSUME s = {} PROVE FALSE
      OBVIOUS
    <3>1. \A d \in D : parts(s)[d] = 0
      <4>1. \A d \in D : Part(s, d) = {}
        OBVIOUS
      <4> HIDE DEF Part
      <4> QED
        BY <4>1, SumEmpty
    <3> HIDE DEF parts
    <3>2. SumFunctionOnSet(parts(s), D) = 0
      BY <3>1, SumZero
    <3> QED
      BY <2>2, <3>2, SumEmpty
  <2>4. PICK y \in s : TRUE
    BY <2>3
  <2> DEFINE t == s \ {y}  e == key[y]
  <2>5. t \in SUBSET S /\ t # s /\ t \subseteq s /\ IsFiniteSet(t) /\ y \in S /\ e \in D /\ f[y] \in Int
    BY <2>2, <2>4, FS_RemoveElement
  <2>6. SumFunctionOnSet(f, t) = SumFunctionOnSet(parts(t), D)
    <3>1. t \notin C
      BY <2>1, <2>5
    <3> HIDE DEF t, parts
    <3> QED
      BY <2>5, <3>1
  <2>7. SumFunctionOnSet(f, s) = f[y] + SumFunctionOnSet(f, t)
    BY <2>2, <2>4, SumTakeOut
  <2>8. \A d \in D : /\ Part(s, d) \subseteq S /\ Part(t, d) \subseteq S
                     /\ d # e => Part(s, d) = Part(t, d)
    BY <2>2
  <2>9. Part(t, e) = Part(s, e) \ {y} /\ y \in Part(s, e)
    BY <2>4
  <2> HIDE DEF Part, t
  <2>10. \A u \in SUBSET S : IsFiniteSet(u) /\ SumFunctionOnSet(f, u) \in Int
    <3>1. \A u \in SUBSET S : IsFiniteSet(u)
      BY FS_Subset
    <3> QED
      BY <3>1, SumType
  <2>11. SumFunctionOnSet(f, Part(s, e)) = f[y] + SumFunctionOnSet(f, Part(t, e))
    <3>1. IsFiniteSet(Part(s, e)) /\ \A x \in Part(s, e) : f[x] \in Int
      BY <2>5, <2>8, <2>10
    <3> QED
      BY <2>9, <3>1, SumTakeOut
  <2>12. \A d \in D : parts(s)[d] \in Int /\ parts(t)[d] \in Int
    BY <2>8, <2>10
  <2>13. \A d \in D \ {e} : parts(t)[d] = parts(s)[d]
    BY <2>8
  <2>14. parts(s)[e] = f[y] + parts(t)[e]
    BY <2>5, <2>11
  <2> HIDE DEF parts
  <2>15. SumFunctionOnSet(parts(s), D) = SumFunctionOnSet(parts(t), D) + parts(s)[e] - parts(t)[e]
    BY <2>5, <2>12, <2>13, SumChange
  <2>16. SumFunctionOnSet(parts(t), D) \in Int /\ parts(t)[e] \in Int
    BY <2>5, <2>12, SumType
  <2>17. SumFunctionOnSet(parts(s), D) = f[y] + SumFunctionOnSet(parts(t), D)
    BY <2>5, <2>14, <2>15, <2>16
  <2> QED
    BY <2>2, <2>6, <2>7, <2>17
<1>2. S \notin C /\ S \in SUBSET S
  BY <1>1
<1> QED
  BY <1>2

\* The sum of the differences is the difference of the sums.
LEMMA SumDifference ==
  ASSUME NEW S, IsFiniteSet(S), NEW f, NEW g, NEW h,
         \A x \in S : f[x] \in Int /\ g[x] \in Int /\ h[x] = f[x] - g[x]
  PROVE  SumFunctionOnSet(h, S) = SumFunctionOnSet(f, S) - SumFunctionOnSet(g, S)
<1> DEFINE sum(k, s) == SumFunctionOnSet(k, s)
           C == {s \in SUBSET S : sum(h, s) # sum(f, s) - sum(g, s)}
<1>1. C = {}
  <2> SUFFICES ASSUME C # {} PROVE FALSE
    OBVIOUS
  <2>1. PICK s \in C : \A t \in C : t \subseteq s => t = s
    <3>1. C \subseteq SUBSET S
      OBVIOUS
    <3> HIDE DEF C
    <3> QED
      BY <3>1, SmallestSet
  <2>2. s \in SUBSET S /\ IsFiniteSet(s) /\ sum(h, s) # sum(f, s) - sum(g, s)
    BY <2>1, FS_Subset
  <2>3. s # {}
    <3>1. sum(h, {}) = 0 /\ sum(f, {}) = 0 /\ sum(g, {}) = 0
      BY SumEmpty
    <3> QED
      BY <2>2, <3>1
  <2>4. PICK y \in s : TRUE
    BY <2>3
  <2> DEFINE t == s \ {y}
  <2>5. t \in SUBSET S /\ t # s /\ t \subseteq s /\ IsFiniteSet(t)
        /\ f[y] \in Int /\ g[y] \in Int /\ h[y] = f[y] - g[y]
    BY <2>2, <2>4, FS_RemoveElement
  <2>6. sum(h, t) = sum(f, t) - sum(g, t)
    BY <2>1, <2>5
  <2>7. \A x \in s : f[x] \in Int /\ g[x] \in Int /\ h[x] \in Int
    <3>1. \A a, b \in Int : a - b \in Int
      OBVIOUS
    <3> QED
      BY <2>2, <3>1
  <2>8. /\ sum(h, s) = h[y] + sum(h, t) /\ sum(f, s) = f[y] + sum(f, t)
        /\ sum(g, s) = g[y] + sum(g, t)
    BY <2>2, <2>4, <2>7, SumTakeOut
  <2>9. sum(f, t) \in Int /\ sum(g, t) \in Int
    BY <2>5, <2>7, SumType
  <2> HIDE DEF sum, t
  <2> QED
    BY <2>2, <2>5, <2>6, <2>8, <2>9
<1>2. S \notin C /\ S \in SUBSET S
  BY <1>1
<1> QED
  BY <1>2

\* What a set has apart from another it has beside it.
LEMMA SumSplit ==
  ASSUME NEW S, IsFiniteSet(S), NEW f, \A x \in S : f[x] \in Int, NEW T \in SUBSET S
  PROVE  SumFunctionOnSet(f, S) = SumFunctionOnSet(f, T) + SumFunctionOnSet(f, S \ T)
<1> DEFINE sum(s) == SumFunctionOnSet(f, s)
           C == {s \in SUBSET S : sum(s) # sum(s \cap T) + sum(s \ T)}
<1>0. \A s \in SUBSET S : IsFiniteSet(s) /\ sum(s) \in Int
  <2>1. \A s \in SUBSET S : IsFiniteSet(s)
    BY FS_Subset
  <2> QED
    BY <2>1, SumType
<1>1. C = {}
  <2> SUFFICES ASSUME C # {} PROVE FALSE
    OBVIOUS
  <2>1. PICK s \in C : \A t \in C : t \subseteq s => t = s
    <3>1. C \subseteq SUBSET S
      OBVIOUS
    <3> HIDE DEF C
    <3> QED
      BY <3>1, SmallestSet
  <2>2. s \in SUBSET S /\ sum(s) # sum(s \cap T) + sum(s \ T)
    BY <2>1
  <2>3. s # {}
    <3> SUFFICES ASSUME s = {} PROVE FALSE
      OBVIOUS
    <3>1. s \cap T = {} /\ s \ T = {}
      OBVIOUS
    <3>2. sum({}) = 0
      BY SumEmpty
    <3> HIDE DEF sum
    <3> QED
      BY <2>2, <3>1, <3>2
  <2>4. PICK y \in s : TRUE
    BY <2>3
  <2> DEFINE t == s \ {y}
  <2>5. t \in SUBSET S /\ t # s /\ t \subseteq s /\ f[y] \in Int
    BY <2>2, <2>4
  <2>6. sum(t) = sum(t \cap T) + sum(t \ T)
    BY <2>1, <2>5
  <2>7. \A u \in SUBSET S : \A x \in u : sum(u) = f[x] + sum(u \ {x})
    BY <1>0, SumTakeOut
  <2>8. sum(s) = f[y] + sum(t)
    BY <2>2, <2>4, <2>7
  <2>9. sum(s \cap T) + sum(s \ T) = f[y] + (sum(t \cap T) + sum(t \ T))
    <3>0. /\ s \cap T \in SUBSET S /\ s \ T \in SUBSET S /\ t \cap T \in SUBSET S /\ t \ T \in SUBSET S
      BY <2>2, <2>5
    <3>3. /\ f[y] \in Int /\ sum(t \cap T) \in Int /\ sum(t \ T) \in Int
          /\ \A a, b, c \in Int : (a + b) + c = a + (b + c) /\ b + (a + c) = a + (b + c)
      <4>1. \A a, b, c \in Int : (a + b) + c = a + (b + c) /\ b + (a + c) = a + (b + c)
        OBVIOUS
      <4> QED
        BY <1>0, <2>5, <3>0, <4>1
    <3>1. CASE y \in T
      <4>1. t \cap T = (s \cap T) \ {y} /\ t \ T = s \ T /\ y \in s \cap T
        BY <2>4, <3>1
      <4>2. sum(s \cap T) = f[y] + sum(t \cap T)
        BY <2>7, <3>0, <4>1
      <4>3. sum(s \ T) = sum(t \ T)
        BY <4>1
      <4> QED
        BY <3>3, <4>2, <4>3
    <3>2. CASE y \notin T
      <4>1. t \cap T = s \cap T /\ t \ T = (s \ T) \ {y} /\ y \in s \ T
        BY <2>4, <3>2
      <4>2. sum(s \ T) = f[y] + sum(t \ T)
        BY <2>7, <3>0, <4>1
      <4>3. sum(s \cap T) = sum(t \cap T)
        BY <4>1
      <4> QED
        BY <3>3, <4>2, <4>3
    <3> QED
      BY <3>1, <3>2
  <2> QED
    BY <2>2, <2>6, <2>8, <2>9
<1>2. S \cap T = T /\ S \in SUBSET S
  OBVIOUS
<1> QED
  BY <1>1, <1>2

-----------------------------------------------------------------------------
(* Extremes and numbers.                                                   *)

\* The image of a finite set is finite.
LEMMA ImageIsFinite ==
  ASSUME NEW S, IsFiniteSet(S), NEW f
  PROVE  IsFiniteSet({f[x] : x \in S}) /\ Cardinality({f[x] : x \in S}) <= Cardinality(S)
<1> DEFINE T == {f[x] : x \in S}
           g == [x \in S |-> f[x]]
<1>1. g \in Surjection(S, T)
  BY DEF Surjection
<1> HIDE DEF g, T
<1>2. IsFiniteSet(T) /\ Cardinality(T) <= Cardinality(S)
  BY <1>1, FS_Surjection
<1> QED
  BY <1>2 DEF T

\* A finite set of integers, if there are any, has a least and a greatest.
LEMMA Extremes ==
  ASSUME NEW S, IsFiniteSet(S), S # {}, \A x \in S : x \in Int
  PROVE  /\ Min(S) \in S /\ \A x \in S : Min(S) <= x
         /\ Max(S) \in S /\ \A x \in S : x <= Max(S)
<1> DEFINE A == {s \in SUBSET S : s # {} /\ ~ \E m \in s : \A x \in s : m <= x}
           B == {s \in SUBSET S : s # {} /\ ~ \E m \in s : \A x \in s : m >= x}
<1>1. A = {}
  <2> SUFFICES ASSUME A # {} PROVE FALSE
    OBVIOUS
  <2>1. PICK s \in A : \A t \in A : t \subseteq s => t = s
    <3>1. A \subseteq SUBSET S
      OBVIOUS
    <3> HIDE DEF A, B
    <3>2. IsFiniteSet(S) /\ A # {}
      OBVIOUS
    <3> QED
      BY <3>1, <3>2, SmallestSet
  <2>2. PICK y \in s : TRUE
    OBVIOUS
  <2>3. s \ {y} \notin A
    BY <2>1, <2>2
  <2>4. CASE s \ {y} = {}
    BY <2>2, <2>4
  <2>5. ASSUME NEW m \in s \ {y}, \A x \in s \ {y} : m <= x PROVE FALSE
    <3>1. m \in Int /\ y \in Int /\ \A x \in s : x \in Int
      OBVIOUS
    <3>2. CASE m <= y
      BY <2>2, <2>5, <3>1, <3>2
    <3>3. CASE y <= m
      <4>1. \A x \in s : y <= x
        BY <2>5, <3>1, <3>3
      <4> QED
        BY <2>2, <4>1
    <3> QED
      BY <3>1, <3>2, <3>3
  <2> QED
    BY <2>3, <2>4, <2>5
<1>2. B = {}
  <2> SUFFICES ASSUME B # {} PROVE FALSE
    OBVIOUS
  <2>1. PICK s \in B : \A t \in B : t \subseteq s => t = s
    <3>1. B \subseteq SUBSET S
      OBVIOUS
    <3> HIDE DEF A, B
    <3>2. IsFiniteSet(S) /\ B # {}
      OBVIOUS
    <3> QED
      BY <3>1, <3>2, SmallestSet
  <2>2. PICK y \in s : TRUE
    OBVIOUS
  <2>3. s \ {y} \notin B
    BY <2>1, <2>2
  <2>4. CASE s \ {y} = {}
    BY <2>2, <2>4
  <2>5. ASSUME NEW m \in s \ {y}, \A x \in s \ {y} : m >= x PROVE FALSE
    <3>1. m \in Int /\ y \in Int /\ \A x \in s : x \in Int
      OBVIOUS
    <3>2. CASE m >= y
      BY <2>2, <2>5, <3>1, <3>2
    <3>3. CASE y >= m
      <4>1. \A x \in s : y >= x
        BY <2>5, <3>1, <3>3
      <4> QED
        BY <2>2, <4>1
    <3> QED
      BY <3>1, <3>2, <3>3
  <2> QED
    BY <2>3, <2>4, <2>5
<1>3. (\E m \in S : \A x \in S : m <= x) /\ \E m \in S : \A x \in S : m >= x
  <2>1. S \notin A /\ S \notin B /\ S \in SUBSET S
    BY <1>1, <1>2
  <2> QED
    BY <2>1
<1> HIDE DEF A, B
<1>4. Min(S) \in S /\ \A x \in S : Min(S) <= x
  BY <1>3 DEF Min
<1>5. Max(S) \in S /\ \A x \in S : Max(S) >= x
  BY <1>3 DEF Max
<1> QED
  BY <1>4, <1>5

\* Induction over the numbers up to n, as a fact about sets: a smallest number
\* left out has a predecessor, which is in.
LEMMA UpTo ==
  ASSUME NEW n \in Nat, NEW S, 0 \in S, \A i \in 1..n : i - 1 \in S => i \in S
  PROVE  0..n \subseteq S
<1> DEFINE Out == {i \in 0..n : i \notin S}
           U == {0..i : i \in Out}
           W == 0..n
<1> SUFFICES ASSUME Out # {} PROVE FALSE
  OBVIOUS
<1>1. IsFiniteSet(W)
  BY FS_Interval
<1>2. U \subseteq SUBSET W /\ U # {}
  <2>1. \A i \in Out : 0..i \in SUBSET W
    OBVIOUS
  <2>2. \E i : i \in Out
    OBVIOUS
  <2> QED
    BY <2>1, <2>2
<1>3. PICK s \in U : \A t \in U : t \subseteq s => t = s
  <2> HIDE DEF U, W
  <2> QED
    BY <1>1, <1>2, SmallestSet
<1>4. PICK i \in Out : s = 0..i
  OBVIOUS
<1>5. i \in 1..n /\ i - 1 \in 0..n
  BY <1>4
<1>6. i - 1 \in Out
  BY <1>4, <1>5
<1>7. 0..(i - 1) \in U /\ 0..(i - 1) \subseteq 0..i /\ i \in 0..i /\ i \notin 0..(i - 1)
  BY <1>5, <1>6
<1> QED
  BY <1>3, <1>4, <1>7

\* g takes b to what F makes of it in n steps.
Unrolled(g, b, F, n) == g[0] = b /\ \A i \in 1..n : g[i] = F[<<g[i - 1], i>>]

\* A function on 0..n may be defined from each value to the next: F gives, for a
\* value in R and a number, what comes at that number.
LEMMA Unrolls ==
  ASSUME NEW n \in Nat, NEW R, NEW b \in R, NEW F \in [R \X (1..n) -> R]
  PROVE  \E g \in [0..n -> R] : Unrolled(g, b, F, n)
<1> DEFINE Up(g, k) == g[0] = b /\ \A i \in 1..k : g[i] = F[<<g[i - 1], i>>]
           S == {k \in 0..n : \E g \in [0..n -> R] : Up(g, k)}
<1>1. 0 \in S
  <2> DEFINE w == [i \in 0..n |-> b]
  <2>1. w \in [0..n -> R] /\ w[0] = b /\ 0 \in 0..n
    OBVIOUS
  <2> HIDE DEF w
  <2> QED
    BY <2>1
<1>2. ASSUME NEW k \in 1..n, k - 1 \in S PROVE k \in S
  <2>1. PICK g \in [0..n -> R] : Up(g, k - 1)
    BY <1>2
  <2> DEFINE h == [g EXCEPT ![k] = F[<<g[k - 1], k>>]]
  <2>2. k - 1 \in 0..n /\ k \in 0..n /\ g[k - 1] \in R
    OBVIOUS
  <2>3. F[<<g[k - 1], k>>] \in R
    BY <2>2
  <2>4. /\ h \in [0..n -> R] /\ h[k] = F[<<g[k - 1], k>>]
        /\ \A i \in 0..(k - 1) : h[i] = g[i]
    BY <2>2, <2>3
  <2> HIDE DEF h
  <2>5. \A i \in 1..k : h[i] = F[<<h[i - 1], i>>]
    <3> SUFFICES ASSUME NEW i \in 1..k PROVE h[i] = F[<<h[i - 1], i>>]
      OBVIOUS
    <3>1. CASE i = k
      BY <2>2, <2>4, <3>1
    <3>2. CASE i # k
      <4>1. i \in 1..(k - 1) /\ i \in 0..(k - 1) /\ i - 1 \in 0..(k - 1)
        BY <3>2
      <4> QED
        BY <2>1, <2>4, <4>1
    <3> QED
      BY <3>1, <3>2
  <2>6. h[0] = b
    BY <2>1, <2>2, <2>4
  <2> QED
    BY <2>2, <2>4, <2>5, <2>6
<1>3. n \in S
  <2>1. n \in 0..n
    OBVIOUS
  <2> HIDE DEF S
  <2> QED
    BY <1>1, <1>2, <2>1, UpTo
<1> QED
  BY <1>3 DEF Unrolled
=============================================================================

------------------------------ MODULE ShopProofs ------------------------------
(***************************************************************************)
(* Proofs about the shop's judgement and its books, for any jobs, orders,  *)
(* rates, budgets, reserve, floor and window of calibration.  What the     *)
(* offers are worth is arithmetic of the gate alone.  The rest follows one *)
(* order from its quote to its last cost, however often it comes back: the *)
(* sheet has what was quoted, the ledger what was paid for it so far,      *)
(* vendor by vendor and request by request, and what was left for it at    *)
(* the gate is left yet, but for what others took.                         *)
(*                                                                         *)
(* That the reports agree takes another invariant, the story of each       *)
(* order: listed, paid for once and at its price or more, then done, or    *)
(* refunded once and in full.  With it every report is a sum over one      *)
(* ledger, sorted in its own way, by day, vendor, customer, job or kind.   *)
(***************************************************************************)
EXTENDS Outlook, Sums

-----------------------------------------------------------------------------
(* Sums of cents.                                                          *)

\* Entries with amounts.
Amounts(L) == IsFiniteSet(L) /\ \A e \in L : e.cents \in Nat
CentsIn(L) == [e \in L |-> e.cents]

\* Cents are sums of the amounts, over any part of the entries.
LEMMA CentsIs ==
  ASSUME NEW L, Amounts(L), NEW S \in SUBSET L
  PROVE  /\ IsFiniteSet(S) /\ Cents(S) = SumFunctionOnSet(CentsIn(L), S)
         /\ Cents(S) \in Nat
<1>1. IsFiniteSet(S)
  BY FS_Subset DEF Amounts
<1> DEFINE f == [e \in S |-> e.cents]
<1>2. \A e \in S : f[e] \in Int /\ f[e] \in Nat /\ f[e] = CentsIn(L)[e]
  BY DEF Amounts, CentsIn
<1>3. Cents(S) = SumFunctionOnSet(f, S)
  BY DEF Cents
<1> HIDE DEF f
<1>4. SumFunctionOnSet(f, S) = SumFunctionOnSet(CentsIn(L), S)
  BY <1>1, <1>2, SumEqual
<1>5. SumFunctionOnSet(f, S) \in Nat
  BY <1>1, <1>2, SumNat
<1> QED
  BY <1>1, <1>3, <1>4, <1>5

-----------------------------------------------------------------------------
(* The arithmetic of the gate.                                             *)

\* What the division of whole numbers leaves.
LEMMA Division ==
  ASSUME NEW n \in Int, NEW d \in Nat, d # 0
  PROVE  /\ n \div d \in Int /\ n % d \in 0..(d - 1)
         /\ n = d * (n \div d) + (n % d)
  OBVIOUS

\* Division rounded up is the least whole number that is enough.
LEMMA CeilBounds ==
  ASSUME NEW n \in Nat, NEW d \in Nat, d # 0
  PROVE  /\ CeilDiv(n, d) \in Nat /\ d * CeilDiv(n, d) >= n
         /\ d * (CeilDiv(n, d) - 1) < n
<1> DEFINE m == n + d - 1  q == m \div d  r == m % d
<1>1. m \in Nat
  OBVIOUS
<1>2. q \in Int /\ r \in 0..(d - 1) /\ m = d * q + r
  <2> HIDE DEF m
  <2> QED
    BY <1>1, Division
<1>3. CeilDiv(n, d) = q
  BY DEF CeilDiv
<1>4. m = n + d - 1
  OBVIOUS
<1> HIDE DEF m, q, r
<1>5. d * q = n + d - 1 - r /\ d * (q - 1) = d * q - d
  BY <1>1, <1>2, <1>4
<1>6. d * q >= n /\ d * (q - 1) < n
  BY <1>2, <1>5
<1>7. q >= 0
  <2>1. ASSUME q <= -1 PROVE FALSE
    <3>1. d * q <= d * (-1) /\ d * (-1) = -d
      BY <1>2, <2>1
    <3> QED
      BY <1>2, <1>6, <3>1
  <2> QED
    BY <1>2, <2>1
<1> QED
  BY <1>2, <1>3, <1>6, <1>7

\* Rounding moves a quotient by at most a half.
LEMMA RoundBounds ==
  ASSUME NEW n \in Int, NEW d \in Nat, d # 0
  PROVE  /\ Round(n, d) \in Int
         /\ 2 * (d * Round(n, d)) <= 2 * n + d
         /\ 2 * n <= 2 * (d * Round(n, d)) + d
<1> DEFINE q == n \div d  r == n % d
<1>1. q \in Int /\ r \in 0..(d - 1) /\ n = d * q + r
  BY Division
<1>2. Round(n, d) = IF 2 * r > d \/ (2 * r = d /\ q % 2 = 1) THEN q + 1 ELSE q
  BY DEF Round
<1> HIDE DEF q, r
<1>3. CASE 2 * r > d \/ (2 * r = d /\ q % 2 = 1)
  <2>1. Round(n, d) = q + 1 /\ 2 * r >= d
    BY <1>1, <1>2, <1>3
  <2>2. d * (q + 1) = d * q + d
    BY <1>1
  <2> QED
    BY <1>1, <2>1, <2>2
<1>4. CASE ~(2 * r > d \/ (2 * r = d /\ q % 2 = 1))
  <2>1. Round(n, d) = q /\ 2 * r <= d
    BY <1>1, <1>2, <1>4
  <2> QED
    BY <1>1, <2>1
<1> QED
  BY <1>3, <1>4

\* A quotient that is at least m is not rounded below m.
LEMMA RoundAtLeast ==
  ASSUME NEW n \in Int, NEW d \in Nat, d # 0, NEW m \in Int, n >= m * d
  PROVE  Round(n, d) >= m
<1> DEFINE r == Round(n, d)
<1>1. r \in Int /\ 2 * n <= 2 * (d * r) + d
  BY RoundBounds
<1> SUFFICES ASSUME r <= m - 1 PROVE FALSE
  BY <1>1
<1> HIDE DEF r
<1>2. d * r <= d * (m - 1)
  BY <1>1
<1>3. d * (m - 1) = m * d - d
  OBVIOUS
<1> QED
  BY <1>1, <1>2, <1>3

\* A quotient that comes out even is left as it is.
LEMMA RoundExact ==
  ASSUME NEW x \in Int
  PROVE  Round(x * 1000, 1000) = x
<1> DEFINE r == Round(x * 1000, 1000)
<1>1. /\ r \in Int /\ 2 * (1000 * r) <= 2 * (x * 1000) + 1000
      /\ 2 * (x * 1000) <= 2 * (1000 * r) + 1000
  BY RoundBounds
<1> HIDE DEF r
<1>2. r = x
  BY <1>1
<1> QED
  BY <1>2 DEF r

\* An accepted price is at least the minimum and the cost, and keeps the floor.
LEMMA AcceptedKeepsFloor ==
  ASSUME NEW p \in Nat, NEW c \in Nat, Verdict(p, c) = "accepted"
  PROVE  /\ p >= MinPrice /\ p >= c /\ p > 0
         /\ KeepsFloor(p, c)
         /\ 2000 * c <= 2 * ((1000 - MarginFloor) * p) + p
<1>0. MinPrice \in Nat /\ MinPrice > 0 /\ MarginFloor \in Nat
  BY PricingAssumption
<1>a. ~ (p < MinPrice) /\ ~ (p < c) /\ ~ (MarginPct(p, c) < MarginFloor)
  BY DEF Verdict
<1>1. p >= MinPrice /\ p >= c /\ p > 0
  BY <1>0, <1>a
<1> DEFINE n == 1000 * (p - c)  r == Round(n, p)
<1>2. MarginPct(p, c) = r
  BY <1>1 DEF MarginPct
<1>3. n \in Int /\ r \in Int /\ 2 * (p * r) <= 2 * n + p
  <2>1. n \in Int
    OBVIOUS
  <2> HIDE DEF n
  <2>2. p # 0
    BY <1>1
  <2>3. Round(n, p) \in Int /\ 2 * (p * Round(n, p)) <= 2 * n + p
    BY <2>1, <2>2, RoundBounds, Zenon
  <2> QED
    BY <2>1, <2>3
<1>b. r >= MarginFloor
  BY <1>0, <1>2, <1>3, <1>a
<1>4. n = 1000 * p - 1000 * c
  OBVIOUS
<1>5. p * r >= p * MarginFloor
  <2> HIDE DEF n, r
  <2> QED
    BY <1>0, <1>3, <1>b
<1>6. (2 * MarginFloor - 1) * p = 2 * (p * MarginFloor) - p
  BY PricingAssumption
<1>7. (1000 - MarginFloor) * p = 1000 * p - p * MarginFloor
  BY PricingAssumption
<1>8. p * MarginFloor \in Int /\ p * r \in Int
  BY <1>3, PricingAssumption
<1> HIDE DEF n, r
<1>9. 2000 * (p - c) >= (2 * MarginFloor - 1) * p
  BY <1>3, <1>4, <1>5, <1>6, <1>8
<1>10. 2000 * c <= 2 * ((1000 - MarginFloor) * p) + p
  BY <1>3, <1>4, <1>5, <1>7, <1>8
<1> QED
  BY <1>1, <1>9, <1>10 DEF KeepsFloor

\* A price that leaves the floor without any rounding is accepted.
LEMMA FloorAccepts ==
  ASSUME NEW p \in Nat, NEW c \in Nat, p >= MinPrice, MarginFloor <= 1000,
         (1000 - MarginFloor) * p >= 1000 * c
  PROVE  Verdict(p, c) = "accepted"
<1>1. p > 0 /\ MarginFloor \in Nat
  BY PricingAssumption
<1>2. (1000 - MarginFloor) * p <= 1000 * p
  BY <1>1
<1>3. p >= c
  <2> DEFINE x == (1000 - MarginFloor) * p
  <2>1. x \in Int /\ x <= 1000 * p /\ x >= 1000 * c
    BY <1>1, <1>2
  <2> HIDE DEF x
  <2> QED
    BY <2>1
<1> DEFINE n == 1000 * (p - c)
<1>4. n >= MarginFloor * p
  <2>1. (1000 - MarginFloor) * p = 1000 * p - MarginFloor * p /\ MarginFloor * p \in Int
    BY <1>1
  <2> QED
    BY <2>1
<1>5. Round(n, p) >= MarginFloor
  <2>1. n \in Int
    OBVIOUS
  <2> HIDE DEF n
  <2> QED
    BY <1>1, <1>4, <2>1, RoundAtLeast
<1>6. Round(n, p) \in Int
  <2>1. n \in Int
    OBVIOUS
  <2> HIDE DEF n
  <2> QED
    BY <1>1, <2>1, RoundBounds
<1>7. MarginPct(p, c) = Round(n, p)
  BY <1>1 DEF MarginPct
<1> HIDE DEF n
<1> QED
  BY <1>1, <1>3, <1>5, <1>6, <1>7, PricingAssumption DEF Verdict

-----------------------------------------------------------------------------
(* What a brief costs.                                                     *)

\* A scope on sale: no dial is below its floor.
Scopes == {s \in [Dials -> Nat] : \A d \in Dials : s[d] >= MinScope[d]}

\* What is asked is widened to a scope on sale, which is left as it is.
LEMMA ScopeForWidens ==
  /\ \A asked \in [Dials -> Nat] : ScopeFor(asked) \in Scopes
  /\ \A s \in Scopes : ScopeFor(s) = s
<1>1. ASSUME NEW asked \in [Dials -> Nat] PROVE ScopeFor(asked) \in Scopes
  <2>1. \A d \in Dials : Larger(asked[d], MinScope[d]) \in Nat /\ Larger(asked[d], MinScope[d]) >= MinScope[d]
    BY PricingAssumption DEF Larger
  <2> QED
    BY <2>1 DEF ScopeFor, Scopes
<1>2. ASSUME NEW s \in Scopes PROVE ScopeFor(s) = s
  <2>1. s \in [Dials -> Nat] /\ \A d \in Dials : Larger(s[d], MinScope[d]) = s[d]
    BY PricingAssumption DEF Larger, Scopes
  <2> QED
    BY <2>1 DEF ScopeFor
<1> QED
  BY <1>1, <1>2

\* Five natural numbers have a natural total.
LEMMA TotalType ==
  ASSUME NEW b \in [Lines -> Nat]
  PROVE  /\ Total(b) \in Nat /\ b["tokens"] \in Nat /\ Total(b) - b["tokens"] \in Nat
         /\ \A c \in [Lines -> Nat] : (\A l \in Lines : b[l] <= c[l]) => Total(b) <= Total(c)
<1>1. \A c \in [Lines -> Nat] :
        /\ c["data"] \in Nat /\ c["tokens"] \in Nat /\ c["search"] \in Nat
        /\ c["pdf"] \in Nat /\ c["email"] \in Nat
  BY DEF Lines, Dials
<1>2. \A c \in [Lines -> Nat] : (\A l \in Lines : b[l] <= c[l]) =>
        /\ b["data"] <= c["data"] /\ b["tokens"] <= c["tokens"] /\ b["search"] <= c["search"]
        /\ b["pdf"] <= c["pdf"] /\ b["email"] <= c["email"]
  BY DEF Lines, Dials
<1> QED
  BY <1>1, <1>2 DEF Total

\* The lines of a brief, and the lines scaled by a factor: not one is cheaper
\* than the static model says, and a factor of one thousandth of 1000 changes none.
LEMMA BriefCosts ==
  ASSUME NEW s \in [Dials -> Nat], NEW scale \in Nat
  PROVE  /\ Breakdown(s) \in [Lines -> Nat] /\ Scaled(s, scale) \in [Lines -> Nat]
         /\ CalibratedCost(s, scale) \in Nat
         /\ CalibratedCost(s, 1000) = Total(Breakdown(s))
         /\ CalibratedCost(s, scale) >= CalibratedCost(s, 1000)
<1> DEFINE b == Breakdown(s)
           k == Larger(1000, scale)
<1>1. k \in Nat /\ k >= 1000
  BY DEF Larger
<1>2. b \in [Lines -> Nat]
  <2>1. ASSUME NEW l \in Lines PROVE (IF l \in Dials THEN s[l] * Rates[l] ELSE Rates[l]) \in Nat
    <3>1. Rates[l] \in Nat
      BY PricingAssumption
    <3>2. l \in Dials => s[l] \in Nat
      OBVIOUS
    <3>3. \A x \in Nat, y \in Nat : x * y \in Nat
      OBVIOUS
    <3> QED
      BY <3>1, <3>2, <3>3
  <2> QED
    BY <2>1 DEF Breakdown
<1> HIDE DEF b, k
<1>3. ASSUME NEW x \in Nat PROVE Round(x * k, 1000) \in Nat /\ x <= Round(x * k, 1000)
  <2>1. x * k \in Int /\ x * k >= x * 1000
    BY <1>1
  <2> DEFINE n == x * k
  <2>2. n \in Int /\ n >= x * 1000
    BY <2>1
  <2> HIDE DEF n
  <2>3. Round(n, 1000) \in Int
    BY <2>2, RoundBounds
  <2>4. Round(n, 1000) >= x
    BY <2>2, RoundAtLeast
  <2> QED
    BY <2>3, <2>4 DEF n
<1>4. Scaled(s, scale) = [l \in Lines |-> Round(b[l] * k, 1000)]
  BY DEF Scaled, b, k
<1>5. Scaled(s, 1000) = b
  <2>1. Scaled(s, 1000) = [l \in Lines |-> Round(b[l] * 1000, 1000)]
    BY DEF Scaled, b, Larger
  <2>2. \A l \in Lines : Round(b[l] * 1000, 1000) = b[l]
    BY <1>2, RoundExact
  <2> QED
    BY <1>2, <2>1, <2>2
<1>6. Scaled(s, scale) \in [Lines -> Nat] /\ \A l \in Lines : b[l] <= Scaled(s, scale)[l]
  BY <1>2, <1>3, <1>4
<1> QED
  BY <1>2, <1>5, <1>6, TotalType DEF CalibratedCost, b

\* A quote is priced at the order's budget and costed for the scope on sale.
LEMMA QuoteFields ==
  ASSUME NEW budget \in Nat, NEW asked \in [Dials -> Nat], NEW scale \in Nat
  PROVE  LET q == QuoteOf(budget, asked, scale)
             c == CalibratedCost(ScopeFor(asked), scale)
         IN  /\ q.price = budget /\ q.cost = c /\ c \in Nat
             /\ q.accept <=> Verdict(budget, c) = "accepted"
<1>1. CalibratedCost(ScopeFor(asked), scale) \in Nat
  BY ScopeForWidens, BriefCosts DEF Scopes
<1> QED
  BY <1>1 DEF QuoteOf

-----------------------------------------------------------------------------
(* What the shop would say yes to instead.                                 *)

\* Giving up steps leaves a scope on sale.
LEMMA NarrowedOnSale ==
  ASSUME NEW s \in Scopes, NEW n \in 0..StepsToFloor(s)
  PROVE  Narrowed(s, n) \in Scopes
<1> DEFINE D == s["data"] - MinScope["data"]
           T == s["tokens"] - MinScope["tokens"]
           S == s["search"] - MinScope["search"]
           d == Smaller(n, D)
           t == Smaller(n - d, T)
           w == n - d - t
<1>1. /\ s \in [Dials -> Nat] /\ MinScope \in [Dials -> Nat]
      /\ D \in Nat /\ T \in Nat /\ S \in Nat /\ n \in Nat /\ n <= D + T + S
  <2>1. s \in [Dials -> Nat] /\ MinScope \in [Dials -> Nat]
    BY PricingAssumption DEF Scopes
  <2>2. s["data"] >= MinScope["data"] /\ s["tokens"] >= MinScope["tokens"] /\ s["search"] >= MinScope["search"]
    BY DEF Scopes, Dials
  <2>3. /\ s["data"] \in Nat /\ s["tokens"] \in Nat /\ s["search"] \in Nat
        /\ MinScope["data"] \in Nat /\ MinScope["tokens"] \in Nat /\ MinScope["search"] \in Nat
    BY <2>1 DEF Dials
  <2> QED
    BY <2>1, <2>2, <2>3 DEF StepsToFloor
<1>2. d \in 0..D /\ t \in 0..T /\ w \in 0..S
  <2> HIDE DEF D, T, S
  <2> QED
    BY <1>1 DEF Smaller
<1>3. Narrowed(s, n) = [s EXCEPT !["data"] = s["data"] - d, !["tokens"] = s["tokens"] - t,
                                 !["search"] = s["search"] - w]
  BY DEF Narrowed
<1> HIDE DEF d, t, w
<1>4. \A x \in Dials : x = "data" \/ x = "tokens" \/ x = "search"
  BY DEF Dials
<1>5. /\ s["data"] - d \in Nat /\ s["data"] - d >= MinScope["data"]
      /\ s["tokens"] - t \in Nat /\ s["tokens"] - t >= MinScope["tokens"]
      /\ s["search"] - w \in Nat /\ s["search"] - w >= MinScope["search"]
  <2>1. /\ s["data"] \in Nat /\ s["tokens"] \in Nat /\ s["search"] \in Nat
        /\ MinScope["data"] \in Nat /\ MinScope["tokens"] \in Nat /\ MinScope["search"] \in Nat
    BY <1>1 DEF Dials
  <2> QED
    BY <1>2, <2>1
<1> HIDE DEF D, T, S
<1> DEFINE u == [s EXCEPT !["data"] = s["data"] - d, !["tokens"] = s["tokens"] - t,
                          !["search"] = s["search"] - w]
<1>6. u \in [Dials -> Nat]
  BY <1>1, <1>5 DEF Dials
<1>7. u["data"] = s["data"] - d /\ u["tokens"] = s["tokens"] - t /\ u["search"] = s["search"] - w
  BY <1>1 DEF Dials
<1> HIDE DEF u
<1>8. \A x \in Dials : u[x] >= MinScope[x]
  BY <1>4, <1>5, <1>7
<1> QED
  BY <1>3, <1>6, <1>8 DEF Scopes, u

\* The least whole number of dollars that clears the floor and the minimum.
LEMMA MinViable ==
  ASSUME NEW c \in Nat, MarginFloor < 1000
  PROVE  \E p \in Nat :
           /\ MinViablePrices(c) = {p} /\ p >= MinPrice
           /\ (1000 - MarginFloor) * p >= 1000 * c
           /\ p - Dollar < MinPrice \/ (1000 - MarginFloor) * (p - Dollar) < 1000 * c
<1>0. MarginFloor \in Nat /\ MinPrice \in Nat /\ Dollar \in Nat /\ Dollar # 0
  BY PricingAssumption
<1> DEFINE h == 1000 - MarginFloor
           n == 1000 * c
           a == CeilDiv(n, h)
           m == Larger(a, MinPrice)
           k == CeilDiv(m, Dollar)
           p == k * Dollar
<1>1. h \in Nat /\ h # 0 /\ n \in Nat
  BY <1>0
<1>2. MinViablePrices(c) = {p}
  BY <1>0 DEF MinViablePrices
<1> HIDE DEF h, n
<1>3. a \in Nat /\ h * a >= n /\ h * (a - 1) < n
  BY <1>1, CeilBounds
<1> HIDE DEF a
<1>4. m \in Nat /\ m >= a /\ m >= MinPrice /\ (m = a \/ m = MinPrice)
  BY <1>0, <1>3 DEF Larger
<1> HIDE DEF m
<1>5. k \in Nat /\ Dollar * k >= m /\ Dollar * (k - 1) < m
  BY <1>0, <1>4, CeilBounds
<1> HIDE DEF k
<1>6. p \in Nat /\ p = Dollar * k /\ p - Dollar = Dollar * (k - 1)
  BY <1>0, <1>5
<1>7. p >= m /\ p - Dollar <= m - 1
  BY <1>0, <1>4, <1>5, <1>6
<1> HIDE DEF p
<1>8. h * p >= n
  <2>1. h * p >= h * a
    <3>1. p >= a
      BY <1>3, <1>4, <1>6, <1>7
    <3> QED
      BY <1>1, <1>3, <1>6, <3>1
  <2> QED
    BY <1>1, <1>3, <1>6, <2>1
<1>9. p - Dollar < MinPrice \/ h * (p - Dollar) < n
  <2>1. CASE m = MinPrice
    BY <1>0, <1>4, <1>6, <1>7, <2>1
  <2>2. CASE m = a
    <3> DEFINE e == p - Dollar
    <3>1. e \in Int /\ e <= a - 1
      BY <1>0, <1>6, <1>7, <2>2
    <3> HIDE DEF e
    <3>2. h * e <= h * (a - 1)
      BY <1>1, <1>3, <3>1
    <3>3. h * e \in Int /\ h * (a - 1) \in Int
      BY <1>1, <1>3, <3>1
    <3>4. h * e < n
      BY <1>1, <1>3, <3>2, <3>3
    <3> QED
      BY <3>4 DEF e
  <2> QED
    BY <1>4, <2>1, <2>2
<1>10. p >= MinPrice
  BY <1>0, <1>4, <1>6, <1>7
<1> QED
  BY <1>2, <1>6, <1>8, <1>9, <1>10 DEF h, n

\* The brief that is quoted is one on sale, and has a cost.
LEMMA BriefOnSale ==
  ASSUME NEW asked \in [Dials -> Nat], NEW scale \in Nat
  PROVE  /\ ScopeFor(asked) \in Scopes /\ ScopeFor(asked) \in [Dials -> Nat]
         /\ ScopeFor(ScopeFor(asked)) = ScopeFor(asked)
         /\ CalibratedCost(ScopeFor(asked), scale) \in Nat
<1>1. /\ ScopeFor(asked) \in Scopes /\ ScopeFor(asked) \in [Dials -> Nat]
      /\ ScopeFor(ScopeFor(asked)) = ScopeFor(asked)
  BY ScopeForWidens DEF Scopes
<1>2. CalibratedCost(ScopeFor(asked), scale) \in Nat
  BY <1>1, BriefCosts
<1> QED
  BY <1>1, <1>2

\* An order that is turned away is offered something, and the offers are sound.
LEMMA OffersWork ==
  ASSUME NEW budget \in Nat, NEW asked \in [Dials -> Nat], NEW scale \in Nat
  PROVE  NegotiationHolds(budget, asked, scale)
<1> DEFINE s == ScopeFor(asked)
           c == CalibratedCost(s, scale)
           offers == CounterOffers(budget, asked, scale)
           narrower == ScopedAlternative(budget, asked, scale)
           prices == {p \in MinViablePrices(c) : p > budget /\ QuoteOf(p, asked, scale).accept}
           Good(o) == /\ QuoteOf(o.price, o.scope, scale).accept
                      /\ KeepsFloor(o.price, CalibratedCost(o.scope, scale))
                      /\ o.kind = "price" =>
                           \A p \in 1..(o.price \div Dollar) :
                             QuoteOf(p * Dollar, asked, scale).accept =>
                               2 * (1000 - MarginFloor) * (o.price - Dollar - p * Dollar) < p * Dollar
<1>0. /\ s \in Scopes /\ s \in [Dials -> Nat] /\ ScopeFor(s) = s /\ c \in Nat
      /\ MarginFloor \in Nat /\ MinPrice \in Nat /\ Dollar \in Nat /\ Dollar # 0
  BY BriefOnSale, PricingAssumption
<1>1. \A p \in Nat : QuoteOf(p, asked, scale).accept <=> Verdict(p, c) = "accepted"
  BY QuoteFields
<1>2. \A t \in Scopes, p \in Nat : QuoteOf(p, t, scale).accept =>
        Verdict(p, CalibratedCost(t, scale)) = "accepted" /\ CalibratedCost(t, scale) \in Nat
  <2> TAKE t \in Scopes, p \in Nat
  <2>1. t \in [Dials -> Nat] /\ ScopeFor(t) = t
    BY ScopeForWidens DEF Scopes
  <2> QED
    BY <2>1, QuoteFields
<1>3. SUFFICES ASSUME ~ QuoteOf(budget, asked, scale).accept
               PROVE  (MarginFloor < 1000 => offers # {}) /\ \A o \in offers : Good(o)
  BY DEF NegotiationHolds
<1>4. narrower \subseteq Scopes /\ \A t \in narrower : QuoteOf(budget, t, scale).accept
  BY <1>0, NarrowedOnSale DEF ScopedAlternative
<1>5. offers = IF narrower # {} THEN {[kind |-> "scope", price |-> budget, scope |-> t] : t \in narrower}
               ELSE {[kind |-> "price", price |-> p, scope |-> s] : p \in prices}
  BY DEF CounterOffers
<1> HIDE DEF narrower, prices, offers, s, c
<1>6. ASSUME NEW t \in narrower PROVE Good([kind |-> "scope", price |-> budget, scope |-> t])
  <2>1. QuoteOf(budget, t, scale).accept /\ t \in Scopes
    BY <1>4
  <2>2. KeepsFloor(budget, CalibratedCost(t, scale))
    BY <1>2, <2>1, AcceptedKeepsFloor
  <2> QED
    BY <2>1, <2>2
<1>7. ASSUME MarginFloor < 1000 PROVE \E p \in prices : TRUE
  <2>1. PICK p \in Nat :
          MinViablePrices(c) = {p} /\ p >= MinPrice /\ (1000 - MarginFloor) * p >= 1000 * c
    BY <1>0, <1>7, MinViable
  <2>2. Verdict(p, c) = "accepted"
    BY <1>0, <1>7, <2>1, FloorAccepts
  <2>3. ASSUME budget >= p PROVE FALSE
    <3>1. budget >= MinPrice
      BY <1>0, <2>1, <2>3
    <3>2. (1000 - MarginFloor) * budget >= (1000 - MarginFloor) * p
      <4> DEFINE h == 1000 - MarginFloor
      <4>1. h \in Nat
        BY <1>0, <1>7
      <4> HIDE DEF h
      <4>2. h * budget >= h * p
        BY <2>1, <2>3, <4>1
      <4> QED
        BY <4>2 DEF h
    <3>3. (1000 - MarginFloor) * budget >= 1000 * c
      BY <1>0, <2>1, <3>2
    <3>4. Verdict(budget, c) = "accepted"
      BY <1>0, <1>7, <3>1, <3>3, FloorAccepts
    <3> QED
      BY <1>1, <1>3, <3>4
  <2>4. p > budget
    BY <2>1, <2>3
  <2>5. QuoteOf(p, asked, scale).accept
    BY <1>1, <2>1, <2>2
  <2> QED
    BY <2>1, <2>4, <2>5 DEF prices
<1>8. ASSUME NEW p \in prices PROVE Good([kind |-> "price", price |-> p, scope |-> s])
  <2>1. MarginFloor < 1000 /\ p \in MinViablePrices(c) /\ QuoteOf(p, asked, scale).accept
    BY <1>0 DEF prices, MinViablePrices
  <2>2. PICK v \in Nat :
          /\ MinViablePrices(c) = {v}
          /\ v - Dollar < MinPrice \/ (1000 - MarginFloor) * (v - Dollar) < 1000 * c
    BY <1>0, <2>1, MinViable
  <2>3. p = v /\ p \in Nat
    BY <2>1, <2>2
  <2>4. QuoteOf(p, s, scale).accept
    <3>1. QuoteOf(p, s, scale) = QuoteOf(p, asked, scale)
      BY <1>0 DEF QuoteOf, s
    <3> QED
      BY <2>1, <3>1
  <2>5. KeepsFloor(p, CalibratedCost(s, scale))
    BY <1>0, <1>2, <2>3, <2>4, AcceptedKeepsFloor
  <2>6. ASSUME NEW k \in 1..(p \div Dollar), QuoteOf(k * Dollar, asked, scale).accept
        PROVE  2 * (1000 - MarginFloor) * (p - Dollar - k * Dollar) < k * Dollar
    <3> DEFINE y == k * Dollar  e == p - Dollar  h == 1000 - MarginFloor
    <3>1. y \in Nat /\ h \in Nat /\ h > 0 /\ e \in Int
      <4>1. p \div Dollar \in Int
        BY <1>0, <2>3, Division
      <4>2. k \in Nat
        BY <4>1
      <4> QED
        BY <1>0, <2>1, <2>3, <4>2
    <3>2. y >= MinPrice /\ y > 0 /\ 2000 * c <= 2 * (h * y) + y
      <4>1. Verdict(y, c) = "accepted"
        BY <1>1, <2>6, <3>1
      <4> HIDE DEF y
      <4> QED
        BY <1>0, <3>1, <4>1, AcceptedKeepsFloor
    <3>3. e < MinPrice \/ h * e < 1000 * c
      BY <2>2, <2>3
    <3> HIDE DEF y, e, h
    <3>4. 2 * h * (e - y) = 2 * (h * e) - 2 * (h * y) /\ h * e \in Int /\ h * y \in Int
      BY <3>1
    <3>5. ASSUME e < MinPrice PROVE 2 * h * (e - y) < y
      <4>1. e - y < 0 /\ e - y \in Int
        BY <1>0, <3>1, <3>2, <3>5
      <4>2. h * (e - y) <= 0 /\ h * (e - y) \in Int
        BY <3>1, <4>1
      <4>3. 2 * h * (e - y) = 2 * (h * (e - y))
        BY <3>1, <4>1
      <4> QED
        BY <3>1, <3>2, <4>2, <4>3
    <3>6. ASSUME h * e < 1000 * c PROVE 2 * h * (e - y) < y
      BY <1>0, <3>1, <3>2, <3>4, <3>6
    <3>7. 2 * h * (e - y) < y
      BY <3>3, <3>5, <3>6
    <3> QED
      BY <3>7 DEF y, e, h
  <2> QED
    BY <2>4, <2>5, <2>6
<1> HIDE DEF Good
<1>9. \A o \in offers : Good(o)
  BY <1>5, <1>6, <1>8
<1>10. MarginFloor < 1000 => offers # {}
  BY <1>5, <1>7
<1> QED
  BY <1>9, <1>10

-----------------------------------------------------------------------------
(* Cents of a ledger that grows.                                           *)

\* One more entry.
LEMMA CentsInsert ==
  ASSUME NEW S, Amounts(S), NEW e, e.cents \in Nat, e \notin S
  PROVE  Amounts(S \cup {e}) /\ Cents(S \cup {e}) = Cents(S) + e.cents
<1> DEFINE L == S \cup {e}
<1>1. Amounts(L) /\ S \in SUBSET L /\ L \in SUBSET L /\ e \in L /\ L \ {e} = S
  BY FS_AddElement DEF Amounts
<1> HIDE DEF L
<1>2. Cents(L) = SumFunctionOnSet(CentsIn(L), L) /\ Cents(S) = SumFunctionOnSet(CentsIn(L), S)
  BY <1>1, CentsIs
<1>3. \A x \in L : CentsIn(L)[x] \in Int /\ CentsIn(L)[x] = x.cents
  BY <1>1 DEF CentsIn, Amounts
<1>4. SumFunctionOnSet(CentsIn(L), L) = CentsIn(L)[e] + SumFunctionOnSet(CentsIn(L), L \ {e})
  BY <1>1, <1>3, SumTakeOut DEF Amounts
<1>5. Cents(S) \in Nat /\ CentsIn(L)[e] = e.cents
  BY <1>1, <1>3, CentsIs
<1>6. Cents(L) = e.cents + Cents(S)
  BY <1>1, <1>2, <1>4, <1>5
<1>7. Cents(L) = Cents(S) + e.cents
  BY <1>5, <1>6
<1> QED
  BY <1>1, <1>7 DEF L

\* No entries; fewer entries; the entries of two sets.
LEMMA CentsCompare ==
  /\ Cents({}) = 0
  /\ \A L : Amounts(L) => \A S, T \in SUBSET L :
       /\ S \subseteq T => Cents(S) <= Cents(T)
       /\ Cents(S \cup T) <= Cents(S) + Cents(T)
<1>1. Cents({}) = 0
  BY SumEmpty DEF Cents
<1>2. ASSUME NEW L, Amounts(L), NEW S \in SUBSET L, NEW T \in SUBSET L
      PROVE  /\ S \subseteq T => Cents(S) <= Cents(T)
             /\ Cents(S \cup T) <= Cents(S) + Cents(T)
  <2>1. S \cup T \in SUBSET L
    OBVIOUS
  <2>2. /\ Cents(S) = SumFunctionOnSet(CentsIn(L), S) /\ Cents(T) = SumFunctionOnSet(CentsIn(L), T)
        /\ Cents(S \cup T) = SumFunctionOnSet(CentsIn(L), S \cup T)
        /\ IsFiniteSet(S) /\ IsFiniteSet(T)
    BY <1>2, <2>1, CentsIs
  <2>3. \A x \in S \cup T : CentsIn(L)[x] \in Nat
    BY <1>2 DEF CentsIn, Amounts
  <2>4. S \subseteq T => SumFunctionOnSet(CentsIn(L), S) <= SumFunctionOnSet(CentsIn(L), T)
    BY <2>2, <2>3, SumSubset
  <2>5. SumFunctionOnSet(CentsIn(L), S \cup T)
          <= SumFunctionOnSet(CentsIn(L), S) + SumFunctionOnSet(CentsIn(L), T)
    BY <2>2, <2>3, SumUnion
  <2> QED
    BY <2>2, <2>4, <2>5
<1> QED
  BY <1>1, <1>2

-----------------------------------------------------------------------------
(* The inductive invariant.                                                *)

Entry == [kind : {"capital", "revenue", "expense"}, job : Job \cup {House},
          vendor : {"none", Refund} \cup Vendor, cents : Nat, ts : Nat, nth : Nat]
Row == [job : Job, est : Nat, actual : Nat, refunded : BOOLEAN]

\* What the ledger has of a job: its sale, what was paid for it, its money back.
Expenses(L) == {e \in L : e.kind = "expense"}
Sales(j, L) == {e \in L : e.kind = "revenue" /\ e.job = j}
CostsOf(j, L) == {e \in L : e.kind = "expense" /\ e.vendor # Refund /\ e.job = j}
ToolsOf(j, L) == {e \in CostsOf(j, L) : e.vendor = "tools"}
TokensOf(j, L) == {e \in CostsOf(j, L) : e.vendor = "nvidia-nemotron"}
Refunds(j, L) == {e \in L : e.kind = "expense" /\ e.vendor = Refund /\ e.job = j}
Distinct(m) == \A i, k \in 1..Len(m) : m[i].job = m[k].job => i = k

\* The entries of a job and a vendor are numbered as they come.
Alike(j, v, L) == {e \in L : e.job = j /\ e.vendor = v}
Numbered(L) == \A e \in L : e.nth < Cardinality(Alike(e.job, e.vendor, L))

\* What has been spent when an order is let through the gate; DayOf is the part of
\* it that the budget of the day counts.
Early(L, t) == {e \in Expenses(L) : e.ts < t}
DayOf(L, t) == {e \in Expenses(L) : e.vendor # Refund /\ e.ts < t /\ e.ts >= t - DayLength}

\* The part of a brief's cost that one vendor is paid.
Part(s, v) ==
    LET lines == Breakdown(ScopeFor(s.order.asked))
    IN  IF v = "tools" THEN Total(lines) - lines["tokens"] ELSE lines["tokens"]

\* An order whose quote was accepted, and what that says of it.
Agreed(s) == s \in Sheets /\ s.est # Never /\ Verdict(s.order.budget, s.est) = "accepted"
GoodQuote(s) ==
    /\ KeepsFloor(s.order.budget, s.raw) /\ s.est >= s.raw
    /\ s.raw = Total(Breakdown(ScopeFor(s.order.asked)))

\* Each vendor is paid its part, but for the cents that requests are rounded up to.
Thrifty(s, L, j) ==
    /\ \A e \in CostsOf(j, L) : e.vendor \in Vendor
    /\ Cents(ToolsOf(j, L)) <= Part(s, "tools")
    /\ Cents(TokensOf(j, L)) <= Part(s, "nvidia-nemotron") + Cardinality(TokensOf(j, L))

\* The estimate of an order let through the gate fits what was left of the day's
\* budget then, and with its price what was left above the reserve.
Funded(s, L, j) ==
    /\ Agreed(s)
    /\ Cents(DayOf(L, s.cleared)) + s.est <= DayBudget
    /\ Cents(L \ Expenses(L)) - Cents(Early(L, s.cleared))
         + (IF Sales(j, L) = {} THEN s.order.budget ELSE 0) - s.est >= CashReserve

\* A job's sheet, its entries and its checkout row (on).
SheetInv(s, L, j, on) ==
    /\ on \/ s.status \in {"awaiting_payment", "paid", "completed"} => Agreed(s)
    /\ Agreed(s) => GoodQuote(s)
    /\ Sales(j, L) # {} \/ s.status = "expired" => on
    /\ s.status \in {"paid", "completed"} \/ CostsOf(j, L) # {} => Sales(j, L) # {}
    /\ \A e \in Sales(j, L) : e.cents >= s.order.budget
    /\ s \in Sheets => Thrifty(s, L, j)
    /\ s \in Sheets /\ s.cleared \in Nat => Funded(s, L, j)

ShopShapes ==
    /\ shopClock \in 0..ShopTime /\ factor \in 1000..FactorCeiling
    /\ shelf \in [Job -> Sheets \cup {Empty}] /\ IsFiniteSet(Known)
    /\ \A j \in Job : shelf[j] \in Sheets /\ shelf[j].cleared \in Nat => shelf[j].cleared <= shopClock
    /\ ledger \in SUBSET Entry /\ IsFiniteSet(ledger) /\ Numbered(ledger)
    /\ \A e \in ledger : e.ts <= shopClock
    /\ intents \in [Job -> {Never} \cup 0..shopClock]
    /\ \A j \in Job : intents[j] # Never => j \in listed
    /\ delivered \in [Job -> {Never} \cup 0..shopClock]
    /\ listed \in SUBSET Job /\ published \in SUBSET Job
    /\ metrics \in Seq(Row) /\ Distinct(metrics)

ShopInv == ShopShapes /\ \A j \in Job : SheetInv(shelf[j], ledger, j, j \in listed)

-----------------------------------------------------------------------------
(* Sheets and entries.                                                     *)

\* What a sheet holds.
LEMMA SheetFields ==
  ASSUME NEW s \in Sheets
  PROVE  /\ s.order \in Order /\ s.order.budget \in Nat /\ s.order.asked \in [Dials -> Nat]
         /\ s.est \in Nat \cup {Never} /\ s.raw \in Nat /\ s.cleared \in Nat \cup {Never, Turned}
         /\ s.updated \in Nat
         /\ s.status \in {"pending_quote", "awaiting_payment", "paid", "completed", "failed",
                          "expired", "cancelled"}
         /\ s # Empty
<1>1. /\ s.order \in Order /\ s.est \in Nat \cup {Never} /\ s.raw \in Nat
      /\ s.cleared \in Nat \cup {Never, Turned} /\ s.updated \in Nat
  BY DEF Sheets
<1>2. s.status \in {"pending_quote", "awaiting_payment", "paid", "completed", "failed",
                    "expired", "cancelled"}
  BY DEF Sheets
<1>3. s # Empty
  BY <1>2 DEF Empty
<1> QED
  BY <1>1, <1>2, <1>3, StorefrontAssumption

\* A row that has a status has a sheet.
LEMMA OnShelf ==
  ASSUME ShopShapes, NEW j \in Job, shelf[j].status # "none"
  PROVE  shelf[j] \in Sheets
<1>1. shelf[j] \in Sheets \cup {Empty}
  BY DEF ShopShapes
<1> QED
  BY <1>1 DEF Empty

\* A brief's parts make up its static cost.
LEMMA PartsMakeUp ==
  ASSUME NEW s \in Sheets
  PROVE  /\ \A v \in Vendor : Part(s, v) \in Nat
         /\ Total(Breakdown(ScopeFor(s.order.asked))) = Part(s, "tools") + Part(s, "nvidia-nemotron")
<1> DEFINE b == Breakdown(ScopeFor(s.order.asked))
<1>1. b \in [Lines -> Nat]
  <2>1. ScopeFor(s.order.asked) \in [Dials -> Nat]
    BY SheetFields, ScopeForWidens DEF Scopes
  <2> QED
    BY <2>1, BriefCosts
<1>2. Part(s, "tools") = Total(b) - b["tokens"] /\ Part(s, "nvidia-nemotron") = b["tokens"]
  BY DEF Part
<1> HIDE DEF b
<1>3. Total(b) \in Nat /\ b["tokens"] \in Nat /\ Total(b) - b["tokens"] \in Nat
  BY <1>1, TotalType
<1>4. /\ Part(s, "tools") \in Nat /\ Part(s, "nvidia-nemotron") \in Nat
      /\ Total(b) = Part(s, "tools") + Part(s, "nvidia-nemotron")
  BY <1>2, <1>3
<1> QED
  BY <1>4 DEF Vendor, b

\* The parts of the ledger have cents that can be added up.
LEMMA LedgerParts ==
  ASSUME NEW L \in SUBSET Entry, IsFiniteSet(L)
  PROVE  /\ Amounts(L)
         /\ \A S \in SUBSET L : Cents(S) \in Nat /\ Amounts(S) /\ Cardinality(S) \in Nat
         /\ Expenses(L) \in SUBSET L /\ L \ Expenses(L) \in SUBSET L
         /\ \A t : Early(L, t) \in SUBSET L /\ DayOf(L, t) \in SUBSET L
         /\ \A j : /\ CostsOf(j, L) \in SUBSET L /\ Sales(j, L) \in SUBSET L
                   /\ ToolsOf(j, L) \in SUBSET L /\ TokensOf(j, L) \in SUBSET L
<1>1. Amounts(L)
  BY DEF Amounts, Entry
<1>2. \A S \in SUBSET L : Cents(S) \in Nat /\ Amounts(S)
  BY <1>1, CentsIs DEF Amounts
<1>3. \A S \in SUBSET L : Cardinality(S) \in Nat
  BY FS_Subset, FS_CardinalityType
<1> QED
  BY <1>1, <1>2, <1>3 DEF Expenses, Early, DayOf, CostsOf, Sales, ToolsOf, TokensOf

\* A numbered entry is a new one, and numbered it leaves the ledger.
LEMMA EntryIsNew ==
  ASSUME NEW L \in SUBSET Entry, IsFiniteSet(L), Numbered(L), NEW e \in Entry,
         e.nth = Cardinality(Alike(e.job, e.vendor, L))
  PROVE  e \notin L /\ Numbered(L \cup {e})
<1> DEFINE M == L \cup {e}
<1>1. \A j, v : /\ Alike(j, v, L) \in SUBSET L /\ IsFiniteSet(Alike(j, v, L))
                /\ Cardinality(Alike(j, v, L)) \in Nat
  <2>1. \A j, v : Alike(j, v, L) \in SUBSET L
    BY DEF Alike
  <2> QED
    BY <2>1, FS_Subset, FS_CardinalityType
<1>2. e \notin L
  <2>1. e \in L => e.nth < e.nth
    BY DEF Numbered
  <2>2. e.nth \in Nat
    BY DEF Entry
  <2> QED
    BY <2>1, <2>2
<1>3. Alike(e.job, e.vendor, M) = Alike(e.job, e.vendor, L) \cup {e} /\ e \notin Alike(e.job, e.vendor, L)
  BY <1>2 DEF Alike
<1>4. Cardinality(Alike(e.job, e.vendor, M)) = Cardinality(Alike(e.job, e.vendor, L)) + 1
  <2> DEFINE A == Alike(e.job, e.vendor, L)
  <2>1. IsFiniteSet(A) /\ e \notin A
    BY <1>1, <1>3
  <2> HIDE DEF A
  <2>2. Cardinality(A \cup {e}) = Cardinality(A) + 1
    BY <2>1, FS_AddElement
  <2> QED
    BY <1>3, <2>2 DEF A
<1>5. ASSUME NEW d \in M PROVE d.nth < Cardinality(Alike(d.job, d.vendor, M))
  <2>0. d.nth \in Nat
    BY DEF Entry
  <2>1. CASE d = e
    <3> DEFINE n == Cardinality(Alike(e.job, e.vendor, L))
    <3>1. n \in Nat /\ e.nth = n /\ Cardinality(Alike(e.job, e.vendor, M)) = n + 1
      BY <1>1, <1>4
    <3> HIDE DEF n
    <3>2. e.nth < Cardinality(Alike(e.job, e.vendor, M))
      BY <3>1
    <3> QED
      BY <2>1, <3>2
  <2>2. CASE d # e /\ d.job = e.job /\ d.vendor = e.vendor
    <3> DEFINE n == Cardinality(Alike(e.job, e.vendor, L))
    <3>1. n \in Nat /\ d.nth < n /\ Cardinality(Alike(d.job, d.vendor, M)) = n + 1
      BY <1>1, <1>4, <2>2 DEF Numbered
    <3> HIDE DEF n
    <3> QED
      BY <2>0, <3>1
  <2>3. CASE d # e /\ (d.job # e.job \/ d.vendor # e.vendor)
    <3>1. Alike(d.job, d.vendor, M) = Alike(d.job, d.vendor, L) /\ d \in L
      BY <2>3 DEF Alike
    <3> QED
      BY <3>1 DEF Numbered
  <2> QED
    BY <2>1, <2>2, <2>3
<1>6. Numbered(M)
  BY <1>5 DEF Numbered
<1> QED
  BY <1>2, <1>6

\* What a new entry of this moment leaves as it is, and what it adds to.
LEMMA EntryAdded ==
  ASSUME NEW L \in SUBSET Entry, IsFiniteSet(L), NEW e \in Entry, e \notin L
  PROVE  /\ L \cup {e} \in SUBSET Entry /\ IsFiniteSet(L \cup {e})
         /\ \A t \in Nat : t <= e.ts => Early(L \cup {e}, t) = Early(L, t) /\ DayOf(L \cup {e}, t) = DayOf(L, t)
         /\ Cents(L \ Expenses(L)) <= Cents((L \cup {e}) \ Expenses(L \cup {e}))
         /\ e.kind # "expense" =>
              Cents((L \cup {e}) \ Expenses(L \cup {e})) = Cents(L \ Expenses(L)) + e.cents
         /\ \A k : k # e.job \/ e.kind # "revenue" => Sales(k, L \cup {e}) = Sales(k, L)
         /\ e.kind = "revenue" => Sales(e.job, L \cup {e}) = Sales(e.job, L) \cup {e}
         /\ \A k : k # e.job \/ e.kind # "expense" \/ e.vendor = Refund =>
                     CostsOf(k, L \cup {e}) = CostsOf(k, L)
         /\ e.kind = "expense" /\ e.vendor # Refund => CostsOf(e.job, L \cup {e}) = CostsOf(e.job, L) \cup {e}
<1> DEFINE M == L \cup {e}
<1>1. M \in SUBSET Entry /\ IsFiniteSet(M) /\ L \in SUBSET M /\ e.ts \in Nat /\ e.cents \in Nat
  BY FS_AddElement DEF Entry
<1>2. \A t \in Nat : t <= e.ts => Early(M, t) = Early(L, t) /\ DayOf(M, t) = DayOf(L, t)
  BY <1>1 DEF Early, DayOf, Expenses
<1>3. L \ Expenses(L) \subseteq M \ Expenses(M) /\ M \ Expenses(M) \in SUBSET M
  BY DEF Expenses
<1>4. Cents(L \ Expenses(L)) <= Cents(M \ Expenses(M))
  <2>1. L \ Expenses(L) \in SUBSET M /\ Amounts(M)
    BY <1>1, LedgerParts
  <2> HIDE DEF M
  <2> QED
    BY <1>3, <2>1, CentsCompare
<1>5. ASSUME e.kind # "expense"
      PROVE  Cents(M \ Expenses(M)) = Cents(L \ Expenses(L)) + e.cents
  <2>1. M \ Expenses(M) = (L \ Expenses(L)) \cup {e} /\ e \notin L \ Expenses(L)
    BY <1>5 DEF Expenses
  <2>2. Amounts(L \ Expenses(L))
    BY LedgerParts
  <2> HIDE DEF M
  <2> QED
    BY <1>1, <2>1, <2>2, CentsInsert
<1>6. \A k : k # e.job \/ e.kind # "revenue" => Sales(k, M) = Sales(k, L)
  BY DEF Sales
<1>7. \A k : k # e.job \/ e.kind # "expense" \/ e.vendor = Refund => CostsOf(k, M) = CostsOf(k, L)
  BY DEF CostsOf
<1>8. e.kind = "expense" /\ e.vendor # Refund => CostsOf(e.job, M) = CostsOf(e.job, L) \cup {e}
  BY DEF CostsOf
<1>9. e.kind = "revenue" => Sales(e.job, M) = Sales(e.job, L) \cup {e}
  BY DEF Sales
<1> QED
  BY <1>1, <1>2, <1>4, <1>5, <1>6, <1>7, <1>8, <1>9

\* An order that was funded stays so: what is taken later was not counted, its own
\* sale brings its price at least.
LEMMA FundedKeep ==
  ASSUME NEW L \in SUBSET Entry, IsFiniteSet(L), NEW e \in Entry, e \notin L, NEW j,
         NEW s \in Sheets, s.cleared \in Nat, s.cleared <= e.ts, Funded(s, L, j),
         e.kind = "revenue" /\ e.job = j => e.cents >= s.order.budget
  PROVE  Funded(s, L \cup {e}, j)
<1> DEFINE M == L \cup {e}
           income == Cents(L \ Expenses(L))  more == Cents(M \ Expenses(M))
           early == Cents(Early(L, s.cleared))  day == Cents(DayOf(L, s.cleared))
           price == s.order.budget  est == s.est
           due == IF Sales(j, L) = {} THEN price ELSE 0
           owed == IF Sales(j, M) = {} THEN price ELSE 0
<1>1. /\ Agreed(s) /\ day + est <= DayBudget /\ income - early + due - est >= CashReserve
  BY DEF Funded
<1>2. /\ Early(M, s.cleared) = Early(L, s.cleared) /\ DayOf(M, s.cleared) = DayOf(L, s.cleared)
      /\ income <= more /\ M \in SUBSET Entry /\ IsFiniteSet(M)
  BY EntryAdded
<1>3. income \in Nat /\ early \in Nat /\ day \in Nat
  BY LedgerParts
<1>4. more \in Nat
  <2> HIDE DEF M
  <2> QED
    BY <1>2, LedgerParts
<1>5. price \in Nat /\ est \in Nat /\ CashReserve \in Nat /\ due \in Nat /\ owed \in Nat
  BY <1>1, SheetFields, StorefrontAssumption DEF Agreed
<1>6. more + owed >= income + due
  <2>1. CASE e.kind = "revenue" /\ e.job = j
    <3>1. more = income + e.cents /\ e.cents >= price
      BY <2>1, EntryAdded
    <3>2. due <= price /\ e.cents \in Nat
      BY <1>5 DEF Entry
    <3> HIDE DEF more, income, due, owed, price
    <3> QED
      BY <1>3, <1>5, <3>1, <3>2
  <2>2. CASE ~(e.kind = "revenue" /\ e.job = j)
    <3>1. Sales(j, M) = Sales(j, L)
      BY <2>2, EntryAdded
    <3>2. owed = due
      BY <3>1
    <3> HIDE DEF more, income, due, owed, price
    <3> QED
      BY <1>2, <1>3, <1>4, <1>5, <3>2
  <2> QED
    BY <2>1, <2>2
<1> HIDE DEF M, more, income, due, owed, price, est, early, day
<1>7. more - early + owed - est >= CashReserve
  BY <1>1, <1>3, <1>4, <1>5, <1>6
<1>8. Funded(s, M, j)
  BY <1>1, <1>2, <1>7 DEF Funded, more, owed, est, early, day, price
<1> QED
  BY <1>8 DEF M

\* The sheets of other jobs do not mind an entry of this moment.
LEMMA OthersKeep ==
  ASSUME NEW L \in SUBSET Entry, IsFiniteSet(L), NEW e \in Entry, e \notin L,
         NEW s \in Sheets \cup {Empty}, NEW j, NEW on, SheetInv(s, L, j, on), j # e.job,
         s \in Sheets /\ s.cleared \in Nat => s.cleared <= e.ts
  PROVE  SheetInv(s, L \cup {e}, j, on)
<1> DEFINE M == L \cup {e}
<1>1. Sales(j, M) = Sales(j, L) /\ CostsOf(j, M) = CostsOf(j, L)
  BY EntryAdded
<1>2. ToolsOf(j, M) = ToolsOf(j, L) /\ TokensOf(j, M) = TokensOf(j, L)
  BY <1>1 DEF ToolsOf, TokensOf
<1>3. ASSUME s \in Sheets, s.cleared \in Nat PROVE Funded(s, M, j)
  BY <1>3, FundedKeep DEF SheetInv
<1> HIDE DEF M
<1>4. SheetInv(s, M, j, on)
  BY <1>1, <1>2, <1>3 DEF SheetInv, Thrifty
<1> QED
  BY <1>4 DEF M

-----------------------------------------------------------------------------
(* The steps.                                                              *)

\* Taking a row out of a sequence of rows about different jobs.
LEMMA RowRemoved ==
  ASSUME NEW m \in Seq(Row), Distinct(m), NEW i \in 1..Len(m)
  PROVE  LET n == RemoveAt(m, i)
         IN  n \in Seq(Row) /\ Distinct(n) /\ \A k \in 1..Len(n) : n[k].job # m[i].job
<1> DEFINE a == SubSeq(m, 1, i - 1)
           b == SubSeq(m, i + 1, Len(m))
           n == RemoveAt(m, i)
           At(k) == IF k < i THEN k ELSE k + 1
<1>1. Len(m) \in Nat /\ i \in Nat /\ i >= 1 /\ i <= Len(m)
  OBVIOUS
<1>2. a \in Seq(Row) /\ Len(a) = i - 1 /\ \A k \in 1..(i - 1) : a[k] = m[k]
  BY <1>1
<1>3. b \in Seq(Row) /\ Len(b) = Len(m) - i /\ \A k \in 1..(Len(m) - i) : b[k] = m[i + k]
  BY <1>1
<1>4. n = a \o b
  BY DEF RemoveAt
<1> HIDE DEF a, b, n
<1>5. n \in Seq(Row) /\ Len(n) = Len(m) - 1
  <2>1. a \o b \in Seq(Row) /\ Len(a \o b) = Len(a) + Len(b)
    <3>1. \A x, y \in Seq(Row) : x \o y \in Seq(Row)
      OBVIOUS
    <3>2. \A x, y \in Seq(Row) : Len(x \o y) = Len(x) + Len(y)
      OBVIOUS
    <3> QED
      BY <1>2, <1>3, <3>1, <3>2
  <2>2. (i - 1) + (Len(m) - i) = Len(m) - 1
    BY <1>1
  <2> QED
    BY <1>2, <1>3, <1>4, <2>1, <2>2
<1>6. ASSUME NEW k \in 1..Len(n)
      PROVE  At(k) \in 1..Len(m) /\ At(k) # i /\ n[k] = m[At(k)]
  <2>1. CASE k < i
    <3>1. n[k] = a[k]
      BY <1>1, <1>2, <1>3, <1>4, <1>5, <2>1
    <3> QED
      BY <1>1, <1>2, <1>5, <2>1, <3>1
  <2>2. CASE ~(k < i)
    <3>1. n[k] = b[k - (i - 1)] /\ k - (i - 1) \in 1..(Len(m) - i)
      BY <1>1, <1>2, <1>3, <1>4, <1>5, <2>2
    <3>2. b[k - (i - 1)] = m[i + (k - (i - 1))] /\ i + (k - (i - 1)) = k + 1
      BY <1>1, <1>3, <3>1
    <3> QED
      BY <1>1, <1>5, <2>2, <3>1, <3>2
  <2> QED
    BY <2>1, <2>2
<1>7. \A k, l \in 1..Len(n) : At(k) = At(l) => k = l
  BY <1>1, <1>5
<1> HIDE DEF At
<1>8. Distinct(n)
  BY <1>6, <1>7 DEF Distinct
<1>9. \A k \in 1..Len(n) : n[k].job # m[i].job
  BY <1>6 DEF Distinct
<1> QED
  BY <1>5, <1>8, <1>9 DEF n

\* Putting a row of another job at the end.
LEMMA RowAppended ==
  ASSUME NEW m \in Seq(Row), Distinct(m), NEW r \in Row, \A k \in 1..Len(m) : m[k].job # r.job
  PROVE  Append(m, r) \in Seq(Row) /\ Distinct(Append(m, r))
<1> DEFINE n == Append(m, r)
<1>1. n \in Seq(Row) /\ Len(n) = Len(m) + 1 /\ n[Len(m) + 1] = r /\ \A k \in 1..Len(m) : n[k] = m[k]
  OBVIOUS
<1>2. \A k \in 1..Len(n) : k = Len(m) + 1 \/ k \in 1..Len(m)
  BY <1>1
<1> HIDE DEF n
<1>3. Distinct(n)
  BY <1>1, <1>2 DEF Distinct
<1> QED
  BY <1>1, <1>3 DEF n

\* The rows stay rows about different jobs.
LEMMA RowsKeep ==
  ASSUME metrics \in Seq(Row), Distinct(metrics), NEW r \in Row, Upsert(r)
  PROVE  metrics' \in Seq(Row) /\ Distinct(metrics')
<1>1. CASE (\A i \in 1..Len(metrics) : metrics[i].job # r.job) /\ metrics' = Append(metrics, r)
  BY <1>1, RowAppended
<1>2. ASSUME NEW i \in 1..Len(metrics), metrics[i].job = r.job,
             metrics' = Append(RemoveAt(metrics, i), r)
      PROVE  metrics' \in Seq(Row) /\ Distinct(metrics')
  <2>1. LET k == RemoveAt(metrics, i)
        IN  k \in Seq(Row) /\ Distinct(k) /\ \A x \in 1..Len(k) : k[x].job # r.job
    BY <1>2, RowRemoved
  <2> QED
    BY <1>2, <2>1, RowAppended
<1> QED
  BY <1>1, <1>2 DEF Upsert

\* A price that keeps the floor over a cost keeps it over a smaller one.
LEMMA CheaperKeepsFloor ==
  ASSUME NEW p \in Nat, NEW c \in Nat, NEW d \in Int, d <= c, KeepsFloor(p, c)
  PROVE  KeepsFloor(p, d)
<1> DEFINE x == (2 * MarginFloor - 1) * p
<1>1. x \in Int
  BY PricingAssumption
<1>2. 2000 * (p - c) >= x
  BY DEF KeepsFloor
<1> HIDE DEF x
<1>3. 2000 * (p - d) >= x
  BY <1>1, <1>2
<1> QED
  BY <1>3 DEF KeepsFloor, x

\* The shop opens with its seed capital and nothing else.
LEMMA ShopStarts == ShopInit => ShopInv
<1> SUFFICES ASSUME ShopInit PROVE ShopInv
  OBVIOUS
<1> DEFINE e == [kind |-> "capital", job |-> House, vendor |-> "none", cents |-> Seed, ts |-> 0,
                 nth |-> 0]
<1>1. ledger = {e} /\ e \in Entry /\ e.ts = 0 /\ e.kind = "capital" /\ e.nth = 0
  BY StorefrontAssumption DEF ShopInit, Entry
<1> HIDE DEF e
<1>2. Known = {} /\ listed = {}
  BY DEF ShopInit, Known
<1>3. metrics \in Seq(Row) /\ Distinct(metrics)
  BY DEF ShopInit, Distinct
<1>4. ShopShapes
  <2>1. IsFiniteSet(ledger) /\ IsFiniteSet(Known) /\ Cardinality(ledger) = 1
    BY <1>1, <1>2, FS_Singleton, FS_EmptySet
  <2>2. \A j \in Job : shelf[j] = Empty /\ shelf[j] \notin Sheets
    BY SheetFields DEF ShopInit
  <2>3. ledger \in SUBSET Entry /\ \A d \in ledger : d.ts <= 0
    BY <1>1
  <2>4. /\ shopClock \in 0..ShopTime /\ factor \in 1000..FactorCeiling
        /\ shelf \in [Job -> Sheets \cup {Empty}] /\ shopClock = 0
        /\ intents \in [Job -> {Never} \cup 0..shopClock]
        /\ delivered \in [Job -> {Never} \cup 0..shopClock]
        /\ listed \in SUBSET Job /\ published \in SUBSET Job
        /\ \A j \in Job : intents[j] = Never
    BY StorefrontAssumption DEF ShopInit, FactorCeiling
  <2>5. Numbered(ledger)
    <3>1. \A d \in ledger : Alike(d.job, d.vendor, ledger) = ledger /\ d.nth = 0
      BY <1>1 DEF Alike
    <3> QED
      BY <2>1, <3>1 DEF Numbered
  <2> QED
    BY <1>3, <2>1, <2>2, <2>3, <2>4, <2>5 DEF ShopShapes
<1>5. ASSUME NEW j \in Job PROVE SheetInv(shelf[j], ledger, j, j \in listed)
  <2>1. shelf[j] = Empty /\ shelf[j].status = "none" /\ shelf[j] \notin Sheets
    BY SheetFields DEF ShopInit, Empty
  <2>2. Sales(j, ledger) = {} /\ CostsOf(j, ledger) = {}
    BY <1>1 DEF Sales, CostsOf
  <2> QED
    BY <1>2, <2>1, <2>2 DEF SheetInv, Agreed
<1> QED
  BY <1>4, <1>5 DEF ShopInv

\* A handler writes one sheet, lists its order perhaps, and books nothing.
LEMMA SheetStep ==
  ASSUME ShopInv, NEW j \in Job, NEW s \in Sheets, shelf' = [shelf EXCEPT ![j] = s],
         UNCHANGED <<shopClock, ledger, intents, published, factor>>,
         listed' \in {listed, listed \cup {j}}, SheetInv(s, ledger, j, j \in listed'),
         s.cleared \in Nat => s.cleared <= shopClock,
         delivered' \in [Job -> {Never} \cup 0..shopClock],
         metrics' \in Seq(Row), Distinct(metrics')
  PROVE  ShopInv'
<1>0. ShopShapes
  BY DEF ShopInv
<1>1. /\ shelf' \in [Job -> Sheets \cup {Empty}] /\ shelf'[j] = s
      /\ \A k \in Job \ {j} : shelf'[k] = shelf[k] /\ (k \in listed' <=> k \in listed)
  BY <1>0 DEF ShopShapes
<1>2. IsFiniteSet(Known')
  <2>1. Known' \subseteq Known \cup {j}
    BY <1>1 DEF Known
  <2>2. IsFiniteSet(Known \cup {j})
    BY <1>0, FS_AddElement DEF ShopShapes
  <2> QED
    BY <2>1, <2>2, FS_Subset
<1>3. \A k \in Job : shelf'[k] \in Sheets /\ shelf'[k].cleared \in Nat => shelf'[k].cleared <= shopClock'
  BY <1>0, <1>1 DEF ShopShapes
<1>4. listed' \in SUBSET Job /\ \A k \in Job : intents'[k] # Never => k \in listed'
  BY <1>0 DEF ShopShapes
<1>5. ShopShapes'
  BY <1>0, <1>1, <1>2, <1>3, <1>4 DEF ShopShapes
<1>6. \A k \in Job : SheetInv(shelf'[k], ledger', k, k \in listed')
  <2> SUFFICES ASSUME NEW k \in Job PROVE SheetInv(shelf'[k], ledger', k, k \in listed')
    OBVIOUS
  <2>1. CASE k = j
    BY <1>1, <2>1
  <2>2. CASE k # j
    <3>1. SheetInv(shelf[k], ledger, k, k \in listed)
      BY DEF ShopInv
    <3>2. (k \in listed') = (k \in listed) /\ shelf'[k] = shelf[k] /\ ledger' = ledger
      BY <1>1, <2>2
    <3> QED
      BY <3>1, <3>2
  <2> QED
    BY <2>1, <2>2
<1> QED
  BY <1>5, <1>6 DEF ShopInv

\* A handler books one entry of its job and writes nothing else.
LEMMA BookingStep ==
  ASSUME ShopInv, NEW j \in Job, NEW e \in Entry, e \notin ledger, ledger' = ledger \cup {e},
         e.job = j, e.ts = shopClock, Numbered(ledger \cup {e}),
         SheetInv(shelf[j], ledger \cup {e}, j, j \in listed),
         UNCHANGED <<shopClock, shelf, factor, intents, delivered, listed, published, metrics>>
  PROVE  ShopInv'
<1>0. ShopShapes
  BY DEF ShopInv
<1>1. /\ ledger' \in SUBSET Entry /\ IsFiniteSet(ledger') /\ Numbered(ledger')
      /\ \A d \in ledger' : d.ts <= shopClock'
  <2>1. IsFiniteSet(ledger')
    BY <1>0, FS_AddElement DEF ShopShapes
  <2>2. shopClock' = shopClock /\ shopClock \in Int
    BY <1>0, StorefrontAssumption DEF ShopShapes
  <2> QED
    BY <1>0, <2>1, <2>2 DEF ShopShapes
<1>2. Known' = Known
  BY DEF Known
<1>3. ShopShapes'
  BY <1>0, <1>1, <1>2 DEF ShopShapes
<1>4. ASSUME NEW k \in Job PROVE SheetInv(shelf[k], ledger \cup {e}, k, k \in listed)
  <2>1. CASE k = j
    BY <2>1
  <2>2. CASE k # j
    <3>1. SheetInv(shelf[k], ledger, k, k \in listed) /\ shelf[k] \in Sheets \cup {Empty} /\ k # e.job
      BY <1>0, <2>2 DEF ShopInv, ShopShapes
    <3>2. /\ ledger \in SUBSET Entry /\ IsFiniteSet(ledger)
          /\ shelf[k] \in Sheets /\ shelf[k].cleared \in Nat => shelf[k].cleared <= e.ts
      BY <1>0 DEF ShopShapes
    <3> QED
      BY <3>1, <3>2, OthersKeep
  <2> QED
    BY <2>1, <2>2
<1> QED
  BY <1>3, <1>4 DEF ShopInv

\* A step that moves neither sheets nor money keeps the sheets' invariant.
LEMMA RestKeeps ==
  ASSUME ShopInv, UNCHANGED <<shelf, ledger, listed>>, ShopShapes'
  PROVE  ShopInv'
  BY DEF ShopInv

\* Touch writes one sheet, and leaves the deal as it is.
LEMMA TouchIs ==
  ASSUME ShopShapes, NEW j \in Job, shelf[j] \in Sheets,
         NEW st \in {"pending_quote", "awaiting_payment", "paid", "completed", "failed",
                     "expired", "cancelled"}
  PROVE  \E s \in Sheets :
           /\ Touch(j, st) = [shelf EXCEPT ![j] = s]
           /\ s.status = st /\ s.order = shelf[j].order /\ s.est = shelf[j].est
           /\ s.raw = shelf[j].raw /\ s.cleared = shelf[j].cleared
           /\ st = "paid" => s.updated = shopClock
<1> DEFINE s == [shelf[j] EXCEPT !.status = st, !.updated = IF st = "paid" THEN shopClock ELSE 0]
<1>1. Touch(j, st) = [shelf EXCEPT ![j] = s]
  BY DEF Touch, ShopShapes
<1>2. shopClock \in Nat
  BY StorefrontAssumption DEF ShopShapes
<1>3. /\ s \in Sheets /\ s.status = st /\ s.order = shelf[j].order /\ s.est = shelf[j].est
      /\ s.raw = shelf[j].raw /\ s.cleared = shelf[j].cleared
      /\ (st = "paid" => s.updated = shopClock)
  BY <1>2 DEF Sheets
<1> HIDE DEF s
<1> QED
  BY <1>1, <1>3

\* The deal: a sheet changes, but not its order and its quote, nor when it was let
\* through; if it is listed, or goes to be paid for, its quote was accepted, and
\* if it goes to work its sale is booked.
LEMMA DealKept ==
  ASSUME NEW L, NEW j, NEW s \in Sheets, NEW A, SheetInv(s, L, j, j \in A),
         NEW t \in Sheets, t.order = s.order, t.est = s.est, t.raw = s.raw,
         t.cleared = s.cleared \/ t.cleared \notin Nat, NEW B, j \in A => j \in B,
         j \in B \/ t.status \in {"awaiting_payment", "paid", "completed"} => Agreed(s),
         t.status \in {"paid", "completed"} => Sales(j, L) # {},
         t.status = "expired" => j \in B
  PROVE  SheetInv(t, L, j, j \in B)
<1>1. /\ Agreed(t) <=> Agreed(s)
      /\ GoodQuote(t) <=> GoodQuote(s)
      /\ Thrifty(t, L, j) <=> Thrifty(s, L, j)
  BY DEF Agreed, GoodQuote, Thrifty, Part
<1>2. t.cleared \in Nat => Funded(t, L, j)
  <2> SUFFICES ASSUME t.cleared \in Nat PROVE Funded(t, L, j)
    OBVIOUS
  <2>1. t.cleared = s.cleared /\ Funded(s, L, j)
    BY DEF SheetInv
  <2> QED
    BY <1>1, <2>1 DEF Funded
<1> QED
  BY <1>1, <1>2 DEF SheetInv

\* The changes that handlers make to a row.
LEMMA ChangesOfRows ==
  ASSUME metrics \in Seq(Row), Distinct(metrics), NEW j \in Job, NEW x \in Nat, NEW y \in Nat,
         \/ Upsert(RowOf(j))
         \/ Upsert([RowOf(j) EXCEPT !.est = x])
         \/ Upsert([RowOf(j) EXCEPT !.refunded = TRUE])
         \/ Upsert([RowOf(j) EXCEPT !.est = x, !.actual = y, !.refunded = FALSE])
  PROVE  metrics' \in Seq(Row) /\ Distinct(metrics')
<1> DEFINE old == RowOf(j)
<1>1. old \in Row
  <2>1. CASE \E i \in 1..Len(metrics) : metrics[i].job = j
    <3> DEFINE i == CHOOSE i \in 1..Len(metrics) : metrics[i].job = j
    <3>1. i \in 1..Len(metrics) /\ old = metrics[i]
      BY <2>1 DEF RowOf
    <3> HIDE DEF i, old
    <3> QED
      BY <3>1
  <2>2. CASE ~ \E i \in 1..Len(metrics) : metrics[i].job = j
    BY <2>2 DEF RowOf, Row
  <2> QED
    BY <2>1, <2>2
<1>2. \/ Upsert(old)
      \/ Upsert([old EXCEPT !.est = x])
      \/ Upsert([old EXCEPT !.refunded = TRUE])
      \/ Upsert([old EXCEPT !.est = x, !.actual = y, !.refunded = FALSE])
  OBVIOUS
<1> HIDE DEF old
<1>3. /\ [old EXCEPT !.est = x] \in Row /\ [old EXCEPT !.refunded = TRUE] \in Row
      /\ [old EXCEPT !.est = x, !.actual = y, !.refunded = FALSE] \in Row
  BY <1>1 DEF Row
<1> QED
  BY <1>1, <1>2, <1>3, RowsKeep

\* The screens turn a sheet away or let it through, and leave its deal as it is.
LEMMA ScreenedSheet ==
  ASSUME ShopShapes, NEW j \in Job, NEW s \in Sheets, Screened(j, s)
  PROVE  /\ metrics' \in Seq(Row) /\ Distinct(metrics')
         /\ \E t \in Sheets :
              /\ shelf' = [shelf EXCEPT ![j] = t] /\ t.status \in {"pending_quote", "failed"}
              /\ t.order = s.order /\ t.est = s.est /\ t.raw = s.raw /\ t.cleared = s.cleared
<1>1. PICK fate \in {"none", "intake", "rejected"} :
         /\ shelf' = [shelf EXCEPT ![j] =
              [s EXCEPT !.status = IF fate = "none" THEN "pending_quote" ELSE "failed",
                        !.why = fate, !.updated = 0]]
         /\ IF fate = "intake" THEN Upsert(RowOf(j)) ELSE UNCHANGED metrics
  BY DEF Screened
<1> DEFINE t == [s EXCEPT !.status = IF fate = "none" THEN "pending_quote" ELSE "failed",
                          !.why = fate, !.updated = 0]
<1>2. /\ t \in Sheets /\ t.status \in {"pending_quote", "failed"}
      /\ t.order = s.order /\ t.est = s.est /\ t.raw = s.raw /\ t.cleared = s.cleared
  BY DEF Sheets, Reasons
<1>3. shelf' = [shelf EXCEPT ![j] = t]
  BY <1>1
<1> HIDE DEF t
<1>4. metrics \in Seq(Row) /\ Distinct(metrics) /\ 0 \in Nat
  BY DEF ShopShapes
<1>5. metrics' \in Seq(Row) /\ Distinct(metrics')
  BY <1>1, <1>4, ChangesOfRows
<1> QED
  BY <1>2, <1>3, <1>5

\* A job is submitted.
LEMMA SubmitKeeps ==
  ASSUME ShopInv, NEW j \in Job, NEW o \in Order, Submit(j, o)
  PROVE  ShopInv'
<1> DEFINE s == [status |-> "pending_quote", order |-> o, updated |-> 0, why |-> "none",
                 est |-> Never, raw |-> 0, cleared |-> Never]
<1>0. /\ ShopShapes /\ SheetInv(shelf[j], ledger, j, j \in listed) /\ shelf[j] = Empty
      /\ Screened(j, s)
      /\ UNCHANGED <<shopClock, ledger, intents, listed, published, delivered, factor>>
  BY DEF ShopInv, Submit
<1>1. s \in Sheets /\ s.est = Never /\ s.cleared \notin Nat
  BY DEF Sheets, Reasons, Never
<1> HIDE DEF s
<1>2. /\ metrics' \in Seq(Row) /\ Distinct(metrics')
      /\ \E t \in Sheets :
           /\ shelf' = [shelf EXCEPT ![j] = t] /\ t.status \in {"pending_quote", "failed"}
           /\ t.order = s.order /\ t.est = s.est /\ t.raw = s.raw /\ t.cleared = s.cleared
  BY <1>0, <1>1, ScreenedSheet
<1>3. PICK t \in Sheets :
           /\ shelf' = [shelf EXCEPT ![j] = t] /\ t.status \in {"pending_quote", "failed"}
           /\ t.est = s.est /\ t.cleared = s.cleared
  BY <1>2
<1>4. j \notin listed /\ Sales(j, ledger) = {} /\ CostsOf(j, ledger) = {}
  <2>1. ~Agreed(shelf[j])
    BY <1>0, SheetFields DEF Agreed
  <2> QED
    BY <1>0, <2>1 DEF SheetInv
<1>5. Thrifty(t, ledger, j)
  <2>1. ToolsOf(j, ledger) = {} /\ TokensOf(j, ledger) = {} /\ Cents({}) = 0 /\ Cardinality({}) = 0
    BY <1>4, CentsCompare, FS_EmptySet DEF ToolsOf, TokensOf
  <2>2. Part(t, "tools") \in Nat /\ Part(t, "nvidia-nemotron") \in Nat
    BY PartsMakeUp DEF Vendor
  <2> QED
    BY <1>4, <2>1, <2>2 DEF Thrifty
<1>6. SheetInv(t, ledger, j, j \in listed')
  BY <1>0, <1>1, <1>3, <1>4, <1>5 DEF SheetInv, Agreed
<1>7. delivered' \in [Job -> {Never} \cup 0..shopClock]
  BY <1>0 DEF ShopShapes
<1> QED
  BY <1>0, <1>1, <1>2, <1>3, <1>6, <1>7, SheetStep

\* An order is run again from the start.
LEMMA RerunKeeps ==
  ASSUME ShopInv, NEW j \in Job, Rerun(j)
  PROVE  ShopInv'
<1> DEFINE s == shelf[j]
<1>0. /\ ShopShapes /\ SheetInv(s, ledger, j, j \in listed) /\ Screened(j, s)
      /\ UNCHANGED <<shopClock, ledger, intents, listed, published, delivered, factor>>
      /\ s.status # "none"
  BY DEF ShopInv, Rerun, Status
<1>1. s \in Sheets /\ (s.cleared \in Nat => s.cleared <= shopClock)
  BY <1>0, OnShelf DEF ShopShapes
<1> HIDE DEF s
<1>2. /\ metrics' \in Seq(Row) /\ Distinct(metrics')
      /\ \E t \in Sheets :
           /\ shelf' = [shelf EXCEPT ![j] = t] /\ t.status \in {"pending_quote", "failed"}
           /\ t.order = s.order /\ t.est = s.est /\ t.raw = s.raw /\ t.cleared = s.cleared
  BY <1>0, <1>1, ScreenedSheet
<1>3. PICK t \in Sheets :
           /\ shelf' = [shelf EXCEPT ![j] = t] /\ t.status \in {"pending_quote", "failed"}
           /\ t.order = s.order /\ t.est = s.est /\ t.raw = s.raw /\ t.cleared = s.cleared
  BY <1>2
<1>4. SheetInv(t, ledger, j, j \in listed)
  <2>1. j \in listed => Agreed(s)
    BY <1>0 DEF SheetInv
  <2>2. t.status \notin {"awaiting_payment", "paid", "completed", "expired"}
    BY <1>3
  <2> QED
    BY <1>0, <1>1, <1>3, <2>1, <2>2, DealKept
<1>5. delivered' \in [Job -> {Never} \cup 0..shopClock]
  BY <1>0 DEF ShopShapes
<1> QED
  BY <1>0, <1>1, <1>2, <1>3, <1>4, <1>5, SheetStep

\* A quote is made; if it is not accepted, the order is turned away.
LEMMA QuoteKeeps ==
  ASSUME ShopInv, NEW j \in Job, Quote(j)
  PROVE  ShopInv'
<1> DEFINE s == shelf[j]
           o == s.order
           q == QuoteOf(o.budget, o.asked, factor)
           c == CalibratedCost(ScopeFor(o.asked), factor)
           raw == CalibratedCost(ScopeFor(o.asked), 1000)
           quoted == [s EXCEPT !.est = q.cost, !.raw = raw]
           turned == [quoted EXCEPT !.status = "failed", !.why = "other"]
<1>0. /\ ShopShapes /\ SheetInv(s, ledger, j, j \in listed) /\ factor \in Nat /\ factor >= 1000
      /\ s.status = "pending_quote" /\ s.est = Never
      /\ UNCHANGED <<shopClock, ledger, intents, listed, published, delivered, factor>>
  <2>1. ShopShapes /\ SheetInv(s, ledger, j, j \in listed) /\ factor \in Nat /\ factor >= 1000
    BY DEF ShopInv, ShopShapes, FactorCeiling
  <2>2. /\ s.status = "pending_quote" /\ s.est = Never
        /\ UNCHANGED <<shopClock, ledger, intents, listed, published, delivered, factor>>
    BY DEF Quote, Status
  <2> QED
    BY <2>1, <2>2
<1>1. s \in Sheets
  BY <1>0, OnShelf
<1>2. o.budget \in Nat /\ o.asked \in [Dials -> Nat]
  BY <1>1, SheetFields
<1>3. /\ q.cost = c /\ c \in Nat
      /\ q.accept <=> Verdict(o.budget, c) = "accepted"
  BY <1>0, <1>2, QuoteFields
<1>4. raw \in Nat /\ c >= raw /\ raw = Total(Breakdown(ScopeFor(o.asked)))
  <2>1. ScopeFor(o.asked) \in [Dials -> Nat]
    BY <1>2, ScopeForWidens DEF Scopes
  <2> QED
    BY <1>0, <2>1, BriefCosts
<1>5. \/ q.accept /\ shelf' = [shelf EXCEPT ![j] = quoted] /\ UNCHANGED metrics
      \/ /\ ~q.accept /\ shelf' = [shelf EXCEPT ![j] = turned]
         /\ Upsert([RowOf(j) EXCEPT !.est = q.cost])
  BY DEF Quote
<1>6. /\ quoted \in Sheets /\ turned \in Sheets
      /\ \A t \in {quoted, turned} :
           t.est = c /\ t.raw = raw /\ t.order = o /\ t.cleared = s.cleared
      /\ quoted.status = "pending_quote" /\ turned.status = "failed"
  <2> HIDE DEF s, q, c, raw
  <2> QED
    BY <1>0, <1>1, <1>3, <1>4 DEF Sheets, Reasons
<1>7. s.cleared \notin Nat /\ j \notin listed /\ Sales(j, ledger) = {} /\ CostsOf(j, ledger) = {}
  <2>1. ~Agreed(s)
    BY <1>0 DEF Agreed
  <2> HIDE DEF s
  <2> QED
    BY <1>0, <1>1, <2>1 DEF SheetInv, Funded
<1> HIDE DEF q, c, raw, quoted, turned, s
<1>8. ASSUME NEW t \in Sheets, t.est = c, t.raw = raw, t.order = o, t.cleared = s.cleared,
             t.status \in {"pending_quote", "failed"}
      PROVE  SheetInv(t, ledger, j, j \in listed)
  <2>1. Agreed(t) => GoodQuote(t)
    <3> SUFFICES ASSUME Agreed(t) PROVE GoodQuote(t)
      OBVIOUS
    <3>1. KeepsFloor(o.budget, c)
      BY <1>2, <1>3, <1>8, AcceptedKeepsFloor DEF Agreed
    <3>2. KeepsFloor(o.budget, raw)
      BY <1>2, <1>3, <1>4, <3>1, CheaperKeepsFloor
    <3> QED
      BY <1>4, <1>8, <3>2 DEF GoodQuote
  <2>2. Thrifty(t, ledger, j)
    <3>1. Thrifty(s, ledger, j)
      BY <1>0, <1>1 DEF SheetInv
    <3> QED
      BY <1>8, <3>1 DEF Thrifty, Part
  <2> QED
    BY <1>7, <1>8, <2>1, <2>2 DEF SheetInv
<1>9. metrics \in Seq(Row) /\ Distinct(metrics) /\ delivered' \in [Job -> {Never} \cup 0..shopClock]
  BY <1>0 DEF ShopShapes
<1>10. metrics' \in Seq(Row) /\ Distinct(metrics')
  <2>1. CASE UNCHANGED metrics
    BY <1>9, <2>1
  <2>2. CASE Upsert([RowOf(j) EXCEPT !.est = q.cost])
    BY <1>3, <1>9, <2>2, ChangesOfRows
  <2> QED
    BY <1>5, <2>1, <2>2
<1>11. CASE shelf' = [shelf EXCEPT ![j] = quoted]
  <2>1. SheetInv(quoted, ledger, j, j \in listed')
    BY <1>0, <1>6, <1>8
  <2>2. quoted \in Sheets /\ quoted.cleared \notin Nat
    BY <1>6, <1>7
  <2> QED
    BY <1>0, <1>9, <1>10, <1>11, <2>1, <2>2, SheetStep
<1>12. CASE shelf' = [shelf EXCEPT ![j] = turned]
  <2>1. SheetInv(turned, ledger, j, j \in listed')
    BY <1>0, <1>6, <1>8
  <2>2. turned \in Sheets /\ turned.cleared \notin Nat
    BY <1>6, <1>7
  <2> QED
    BY <1>0, <1>9, <1>10, <1>12, <2>1, <2>2, SheetStep
<1> QED
  BY <1>5, <1>11, <1>12

\* What the books say of spend and balance, of the entries before a moment.
LEMMA FitsFunds ==
  ASSUME ShopShapes, NEW s, s.cleared = shopClock, Agreed(s), NEW j, Sales(j, ledger) = {},
         Fits(s.order.budget, s.est)
  PROVE  Funded(s, ledger, j)
<1>0. /\ ledger \in SUBSET Entry /\ IsFiniteSet(ledger) /\ shopClock \in Nat
      /\ DayLength \in Nat /\ DayBudget \in Nat /\ CashReserve \in Nat
      /\ s.est \in Nat /\ s.order.budget \in Nat
  BY SheetFields, StorefrontAssumption DEF ShopShapes, Agreed
<1> DEFINE today == {e \in Costs : e.ts >= shopClock - DayLength}
<1>1. /\ Costs = {e \in Expenses(ledger) : e.vendor # Refund}
      /\ Entries("expense") = Expenses(ledger)
      /\ today \in SUBSET ledger /\ DayOf(ledger, shopClock) \subseteq today
      /\ Early(ledger, shopClock) \subseteq Expenses(ledger)
  BY DEF Costs, Entries, Expenses, DayOf, Early
<1> DEFINE income == Cents(ledger \ Expenses(ledger))
           paid == Cents(Expenses(ledger))
           early == Cents(Early(ledger, shopClock))
           day == Cents(DayOf(ledger, shopClock))
           spent == Cents(today)
<1>2. income \in Nat /\ paid \in Nat /\ early \in Nat /\ day \in Nat /\ spent \in Nat
  BY <1>0, <1>1, LedgerParts
<1>3. early <= paid /\ day <= spent
  <2>1. Amounts(ledger) /\ Expenses(ledger) \in SUBSET ledger /\ Early(ledger, shopClock) \in SUBSET ledger
        /\ DayOf(ledger, shopClock) \in SUBSET ledger
    BY <1>0, LedgerParts
  <2> HIDE DEF today
  <2> QED
    BY <1>1, <2>1, CentsCompare
<1>4. spent + s.est <= DayBudget /\ income - paid + s.order.budget - s.est >= CashReserve
  BY <1>1 DEF Fits, SpentToday, Balance
<1> HIDE DEF income, paid, early, day, spent, today
<1>5. day + s.est <= DayBudget /\ income - early + s.order.budget - s.est >= CashReserve
  BY <1>0, <1>2, <1>3, <1>4
<1> QED
  BY <1>5 DEF Funded, income, early, day

\* An order that has made its quote goes through the gate, or is turned away.
LEMMA GateKeeps ==
  ASSUME ShopInv, NEW j \in Job, Gate(j)
  PROVE  ShopInv'
<1> DEFINE s == shelf[j]
           through == [s EXCEPT !.status = "awaiting_payment", !.updated = 0, !.cleared = shopClock]
           turned == [s EXCEPT !.status = "failed", !.updated = 0, !.why = "other", !.cleared = Turned]
           fits == Fits(s.order.budget, s.est)
<1>0. /\ ShopShapes /\ SheetInv(s, ledger, j, j \in listed) /\ shopClock \in Nat
      /\ s.status = "pending_quote" /\ Accepted(j) /\ j \notin listed
      /\ UNCHANGED <<shopClock, ledger, intents, listed, published, delivered, metrics, factor>>
  BY StorefrontAssumption DEF ShopInv, ShopShapes, Gate, Status
<1>1. s \in Sheets /\ Agreed(s)
  <2>1. s \in Sheets
    BY <1>0, OnShelf
  <2> QED
    BY <1>0, <2>1 DEF Accepted, Agreed
<1>2. \/ fits /\ shelf' = [shelf EXCEPT ![j] = through]
      \/ shelf' = [shelf EXCEPT ![j] = turned]
  <2>1. shelf \in [Job -> Sheets \cup {Empty}]
    BY <1>0 DEF ShopShapes
  <2>2. CASE fits
    <3>1. shelf' = [Touch(j, "awaiting_payment") EXCEPT ![j].cleared = shopClock]
      BY <2>2 DEF Gate
    <3> QED
      BY <2>1, <2>2, <3>1 DEF Touch
  <2>3. CASE ~fits
    <3>1. shelf' = [Touch(j, "failed") EXCEPT ![j].why = "other", ![j].cleared = Turned]
      BY <2>3 DEF Gate
    <3> QED
      BY <2>1, <3>1 DEF Touch
  <2> QED
    BY <2>2, <2>3
<1>3. /\ through \in Sheets /\ through.est = s.est /\ through.raw = s.raw /\ through.order = s.order
      /\ through.status = "awaiting_payment" /\ through.cleared = shopClock
  <2> HIDE DEF s
  <2> QED
    BY <1>0, <1>1 DEF Sheets
<1>a. /\ turned \in Sheets /\ turned.est = s.est /\ turned.raw = s.raw /\ turned.order = s.order
      /\ turned.status = "failed" /\ turned.cleared \notin Nat
  <2>1. Turned \notin Nat /\ "other" \in Reasons
    BY DEF Turned, Reasons
  <2> HIDE DEF s
  <2> QED
    BY <1>0, <1>1, <2>1 DEF Sheets
<1> HIDE DEF s, through, turned
<1>4. Sales(j, ledger) = {} /\ CostsOf(j, ledger) = {}
  BY <1>0 DEF SheetInv
<1>5. /\ metrics' \in Seq(Row) /\ Distinct(metrics')
      /\ delivered' \in [Job -> {Never} \cup 0..shopClock]
  BY <1>0 DEF ShopShapes
<1>6. CASE fits /\ shelf' = [shelf EXCEPT ![j] = through]
  <2>1. Agreed(through) /\ GoodQuote(through) /\ Thrifty(through, ledger, j)
    BY <1>0, <1>1, <1>3 DEF SheetInv, Agreed, GoodQuote, Thrifty, Part
  <2>2. Funded(through, ledger, j)
    BY <1>0, <1>3, <1>4, <1>6, <2>1, FitsFunds
  <2>3. SheetInv(through, ledger, j, j \in listed')
    BY <1>0, <1>3, <1>4, <2>1, <2>2 DEF SheetInv
  <2>4. through.cleared \in Nat => through.cleared <= shopClock
    BY <1>0, <1>3
  <2> QED
    BY <1>0, <1>3, <1>5, <1>6, <2>3, <2>4, SheetStep
<1>7. CASE shelf' = [shelf EXCEPT ![j] = turned]
  <2>1. turned.status \notin {"awaiting_payment", "paid", "completed", "expired"}
    BY <1>a
  <2>2. SheetInv(turned, ledger, j, j \in listed')
    BY <1>0, <1>1, <1>a, <2>1, DealKept
  <2> QED
    BY <1>0, <1>a, <1>5, <1>7, <2>2, SheetStep
<1> QED
  BY <1>2, <1>6, <1>7

\* A handler touches a row, lists its order perhaps, and leaves the deal as it is.
LEMMA TouchStep ==
  ASSUME ShopInv, NEW j \in Job, shelf[j].status # "none",
         NEW st \in {"pending_quote", "awaiting_payment", "paid", "completed", "failed",
                     "expired", "cancelled"},
         NEW w \in Reasons,
         \/ shelf' = Touch(j, st)
         \/ shelf' = [Touch(j, st) EXCEPT ![j].why = w],
         UNCHANGED <<shopClock, ledger, intents, published, factor>>,
         listed' \in {listed, listed \cup {j}},
         j \notin listed /\ (j \in listed' \/ st = "awaiting_payment") => Accepted(j),
         st \in {"paid", "completed"} => HasRevenue(j),
         st = "expired" => j \in listed,
         delivered' \in {delivered, [delivered EXCEPT ![j] = shopClock]},
         metrics' \in Seq(Row), Distinct(metrics')
  PROVE  ShopInv'
<1>0. /\ ShopShapes /\ SheetInv(shelf[j], ledger, j, j \in listed) /\ shopClock \in Nat
  BY StorefrontAssumption DEF ShopInv, ShopShapes
<1>1. shelf[j] \in Sheets
  BY <1>0, OnShelf
<1>2. PICK s \in Sheets :
         /\ Touch(j, st) = [shelf EXCEPT ![j] = s]
         /\ s.status = st /\ s.order = shelf[j].order /\ s.est = shelf[j].est
         /\ s.raw = shelf[j].raw /\ s.cleared = shelf[j].cleared
  BY <1>0, <1>1, TouchIs
<1> DEFINE t == [s EXCEPT !.why = w]
<1>3. /\ t \in Sheets /\ t.status = s.status /\ t.order = s.order /\ t.est = s.est
      /\ t.raw = s.raw /\ t.cleared = s.cleared
  BY <1>2 DEF Sheets
<1>4. \/ shelf' = [shelf EXCEPT ![j] = s]
      \/ shelf' = [shelf EXCEPT ![j] = t]
  <2>1. shelf \in [Job -> Sheets \cup {Empty}]
    BY <1>0 DEF ShopShapes
  <2> QED
    BY <1>2, <2>1
<1> HIDE DEF t
<1>5. j \in listed' \/ st \in {"awaiting_payment", "paid", "completed"} => Agreed(shelf[j])
  <2>1. j \in listed => Agreed(shelf[j])
    BY <1>0 DEF SheetInv
  <2>2. HasRevenue(j) => j \in listed
    BY <1>0 DEF SheetInv, HasRevenue, Received, Of, Entries, Sales
  <2>3. Accepted(j) => Agreed(shelf[j])
    BY <1>1 DEF Accepted, Agreed
  <2> QED
    BY <2>1, <2>2, <2>3
<1>6. st \in {"paid", "completed"} => Sales(j, ledger) # {}
  BY DEF HasRevenue, Received, Of, Entries, Sales
<1>7. j \in listed => j \in listed'
  OBVIOUS
<1>8. ASSUME NEW u \in Sheets, u.status = st, u.order = shelf[j].order, u.est = shelf[j].est,
             u.raw = shelf[j].raw, u.cleared = shelf[j].cleared
      PROVE  SheetInv(u, ledger, j, j \in listed') /\ (u.cleared \in Nat => u.cleared <= shopClock)
  <2>2. SheetInv(u, ledger, j, j \in listed')
    BY <1>0, <1>1, <1>5, <1>6, <1>7, <1>8, DealKept
  <2>3. u.cleared \in Nat => u.cleared <= shopClock
    BY <1>0, <1>1, <1>8 DEF ShopShapes
  <2> QED
    BY <2>2, <2>3
<1>9. delivered' \in [Job -> {Never} \cup 0..shopClock]
  BY <1>0 DEF ShopShapes
<1>10. CASE shelf' = [shelf EXCEPT ![j] = s]
  <2>1. SheetInv(s, ledger, j, j \in listed') /\ (s.cleared \in Nat => s.cleared <= shopClock)
    BY <1>2, <1>8
  <2> QED
    BY <1>2, <1>9, <1>10, <2>1, SheetStep
<1>11. CASE shelf' = [shelf EXCEPT ![j] = t]
  <2>1. SheetInv(t, ledger, j, j \in listed') /\ (t.cleared \in Nat => t.cleared <= shopClock)
    BY <1>2, <1>3, <1>8
  <2> QED
    BY <1>3, <1>9, <1>11, <2>1, SheetStep
<1> QED
  BY <1>4, <1>10, <1>11

\* The steps that touch a row.
LEMMA TouchesKeep ==
  ASSUME ShopInv, NEW j \in Job,
         \/ Resume(j) \/ List(j) \/ TakeOn(j) \/ GiveUp(j) \/ Mail(j) \/ Complete(j)
         \/ Expire(j) \/ Cancel(j)
  PROVE  ShopInv'
<1>0. /\ ShopShapes /\ metrics \in Seq(Row) /\ Distinct(metrics) /\ "none" \in Reasons
      /\ "other" \in Reasons /\ SheetInv(shelf[j], ledger, j, j \in listed)
  BY DEF ShopInv, ShopShapes, Reasons
<1>1. shelf[j].status \in {"paid", "completed"} => HasRevenue(j) /\ j \in listed
  BY <1>0 DEF SheetInv, HasRevenue, Received, Of, Entries, Sales
<1>2. CASE Resume(j)
  <2>1. /\ shelf' = Touch(j, "awaiting_payment") /\ Accepted(j) /\ shelf[j].status # "none"
        /\ UNCHANGED <<shopClock, ledger, intents, listed, published, delivered, metrics, factor>>
    BY <1>2 DEF Resume, Status
  <2> QED
    BY <1>0, <2>1, TouchStep
<1>3. CASE List(j)
  <2>1. /\ shelf' = Touch(j, "awaiting_payment") /\ Accepted(j) /\ shelf[j].status # "none"
        /\ listed' = listed \cup {j}
        /\ UNCHANGED <<shopClock, ledger, intents, published, delivered, metrics, factor>>
    BY <1>3 DEF List, Status
  <2> QED
    BY <1>0, <2>1, TouchStep
<1>4. CASE TakeOn(j)
  <2>1. /\ shelf' = Touch(j, "paid") /\ HasRevenue(j) /\ shelf[j].status # "none"
        /\ UNCHANGED <<shopClock, ledger, intents, listed, published, delivered, metrics, factor>>
    BY <1>4 DEF TakeOn, Status
  <2> QED
    BY <1>0, <2>1, TouchStep
<1>5. CASE GiveUp(j)
  <2>1. /\ shelf' = [Touch(j, "failed") EXCEPT ![j].why = "other"] /\ shelf[j].status # "none"
        /\ IF Refunded(j) THEN Upsert([RowOf(j) EXCEPT !.refunded = TRUE]) ELSE UNCHANGED metrics
        /\ UNCHANGED <<shopClock, ledger, intents, listed, published, delivered, factor>>
    BY <1>5 DEF GiveUp, Status
  <2>2. metrics' \in Seq(Row) /\ Distinct(metrics')
    <3>1. CASE Refunded(j)
      <4>1. Upsert([RowOf(j) EXCEPT !.refunded = TRUE]) /\ 0 \in Nat
        BY <2>1, <3>1
      <4> QED
        BY <1>0, <4>1, ChangesOfRows
    <3>2. CASE ~Refunded(j)
      BY <1>0, <2>1, <3>2
    <3> QED
      BY <3>1, <3>2
  <2> QED
    BY <1>0, <2>1, <2>2, TouchStep
<1>6. CASE Mail(j)
  <2>1. /\ shelf' = Touch(j, "paid") /\ shelf[j].status = "paid"
        /\ delivered' = [delivered EXCEPT ![j] = shopClock]
        /\ UNCHANGED <<shopClock, ledger, intents, listed, published, metrics, factor>>
    BY <1>6 DEF Mail, Status
  <2> QED
    BY <1>0, <1>1, <2>1, TouchStep
<1>7. CASE Complete(j)
  <2>1. /\ shelf' = Touch(j, "completed") /\ shelf[j].status = "paid"
        /\ UNCHANGED <<shopClock, ledger, intents, listed, published, delivered, metrics, factor>>
    BY <1>7 DEF Complete, Status
  <2> QED
    BY <1>0, <1>1, <2>1, TouchStep
<1>8. CASE Expire(j)
  <2>1. /\ shelf' = Touch(j, "expired") /\ shelf[j].status # "none" /\ j \in listed
        /\ UNCHANGED <<shopClock, ledger, intents, listed, published, delivered, metrics, factor>>
    BY <1>8 DEF Expire, Status
  <2> QED
    BY <1>0, <2>1, TouchStep
<1>9. CASE Cancel(j)
  <2>1. /\ shelf' = Touch(j, "cancelled") /\ shelf[j].status # "none"
        /\ UNCHANGED <<shopClock, ledger, intents, listed, published, delivered, metrics, factor>>
    BY <1>9 DEF Cancel, Status
  <2> QED
    BY <1>0, <2>1, TouchStep
<1> QED
  BY <1>2, <1>3, <1>4, <1>5, <1>6, <1>7, <1>8, <1>9

\* What a job's step books is a new entry.
NewEntry(kind, j, v, cents) ==
    \E e \in Entry :
      /\ ledger' = ledger \cup {e} /\ e \notin ledger /\ Numbered(ledger \cup {e})
      /\ e.kind = kind /\ e.job = j /\ e.vendor = v /\ e.cents = cents /\ e.ts = shopClock
LEMMA BookedIs ==
  ASSUME ShopShapes, NEW kind \in {"capital", "revenue", "expense"}, NEW j \in Job,
         NEW v \in {"none", Refund} \cup Vendor, NEW cents \in Nat, Book(kind, j, v, cents)
  PROVE  NewEntry(kind, j, v, cents)
<1> DEFINE n == Cardinality({d \in Of(j, ledger) : d.vendor = v})
           e == [kind |-> kind, job |-> j, vendor |-> v, cents |-> cents, ts |-> shopClock, nth |-> n]
<1>0. ledger \in SUBSET Entry /\ IsFiniteSet(ledger) /\ Numbered(ledger) /\ shopClock \in Nat
  BY StorefrontAssumption DEF ShopShapes
<1>1. n = Cardinality(Alike(j, v, ledger)) /\ n \in Nat
  <2>1. {d \in Of(j, ledger) : d.vendor = v} = Alike(j, v, ledger)
    BY DEF Of, Alike
  <2>2. Alike(j, v, ledger) \in SUBSET ledger
    BY DEF Alike
  <2> QED
    BY <1>0, <2>1, <2>2, LedgerParts
<1>2. ledger' = ledger \cup {e}
  BY DEF Book
<1> HIDE DEF n
<1>3. /\ e \in Entry /\ e.kind = kind /\ e.job = j /\ e.vendor = v /\ e.cents = cents
      /\ e.ts = shopClock /\ e.nth = n
  BY <1>0, <1>1 DEF Entry
<1> HIDE DEF e
<1>4. e \notin ledger /\ Numbered(ledger \cup {e})
  BY <1>0, <1>1, <1>3, EntryIsNew
<1> QED
  BY <1>2, <1>3, <1>4 DEF NewEntry

\* A sale is booked, or a refund.
LEMMA MoneyKeeps ==
  ASSUME ShopInv, NEW j \in Job, BookSale(j) \/ GiveBack(j)
  PROVE  ShopInv'
<1>0. /\ ShopShapes /\ SheetInv(shelf[j], ledger, j, j \in listed) /\ shelf[j].status # "none"
      /\ ledger \in SUBSET Entry /\ IsFiniteSet(ledger)
      /\ UNCHANGED <<shopClock, shelf, factor, intents, delivered, listed, published, metrics>>
  BY DEF ShopInv, ShopShapes, BookSale, GiveBack, Status
<1>1. shelf[j] \in Sheets
  BY <1>0, OnShelf
<1>2. shelf[j].order.budget \in Nat /\ Cents(Received(j)) \in Nat
  <2>1. Received(j) \in SUBSET ledger
    BY DEF Received, Of, Entries
  <2> QED
    BY <1>0, <1>1, <2>1, SheetFields, LedgerParts
<1>3. \E e \in Entry :
        /\ ledger' = ledger \cup {e} /\ e \notin ledger /\ Numbered(ledger \cup {e})
        /\ e.job = j /\ e.ts = shopClock
        /\ \/ e.kind = "revenue" /\ e.cents >= shelf[j].order.budget /\ j \in listed
           \/ e.kind = "expense" /\ e.vendor = Refund
  <2>1. CASE BookSale(j)
    <3>1. PICK tip \in Tips : Book("revenue", j, "none", shelf[j].order.budget + tip)
      BY <2>1 DEF BookSale
    <3> DEFINE c == shelf[j].order.budget + tip
    <3>2. c \in Nat /\ c >= shelf[j].order.budget
      BY <1>2, <3>1, StorefrontAssumption
    <3>3. Book("revenue", j, "none", c)
      BY <3>1
    <3> HIDE DEF c
    <3>4. NewEntry("revenue", j, "none", c)
      BY <1>0, <3>2, <3>3, BookedIs
    <3>5. j \in listed
      BY <1>0, <2>1 DEF BookSale, ShopShapes
    <3> QED
      BY <3>2, <3>4, <3>5 DEF NewEntry
  <2>2. CASE GiveBack(j)
    <3> DEFINE c == Cents(Received(j))
    <3>1. Book("expense", j, Refund, c) /\ c \in Nat
      BY <1>2, <2>2 DEF GiveBack
    <3> HIDE DEF c
    <3>a. Refund \in {"none", Refund} \cup Vendor /\ "expense" \in {"capital", "revenue", "expense"}
      OBVIOUS
    <3>b. ShopShapes
      BY <1>0
    <3>2. NewEntry("expense", j, Refund, c)
      BY <3>1, <3>a, <3>b, BookedIs
    <3> QED
      BY <3>2 DEF NewEntry
  <2> QED
    BY <2>1, <2>2
<1>4. PICK e \in Entry :
        /\ ledger' = ledger \cup {e} /\ e \notin ledger /\ Numbered(ledger \cup {e})
        /\ e.job = j /\ e.ts = shopClock
        /\ \/ e.kind = "revenue" /\ e.cents >= shelf[j].order.budget /\ j \in listed
           \/ e.kind = "expense" /\ e.vendor = Refund
  BY <1>3
<1> DEFINE M == ledger \cup {e}  s == shelf[j]
<1>5. /\ CostsOf(j, M) = CostsOf(j, ledger)
      /\ \/ Sales(j, M) = Sales(j, ledger)
         \/ Sales(j, M) = Sales(j, ledger) \cup {e} /\ e.cents >= s.order.budget /\ j \in listed
  BY <1>0, <1>4, EntryAdded
<1>6. s.cleared \in Nat => Funded(s, M, j)
  <2> SUFFICES ASSUME s.cleared \in Nat PROVE Funded(s, M, j)
    OBVIOUS
  <2>1. Funded(s, ledger, j) /\ s.cleared <= e.ts
    BY <1>0, <1>1, <1>4 DEF SheetInv, ShopShapes
  <2>2. e.kind = "revenue" => e.cents >= s.order.budget
    BY <1>4
  <2> QED
    BY <1>0, <1>1, <1>4, <2>1, <2>2, FundedKeep
<1>7. ToolsOf(j, M) = ToolsOf(j, ledger) /\ TokensOf(j, M) = TokensOf(j, ledger)
  BY <1>5 DEF ToolsOf, TokensOf
<1> HIDE DEF M, s
<1>8. SheetInv(s, ledger, j, j \in listed)
  BY <1>0 DEF s
<1>9. SheetInv(s, M, j, j \in listed)
  BY <1>5, <1>6, <1>7, <1>8 DEF SheetInv, Thrifty
<1> QED
  BY <1>0, <1>4, <1>9, BookingStep DEF M, s

\* A charge is booked.
LEMMA SpendKeeps ==
  ASSUME ShopInv, NEW j \in Job, NEW v \in Vendor, Spend(j, v)
  PROVE  ShopInv'
<1>0. /\ ShopShapes /\ SheetInv(shelf[j], ledger, j, j \in listed) /\ shelf[j].status # "none"
      /\ ledger \in SUBSET Entry /\ IsFiniteSet(ledger) /\ HasRevenue(j)
      /\ UNCHANGED <<shopClock, shelf, factor, intents, delivered, listed, published, metrics>>
  BY DEF ShopInv, ShopShapes, Spend, Status
<1>1. shelf[j] \in Sheets
  BY <1>0, OnShelf
<1>2. PICK cents \in Bill :
         /\ IF v = "tools" THEN Cents(Charges(j, v)) + cents <= Share(j, v)
            ELSE /\ Requests(j) < MaxRequests
                 /\ Cents(Charges(j, v)) + cents <= Share(j, v) + Requests(j) + 1
         /\ Book("expense", j, v, cents)
  BY DEF Spend
<1>3. /\ cents \in Nat /\ v # Refund /\ v \in {"none", Refund} \cup Vendor
      /\ "expense" \in {"capital", "revenue", "expense"} /\ Book("expense", j, v, cents)
  BY <1>2, StorefrontAssumption DEF Vendor, Refund
<1>4. PICK e \in Entry :
        /\ ledger' = ledger \cup {e} /\ e \notin ledger /\ Numbered(ledger \cup {e})
        /\ e.kind = "expense" /\ e.job = j /\ e.vendor = v /\ e.cents = cents /\ e.ts = shopClock
  <2>1. ShopShapes
    BY <1>0
  <2>2. NewEntry("expense", j, v, cents)
    BY <1>3, <2>1, BookedIs
  <2> QED
    BY <2>2 DEF NewEntry
<1> DEFINE M == ledger \cup {e}  s == shelf[j]
           T == ToolsOf(j, ledger)  N == TokensOf(j, ledger)
           t == Part(s, "tools")  n == Part(s, "nvidia-nemotron")
<1>5. CostsOf(j, M) = CostsOf(j, ledger) \cup {e} /\ Sales(j, M) = Sales(j, ledger)
  BY <1>0, <1>3, <1>4, EntryAdded
<1>6. /\ v = "tools" => ToolsOf(j, M) = T \cup {e} /\ TokensOf(j, M) = N
      /\ v # "tools" => ToolsOf(j, M) = T /\ TokensOf(j, M) = N \cup {e}
      /\ v # "tools" => v = "nvidia-nemotron"
      /\ e \notin T /\ e \notin N
  <2>1. v # "tools" => v = "nvidia-nemotron"
    BY DEF Vendor
  <2> HIDE DEF M
  <2> QED
    BY <1>4, <1>5, <2>1 DEF ToolsOf, TokensOf, CostsOf
<1>7. s.cleared \in Nat => Funded(s, M, j)
  <2> SUFFICES ASSUME s.cleared \in Nat PROVE Funded(s, M, j)
    OBVIOUS
  <2>1. Funded(s, ledger, j) /\ s.cleared <= e.ts
    BY <1>0, <1>1, <1>4 DEF SheetInv, ShopShapes
  <2>2. e.kind # "revenue"
    BY <1>4
  <2> QED
    BY <1>0, <1>1, <1>4, <2>1, <2>2, FundedKeep
<1>8. /\ Amounts(T) /\ Amounts(N) /\ Cents(T) \in Nat /\ Cents(N) \in Nat
      /\ IsFiniteSet(N) /\ Cardinality(N) \in Nat /\ t \in Nat /\ n \in Nat
      /\ Cents(T) <= t /\ Cents(N) <= n + Cardinality(N)
  <2>1. T \in SUBSET ledger /\ N \in SUBSET ledger
    BY <1>0, LedgerParts
  <2>2. Amounts(T) /\ Amounts(N) /\ Cents(T) \in Nat /\ Cents(N) \in Nat /\ Cardinality(N) \in Nat
    BY <1>0, <2>1, LedgerParts
  <2>3. Cents(T) <= t /\ Cents(N) <= n + Cardinality(N)
    BY <1>0, <1>1 DEF SheetInv, Thrifty
  <2>4. t \in Nat /\ n \in Nat
    BY <1>1, PartsMakeUp DEF Vendor
  <2> QED
    BY <2>2, <2>3, <2>4 DEF Amounts
<1>9. /\ v = "tools" => Cents(T) + cents <= t
      /\ v # "tools" => Cents(N) + cents <= n + Cardinality(N) + 1
  <2>1. /\ v = "tools" => Charges(j, v) = T
        /\ v # "tools" => Charges(j, v) = N
        /\ Requests(j) = Cardinality(N)
    BY <1>6 DEF Charges, Requests, Of, Costs, Entries, ToolsOf, TokensOf, CostsOf
  <2>2. v = "tools" => Share(j, v) = t
    BY DEF Share, Part
  <2>3. v # "tools" => Share(j, v) = n
    BY <1>6 DEF Share, Part
  <2> HIDE DEF T, N, t, n
  <2> QED
    BY <1>2, <2>1, <2>2, <2>3
<1> HIDE DEF M, T, N, t, n
<1>10. Cents(ToolsOf(j, M)) <= t
  <2>1. CASE v = "tools"
    BY <1>3, <1>4, <1>6, <1>8, <1>9, <2>1, CentsInsert
  <2>2. CASE v # "tools"
    BY <1>6, <1>8, <2>2
  <2> QED
    BY <2>1, <2>2
<1>11. Cents(TokensOf(j, M)) <= n + Cardinality(TokensOf(j, M))
  <2>1. CASE v = "tools"
    BY <1>6, <1>8, <2>1
  <2>2. CASE v # "tools"
    <3>1. Cents(N \cup {e}) = Cents(N) + cents
      BY <1>3, <1>4, <1>6, <1>8, CentsInsert
    <3>2. Cardinality(N \cup {e}) = Cardinality(N) + 1
      BY <1>6, <1>8, FS_AddElement
    <3>3. TokensOf(j, M) = N \cup {e} /\ Cents(N) + cents <= n + Cardinality(N) + 1
      BY <1>6, <1>9, <2>2
    <3>4. Cents(N \cup {e}) <= n + Cardinality(N \cup {e})
      BY <1>3, <1>8, <3>1, <3>2, <3>3
    <3> QED
      BY <3>3, <3>4
  <2> QED
    BY <2>1, <2>2
<1>12. Sales(j, ledger) # {}
  BY <1>0 DEF HasRevenue, Received, Of, Entries, Sales
<1>13. Thrifty(s, M, j)
  <2>1. \A d \in CostsOf(j, M) : d.vendor \in Vendor
    BY <1>0, <1>1, <1>4, <1>5 DEF SheetInv, Thrifty
  <2> QED
    BY <1>10, <1>11, <2>1 DEF Thrifty, t, n
<1> HIDE DEF s
<1>14. SheetInv(s, ledger, j, j \in listed)
  BY <1>0 DEF s
<1>15. SheetInv(s, M, j, j \in listed)
  BY <1>5, <1>7, <1>12, <1>13, <1>14 DEF SheetInv
<1> QED
  BY <1>0, <1>4, <1>15, BookingStep DEF M, s

\* A calibration stays between one and the ceiling.
LEMMA DriftIsBounded ==
  ASSUME metrics \in Seq(Row), NEW b
  PROVE  Calibration(b, Drift.actual, Drift.est) \in 1000..FactorCeiling
<1> DEFINE usable == {i \in 1..Len(metrics) :
                        metrics[i].est > 0 /\ metrics[i].actual > 0 /\ ~metrics[i].refunded}
           last == {i \in usable : Cardinality({k \in usable : k > i}) < DriftWindow}
           est == SumFunctionOnSet([i \in last |-> metrics[i].est], last)
           actual == SumFunctionOnSet([i \in last |-> metrics[i].actual], last)
<1>1. Drift.est = est /\ Drift.actual = actual
  BY DEF Drift
<1>2. last \subseteq 1..Len(metrics)
  OBVIOUS
<1>3. \A i \in 1..Len(metrics) : metrics[i].est \in Nat /\ metrics[i].actual \in Nat
  <2>1. \A i \in 1..Len(metrics) : metrics[i] \in Row
    OBVIOUS
  <2> QED
    BY <2>1 DEF Row
<1> HIDE DEF usable, last
<1>4. IsFiniteSet(last)
  <2> DEFINE W == 1..Len(metrics)
  <2>1. IsFiniteSet(W) /\ last \subseteq W
    BY <1>2, FS_Interval
  <2> HIDE DEF W
  <2> QED
    BY <2>1, FS_Subset
<1>5. est \in Nat
  <2> DEFINE f == [i \in last |-> metrics[i].est]
  <2>1. \A i \in last : f[i] \in Nat
    BY <1>2, <1>3
  <2> HIDE DEF f
  <2>2. SumFunctionOnSet(f, last) \in Nat
    BY <1>4, <2>1, SumNat
  <2> QED
    BY <2>2 DEF f
<1>6. actual \in Nat
  <2> DEFINE f == [i \in last |-> metrics[i].actual]
  <2>1. \A i \in last : f[i] \in Nat
    BY <1>2, <1>3
  <2> HIDE DEF f
  <2>2. SumFunctionOnSet(f, last) \in Nat
    BY <1>4, <2>1, SumNat
  <2> QED
    BY <2>2 DEF f
<1> HIDE DEF est, actual
<1>7. est # 0 => Round(1000 * actual, est) \in Int
  <2> DEFINE n == 1000 * actual
  <2>1. n \in Int
    BY <1>6
  <2> HIDE DEF n
  <2>2. est # 0 => Round(n, est) \in Int
    BY <1>5, <2>1, RoundBounds
  <2> QED
    BY <2>2 DEF n
<1>8. Calibration(b, actual, est) \in 1000..FactorCeiling
  <2>1. CASE ~b \/ est = 0
    BY <2>1 DEF Calibration, FactorCeiling
  <2>2. CASE ~(~b \/ est = 0)
    <3> DEFINE x == Round(1000 * actual, est)
    <3>1. x \in Int /\ Calibration(b, actual, est) = Smaller(Larger(x, 1000), FactorCeiling)
      BY <1>7, <2>2 DEF Calibration
    <3> HIDE DEF x
    <3> QED
      BY <3>1 DEF Smaller, Larger, FactorCeiling
  <2> QED
    BY <2>1, <2>2
<1> QED
  BY <1>1, <1>8

\* Every step keeps the invariant.
\* A brief is reconciled and published.
LEMMA PublishKeeps ==
  ASSUME ShopInv, NEW j \in Job, Publish(j)
  PROVE  ShopInv'
<1>0. /\ ShopShapes /\ SheetInv(shelf[j], ledger, j, j \in listed) /\ shelf[j].status = "paid"
      /\ ledger \in SUBSET Entry /\ IsFiniteSet(ledger) /\ metrics \in Seq(Row) /\ Distinct(metrics)
      /\ published' = published \cup {j}
      /\ UNCHANGED <<shopClock, shelf, ledger, intents, listed, delivered, factor>>
  BY DEF ShopInv, ShopShapes, Publish, Status
<1> DEFINE x == shelf[j].est  y == Cents(Of(j, Costs))
<1>1. Upsert([RowOf(j) EXCEPT !.est = x, !.actual = y, !.refunded = FALSE])
  BY DEF Publish
<1>2. x \in Nat /\ y \in Nat
  <2>1. Agreed(shelf[j])
    BY <1>0 DEF SheetInv
  <2>2. Of(j, Costs) \in SUBSET ledger
    BY DEF Of, Costs, Entries
  <2> QED
    BY <1>0, <2>1, <2>2, SheetFields, LedgerParts DEF Agreed
<1> HIDE DEF x, y
<1>3. metrics' \in Seq(Row) /\ Distinct(metrics')
  BY <1>0, <1>1, <1>2, ChangesOfRows
<1>4. Known' = Known
  BY <1>0 DEF Known
<1>5. ShopShapes'
  BY <1>0, <1>3, <1>4 DEF ShopShapes
<1> QED
  BY <1>0, <1>5, RestKeeps

\* Every step keeps the invariant.
LEMMA ShopKeeps == ShopInv /\ [ShopNext]_shopVars => ShopInv'
<1> SUFFICES ASSUME ShopInv, [ShopNext]_shopVars PROVE ShopInv'
  OBVIOUS
<1>0. ShopShapes
  BY DEF ShopInv
<1>1. CASE ShopTick
  <2>1. /\ shopClock' = shopClock + 1 /\ shopClock < ShopTime
        /\ UNCHANGED <<shelf, ledger, intents, listed, published, delivered, metrics, factor>>
    BY <1>1 DEF ShopTick
  <2>2. shopClock \in Nat /\ ShopTime \in Nat /\ shopClock' \in 0..ShopTime
    BY <1>0, <2>1, StorefrontAssumption DEF ShopShapes
  <2>3. 0..shopClock \subseteq 0..shopClock'
    BY <2>1, <2>2
  <2>4. intents' \in [Job -> {Never} \cup 0..shopClock'] /\ delivered' \in [Job -> {Never} \cup 0..shopClock']
    BY <1>0, <2>1, <2>3 DEF ShopShapes
  <2>5. \A e \in ledger : e.ts <= shopClock'
    <3>1. \A e \in ledger : e.ts \in Nat /\ e.ts <= shopClock
      BY <1>0 DEF ShopShapes, Entry
    <3> QED
      BY <2>1, <2>2, <3>1
  <2>6. \A j \in Job : shelf[j] \in Sheets /\ shelf[j].cleared \in Nat => shelf[j].cleared <= shopClock'
    <3>1. \A j \in Job : shelf[j] \in Sheets /\ shelf[j].cleared \in Nat => shelf[j].cleared <= shopClock
      BY <1>0 DEF ShopShapes
    <3> QED
      BY <2>1, <2>2, <3>1
  <2>7. Known' = Known
    BY <2>1 DEF Known
  <2>8. ShopShapes'
    BY <1>0, <2>1, <2>2, <2>4, <2>5, <2>6, <2>7 DEF ShopShapes
  <2> QED
    BY <2>1, <2>8, RestKeeps
<1>2. CASE Restart
  <2>1. /\ factor' = Calibration(Drift.samples >= DriftSamples, Drift.actual, Drift.est)
        /\ UNCHANGED <<shopClock, shelf, ledger, intents, listed, published, delivered, metrics>>
    BY <1>2 DEF Restart
  <2>2. factor' \in 1000..FactorCeiling
    BY <1>0, <2>1, DriftIsBounded DEF ShopShapes
  <2>3. Known' = Known
    BY <2>1 DEF Known
  <2>4. ShopShapes'
    BY <1>0, <2>1, <2>2, <2>3 DEF ShopShapes
  <2> QED
    BY <2>1, <2>4, RestKeeps
<1>3. ASSUME NEW j \in Job, Pay(j) PROVE ShopInv'
  <2>1. /\ intents' = [intents EXCEPT ![j] = shopClock] /\ j \in listed
        /\ UNCHANGED <<shopClock, shelf, ledger, listed, published, delivered, metrics, factor>>
    BY <1>3 DEF Pay
  <2>2. intents' \in [Job -> {Never} \cup 0..shopClock] /\ \A k \in Job : intents'[k] # Never => k \in listed
    <3>1. shopClock \in 0..shopClock
      BY <1>0, StorefrontAssumption DEF ShopShapes
    <3> QED
      BY <1>0, <2>1, <3>1 DEF ShopShapes
  <2>3. Known' = Known
    BY <2>1 DEF Known
  <2>4. ShopShapes'
    BY <1>0, <2>1, <2>2, <2>3 DEF ShopShapes
  <2> QED
    BY <2>1, <2>4, RestKeeps
<1>4. CASE UNCHANGED shopVars
  <2>1. UNCHANGED <<shopClock, shelf, ledger, intents, listed, published, delivered, metrics, factor>>
    BY <1>4 DEF shopVars
  <2>2. Known' = Known
    BY <2>1 DEF Known
  <2>3. ShopShapes'
    BY <1>0, <2>1, <2>2 DEF ShopShapes
  <2> QED
    BY <2>1, <2>3, RestKeeps
<1> QED
  BY <1>1, <1>2, <1>3, <1>4, SubmitKeeps, RerunKeeps, QuoteKeeps, GateKeeps, TouchesKeep, MoneyKeeps,
     SpendKeeps, PublishKeeps DEF ShopNext

-----------------------------------------------------------------------------
(* What the invariant means.                                               *)

\* What the shop has spent and what it holds are whole numbers of cents.
LEMMA FundsType ==
  ASSUME ShopShapes
  PROVE  SpentToday \in Nat /\ Balance \in Int /\ SpendCapacity \in Nat
<1>1. ledger \in SUBSET Entry /\ IsFiniteSet(ledger) /\ DayBudget \in Nat /\ CashReserve \in Nat
  BY StorefrontAssumption DEF ShopShapes
<1>2. /\ {e \in Costs : e.ts >= shopClock - DayLength} \in SUBSET ledger
      /\ Entries("expense") \in SUBSET ledger /\ ledger \ Entries("expense") \in SUBSET ledger
  BY DEF Costs, Entries
<1>3. SpentToday \in Nat
  BY <1>1, <1>2, LedgerParts DEF SpentToday
<1>4. Cents(ledger \ Entries("expense")) \in Nat /\ Cents(Entries("expense")) \in Nat
  BY <1>1, <1>2, LedgerParts
<1>5. Balance \in Int
  BY <1>4 DEF Balance
<1> QED
  BY <1>1, <1>3, <1>5 DEF SpendCapacity, Larger, Smaller

\* The plans that commit no more than may be spent.
GoodPlans ==
    {p \in [runs : SUBSET Job, committed : Nat] :
        /\ p.committed <= SpendCapacity
        /\ \A j \in p.runs : ~HasRevenue(j) => Estimate(j) <= SpendCapacity}

\* Committing one more job keeps a plan good.
LEMMA CommitKeeps ==
  ASSUME ShopShapes, NEW p \in GoodPlans, NEW j \in OpenRows
  PROVE  Commit(p, j) \in GoodPlans
<1>1. /\ p \in [runs : SUBSET Job, committed : Nat] /\ p.committed <= SpendCapacity
      /\ \A k \in p.runs : ~HasRevenue(k) => Estimate(k) <= SpendCapacity
  BY DEF GoodPlans
<1>2. j \in Job /\ shelf[j] \in Sheets
  BY DEF OpenRows, Known, ShopShapes
<1>3. Estimate(j) \in Nat
  <2>1. ScopeFor(shelf[j].order.asked) \in [Dials -> Nat]
    BY <1>2, SheetFields, ScopeForWidens DEF Scopes
  <2> QED
    BY <2>1, BriefCosts DEF Estimate
<1>4. SpendCapacity \in Nat
  BY FundsType
<1>5. p.runs \in SUBSET Job /\ p.committed \in Nat
  BY <1>1
<1>6. CASE HasRevenue(j)
  <2> DEFINE u == [p EXCEPT !.runs = @ \cup {j}]
  <2>1. u \in [runs : SUBSET Job, committed : Nat] /\ u.runs = p.runs \cup {j} /\ u.committed = p.committed
    BY <1>1, <1>2
  <2>2. Commit(p, j) = u
    BY <1>6 DEF Commit
  <2> HIDE DEF u
  <2> QED
    BY <1>1, <1>6, <2>1, <2>2 DEF GoodPlans
<1>7. CASE ~HasRevenue(j) /\ p.committed + Estimate(j) > SpendCapacity
  <2>1. Commit(p, j) = p
    BY <1>7 DEF Commit
  <2> QED
    BY <2>1
<1>8. CASE ~HasRevenue(j) /\ ~(p.committed + Estimate(j) > SpendCapacity)
  <2> DEFINE u == [runs |-> p.runs \cup {j}, committed |-> p.committed + Estimate(j)]
  <2>1. Commit(p, j) = u
    BY <1>8 DEF Commit
  <2>2. u \in [runs : SUBSET Job, committed : Nat] /\ u.runs = p.runs \cup {j}
        /\ u.committed = p.committed + Estimate(j)
    BY <1>2, <1>3, <1>5
  <2> HIDE DEF u
  <2>3. u.committed <= SpendCapacity /\ Estimate(j) <= SpendCapacity
    BY <1>3, <1>4, <1>5, <1>8, <2>2
  <2> QED
    BY <1>1, <2>1, <2>2, <2>3 DEF GoodPlans
<1> QED
  BY <1>6, <1>7, <1>8

\* Every plan is good.
LEMMA PlansAreGood ==
  ASSUME ShopShapes, NEW plan \in Plans
  PROVE  plan \in GoodPlans
<1>1. PICK q \in Queues : plan = PlanOf(q)
  BY DEF Plans
<1> DEFINE n == Cardinality(OpenRows)
           begun == [runs |-> {}, committed |-> 0]
           body(f) == [i \in 0..n |-> IF i = 0 THEN begun ELSE Commit(f[i - 1], q[i])]
           done == CHOOSE f : f = body(f)
           R == GoodPlans
           F == [p \in R \X (1..n) |-> Commit(p[1], q[p[2]])]
<1>2. n \in Nat
  <2>1. OpenRows \subseteq Known
    BY DEF OpenRows
  <2> QED
    BY <2>1, FS_Subset, FS_CardinalityType DEF ShopShapes
<1>3. \A i \in 1..n : q[i] \in OpenRows
  BY DEF Queues, SetToSeqs
<1>4. begun \in R
  BY FundsType DEF GoodPlans
<1>5. plan = done[n]
  BY <1>1 DEF PlanOf
<1> HIDE DEF n, begun, R
<1>6. \A p \in R, i \in 1..n : Commit(p, q[i]) \in R
  BY <1>3, CommitKeeps DEF R
<1>7. F \in [R \X (1..n) -> R] /\ \A p \in R, i \in 1..n : F[<<p, i>>] = Commit(p, q[i])
  BY <1>6
<1> HIDE DEF F
<1>8. PICK g \in [0..n -> R] : g[0] = begun /\ \A i \in 1..n : g[i] = F[<<g[i - 1], i>>]
  <2>1. \E g \in [0..n -> R] : Unrolled(g, begun, F, n)
    BY <1>2, <1>4, <1>7, Unrolls
  <2> QED
    BY <2>1 DEF Unrolled
<1>9. g = body(g)
  <2>1. g = [i \in 0..n |-> g[i]]
    OBVIOUS
  <2>2. \A i \in 0..n : g[i] = IF i = 0 THEN begun ELSE Commit(g[i - 1], q[i])
    <3> SUFFICES ASSUME NEW i \in 0..n
                 PROVE  g[i] = IF i = 0 THEN begun ELSE Commit(g[i - 1], q[i])
      OBVIOUS
    <3>1. i = 0 \/ (i \in 1..n /\ g[i - 1] \in R)
      BY <1>2
    <3> QED
      BY <1>2, <1>7, <1>8, <3>1
  <2> QED
    BY <2>1, <2>2
<1> HIDE DEF body
<1>10. done = body(done)
  BY <1>9
<1>11. \A f : body(f)[0] = begun /\ \A i \in 1..n : body(f)[i] = Commit(f[i - 1], q[i])
  BY <1>2 DEF body
<1> HIDE DEF done
<1>12. done[0] = begun /\ \A i \in 1..n : done[i] = Commit(done[i - 1], q[i])
  BY <1>10, <1>11
<1> DEFINE S == {i \in 0..n : done[i] \in R}
<1>13. 0..n \subseteq S
  <2>1. 0 \in S /\ \A i \in 1..n : i - 1 \in S => i \in S
    BY <1>2, <1>4, <1>6, <1>12
  <2> HIDE DEF S
  <2> QED
    BY <1>2, <2>1, UpTo
<1> QED
  BY <1>2, <1>5, <1>13 DEF R

\* The shop's types.
LEMMA ShapesMeanType == ShopShapes => ShopTypeOK
<1> SUFFICES ASSUME ShopShapes PROVE ShopTypeOK
  OBVIOUS
<1>1. /\ shopClock \in 0..ShopTime /\ factor \in 1000..FactorCeiling
      /\ shelf \in [Job -> Sheets \cup {Empty}]
      /\ ledger \in SUBSET Entry /\ \A e \in ledger : e.ts <= shopClock
      /\ intents \in [Job -> {Never} \cup 0..shopClock]
      /\ delivered \in [Job -> {Never} \cup 0..shopClock]
      /\ listed \in SUBSET Job /\ published \in SUBSET Job /\ Distinct(metrics)
  BY DEF ShopShapes
<1>2. \A e \in ledger : e.cents \in Nat /\ e.ts \in Nat
  BY <1>1 DEF Entry
<1>3. \A e \in ledger : e.cents \in Nat /\ e.ts \in 0..shopClock
  BY <1>1, <1>2, StorefrontAssumption
<1>4. \A i, k \in 1..Len(metrics) : metrics[i].job = metrics[k].job => i = k
  BY <1>1 DEF Distinct
<1> QED
  BY <1>1, <1>3, <1>4 DEF ShopTypeOK

\* Orders keep the floor, when they are offered and sold, and when they are done.
LEMMA SoldKeep ==
  ASSUME ShopInv
  PROVE  SoldOrdersKeepTheFloor
<1> SUFFICES ASSUME NEW j \in Known
             PROVE  /\ j \in listed \/ Status(j) \in {"awaiting_payment", "paid", "completed"} =>
                         KeepsFloor(shelf[j].order.budget, shelf[j].raw) /\ shelf[j].est >= shelf[j].raw
                    /\ HasRevenue(j) =>
                         /\ Cents(Received(j)) >= shelf[j].order.budget
                         /\ KeepsFloor(shelf[j].order.budget, Cents(Of(j, Costs)) - Requests(j))
  BY DEF SoldOrdersKeepTheFloor
<1> DEFINE s == shelf[j]
           C == CostsOf(j, ledger)  T == ToolsOf(j, ledger)  N == TokensOf(j, ledger)
<1>1. /\ s \in Sheets /\ SheetInv(s, ledger, j, j \in listed)
      /\ ledger \in SUBSET Entry /\ IsFiniteSet(ledger)
  BY DEF Known, ShopInv, ShopShapes
<1>2. Of(j, Costs) = C /\ Requests(j) = Cardinality(N) /\ Received(j) = Sales(j, ledger)
  BY DEF Of, Costs, Entries, CostsOf, Requests, Charges, TokensOf, Received, Sales
<1>3. j \in listed \/ s.status \in {"awaiting_payment", "paid", "completed"} => GoodQuote(s)
  BY <1>1 DEF SheetInv
<1>4. ASSUME HasRevenue(j) PROVE Cents(Received(j)) >= s.order.budget
  <2>1. PICK e \in Sales(j, ledger) : e.cents >= s.order.budget
    BY <1>1, <1>2, <1>4 DEF HasRevenue, SheetInv
  <2> DEFINE S == Sales(j, ledger)
  <2>2. S \in SUBSET ledger /\ Amounts(S) /\ Cents(S) \in Nat /\ e \in S /\ e.cents \in Nat
    BY <1>1, LedgerParts DEF Entry
  <2> HIDE DEF S
  <2>3. Amounts({}) /\ e \notin {}
    BY FS_EmptySet DEF Amounts
  <2>4. Cents({e}) = e.cents
    <3>1. Cents({} \cup {e}) = Cents({}) + e.cents /\ Cents({}) = 0
      BY <2>2, <2>3, CentsInsert, CentsCompare
    <3>2. {} \cup {e} = {e}
      OBVIOUS
    <3> QED
      BY <2>2, <3>1, <3>2
  <2>5. Cents({e}) <= Cents(S)
    <3>1. {e} \in SUBSET S /\ S \in SUBSET S
      BY <2>2
    <3> QED
      BY <2>2, <3>1, CentsCompare
  <2>6. s.order.budget \in Nat
    BY <1>1, SheetFields
  <2> HIDE DEF s
  <2>7. Cents(S) >= s.order.budget
    BY <2>1, <2>2, <2>4, <2>5, <2>6
  <2> QED
    BY <1>2, <2>7 DEF S
<1>5. ASSUME HasRevenue(j)
      PROVE  KeepsFloor(s.order.budget, Cents(C) - Cardinality(N))
  <2> DEFINE t == Part(s, "tools")  n == Part(s, "nvidia-nemotron")  k == Cardinality(N)
  <2>1. GoodQuote(s) /\ Thrifty(s, ledger, j)
    BY <1>1, <1>2, <1>5 DEF SheetInv, HasRevenue
  <2>2. Cents(T) <= t /\ Cents(N) <= n + k /\ \A e \in C : e.vendor \in Vendor
    BY <2>1 DEF Thrifty
  <2>3. /\ C \in SUBSET ledger /\ T \in SUBSET ledger /\ N \in SUBSET ledger /\ Amounts(ledger)
        /\ Cents(C) \in Nat /\ Cents(T) \in Nat /\ Cents(N) \in Nat /\ k \in Nat
    BY <1>1, LedgerParts
  <2>4. C = T \cup N
    BY <2>2 DEF ToolsOf, TokensOf, Vendor
  <2>5. t \in Nat /\ n \in Nat /\ Total(Breakdown(ScopeFor(s.order.asked))) = t + n
    BY <1>1, PartsMakeUp DEF Vendor
  <2>6. KeepsFloor(s.order.budget, s.raw) /\ s.raw = t + n
    BY <2>1, <2>5 DEF GoodQuote
  <2>7. s.raw \in Nat /\ s.order.budget \in Nat
    BY <1>1, SheetFields
  <2> HIDE DEF C, T, N, t, n, k, s
  <2>8. Cents(C) <= Cents(T) + Cents(N)
    BY <2>3, <2>4, CentsCompare
  <2>9. Cents(C) - k \in Int /\ Cents(C) - k <= s.raw
    BY <2>2, <2>3, <2>5, <2>6, <2>8
  <2>10. KeepsFloor(s.order.budget, Cents(C) - k)
    BY <2>6, <2>7, <2>9, CheaperKeepsFloor
  <2> QED
    BY <2>10 DEF k
<1> QED
  BY <1>2, <1>3, <1>4, <1>5 DEF GoodQuote, Status, s

\* Orders that are turned away are told a way that works.
LEMMA DeclinedNegotiate ==
  ASSUME ShopInv
  PROVE  DeclinesNegotiate
<1> SUFFICES ASSUME NEW j \in Known
             PROVE  NegotiationHolds(shelf[j].order.budget, shelf[j].order.asked, factor)
  BY DEF DeclinesNegotiate
<1>1. shelf[j] \in Sheets /\ factor \in Nat
  BY DEF Known, ShopInv, ShopShapes, FactorCeiling
<1>2. shelf[j].order.budget \in Nat /\ shelf[j].order.asked \in [Dials -> Nat]
  BY <1>1, SheetFields
<1> QED
  BY <1>1, <1>2, OffersWork

\* What a good plan runs can be funded, when the quote is the plan's estimate.
LEMMA PlannedFit ==
  ASSUME ShopInv, NEW plan \in Plans, NEW j \in plan.runs, factor = 1000,
         Status(j) = "pending_quote", ~HasRevenue(j),
         QuoteOf(shelf[j].order.budget, shelf[j].order.asked, factor).cost > 0
  PROVE  Fits(shelf[j].order.budget, QuoteOf(shelf[j].order.budget, shelf[j].order.asked, factor).cost)
<1> DEFINE b == shelf[j].order.budget  c == Estimate(j)
<1>1. plan \in GoodPlans
  BY PlansAreGood DEF ShopInv
<1>2. j \in Job /\ Estimate(j) <= SpendCapacity
  BY <1>1 DEF GoodPlans
<1>3. shelf[j] \in Sheets
  BY <1>2, OnShelf DEF ShopInv, Status
<1>5. b \in Nat /\ shelf[j].order.asked \in [Dials -> Nat]
  BY <1>3, SheetFields
<1>6. QuoteOf(b, shelf[j].order.asked, factor).cost = c /\ c \in Nat
  <2> DEFINE a == shelf[j].order.asked  k == CalibratedCost(ScopeFor(a), 1000)
  <2>1. ScopeFor(a) \in [Dials -> Nat]
    BY <1>5, ScopeForWidens DEF Scopes
  <2>2. k \in Nat
    BY <2>1, BriefCosts
  <2>3. QuoteOf(b, a, 1000).cost = k
    BY DEF QuoteOf
  <2>4. c = k
    BY DEF Estimate
  <2> HIDE DEF a, b, c, k
  <2>5. QuoteOf(b, a, factor).cost = c /\ c \in Nat
    BY <2>2, <2>3, <2>4
  <2> QED
    BY <2>5 DEF a
<1>7. /\ SpentToday \in Nat /\ Balance \in Int /\ DayBudget \in Nat /\ CashReserve \in Nat
  BY FundsType, StorefrontAssumption DEF ShopInv
<1> HIDE DEF b, c
<1>8. c > 0 /\ c <= SpendCapacity
  BY <1>2, <1>6 DEF b, c
<1>9. c <= DayBudget - SpentToday /\ c <= Balance - CashReserve
  BY <1>6, <1>7, <1>8 DEF SpendCapacity, Larger, Smaller
<1>10. Fits(b, c)
  BY <1>5, <1>6, <1>7, <1>9 DEF Fits, b
<1> QED
  BY <1>6, <1>10 DEF b

\* What is left of the estimate of a paid order can be afforded, if nobody else has
\* taken money since it was let through: the estimate was funded then.
LEMMA BlamelessAfford ==
  ASSUME ShopInv, NEW j \in Job, Status(j) = "paid", ~Refunded(j), shelf[j].cleared \in Nat,
         shelf[j].raw - Cents(Of(j, Costs)) >= 0,
         \A e \in Entries("expense") \ Of(j, ledger) : e.ts < shelf[j].cleared
  PROVE  Affordable(shelf[j].raw - Cents(Of(j, Costs)))
<1> DEFINE s == shelf[j]
           t == s.cleared
           C == CostsOf(j, ledger)
           today == {e \in Costs : e.ts >= shopClock - DayLength}
           E == Expenses(ledger)
<1>1. /\ s \in Sheets /\ SheetInv(s, ledger, j, j \in listed) /\ t <= shopClock /\ shopClock \in Nat
      /\ ledger \in SUBSET Entry /\ IsFiniteSet(ledger) /\ s.status = "paid" /\ t \in Nat
  <2>1. s \in Sheets
    BY OnShelf DEF ShopInv, Status
  <2> QED
    BY <2>1, StorefrontAssumption DEF ShopInv, ShopShapes, Status
<1>2. /\ Agreed(s) /\ GoodQuote(s) /\ Funded(s, ledger, j) /\ Sales(j, ledger) # {}
  BY <1>1 DEF SheetInv
<1>3. Of(j, Costs) = C /\ Entries("expense") = E /\ Costs = {e \in E : e.vendor # Refund}
  BY DEF Of, Costs, Entries, CostsOf, Expenses
<1>4. \A e \in E : e.ts < t \/ e \in C
  <2> SUFFICES ASSUME NEW e \in E PROVE e.ts < t \/ e \in C
    OBVIOUS
  <2>1. CASE e.job = j
    <3>1. e \in ledger /\ e.kind = "expense" /\ e.vendor # Refund
      BY <2>1 DEF Expenses, Refunded, Of, Costs, Entries
    <3> QED
      BY <2>1, <3>1 DEF CostsOf
  <2>2. CASE e.job # j
    BY <1>3, <2>2 DEF Of
  <2> QED
    BY <2>1, <2>2
<1>5. /\ E \in SUBSET ledger /\ C \in SUBSET ledger /\ ledger \ E \in SUBSET ledger
      /\ Early(ledger, t) \in SUBSET ledger /\ DayOf(ledger, t) \in SUBSET ledger
      /\ Amounts(ledger) /\ \A S \in SUBSET ledger : Cents(S) \in Nat
  BY <1>1, LedgerParts
<1>6. s.est \in Nat /\ s.raw \in Nat /\ s.order.budget \in Nat
  BY <1>1, <1>2, SheetFields DEF Agreed
<1>7. today \subseteq DayOf(ledger, t) \cup C /\ E \subseteq Early(ledger, t) \cup C
      /\ today \in SUBSET ledger
  <2>1. \A e \in ledger : e.ts \in Nat
    BY <1>1 DEF Entry
  <2>2. ASSUME NEW e \in today PROVE e \in DayOf(ledger, t) \cup C
    <3>1. e \in E /\ e.vendor # Refund /\ e.ts >= shopClock - DayLength /\ e \in ledger
      BY <1>3 DEF Expenses
    <3>2. e.ts \in Nat /\ DayLength \in Nat
      BY <2>1, <3>1, StorefrontAssumption
    <3>3. e.ts >= t - DayLength
      BY <1>1, <3>1, <3>2
    <3> QED
      BY <1>4, <3>1, <3>3 DEF DayOf
  <2>3. E \subseteq Early(ledger, t) \cup C
    BY <1>4 DEF Early
  <2>4. today \in SUBSET ledger
    BY <1>3 DEF Expenses
  <2> QED
    BY <2>2, <2>3, <2>4
<1> DEFINE day == Cents(DayOf(ledger, t))  early == Cents(Early(ledger, t))
           c == Cents(C)  spent == Cents(today)  out == Cents(E)  income == Cents(ledger \ E)
           est == s.est  raw == s.raw
<1>8. SpentToday = spent /\ Balance = income - out
  BY <1>3 DEF SpentToday, Balance
<1>9. est >= raw /\ day + est <= DayBudget /\ income - early - est >= CashReserve
  <2>2. est >= raw
    BY <1>2 DEF GoodQuote
  <2>3. /\ day + est <= DayBudget
        /\ income - early + (IF Sales(j, ledger) = {} THEN s.order.budget ELSE 0) - est >= CashReserve
    BY <1>2 DEF Funded
  <2>4. income - early + 0 - est >= CashReserve
    BY <1>2, <2>3
  <2>5. income \in Nat /\ early \in Nat
    BY <1>5
  <2>6. est \in Nat /\ CashReserve \in Nat
    BY <1>6, StorefrontAssumption
  <2> HIDE DEF s, income, early, est, raw, day, c
  <2>7. income - early - est >= CashReserve
    BY <2>4, <2>5, <2>6
  <2> QED
    BY <2>2, <2>3, <2>7
<1>10. /\ day \in Nat /\ early \in Nat /\ c \in Nat /\ spent \in Nat /\ out \in Nat /\ income \in Nat
       /\ est \in Nat /\ raw \in Nat
  BY <1>5, <1>6, <1>7
<1>11. shelf[j].raw - Cents(Of(j, Costs)) = raw - c
  BY <1>3
<1> HIDE DEF E, C, today, t
<1>12. spent <= day + c /\ out <= early + c
  <2>1. \A S, T \in SUBSET ledger : /\ S \subseteq T => Cents(S) <= Cents(T)
                                    /\ Cents(S \cup T) <= Cents(S) + Cents(T)
    BY <1>5, CentsCompare
  <2> DEFINE D == DayOf(ledger, t)  Y == Early(ledger, t)
  <2>2. D \in SUBSET ledger /\ Y \in SUBSET ledger /\ today \subseteq D \cup C /\ E \subseteq Y \cup C
    BY <1>5, <1>7
  <2> HIDE DEF D, Y
  <2>3. D \cup C \in SUBSET ledger /\ Y \cup C \in SUBSET ledger
    BY <1>5, <2>2
  <2>4. Cents(today) <= Cents(D \cup C) /\ Cents(D \cup C) <= Cents(D) + Cents(C)
    BY <1>5, <1>7, <2>1, <2>2, <2>3
  <2>5. Cents(E) <= Cents(Y \cup C) /\ Cents(Y \cup C) <= Cents(Y) + Cents(C)
    BY <1>5, <2>1, <2>2, <2>3
  <2>6. /\ Cents(D \cup C) \in Nat /\ Cents(Y \cup C) \in Nat /\ Cents(D) \in Nat /\ Cents(Y) \in Nat
        /\ Cents(C) \in Nat /\ Cents(today) \in Nat /\ Cents(E) \in Nat
    BY <1>5, <1>7, <2>2, <2>3
  <2>7. Cents(today) <= Cents(D) + Cents(C) /\ Cents(E) <= Cents(Y) + Cents(C)
    BY <2>4, <2>5, <2>6
  <2> QED
    BY <2>7 DEF D, Y
<1> HIDE DEF day, early, c, spent, out, income, est, raw
<1>13. spent + (raw - c) <= DayBudget /\ income - out - (raw - c) >= CashReserve
  BY <1>9, <1>10, <1>12, StorefrontAssumption
<1> QED
  BY <1>8, <1>11, <1>13 DEF Affordable

\* The plan holds.
LEMMA PlansHold ==
  ASSUME ShopInv
  PROVE  PlanHolds
<1>1. \A plan \in Plans : plan.committed <= SpendCapacity
  BY PlansAreGood DEF ShopInv, GoodPlans
<1>2. \A plan \in Plans : \A j \in plan.runs :
        LET o == shelf[j].order
            cost == QuoteOf(o.budget, o.asked, factor).cost
        IN  factor = 1000 /\ Status(j) = "pending_quote" /\ ~HasRevenue(j) /\ cost > 0
              => Fits(o.budget, cost)
  BY PlannedFit
<1>3. \A j \in Job :
        LET left == shelf[j].raw - Cents(Of(j, Costs))
        IN  (/\ Status(j) = "paid" /\ ~Refunded(j) /\ shelf[j].cleared \in Nat /\ left >= 0
             /\ \A e \in Entries("expense") \ Of(j, ledger) : e.ts < shelf[j].cleared)
              => Affordable(left)
  BY BlamelessAfford
<1> QED
  BY <1>1, <1>2, <1>3 DEF PlanHolds

\* What the shop agrees to pays for itself, but for the rounding of its metered
\* requests, what it turns down it negotiates on with an offer its own gate
\* accepts, and what it plans or has let through the gate and been paid for it can
\* fund: of any orders, prices, rates, bills, budgets and calibration, over
\* retries, late payments and cancellations (pricing.quote, pricing.counter_offer,
\* backlog.rank, guardrails.evaluate, spending.metered_model).
THEOREM ShopKeepsItsMargin == ShopSpec => []MarginHolds
<1>1. ShopInv => MarginHolds
  <2> SUFFICES ASSUME ShopInv PROVE MarginHolds
    OBVIOUS
  <2>1. ShopTypeOK
    BY ShapesMeanType DEF ShopInv
  <2> QED
    BY <2>1, SoldKeep, DeclinedNegotiate, PlansHold DEF MarginHolds
<1> QED
  BY <1>1, ShopStarts, ShopKeeps, PTL DEF ShopSpec

-----------------------------------------------------------------------------
(* The story of an order.                                                  *)

Single(S) == \A d, e \in S : d = e

GoodEntry(e) ==
    /\ e.kind = "capital" => e.job = House /\ e.vendor = "none"
    /\ e.kind = "revenue" => e.job \in Job /\ e.vendor = "none"
    /\ e.kind = "expense" => e.job \in Job /\ e.vendor \in Vendor \cup {Refund}

\* The entries of a job, the payment its customer made (t, at Stripe) and its sheet
\* (s) tell one story: it was paid for, once, then set to work, and if it was
\* refunded that was once and of all that was paid.
Story(s, L, t, j) ==
    /\ Single(Sales(j, L)) /\ Single(Refunds(j, L))
    /\ \A e \in Sales(j, L) : /\ t # Never /\ t <= e.ts
                              /\ s.status = "paid" => e.ts <= s.updated
    /\ \A d \in Refunds(j, L) : \E e \in Sales(j, L) : d.cents = e.cents

StoryInv ==
    /\ ledger # {} /\ \A e \in ledger : GoodEntry(e)
    /\ \A j \in Job : Story(shelf[j], ledger, intents[j], j)

\* Every story begins with nothing.
LEMMA StoriesStart == ShopInit => StoryInv
<1> SUFFICES ASSUME ShopInit PROVE StoryInv
  OBVIOUS
<1> DEFINE c == [kind |-> "capital", job |-> House, vendor |-> "none", cents |-> Seed, ts |-> 0,
                 nth |-> 0]
<1>1. ledger = {c} /\ c.kind = "capital" /\ c.job = House /\ c.vendor = "none"
  BY DEF ShopInit
<1> HIDE DEF c
<1>2. ledger # {} /\ \A e \in ledger : GoodEntry(e)
  BY <1>1 DEF GoodEntry
<1>3. ASSUME NEW j \in Job PROVE Story(shelf[j], ledger, intents[j], j)
  <2>1. Sales(j, ledger) = {} /\ Refunds(j, ledger) = {}
    BY <1>1 DEF Sales, Refunds
  <2> QED
    BY <2>1 DEF Story, Single
<1> QED
  BY <1>2, <1>3 DEF StoryInv

\* A step that adds to the story of one job.
LEMMA StoryStep ==
  ASSUME StoryInv, NEW j \in Job,
         \A k \in Job \ {j} : shelf'[k] = shelf[k] /\ intents'[k] = intents[k],
         ledger \subseteq ledger', \A e \in ledger' \ ledger : e.job = j /\ GoodEntry(e),
         Story(shelf'[j], ledger', intents'[j], j)
  PROVE  StoryInv'
<1>1. ledger' # {} /\ \A e \in ledger' : GoodEntry(e)
  BY DEF StoryInv
<1>2. ASSUME NEW k \in Job PROVE Story(shelf'[k], ledger', intents'[k], k)
  <2>1. CASE k = j
    BY <2>1
  <2>2. CASE k # j
    <3>1. Sales(k, ledger') = Sales(k, ledger) /\ Refunds(k, ledger') = Refunds(k, ledger)
      BY <2>2 DEF Sales, Refunds
    <3>2. /\ shelf'[k] = shelf[k] /\ intents'[k] = intents[k]
          /\ Story(shelf[k], ledger, intents[k], k)
      BY <2>2 DEF StoryInv
    <3> QED
      BY <3>1, <3>2 DEF Story
  <2> QED
    BY <2>1, <2>2
<1> QED
  BY <1>1, <1>2 DEF StoryInv

\* A handler writes one sheet; one that it sets to work it writes now.
LEMMA SheetTells ==
  ASSUME ShopInv, StoryInv, NEW j \in Job, NEW s, shelf' = [shelf EXCEPT ![j] = s],
         s.status = "paid" => s.updated = shopClock, UNCHANGED <<ledger, intents>>
  PROVE  StoryInv'
<1>1. /\ shelf \in [Job -> Sheets \cup {Empty}] /\ \A e \in ledger : e.ts <= shopClock
  BY DEF ShopInv, ShopShapes
<1>2. shelf'[j] = s /\ \A k \in Job \ {j} : shelf'[k] = shelf[k]
  BY <1>1
<1>3. Story(shelf[j], ledger, intents[j], j)
  BY DEF StoryInv
<1>4. \A e \in Sales(j, ledger) : e.ts <= shopClock
  BY <1>1 DEF Sales
<1>5. Story(shelf'[j], ledger', intents'[j], j)
  BY <1>2, <1>3, <1>4 DEF Story
<1> QED
  BY <1>2, <1>5, StoryStep

\* An order is screened, or screened again.
LEMMA ScreenedTells ==
  ASSUME ShopInv, StoryInv, NEW j \in Job, NEW o \in Order, Submit(j, o) \/ Rerun(j)
  PROVE  StoryInv'
<1>0. ShopShapes /\ UNCHANGED <<ledger, intents>>
  BY DEF ShopInv, Submit, Rerun
<1>1. PICK s \in Sheets : Screened(j, s)
  <2>1. CASE Submit(j, o)
    <3> DEFINE s == [status |-> "pending_quote", order |-> o, updated |-> 0, why |-> "none",
                     est |-> Never, raw |-> 0, cleared |-> Never]
    <3>1. s \in Sheets
      BY DEF Sheets, Reasons
    <3>2. Screened(j, s)
      BY <2>1 DEF Submit
    <3> HIDE DEF s
    <3> QED
      BY <3>1, <3>2
  <2>2. CASE Rerun(j)
    <3>1. shelf[j].status # "none" /\ Screened(j, shelf[j])
      BY <2>2 DEF Rerun, Status
    <3>2. shelf[j] \in Sheets
      BY <1>0, <3>1, OnShelf
    <3> QED
      BY <3>1, <3>2
  <2> QED
    BY <2>1, <2>2
<1>2. \E t \in Sheets : shelf' = [shelf EXCEPT ![j] = t] /\ t.status \in {"pending_quote", "failed"}
  BY <1>0, <1>1, ScreenedSheet
<1>3. PICK t \in Sheets : shelf' = [shelf EXCEPT ![j] = t] /\ t.status \in {"pending_quote", "failed"}
  BY <1>2
<1>4. t.status # "paid"
  BY <1>3
<1> QED
  BY <1>0, <1>3, <1>4, SheetTells

\* An order is quoted.
LEMMA QuoteTells ==
  ASSUME ShopInv, StoryInv, NEW j \in Job, Quote(j)
  PROVE  StoryInv'
<1> DEFINE q == QuoteOf(shelf[j].order.budget, shelf[j].order.asked, factor)
           quoted == [shelf[j] EXCEPT !.est = q.cost,
                                      !.raw = CalibratedCost(ScopeFor(shelf[j].order.asked), 1000)]
           turned == [quoted EXCEPT !.status = "failed", !.why = "other"]
<1>1. \/ shelf' = [shelf EXCEPT ![j] = quoted]
      \/ shelf' = [shelf EXCEPT ![j] = turned]
  BY DEF Quote
<1>2. UNCHANGED <<ledger, intents>> /\ shelf[j].status = "pending_quote"
  BY DEF Quote, Status
<1>3. shelf[j] \in Sheets
  BY <1>2, OnShelf DEF ShopInv
<1>4. quoted.status # "paid" /\ turned.status # "paid"
  <2> HIDE DEF q
  <2> QED
    BY <1>2, <1>3 DEF Sheets
<1> HIDE DEF quoted, turned
<1>5. CASE shelf' = [shelf EXCEPT ![j] = quoted]
  BY <1>2, <1>4, <1>5, SheetTells
<1>6. CASE shelf' = [shelf EXCEPT ![j] = turned]
  BY <1>2, <1>4, <1>6, SheetTells
<1> QED
  BY <1>1, <1>5, <1>6

\* A row is touched, at the gate or later.
LEMMA TouchTells ==
  ASSUME ShopInv, StoryInv, NEW j \in Job,
         \/ Gate(j) \/ Resume(j) \/ List(j) \/ TakeOn(j) \/ GiveUp(j) \/ Mail(j) \/ Complete(j)
         \/ Expire(j) \/ Cancel(j)
  PROVE  StoryInv'
<1> DEFINE States == {"pending_quote", "awaiting_payment", "paid", "completed", "failed",
                      "expired", "cancelled"}
<1>1. /\ shelf[j].status # "none" /\ UNCHANGED <<ledger, intents>>
      /\ \E st \in States, w \in Reasons, c \in Nat \cup {Never, Turned} :
           \/ shelf' = Touch(j, st)
           \/ shelf' = [Touch(j, st) EXCEPT ![j].why = w] /\ st = "failed"
           \/ shelf' = [Touch(j, st) EXCEPT ![j].why = w, ![j].cleared = c] /\ st = "failed"
           \/ shelf' = [Touch(j, st) EXCEPT ![j].cleared = c] /\ st = "awaiting_payment"
  <2>1. shelf[j].status # "none" /\ UNCHANGED <<ledger, intents>>
    BY DEF Gate, Resume, List, TakeOn, GiveUp, Mail, Complete, Expire, Cancel, Status
  <2>2. /\ shopClock \in Nat \cup {Never, Turned} /\ Turned \in Nat \cup {Never, Turned}
        /\ "other" \in Reasons
    BY StorefrontAssumption DEF ShopInv, ShopShapes, Reasons
  <2>3. CASE Gate(j)
    <3>1. \/ shelf' = [Touch(j, "awaiting_payment") EXCEPT ![j].cleared = shopClock]
          \/ shelf' = [Touch(j, "failed") EXCEPT ![j].why = "other", ![j].cleared = Turned]
      BY <2>3 DEF Gate
    <3> QED
      BY <2>1, <2>2, <3>1
  <2>4. CASE GiveUp(j)
    <3>1. shelf' = [Touch(j, "failed") EXCEPT ![j].why = "other"]
      BY <2>4 DEF GiveUp
    <3> QED
      BY <2>1, <2>2, <3>1
  <2>5. CASE \/ Resume(j) \/ List(j) \/ TakeOn(j) \/ Mail(j) \/ Complete(j) \/ Expire(j) \/ Cancel(j)
    <3>1. \E st \in States : shelf' = Touch(j, st)
      BY <2>5 DEF Resume, List, TakeOn, Mail, Complete, Expire, Cancel
    <3> QED
      BY <2>1, <2>2, <3>1
  <2> QED
    BY <2>3, <2>4, <2>5
<1>2. PICK st \in States, w \in Reasons, c \in Nat \cup {Never, Turned} :
           \/ shelf' = Touch(j, st)
           \/ shelf' = [Touch(j, st) EXCEPT ![j].why = w] /\ st = "failed"
           \/ shelf' = [Touch(j, st) EXCEPT ![j].why = w, ![j].cleared = c] /\ st = "failed"
           \/ shelf' = [Touch(j, st) EXCEPT ![j].cleared = c] /\ st = "awaiting_payment"
  BY <1>1
<1>3. ShopShapes /\ shelf[j] \in Sheets /\ shelf \in [Job -> Sheets \cup {Empty}]
  BY <1>1, OnShelf DEF ShopInv, ShopShapes
<1>4. PICK s \in Sheets : /\ Touch(j, st) = [shelf EXCEPT ![j] = s] /\ s.status = st
                          /\ st = "paid" => s.updated = shopClock
  BY <1>3, TouchIs
<1> DEFINE a == [s EXCEPT !.why = w]  b == [a EXCEPT !.cleared = c]  d == [s EXCEPT !.cleared = c]
<1>5. /\ a.status = st /\ b.status = st /\ d.status = st
  BY <1>4 DEF Sheets
<1>6. \/ shelf' = [shelf EXCEPT ![j] = s]
      \/ shelf' = [shelf EXCEPT ![j] = a] /\ st = "failed"
      \/ shelf' = [shelf EXCEPT ![j] = b] /\ st = "failed"
      \/ shelf' = [shelf EXCEPT ![j] = d] /\ st = "awaiting_payment"
  BY <1>2, <1>3, <1>4
<1> HIDE DEF a, b, d, States
<1>7. CASE shelf' = [shelf EXCEPT ![j] = s]
  BY <1>1, <1>4, <1>7, SheetTells
<1>8. CASE shelf' = [shelf EXCEPT ![j] = a] /\ st = "failed"
  <2>1. a.status # "paid"
    BY <1>5, <1>8
  <2> QED
    BY <1>1, <1>8, <2>1, SheetTells
<1>9. CASE shelf' = [shelf EXCEPT ![j] = b] /\ st = "failed"
  <2>1. b.status # "paid"
    BY <1>5, <1>9
  <2> QED
    BY <1>1, <1>9, <2>1, SheetTells
<1>10. CASE shelf' = [shelf EXCEPT ![j] = d] /\ st = "awaiting_payment"
  <2>1. d.status # "paid"
    BY <1>5, <1>10
  <2> QED
    BY <1>1, <1>10, <2>1, SheetTells
<1> QED
  BY <1>6, <1>7, <1>8, <1>9, <1>10

\* A customer pays at Stripe.
LEMMA PayTells ==
  ASSUME ShopInv, StoryInv, NEW j \in Job, Pay(j)
  PROVE  StoryInv'
<1>1. /\ intents[j] = Never /\ UNCHANGED <<shelf, ledger>>
      /\ \A k \in Job \ {j} : intents'[k] = intents[k]
  BY DEF Pay, ShopInv, ShopShapes
<1>2. Story(shelf[j], ledger, intents[j], j)
  BY DEF StoryInv
<1>3. Story(shelf'[j], ledger', intents'[j], j)
  BY <1>1, <1>2 DEF Story
<1> QED
  BY <1>1, <1>3, StoryStep

\* A job's sale, and its money back, as the ledger's operators name them.
LEMMA SaleIs ==
  ASSUME ShopInv, NEW j \in Job
  PROVE  /\ Received(j) = Sales(j, ledger) /\ (HasRevenue(j) <=> Sales(j, ledger) # {})
         /\ Refunded(j) <=> Refunds(j, ledger) # {}
         /\ \A e \in ledger : Sales(j, ledger) = {e} => Cents(Received(j)) = e.cents
<1>1. Received(j) = Sales(j, ledger) /\ (HasRevenue(j) <=> Sales(j, ledger) # {})
  BY DEF Received, HasRevenue, Of, Entries, Sales
<1>2. Refunded(j) <=> Refunds(j, ledger) # {}
  BY DEF Refunded, Of, Entries, Costs, Refunds
<1>3. ASSUME NEW e \in ledger, Sales(j, ledger) = {e} PROVE Cents(Received(j)) = e.cents
  <2>1. e.cents \in Nat /\ Amounts({}) /\ e \notin {}
    BY FS_EmptySet DEF ShopInv, ShopShapes, Entry, Amounts
  <2>2. Cents({} \cup {e}) = Cents({}) + e.cents /\ Cents({}) = 0
    BY <2>1, CentsInsert, CentsCompare
  <2>3. {} \cup {e} = {e}
    OBVIOUS
  <2> QED
    BY <1>1, <1>3, <2>1, <2>2, <2>3
<1> QED
  BY <1>1, <1>2, <1>3

\* A sale is booked, after the payment.
LEMMA BookSaleTells ==
  ASSUME ShopInv, StoryInv, NEW j \in Job, BookSale(j)
  PROVE  StoryInv'
<1>0. /\ intents[j] # Never /\ intents[j] <= shopClock /\ Sales(j, ledger) = {}
      /\ shelf[j].status # "paid" /\ Story(shelf[j], ledger, intents[j], j)
      /\ UNCHANGED <<shelf, intents>>
  <2>1. intents[j] # Never /\ ~HasRevenue(j) /\ UNCHANGED <<shelf, intents>>
    BY DEF BookSale
  <2>2. SheetInv(shelf[j], ledger, j, j \in listed) /\ Sales(j, ledger) = {}
    BY <2>1, SaleIs DEF ShopInv
  <2>3. shopClock \in Nat /\ intents[j] \in {Never} \cup 0..shopClock
    BY StorefrontAssumption DEF ShopInv, ShopShapes
  <2> QED
    BY <2>1, <2>2, <2>3 DEF SheetInv, StoryInv
<1>1. PICK e : /\ ledger' = ledger \cup {e} /\ e.kind = "revenue" /\ e.job = j /\ e.vendor = "none"
               /\ e.ts = shopClock
  <2>1. PICK tip \in Tips : Book("revenue", j, "none", shelf[j].order.budget + tip)
    BY DEF BookSale
  <2> DEFINE n == Cardinality({d \in Of(j, ledger) : d.vendor = "none"})
             e == [kind |-> "revenue", job |-> j, vendor |-> "none",
                   cents |-> shelf[j].order.budget + tip, ts |-> shopClock, nth |-> n]
  <2>2. ledger' = ledger \cup {e}
    BY <2>1 DEF Book
  <2>3. e.kind = "revenue" /\ e.job = j /\ e.vendor = "none" /\ e.ts = shopClock
    OBVIOUS
  <2> HIDE DEF e
  <2> QED
    BY <2>2, <2>3
<1>2. Sales(j, ledger') = {e} /\ Refunds(j, ledger') = Refunds(j, ledger) /\ Refunds(j, ledger) = {}
  BY <1>0, <1>1 DEF Sales, Refunds, Story
<1>3. Story(shelf'[j], ledger', intents'[j], j)
  BY <1>0, <1>1, <1>2 DEF Story, Single
<1>4. GoodEntry(e)
  BY <1>1 DEF GoodEntry
<1> QED
  BY <1>0, <1>1, <1>3, <1>4, StoryStep

\* A vendor is paid.
LEMMA SpendTells ==
  ASSUME ShopInv, StoryInv, NEW j \in Job, NEW v \in Vendor, Spend(j, v)
  PROVE  StoryInv'
<1>1. PICK e : /\ ledger' = ledger \cup {e} /\ e.kind = "expense" /\ e.job = j /\ e.vendor = v
  <2>1. PICK cents : Book("expense", j, v, cents)
    BY DEF Spend
  <2> DEFINE n == Cardinality({d \in Of(j, ledger) : d.vendor = v})
             e == [kind |-> "expense", job |-> j, vendor |-> v, cents |-> cents, ts |-> shopClock,
                   nth |-> n]
  <2>2. ledger' = ledger \cup {e} /\ e.kind = "expense" /\ e.job = j /\ e.vendor = v
    BY <2>1 DEF Book
  <2> HIDE DEF e
  <2> QED
    BY <2>2
<1>2. UNCHANGED <<shelf, intents>> /\ Story(shelf[j], ledger, intents[j], j)
  BY DEF Spend, StoryInv
<1>3. Sales(j, ledger') = Sales(j, ledger) /\ Refunds(j, ledger') = Refunds(j, ledger)
  BY <1>1 DEF Sales, Refunds, Vendor, Refund
<1>4. Story(shelf'[j], ledger', intents'[j], j)
  BY <1>2, <1>3 DEF Story
<1>5. GoodEntry(e)
  BY <1>1 DEF GoodEntry
<1> QED
  BY <1>1, <1>2, <1>4, <1>5, StoryStep

\* A customer gets the money back, all of it.
LEMMA GiveBackTells ==
  ASSUME ShopInv, StoryInv, NEW j \in Job, GiveBack(j)
  PROVE  StoryInv'
<1>0. /\ HasRevenue(j) /\ ~Refunded(j) /\ Book("expense", j, Refund, Cents(Received(j)))
      /\ UNCHANGED <<shelf, intents>> /\ Story(shelf[j], ledger, intents[j], j)
  BY DEF GiveBack, StoryInv
<1>1. PICK e : /\ ledger' = ledger \cup {e} /\ e.kind = "expense" /\ e.job = j /\ e.vendor = Refund
               /\ e.cents = Cents(Received(j))
  <2> DEFINE n == Cardinality({d \in Of(j, ledger) : d.vendor = Refund})
             c == Cents(Received(j))
             e == [kind |-> "expense", job |-> j, vendor |-> Refund, cents |-> c, ts |-> shopClock,
                   nth |-> n]
  <2>1. ledger' = ledger \cup {e} /\ e.kind = "expense" /\ e.job = j /\ e.vendor = Refund /\ e.cents = c
    BY <1>0 DEF Book
  <2> HIDE DEF e
  <2> QED
    BY <2>1
<1>2. PICK d \in ledger : Sales(j, ledger) = {d}
  <2>1. Sales(j, ledger) # {} /\ Single(Sales(j, ledger))
    BY <1>0, SaleIs DEF Story
  <2>2. PICK d \in Sales(j, ledger) : TRUE
    BY <2>1
  <2>3. Sales(j, ledger) = {d} /\ d \in ledger
    BY <2>1, <2>2 DEF Single, Sales
  <2> QED
    BY <2>3
<1>3. e.cents = d.cents
  BY <1>1, <1>2, SaleIs
<1>4. Sales(j, ledger') = {d} /\ Refunds(j, ledger') = {e}
  <2>1. Refunds(j, ledger) = {}
    BY <1>0, SaleIs
  <2>2. Refunds(j, ledger') = {e}
    BY <1>1, <2>1 DEF Refunds
  <2>3. Sales(j, ledger') = Sales(j, ledger)
    BY <1>1 DEF Sales
  <2> QED
    BY <1>2, <2>2, <2>3
<1>5. Story(shelf'[j], ledger', intents'[j], j)
  <2>1. Story(shelf[j], ledger, intents[j], j) /\ shelf' = shelf /\ intents' = intents
    BY <1>0
  <2>2. \A x \in Sales(j, ledger') : x \in Sales(j, ledger)
    BY <1>2, <1>4
  <2>3. Single(Sales(j, ledger')) /\ Single(Refunds(j, ledger'))
    BY <1>4 DEF Single
  <2>4. \A x \in Refunds(j, ledger') : \E y \in Sales(j, ledger') : x.cents = y.cents
    BY <1>3, <1>4
  <2> QED
    BY <2>1, <2>2, <2>3, <2>4 DEF Story
<1>6. GoodEntry(e)
  BY <1>1 DEF GoodEntry
<1> QED
  BY <1>0, <1>1, <1>5, <1>6, StoryStep

\* Every step goes on with one story, or with none.
LEMMA StoriesKeep == ShopInv /\ StoryInv /\ [ShopNext]_shopVars => StoryInv'
<1> SUFFICES ASSUME ShopInv, StoryInv, [ShopNext]_shopVars PROVE StoryInv'
  OBVIOUS
<1>1. CASE ShopTick \/ Restart \/ UNCHANGED shopVars \/ \E j \in Job : Publish(j)
  <2>1. UNCHANGED <<shelf, ledger, intents>>
    BY <1>1 DEF ShopTick, Restart, Publish, shopVars
  <2> QED
    BY <2>1 DEF StoryInv
<1>2. ASSUME NEW j \in Job, Rerun(j) PROVE StoryInv'
  <2>1. shelf[j] \in Sheets
    BY <1>2, OnShelf DEF Rerun, Status, ShopInv
  <2>2. PICK o \in Order : TRUE
    BY <2>1, SheetFields
  <2> QED
    BY <1>2, <2>2, ScreenedTells
<1> QED
  BY <1>1, <1>2, ScreenedTells, QuoteTells, TouchTells, PayTells, BookSaleTells, SpendTells,
     GiveBackTells DEF ShopNext

-----------------------------------------------------------------------------
(* Sums of what is on the ledger.                                          *)

\* Entries that have nothing in common add up.
LEMMA CentsApart ==
  ASSUME NEW L, Amounts(L), NEW S \in SUBSET L, NEW T \in SUBSET L, S \cap T = {}
  PROVE  Cents(S \cup T) = Cents(S) + Cents(T)
<1> DEFINE U == S \cup T
<1>1. U \in SUBSET L /\ S \in SUBSET U /\ U \ S = T
  OBVIOUS
<1> HIDE DEF U
<1>2. /\ IsFiniteSet(U) /\ Cents(U) = SumFunctionOnSet(CentsIn(L), U)
      /\ Cents(S) = SumFunctionOnSet(CentsIn(L), S) /\ Cents(T) = SumFunctionOnSet(CentsIn(L), T)
  BY <1>1, CentsIs
<1>3. \A x \in U : CentsIn(L)[x] \in Int
  BY <1>1 DEF CentsIn, Amounts
<1>4. SumFunctionOnSet(CentsIn(L), U)
        = SumFunctionOnSet(CentsIn(L), S) + SumFunctionOnSet(CentsIn(L), U \ S)
  BY <1>1, <1>2, <1>3, SumSplit
<1> QED
  BY <1>1, <1>2, <1>4 DEF U

\* Entries add up, whatever they are sorted by.
LEMMA CentsSorted ==
  ASSUME NEW L, Amounts(L), NEW S \in SUBSET L, NEW D, IsFiniteSet(D), NEW key \in [S -> D]
  PROVE  Cents(S) = SumFunctionOnSet([d \in D |-> Cents({e \in S : key[e] = d})], D)
<1> DEFINE f == CentsIn(L)
           g == [d \in D |-> SumFunctionOnSet(f, {e \in S : key[e] = d})]
           h == [d \in D |-> Cents({e \in S : key[e] = d})]
<1>1. IsFiniteSet(S) /\ Cents(S) = SumFunctionOnSet(f, S) /\ \A e \in S : f[e] \in Int
  BY CentsIs DEF CentsIn, Amounts
<1>2. SumFunctionOnSet(f, S) = SumFunctionOnSet(g, D)
  <2> HIDE DEF f
  <2> QED
    BY <1>1, SumSorted
<1>3. \A d \in D : h[d] \in Int /\ h[d] = g[d]
  <2>1. \A T \in SUBSET L : Cents(T) = SumFunctionOnSet(f, T) /\ Cents(T) \in Int
    BY CentsIs
  <2>2. \A d \in D : {e \in S : key[e] = d} \in SUBSET L
    OBVIOUS
  <2> HIDE DEF f
  <2> QED
    BY <2>1, <2>2
<1> HIDE DEF g, h
<1>4. SumFunctionOnSet(h, D) = SumFunctionOnSet(g, D)
  BY <1>3, SumEqual
<1> QED
  BY <1>1, <1>2, <1>4 DEF h

\* The signed amounts.
SignedIn(L) == [e \in L |-> Signed(e)]
Kinds == {"capital", "revenue", "expense"}
Signable(L) == Amounts(L) /\ \A e \in L : e.kind \in Kinds

\* A flow is a sum of signed amounts: what came in less what went out.
LEMMA FlowIs ==
  ASSUME NEW L, Signable(L), NEW S \in SUBSET L
  PROVE  /\ IsFiniteSet(S) /\ Flow(S) = SumFunctionOnSet(SignedIn(L), S)
         /\ Flow(S) = Cents(S \ Expenses(S)) - Cents(Expenses(S)) /\ Flow(S) \in Int
<1>1. IsFiniteSet(S) /\ Amounts(S) /\ \A e \in S : e.cents \in Nat /\ e.kind \in Kinds
  BY FS_Subset DEF Signable, Amounts
<1> DEFINE f == [e \in S |-> Signed(e)]
           a == [e \in S |-> IF e.kind = "expense" THEN 0 ELSE e.cents]
           b == [e \in S |-> IF e.kind = "expense" THEN e.cents ELSE 0]
           X == Expenses(S)
<1>2. X \in SUBSET S
  BY DEF Expenses
<1>3. /\ \A e \in S : a[e] \in Int /\ b[e] \in Int /\ f[e] = a[e] - b[e] /\ f[e] \in Int
      /\ \A e \in S : f[e] = SignedIn(L)[e]
      /\ \A e \in X : a[e] = 0 /\ b[e] = CentsIn(S)[e] /\ b[e] \in Int
      /\ \A e \in S \ X : b[e] = 0 /\ a[e] = CentsIn(S)[e] /\ a[e] \in Int
  BY <1>1 DEF Signed, Kinds, Expenses, CentsIn, SignedIn
<1>4. Flow(S) = SumFunctionOnSet(f, S)
  BY DEF Flow, SumFunction
<1> HIDE DEF f, a, b, X
<1>5. IsFiniteSet(X) /\ IsFiniteSet(S \ X)
  BY <1>1, <1>2, FS_Subset, FS_Difference
<1>6. SumFunctionOnSet(f, S) = SumFunctionOnSet(SignedIn(L), S)
  BY <1>1, <1>3, SumEqual
<1>7. SumFunctionOnSet(f, S) = SumFunctionOnSet(a, S) - SumFunctionOnSet(b, S)
  BY <1>1, <1>3, SumDifference
<1>8. /\ SumFunctionOnSet(a, S) = SumFunctionOnSet(a, X) + SumFunctionOnSet(a, S \ X)
      /\ SumFunctionOnSet(b, S) = SumFunctionOnSet(b, X) + SumFunctionOnSet(b, S \ X)
  BY <1>1, <1>2, <1>3, SumSplit
<1>9. SumFunctionOnSet(a, X) = 0 /\ SumFunctionOnSet(b, S \ X) = 0
  BY <1>3, <1>5, SumZero
<1>10. /\ SumFunctionOnSet(a, S \ X) = SumFunctionOnSet(CentsIn(S), S \ X)
       /\ SumFunctionOnSet(b, X) = SumFunctionOnSet(CentsIn(S), X)
  BY <1>3, <1>5, SumEqual
<1>11. /\ Cents(S \ X) = SumFunctionOnSet(CentsIn(S), S \ X) /\ Cents(S \ X) \in Nat
       /\ Cents(X) = SumFunctionOnSet(CentsIn(S), X) /\ Cents(X) \in Nat
  <2>1. S \ X \in SUBSET S
    OBVIOUS
  <2> QED
    BY <1>1, <1>2, <2>1, CentsIs
<1>12. Flow(S) = Cents(S \ X) - Cents(X)
  BY <1>4, <1>7, <1>8, <1>9, <1>10, <1>11
<1> QED
  BY <1>1, <1>4, <1>6, <1>11, <1>12 DEF X

\* So do flows, whatever their entries are sorted by.
LEMMA FlowSorted ==
  ASSUME NEW L, Signable(L), NEW S \in SUBSET L, NEW D, IsFiniteSet(D), NEW key \in [S -> D]
  PROVE  Flow(S) = SumFunctionOnSet([d \in D |-> Flow({e \in S : key[e] = d})], D)
<1> DEFINE f == SignedIn(L)
           g == [d \in D |-> SumFunctionOnSet(f, {e \in S : key[e] = d})]
           h == [d \in D |-> Flow({e \in S : key[e] = d})]
<1>1. IsFiniteSet(S) /\ Flow(S) = SumFunctionOnSet(f, S)
  BY FlowIs
<1>2. \A e \in S : f[e] \in Int
  BY DEF SignedIn, Signed, Signable, Amounts
<1>3. SumFunctionOnSet(f, S) = SumFunctionOnSet(g, D)
  <2> HIDE DEF f
  <2> QED
    BY <1>1, <1>2, SumSorted
<1>4. \A d \in D : h[d] \in Int /\ h[d] = g[d]
  <2>1. \A T \in SUBSET L : Flow(T) = SumFunctionOnSet(f, T) /\ Flow(T) \in Int
    BY FlowIs
  <2>2. \A d \in D : {e \in S : key[e] = d} \in SUBSET L
    OBVIOUS
  <2> HIDE DEF f
  <2> QED
    BY <2>1, <2>2
<1> HIDE DEF g, h
<1>5. SumFunctionOnSet(h, D) = SumFunctionOnSet(g, D)
  BY <1>4, SumEqual
<1> QED
  BY <1>1, <1>3, <1>5 DEF h

-----------------------------------------------------------------------------
(* What the tables have.                                                   *)

Revenue == Entries("revenue")
Outlay  == Entries("expense")
Capital == Entries("capital")
Paid    == {j \in Job : HasRevenue(j)}

\* The ledger in its parts, and whose entries they are.
LEMMA Tables ==
  ASSUME ShopInv, StoryInv
  PROVE  /\ IsFiniteSet(Known) /\ Known \subseteq Job /\ \A j \in Known : shelf[j] \in Sheets
         /\ Signable(ledger) /\ ledger # {} /\ IsFiniteSet(ledger)
         /\ \A e \in ledger : e.ts \in 0..shopClock /\ e.ts \in Nat /\ e.cents \in Nat
         /\ Revenue \in SUBSET ledger /\ Outlay \in SUBSET ledger /\ Capital \in SUBSET ledger
         /\ Expenses(ledger) = Outlay /\ ledger \ Outlay = Capital \cup Revenue
         /\ Capital \cap Revenue = {}
         /\ \A e \in Revenue \cup Outlay : e.job \in Known
         /\ \A j : Of(j, Revenue) = Sales(j, ledger)
         /\ Costs = {e \in Outlay : e.vendor # Refund} /\ \A e \in ledger : e.vendor = Refund => e \in Outlay
         /\ shopClock \in Nat
<1>1. /\ ledger \in SUBSET Entry /\ IsFiniteSet(ledger) /\ IsFiniteSet(Known) /\ shopClock \in Nat
      /\ \A e \in ledger : e.ts <= shopClock
      /\ shelf \in [Job -> Sheets \cup {Empty}]
  BY StorefrontAssumption DEF ShopInv, ShopShapes
<1>2. ledger # {} /\ \A e \in ledger : GoodEntry(e)
  BY DEF StoryInv
<1>3. \A e \in ledger : e.kind \in Kinds /\ e.ts \in Nat /\ e.cents \in Nat
  BY <1>1 DEF Entry, Kinds
<1>4. Known \subseteq Job /\ \A j \in Known : shelf[j] \in Sheets
  BY <1>1 DEF Known
<1>5. Signable(ledger)
  BY <1>1, <1>3 DEF Signable, Amounts
<1>6. \A e \in ledger : e.ts \in 0..shopClock
  BY <1>1, <1>3
<1>7. /\ Revenue \in SUBSET ledger /\ Outlay \in SUBSET ledger /\ Capital \in SUBSET ledger
      /\ Expenses(ledger) = Outlay /\ ledger \ Outlay = Capital \cup Revenue
      /\ Capital \cap Revenue = {}
  BY <1>3 DEF Revenue, Outlay, Capital, Entries, Expenses, Kinds
<1>8. ASSUME NEW e \in Revenue \cup Outlay PROVE e.job \in Known
  <2>1. e \in ledger /\ e.kind \in {"revenue", "expense"} /\ e.job \in Job
    BY <1>2, <1>8 DEF Revenue, Outlay, Entries, GoodEntry
  <2>2. /\ SheetInv(shelf[e.job], ledger, e.job, e.job \in listed)
        /\ Story(shelf[e.job], ledger, intents[e.job], e.job)
    BY <2>1 DEF ShopInv, StoryInv
  <2>3. e \in Sales(e.job, ledger) \cup CostsOf(e.job, ledger) \cup Refunds(e.job, ledger)
    BY <2>1 DEF Sales, CostsOf, Refunds
  <2>4. Sales(e.job, ledger) # {}
    BY <2>2, <2>3 DEF SheetInv, Story
  <2>5. shelf[e.job] \in Sheets
    BY <2>2, <2>4 DEF SheetInv, Agreed
  <2>6. shelf[e.job] # Empty
    BY <2>5, SheetFields
  <2> QED
    BY <2>1, <2>6 DEF Known
<1>9. \A j : Of(j, Revenue) = Sales(j, ledger)
  BY DEF Of, Revenue, Entries, Sales
<1>10. Costs = {e \in Outlay : e.vendor # Refund} /\ \A e \in ledger : e.vendor = Refund => e \in Outlay
  <2>1. \A e \in ledger : e.vendor = Refund => e.kind = "expense"
    BY <1>2, <1>3 DEF GoodEntry, Refund, Kinds
  <2> QED
    BY <2>1 DEF Costs, Outlay, Entries
<1> QED
  BY <1>1, <1>2, <1>3, <1>4, <1>5, <1>6, <1>7, <1>8, <1>9, <1>10

\* A job with revenue has one entry of it, of its price at least, which came after
\* the payment and before the job was set to work.
LEMMA PaidJobs ==
  ASSUME ShopInv, StoryInv
  PROVE  /\ Paid \subseteq Known /\ IsFiniteSet(Paid)
         /\ \A j \in Paid : \E e \in Revenue :
              /\ Of(j, Revenue) = {e} /\ e.cents >= shelf[j].order.budget /\ shelf[j].order.budget > 0
              /\ j \in listed /\ intents[j] # Never /\ intents[j] <= e.ts
              /\ shelf[j].status = "paid" => e.ts <= shelf[j].updated
         /\ \A j \in Known \ Paid : Of(j, Revenue) = {}
<1>1. ASSUME NEW j \in Paid
      PROVE  /\ j \in Known
             /\ \E e \in Revenue :
                  /\ Of(j, Revenue) = {e} /\ e.cents >= shelf[j].order.budget
                  /\ shelf[j].order.budget > 0
                  /\ j \in listed /\ intents[j] # Never /\ intents[j] <= e.ts
                  /\ shelf[j].status = "paid" => e.ts <= shelf[j].updated
  <2>1. j \in Job /\ Of(j, Revenue) # {}
    BY <1>1 DEF Paid, HasRevenue, Received, Revenue
  <2>2. PICK e : e \in Of(j, Revenue)
    BY <2>1
  <2>3. e \in Revenue /\ e.job = j /\ e \in Sales(j, ledger) /\ Of(j, Revenue) = Sales(j, ledger)
    BY <2>2, Tables DEF Of
  <2>4. /\ Story(shelf[j], ledger, intents[j], j)
        /\ SheetInv(shelf[j], ledger, j, j \in listed)
    BY <2>1 DEF StoryInv, ShopInv
  <2>5. Of(j, Revenue) = {e}
    BY <2>3, <2>4 DEF Story, Single
  <2>6. j \in Known
    BY <2>3, Tables
  <2>7. j \in listed /\ Agreed(shelf[j]) /\ e.cents >= shelf[j].order.budget
    BY <2>3, <2>4 DEF SheetInv
  <2>8. shelf[j].order.budget > 0
    <3>1. /\ shelf[j] \in Sheets /\ shelf[j].est # Never
          /\ Verdict(shelf[j].order.budget, shelf[j].est) = "accepted"
      BY <2>7 DEF Agreed
    <3>2. shelf[j].order.budget \in Nat /\ shelf[j].est \in Nat
      BY <3>1, SheetFields
    <3> QED
      BY <3>1, <3>2, AcceptedKeepsFloor
  <2> QED
    BY <2>3, <2>4, <2>5, <2>6, <2>7, <2>8 DEF Story
<1>2. Paid \subseteq Known
  BY <1>1
<1>3. \A j \in Known \ Paid : Of(j, Revenue) = {}
  BY Tables DEF Paid, HasRevenue, Received, Revenue
<1> QED
  BY <1>1, <1>2, <1>3, Tables, FS_Subset

-----------------------------------------------------------------------------
(* The reports about the past.                                             *)

\* What a part of the ledger has for the jobs makes up the part.
LEMMA CentsByJob ==
  ASSUME ShopInv, StoryInv, NEW S \in SUBSET ledger, NEW D, IsFiniteSet(D), \A e \in S : e.job \in D
  PROVE  Cents(S) = SumFunction([j \in D |-> Cents(Of(j, S))])
<1> DEFINE key == [e \in S |-> e.job]
           g == [d \in D |-> Cents({e \in S : key[e] = d})]
           h == [j \in D |-> Cents(Of(j, S))]
<1>1. Cents(S) = SumFunctionOnSet(g, D)
  <2>1. key \in [S -> D] /\ Amounts(ledger)
    BY Tables DEF Signable
  <2> HIDE DEF key
  <2> QED
    BY <2>1, CentsSorted
<1>2. g = h
  <2>1. \A j \in D : {e \in S : key[e] = j} = Of(j, S)
    BY DEF Of
  <2> HIDE DEF key
  <2> QED
    BY <2>1
<1> QED
  BY <1>1, <1>2 DEF SumFunction

\* Entries that are, job by job, one for its price or more make up the jobs' prices
\* or more.
LEMMA PricesMakeUp ==
  ASSUME ShopInv, StoryInv, NEW S \in SUBSET ledger, NEW D \in SUBSET Known,
         \A e \in S : e.job \in D,
         \A j \in D : \E e \in S : Of(j, S) = {e} /\ e.cents >= shelf[j].order.budget
  PROVE  /\ Budgets(D) <= Cents(S)
         /\ (\A e \in S : e.cents = shelf[e.job].order.budget) => Budgets(D) = Cents(S)
<1> DEFINE h == [j \in D |-> Cents(Of(j, S))]
           b == [j \in D |-> shelf[j].order.budget]
<1>1. IsFiniteSet(D)
  BY Tables, FS_Subset
<1>2. Cents(S) = SumFunctionOnSet(h, D)
  BY <1>1, CentsByJob DEF SumFunction
<1>3. ASSUME NEW j \in D
      PROVE  /\ h[j] \in Int /\ b[j] \in Int /\ b[j] <= h[j]
             /\ (\A e \in S : e.cents = shelf[e.job].order.budget) => b[j] = h[j]
  <2>1. PICK e \in S : Of(j, S) = {e} /\ e.cents >= shelf[j].order.budget
    OBVIOUS
  <2>2. e.cents \in Nat /\ e \notin {} /\ Amounts({}) /\ {} \cup {e} = {e}
    BY Tables, FS_EmptySet DEF Amounts
  <2>3. Cents({e}) = Cents({}) + e.cents /\ Cents({}) = 0
    BY <2>2, CentsInsert, CentsCompare
  <2>a. e.job = j
    BY <2>1 DEF Of
  <2>b. Cents(Of(j, S)) = e.cents
    BY <2>1, <2>2, <2>3
  <2>c. h[j] = Cents(Of(j, S)) /\ b[j] = shelf[j].order.budget
    OBVIOUS
  <2>4. h[j] = e.cents /\ b[j] = shelf[j].order.budget /\ e.job = j
    BY <2>a, <2>b, <2>c
  <2>5. b[j] \in Nat
    BY <2>4, Tables, SheetFields
  <2> HIDE DEF h, b
  <2> QED
    BY <2>1, <2>2, <2>4, <2>5
<1> HIDE DEF h, b
<1>4. SumFunctionOnSet(b, D) <= SumFunctionOnSet(h, D)
  BY <1>1, <1>3, SumMonotone
<1>5. ASSUME \A e \in S : e.cents = shelf[e.job].order.budget
      PROVE  SumFunctionOnSet(b, D) = SumFunctionOnSet(h, D)
  BY <1>1, <1>3, <1>5, SumEqual
<1>6. Budgets(D) = SumFunctionOnSet(b, D)
  BY DEF Budgets, SumFunction, b
<1> QED
  BY <1>2, <1>4, <1>5, <1>6

\* The balance and the profit, as the statements have them.
LEMMA Totals ==
  ASSUME ShopInv, StoryInv
  PROVE  /\ Cents(Revenue) \in Nat /\ Cents(Outlay) \in Nat /\ Cents(Capital) \in Nat
         /\ Balance = Cents(Capital) + Cents(Revenue) - Cents(Outlay)
         /\ Flow(ledger) = Balance
         /\ Flow(ledger \ Capital) = Cents(Revenue) - Cents(Outlay)
<1>1. /\ Signable(ledger) /\ Revenue \in SUBSET ledger /\ Outlay \in SUBSET ledger
      /\ Capital \in SUBSET ledger /\ Capital \cap Revenue = {}
      /\ ledger \ Outlay = Capital \cup Revenue /\ Expenses(ledger) = Outlay
  BY Tables
<1>2. Cents(Revenue) \in Nat /\ Cents(Outlay) \in Nat /\ Cents(Capital) \in Nat
  BY <1>1, CentsIs DEF Signable
<1>3. Cents(ledger \ Outlay) = Cents(Capital) + Cents(Revenue)
  BY <1>1, CentsApart DEF Signable
<1>4. Balance = Cents(ledger \ Outlay) - Cents(Outlay)
  BY DEF Balance, Outlay
<1>5. Flow(ledger) = Cents(ledger \ Outlay) - Cents(Outlay)
  BY <1>1, FlowIs
<1>6. Flow(ledger \ Capital) = Cents(Revenue) - Cents(Outlay)
  <2> DEFINE S == ledger \ Capital
  <2>1. S \in SUBSET ledger /\ Expenses(S) = Outlay /\ S \ Outlay = Revenue
    BY <1>1 DEF Expenses, Outlay, Capital, Revenue, Entries
  <2> HIDE DEF S
  <2>2. Flow(S) = Cents(Revenue) - Cents(Outlay)
    BY <1>1, <2>1, FlowIs
  <2> QED
    BY <2>2 DEF S
<1> QED
  BY <1>2, <1>3, <1>4, <1>5, <1>6

\* The days of the period statements, and what comes of them.
DayKey(e) == e.ts \div Span
Days == {DayKey(e) : e \in ledger}
LEMMA DaysAddUp ==
  ASSUME ShopInv, StoryInv
  PROVE  /\ DOMAIN PeriodPnl = Days /\ IsFiniteSet(Days) /\ Days # {}
         /\ \E d \in Days : PeriodPnl[d].ending = Balance /\ \A k \in Days : k <= d
         /\ SumFunction([d \in Days |-> PeriodPnl[d].net]) = Cents(Revenue) - Cents(Outlay)
<1> DEFINE key == [e \in ledger |-> DayKey(e)]
           On(d) == {e \in ledger : e.ts \div Span = d}
           flows == [d \in Days |-> Flow(On(d))]
           caps == [d \in Days |-> Cents(On(d) \cap Capital)]
           nets == [d \in Days |-> PeriodPnl[d].net]
<1>1. Signable(ledger) /\ ledger # {} /\ IsFiniteSet(ledger) /\ Capital \in SUBSET ledger
  BY Tables
<1>2. /\ Days = {key[e] : e \in ledger} /\ IsFiniteSet(Days) /\ Days # {}
      /\ key \in [ledger -> Days] /\ \A d \in Days : d \in Int
  <2>1. Days = {key[e] : e \in ledger} /\ key \in [ledger -> Days] /\ Days # {}
    BY <1>1 DEF Days
  <2>2. IsFiniteSet({key[e] : e \in ledger})
    <3> HIDE DEF key
    <3> QED
      BY <1>1, ImageIsFinite
  <2>3. \A e \in ledger : e.ts \div Span \in Int
    <3>1. \A e \in ledger : e.ts \in Nat
      BY Tables
    <3>2. \A t \in Nat : t \div Span \in Int
      BY BooksAssumption
    <3> QED
      BY <3>1, <3>2
  <2> HIDE DEF key
  <2> QED
    BY <2>1, <2>2, <2>3 DEF Days, DayKey
<1>3. /\ DOMAIN PeriodPnl = Days
      /\ \A d \in Days :
           /\ PeriodPnl[d].net = Flow(On(d)) - Cents(On(d) \cap Capital)
           /\ PeriodPnl[d].ending = SumFunction([k \in {k \in Days : k <= d} |-> Flow(On(k))])
  BY DEF PeriodPnl, Days, DayKey, Capital
<1>4. SumFunctionOnSet(flows, Days) = Balance
  <2> DEFINE g == [d \in Days |-> Flow({e \in ledger : key[e] = d})]
  <2>1. Flow(ledger) = SumFunctionOnSet(g, Days)
    <3> HIDE DEF key
    <3>1. ledger \in SUBSET ledger
      OBVIOUS
    <3> QED
      BY <1>1, <1>2, <3>1, FlowSorted
  <2>2. g = flows
    <3>1. \A d \in Days : {e \in ledger : key[e] = d} = On(d)
      BY DEF DayKey
    <3> HIDE DEF key, On
    <3> QED
      BY <3>1
  <2> HIDE DEF g, flows
  <2> QED
    BY <2>1, <2>2, Totals
<1>5. SumFunctionOnSet(caps, Days) = Cents(Capital)
  <2> DEFINE part == [e \in Capital |-> DayKey(e)]
             g == [d \in Days |-> Cents({e \in Capital : part[e] = d})]
  <2>1. part \in [Capital -> Days]
    BY <1>1 DEF Days
  <2>2. Cents(Capital) = SumFunctionOnSet(g, Days)
    <3>1. Amounts(ledger) /\ IsFiniteSet(Days) /\ Capital \in SUBSET ledger
      BY <1>1, <1>2 DEF Signable
    <3> HIDE DEF part
    <3> QED
      BY <2>1, <3>1, CentsSorted
  <2>3. g = caps
    <3>1. \A d \in Days : {e \in Capital : part[e] = d} = On(d) \cap Capital
      BY <1>1 DEF DayKey
    <3> HIDE DEF part, On
    <3> QED
      BY <3>1
  <2> HIDE DEF g, caps
  <2> QED
    BY <2>2, <2>3
<1>6. \A d \in Days : flows[d] \in Int /\ caps[d] \in Int /\ nets[d] = flows[d] - caps[d]
  <2>1. \A S \in SUBSET ledger : Flow(S) \in Int /\ Cents(S) \in Int
    <3>1. \A S \in SUBSET ledger : Flow(S) \in Int
      BY <1>1, FlowIs
    <3>2. \A S \in SUBSET ledger : Cents(S) \in Nat
      BY <1>1, CentsIs DEF Signable
    <3> QED
      BY <3>1, <3>2
  <2>2. \A d : On(d) \in SUBSET ledger /\ On(d) \cap Capital \in SUBSET ledger
    OBVIOUS
  <2> HIDE DEF On
  <2> QED
    BY <1>3, <2>1, <2>2
<1>7. SumFunction(nets) = Cents(Revenue) - Cents(Outlay)
  <2>1. SumFunction(nets) = SumFunctionOnSet(nets, Days)
    BY DEF SumFunction
  <2> HIDE DEF nets, flows, caps
  <2>2. SumFunctionOnSet(nets, Days) = SumFunctionOnSet(flows, Days) - SumFunctionOnSet(caps, Days)
    BY <1>2, <1>6, SumDifference
  <2> QED
    BY <1>4, <1>5, <2>1, <2>2, Totals
<1>8. \E d \in Days : PeriodPnl[d].ending = Balance /\ \A k \in Days : k <= d
  <2> DEFINE d == Max(Days)
  <2>1. d \in Days /\ \A k \in Days : k <= d
    BY <1>2, Extremes
  <2> HIDE DEF d
  <2>2. {k \in Days : k <= d} = Days
    BY <2>1
  <2>3. PeriodPnl[d].ending = SumFunction(flows)
    <3>1. PeriodPnl[d].ending = SumFunction([k \in {k \in Days : k <= d} |-> Flow(On(k))])
      BY <1>3, <2>1
    <3> HIDE DEF On
    <3> QED
      BY <2>2, <3>1
  <2>4. SumFunction(flows) = SumFunctionOnSet(flows, Days)
    BY DEF SumFunction
  <2> HIDE DEF flows
  <2> QED
    BY <1>4, <2>1, <2>3, <2>4
<1> QED
  BY <1>2, <1>3, <1>7, <1>8

\* The export closes on the balance and the profit, and its running balance ends there.
LEMMA ExportTies ==
  ASSUME ShopInv, StoryInv
  PROVE  LET rows == LedgerRows(0)
             sum == PeriodSummary(rows)
         IN  /\ sum.capital + sum.net = Balance /\ sum.net = Cents(Revenue) - Cents(Outlay)
             /\ \E e \in rows : BalanceAfter(e, rows) = Balance
             /\ sum.refunds + sum.cogs = Cents(Outlay)
             /\ sum.refunds = SumFunction([j \in {i \in Job : Refunded(i)} |-> Cents(Received(j))])
<1> DEFINE back == {e \in ledger : e.vendor = Refund}
           sum == PeriodSummary(ledger)
           D == {i \in Job : Refunded(i)}
           given == [j \in D |-> Cents(Received(j))]
<1>1. /\ Signable(ledger) /\ ledger # {} /\ IsFiniteSet(ledger)
      /\ \A e \in ledger : e.ts \in Nat
      /\ Revenue \in SUBSET ledger /\ Outlay \in SUBSET ledger /\ Capital \in SUBSET ledger
      /\ Costs = {e \in Outlay : e.vendor # Refund} /\ \A e \in ledger : e.vendor = Refund => e \in Outlay
  BY Tables
<1>2. LedgerRows(0) = ledger
  BY <1>1 DEF LedgerRows
<1>3. /\ ledger \cap Revenue = Revenue /\ ledger \cap Costs = Costs /\ ledger \cap Capital = Capital
      /\ back \in SUBSET ledger /\ Costs \in SUBSET ledger /\ back \cap Costs = {} /\ back \cup Costs = Outlay
  BY <1>1
<1>4. /\ sum.refunds = Cents(back) /\ sum.cogs = Cents(Costs) /\ sum.capital = Cents(Capital)
      /\ sum.net = Cents(Revenue) - Cents(back) - Cents(Costs)
  BY <1>3 DEF PeriodSummary, Revenue, Capital
<1>5. Cents(Outlay) = Cents(back) + Cents(Costs) /\ Cents(back) \in Nat /\ Cents(Costs) \in Nat
  <2>1. Amounts(ledger)
    BY <1>1 DEF Signable
  <2> HIDE DEF back
  <2>2. Cents(back \cup Costs) = Cents(back) + Cents(Costs)
    BY <1>3, <2>1, CentsApart
  <2>3. Cents(back) \in Nat /\ Cents(Costs) \in Nat
    BY <1>3, <2>1, CentsIs
  <2> QED
    BY <1>3, <2>2, <2>3
<1>6. sum.capital + sum.net = Balance /\ sum.net = Cents(Revenue) - Cents(Outlay)
  <2> HIDE DEF back, sum
  <2> QED
    BY <1>4, <1>5, Totals
<1>7. \E e \in ledger : BalanceAfter(e, ledger) = Balance
  <2> DEFINE ts == [e \in ledger |-> e.ts]
             T == {ts[e] : e \in ledger}
  <2>1. IsFiniteSet(T) /\ T # {} /\ \A t \in T : t \in Int
    <3>1. IsFiniteSet(T)
      <4> HIDE DEF ts
      <4> QED
        BY <1>1, ImageIsFinite
    <3> QED
      BY <1>1, <3>1
  <2>2. Max(T) \in T /\ \A t \in T : t <= Max(T)
    <3> HIDE DEF T
    <3> QED
      BY <2>1, Extremes
  <2>3. PICK e \in ledger : e.ts = Max(T)
    BY <2>2
  <2>4. \A d \in ledger : d.ts <= e.ts
    <3>1. \A d \in ledger : d.ts \in T
      OBVIOUS
    <3> HIDE DEF T
    <3> QED
      BY <2>2, <2>3, <3>1
  <2>5. {d \in ledger : d.ts <= e.ts} = ledger
    BY <2>4
  <2>6. BalanceAfter(e, ledger) = Flow(ledger)
    BY <2>5 DEF BalanceAfter
  <2> QED
    BY <2>6, Totals
<1>8. Cents(back) = SumFunction(given)
  <2>1. \A j \in Job : Of(j, back) = Refunds(j, ledger)
    BY <1>1 DEF Of, Refunds, Outlay, Entries
  <2>2. \A e \in back : e.job \in D
    <3>1. \A e \in back : e.job \in Known /\ Known \subseteq Job
      BY <1>1, Tables
    <3>2. \A e \in back : e.job \in Job /\ e \in Refunds(e.job, ledger)
      BY <2>1, <3>1 DEF Of
    <3> QED
      BY <3>2, SaleIs
  <2>3. IsFiniteSet(D)
    <3>1. D \subseteq Known
      <4>1. \A j \in D : \E e \in back : e.job = j
        <5>1. \A j \in D : Of(j, back) # {}
          BY <2>1, SaleIs
        <5> QED
          BY <5>1 DEF Of
      <4>2. \A e \in back : e.job \in Known
        BY <1>1, Tables
      <4> QED
        BY <4>1, <4>2
    <3> QED
      BY <3>1, Tables, FS_Subset
  <2> DEFINE h == [j \in D |-> Cents(Of(j, back))]
  <2>4. \A j \in D : h[j] \in Int /\ h[j] = given[j]
    <3> SUFFICES ASSUME NEW j \in D
                 PROVE  Cents(Of(j, back)) \in Int /\ Cents(Of(j, back)) = Cents(Received(j))
      OBVIOUS
    <3>1. /\ j \in Job /\ Story(shelf[j], ledger, intents[j], j) /\ Refunds(j, ledger) # {}
      BY SaleIs DEF StoryInv
    <3>2. PICK d \in Refunds(j, ledger) : TRUE
      BY <3>1
    <3>3. PICK e \in Sales(j, ledger) : d.cents = e.cents
      BY <3>1, <3>2 DEF Story
    <3>4. Refunds(j, ledger) = {d} /\ Sales(j, ledger) = {e} /\ d \in ledger /\ e \in ledger
      BY <3>1, <3>2, <3>3 DEF Story, Single, Refunds, Sales
    <3>5. d.cents \in Nat /\ d \notin {} /\ Amounts({}) /\ {} \cup {d} = {d}
      BY <3>4, Tables, FS_EmptySet DEF Amounts
    <3>6. Cents({d}) = Cents({}) + d.cents /\ Cents({}) = 0
      BY <3>5, CentsInsert, CentsCompare
    <3>7. Of(j, back) = {d} /\ Cents(Received(j)) = e.cents
      BY <2>1, <3>1, <3>4, SaleIs
    <3> HIDE DEF back
    <3> QED
      BY <3>3, <3>5, <3>6, <3>7
  <2>5. Cents(back) = SumFunctionOnSet(h, D)
    <3> HIDE DEF back, D
    <3> QED
      BY <1>3, <2>2, <2>3, CentsByJob DEF SumFunction
  <2>6. SumFunction(given) = SumFunctionOnSet(given, D)
    BY DEF SumFunction
  <2> HIDE DEF h, given, D, back
  <2> QED
    BY <2>3, <2>4, <2>5, <2>6, SumEqual
<1> HIDE DEF sum
<1> QED
  BY <1>2, <1>4, <1>5, <1>6, <1>7, <1>8 DEF sum

\* By vendor, by customer and by job: it is always the same money.
LEMMA VendorsAddUp ==
  ASSUME ShopInv, StoryInv
  PROVE  SumFunction(IncomeStatement.vendors) = Cents(Outlay)
<1> DEFINE key == [e \in Outlay |-> e.vendor]
           V == {e.vendor : e \in Outlay}
           g == [v \in V |-> Cents({e \in Outlay : key[e] = v})]
<1>1. Signable(ledger) /\ Outlay \in SUBSET ledger /\ IsFiniteSet(Outlay)
  BY Tables, FS_Subset
<1>2. key \in [Outlay -> V] /\ V = {key[e] : e \in Outlay}
  OBVIOUS
<1>3. IsFiniteSet(V)
  <2> HIDE DEF key, V
  <2> QED
    BY <1>1, <1>2, ImageIsFinite
<1>4. Cents(Outlay) = SumFunctionOnSet(g, V)
  <2> HIDE DEF key, V
  <2> QED
    BY <1>1, <1>2, <1>3, CentsSorted DEF Signable
<1>5. IncomeStatement.vendors = g
  <2>1. IncomeStatement.vendors = [v \in V |-> Cents({e \in Outlay : e.vendor = v})]
    BY DEF IncomeStatement, Outlay
  <2>2. \A v : {e \in Outlay : key[e] = v} = {e \in Outlay : e.vendor = v}
    OBVIOUS
  <2> HIDE DEF V, key
  <2> QED
    BY <2>1, <2>2
<1>6. SumFunction(g) = SumFunctionOnSet(g, V)
  BY DEF SumFunction
<1> HIDE DEF g
<1> QED
  BY <1>4, <1>5, <1>6

\* What is summed of each customer's jobs sums up to what is summed of the jobs.
LEMMA CustomersAddUp ==
  ASSUME ShopInv, StoryInv, NEW S \in {Revenue, Outlay}
  PROVE  SumFunction([w \in Buyers |-> SumFunction([j \in {j \in Known : shelf[j].order.who = w}
                                                       |-> Cents(Of(j, S))])]) = Cents(S)
<1> DEFINE key == [j \in Known |-> shelf[j].order.who]
           f == [j \in Known |-> Cents(Of(j, S))]
           hers(w) == {j \in Known : shelf[j].order.who = w}
           g == [w \in Buyers |-> SumFunctionOnSet(f, {j \in Known : key[j] = w})]
           h == [w \in Buyers |-> SumFunction([j \in hers(w) |-> Cents(Of(j, S))])]
<1>1. IsFiniteSet(Known) /\ Signable(ledger) /\ S \in SUBSET ledger /\ \A e \in S : e.job \in Known
  BY Tables
<1>2. Buyers = {key[j] : j \in Known} /\ key \in [Known -> Buyers]
  BY DEF Buyers
<1>3. IsFiniteSet(Buyers)
  <2> HIDE DEF key
  <2> QED
    BY <1>1, <1>2, ImageIsFinite
<1>4. \A j \in Known : f[j] \in Int
  <2>1. \A j : Of(j, S) \in SUBSET ledger
    BY <1>1 DEF Of
  <2>2. \A T \in SUBSET ledger : Cents(T) \in Int
    BY <1>1, CentsIs DEF Signable
  <2> QED
    BY <2>1, <2>2
<1>5. Cents(S) = SumFunctionOnSet(f, Known)
  BY <1>1, CentsByJob DEF SumFunction
<1>6. SumFunctionOnSet(f, Known) = SumFunctionOnSet(g, Buyers)
  <2> HIDE DEF f, key
  <2> QED
    BY <1>1, <1>2, <1>3, <1>4, SumSorted
<1>7. \A w \in Buyers : h[w] = g[w] /\ h[w] \in Int
  <2> SUFFICES ASSUME NEW w \in Buyers PROVE h[w] = g[w] /\ h[w] \in Int
    OBVIOUS
  <2> DEFINE H == hers(w)  p == [j \in H |-> Cents(Of(j, S))]
  <2>1. H = {j \in Known : key[j] = w} /\ H \subseteq Known
    OBVIOUS
  <2>2. IsFiniteSet(H)
    BY <1>1, <2>1, FS_Subset
  <2>3. \A j \in H : p[j] \in Int /\ p[j] = f[j]
    BY <1>4
  <2>4. h[w] = SumFunctionOnSet(p, H) /\ g[w] = SumFunctionOnSet(f, H)
    BY <2>1 DEF SumFunction
  <2> HIDE DEF p, f, H, h, g
  <2> QED
    BY <2>2, <2>3, <2>4, SumEqual, SumType
<1>8. SumFunction(h) = SumFunctionOnSet(h, Buyers)
  BY DEF SumFunction
<1> HIDE DEF g, h
<1>9. SumFunctionOnSet(h, Buyers) = SumFunctionOnSet(g, Buyers)
  BY <1>3, <1>7, SumEqual
<1> QED
  BY <1>5, <1>6, <1>8, <1>9 DEF h

\* So does the profit of each of a set of jobs that has all of the sales.
LEMMA JobsAddUp ==
  ASSUME ShopInv, StoryInv, NEW D \in SUBSET Known
  PROVE  /\ IsFiniteSet(D)
         /\ SumFunction([j \in D |-> JobPnl(j)])
              = SumFunction([j \in D |-> Cents(Of(j, Revenue))])
                - SumFunction([j \in D |-> Cents(Of(j, Outlay))])
         /\ SumFunction([j \in D |-> Cents(Of(j, Revenue))]) \in Nat
         /\ SumFunction([j \in D |-> Cents(Of(j, Outlay))]) \in Nat
<1> DEFINE f == [j \in D |-> Cents(Of(j, Revenue))]
           g == [j \in D |-> Cents(Of(j, Outlay))]
           h == [j \in D |-> JobPnl(j)]
<1>1. IsFiniteSet(D)
  BY Tables, FS_Subset
<1>2. \A j \in D : f[j] \in Nat /\ g[j] \in Nat /\ f[j] \in Int /\ g[j] \in Int /\ h[j] = f[j] - g[j]
  <2>1. \A j : Of(j, Revenue) \in SUBSET ledger /\ Of(j, Outlay) \in SUBSET ledger
    BY Tables DEF Of
  <2>2. \A T \in SUBSET ledger : Cents(T) \in Nat
    BY Tables, CentsIs DEF Signable
  <2> QED
    BY <2>1, <2>2 DEF JobPnl, Received, Revenue, Outlay
<1>3. /\ SumFunction(f) = SumFunctionOnSet(f, D) /\ SumFunction(g) = SumFunctionOnSet(g, D)
      /\ SumFunction(h) = SumFunctionOnSet(h, D)
  BY DEF SumFunction
<1> HIDE DEF f, g, h
<1>4. SumFunctionOnSet(h, D) = SumFunctionOnSet(f, D) - SumFunctionOnSet(g, D)
  BY <1>1, <1>2, SumDifference
<1>5. SumFunctionOnSet(f, D) \in Nat /\ SumFunctionOnSet(g, D) \in Nat
  BY <1>1, <1>2, SumNat
<1> QED
  BY <1>1, <1>3, <1>4, <1>5 DEF f, g, h

\* Treasury, income statement, days, export and customer book tie out.
LEMMA StatementsTie ==
  ASSUME ShopInv, StoryInv
  PROVE  StatementsAgree
<1> DEFINE net == Cents(Revenue) - Cents(Outlay)
           book == IncomeStatement
<1>1. book.revenue = Cents(Revenue) /\ book.net = net /\ book.balance = Balance
  BY Totals DEF IncomeStatement, Revenue, Outlay
<1>2. LET days == PeriodPnl
      IN  /\ \E d \in DOMAIN days : days[d].ending = Balance /\ \A k \in DOMAIN days : k <= d
          /\ SumFunction([d \in DOMAIN days |-> days[d].net]) = net
  BY DaysAddUp
<1>3. BookSummary.revenue = Cents(Revenue) /\ BookSummary.net = net
  <2> DEFINE hers(w) == {j \in Known : shelf[j].order.who = w}
             r == [w \in Buyers |-> SumFunction([j \in hers(w) |-> Cents(Of(j, Revenue))])]
             c == [w \in Buyers |-> SumFunction([j \in hers(w) |-> Cents(Of(j, Outlay))])]
  <2>1. \A w : CustomerRow(w).revenue = SumFunction([j \in hers(w) |-> Cents(Of(j, Revenue))])
               /\ CustomerRow(w).cogs = SumFunction([j \in hers(w) |-> Cents(Of(j, Outlay))])
    BY DEF CustomerRow, Revenue, Outlay
  <2>2. SumFunction(r) = Cents(Revenue) /\ SumFunction(c) = Cents(Outlay)
    BY CustomersAddUp
  <2>3. [w \in Buyers |-> CustomerRow(w).revenue] = r /\ [w \in Buyers |-> CustomerRow(w).cogs] = c
    <3> HIDE DEF hers
    <3> QED
      BY <2>1
  <2> HIDE DEF r, c
  <2> QED
    BY <2>2, <2>3 DEF BookSummary
<1>4. SumFunction([j \in Known |-> JobPnl(j)]) = net
  <2>1. Known \in SUBSET Known
    OBVIOUS
  <2>2. /\ SumFunction([j \in Known |-> Cents(Of(j, Revenue))]) = Cents(Revenue)
        /\ SumFunction([j \in Known |-> Cents(Of(j, Outlay))]) = Cents(Outlay)
    BY CentsByJob, Tables
  <2> QED
    BY <2>1, <2>2, JobsAddUp
<1>5. LET rows == LedgerRows(0)
          sum == PeriodSummary(rows)
      IN  /\ sum.capital + sum.net = Balance /\ sum.net = net
          /\ \E e \in rows : BalanceAfter(e, rows) = Balance
          /\ sum.refunds + sum.cogs = Cents(Outlay)
          /\ sum.refunds = SumFunction([j \in {i \in Job : Refunded(i)} |-> Cents(Received(j))])
  BY ExportTies
<1>6. SumFunction(book.vendors) = Cents(Outlay)
  BY VendorsAddUp
<1> HIDE DEF net, book
<1> QED
  BY <1>1, <1>2, <1>3, <1>4, <1>5, <1>6 DEF StatementsAgree, book

-----------------------------------------------------------------------------
(* The promised turnaround.                                                *)

\* When a job was paid.
LEMMA PaidAtIs ==
  ASSUME NEW j, NEW e, Of(j, Revenue) = {e}, e.ts \in Int
  PROVE  PaidAt(j) = e.ts
<1> DEFINE T == {d.ts : d \in Of(j, Revenue)}
<1>1. T = {e.ts} /\ PaidAt(j) = Min(T)
  BY DEF PaidAt, Revenue
<1> HIDE DEF T
<1>2. IsFiniteSet(T) /\ T # {} /\ \A t \in T : t \in Int
  BY <1>1, FS_Singleton
<1>3. Min(T) \in T
  BY <1>2, Extremes
<1> QED
  BY <1>1, <1>3

\* Rounding keeps the order.
LEMMA RoundMonotone ==
  ASSUME NEW m \in Int, NEW n \in Int, m <= n, NEW d \in Nat, d # 0
  PROVE  Round(m, d) <= Round(n, d)
<1> DEFINE a == Round(m, d)  b == Round(n, d)
<1>1. /\ a \in Int /\ b \in Int /\ 2 * (d * a) <= 2 * m + d /\ 2 * n <= 2 * (d * b) + d
  BY RoundBounds
<1>2. CASE m = n
  BY <1>1, <1>2
<1>3. CASE m < n
  <2> HIDE DEF a, b
  <2> SUFFICES ASSUME a >= b + 1 PROVE FALSE
    BY <1>1 DEF a, b
  <2>1. d * a >= d * (b + 1) /\ d * (b + 1) = d * b + d
    BY <1>1
  <2> QED
    BY <1>1, <1>3, <2>1
<1> QED
  BY <1>2, <1>3

\* A job's wait, and the jobs that waited less than some time, or no more.
Waits(j) == delivered[j] - PaidAt(j)
Within(w) == {j \in Measured : Waits(j) <= w}
Below(w) == {j \in Measured : Waits(j) < w}

\* Of finitely many waits, one stands at each place of their order.
LEMMA PlaceTaken ==
  ASSUME IsFiniteSet(Measured), \A j \in Measured : Waits(j) \in Int,
         NEW k \in Nat, k < Cardinality(Measured)
  PROVE  \E w \in {Waits(j) : j \in Measured} :
           Cardinality(Below(w)) <= k /\ k < Cardinality(Within(w))
<1> DEFINE wait == [j \in Measured |-> Waits(j)]
           W == {wait[j] : j \in Measured}
           Enough == {w \in W : k < Cardinality(Within(w))}
<1>1. /\ IsFiniteSet(W) /\ W = {Waits(j) : j \in Measured} /\ \A w \in W : w \in Int
      /\ \A j \in Measured : Waits(j) \in W
  <2>1. IsFiniteSet(W)
    <3> HIDE DEF wait
    <3> QED
      BY ImageIsFinite
  <2> QED
    BY <2>1
<1> HIDE DEF wait, W
<1>2. W # {}
  <2>1. Measured # {}
    BY FS_EmptySet
  <2> QED
    BY <1>1, <2>1
<1>3. Enough # {}
  <2>1. Max(W) \in W /\ \A w \in W : w <= Max(W)
    BY <1>1, <1>2, Extremes
  <2>2. Within(Max(W)) = Measured
    BY <1>1, <2>1 DEF Within
  <2> QED
    BY <2>1, <2>2
<1>4. IsFiniteSet(Enough) /\ \A w \in Enough : w \in Int /\ w \in W /\ k < Cardinality(Within(w))
  BY <1>1, FS_Subset
<1>5. \A w \in W : k < Cardinality(Within(w)) => w \in Enough
  OBVIOUS
<1> HIDE DEF Enough
<1> DEFINE m == Min(Enough)
<1>6. m \in Enough /\ \A w \in Enough : m <= w
  BY <1>3, <1>4, Extremes
<1> HIDE DEF m
<1>7. m \in Int /\ m \in W
  BY <1>4, <1>6
<1>8. Cardinality(Below(m)) <= k
  <2>1. CASE Below(m) = {}
    BY <2>1, FS_EmptySet
  <2>2. CASE Below(m) # {}
    <3> DEFINE L == {w \in W : w < m}
    <3>1. IsFiniteSet(L) /\ L # {} /\ \A w \in L : w \in Int
      BY <1>1, <2>2, FS_Subset DEF Below
    <3> DEFINE p == Max(L)
    <3>2. p \in L /\ \A w \in L : w <= p
      <4> HIDE DEF L
      <4> QED
        BY <3>1, Extremes
    <3> HIDE DEF p
    <3>3. p \in W /\ p \in Int /\ p < m
      BY <1>1, <3>2
    <3>4. Below(m) = Within(p)
      <4>1. \A j \in Measured : Waits(j) < m => Waits(j) <= p
        BY <1>1, <3>2
      <4>2. \A j \in Measured : Waits(j) <= p => Waits(j) < m
        BY <1>7, <3>3
      <4> QED
        BY <4>1, <4>2 DEF Below, Within
    <3>5. ~(k < Cardinality(Within(p)))
      BY <1>5, <1>6, <1>7, <3>3
    <3>6. Cardinality(Within(p)) \in Nat
      BY FS_Subset, FS_CardinalityType DEF Within
    <3> QED
      BY <3>4, <3>5, <3>6
  <2> QED
    BY <2>1, <2>2
<1> QED
  BY <1>1, <1>4, <1>6, <1>8

\* A percentile is a wait, and a higher one is no shorter.
LEMMA Percentiles ==
  ASSUME ShopInv, StoryInv, HasHistory
  PROVE  Percentile(90) \in Nat /\ Percentile(95) \in Nat /\ Percentile(90) <= Percentile(95)
<1> DEFINE n == Cardinality(Measured)
           W == {Waits(j) : j \in Measured}
           At(h) == Round((n - 1) * h, 100)
           Right(h, w) == Cardinality(Below(w)) <= At(h) /\ At(h) < Cardinality(Within(w))
<1>1. IsFiniteSet(Measured) /\ n \in Nat /\ n >= 1
  <2>1. Measured \subseteq Paid
    BY DEF Measured, Paid
  <2>2. IsFiniteSet(Measured) /\ n \in Nat
    BY <2>1, PaidJobs, FS_Subset, FS_CardinalityType
  <2> QED
    BY <2>2, BooksAssumption DEF HasHistory
<1>2. \A j \in Measured : Waits(j) \in Nat /\ Waits(j) \in Int
  <2> SUFFICES ASSUME NEW j \in Measured PROVE Waits(j) \in Nat
    OBVIOUS
  <2>1. j \in Paid /\ delivered[j] # Never /\ delivered[j] >= PaidAt(j)
    BY DEF Measured, Paid
  <2>2. PICK e \in Revenue : Of(j, Revenue) = {e}
    BY <2>1, PaidJobs
  <2>3. e.ts \in Nat
    BY <2>2, Tables
  <2>4. PaidAt(j) = e.ts
    BY <2>2, <2>3, PaidAtIs
  <2>5. delivered[j] \in {Never} \cup 0..shopClock /\ shopClock \in Nat
    BY <2>1, Tables DEF ShopInv, ShopShapes, Paid
  <2>6. delivered[j] \in Nat
    BY <2>1, <2>5
  <2> QED
    BY <2>1, <2>3, <2>4, <2>6 DEF Waits
<1>3. \A h : Percentile(h) = CHOOSE w \in W : Right(h, w)
  BY DEF Percentile, Waits, Below, Within
<1>4. At(90) \in Nat /\ At(95) \in Nat /\ At(90) < n /\ At(95) < n /\ At(90) <= At(95)
  <2> DEFINE a == (n - 1) * 90  b == (n - 1) * 95
  <2>1. a \in Int /\ b \in Int /\ a >= 0 /\ b >= 0 /\ a <= b /\ a <= 100 * (n - 1) /\ b <= 100 * (n - 1)
    BY <1>1
  <2> HIDE DEF a, b
  <2>2. /\ Round(a, 100) \in Int /\ 2 * (100 * Round(a, 100)) <= 2 * a + 100
        /\ Round(b, 100) \in Int /\ 2 * (100 * Round(b, 100)) <= 2 * b + 100
    BY <2>1, RoundBounds
  <2>3. Round(a, 100) >= 0 /\ Round(b, 100) >= 0
    BY <2>1, RoundAtLeast
  <2>4. Round(a, 100) <= Round(b, 100)
    BY <2>1, RoundMonotone
  <2>5. Round(a, 100) < n /\ Round(b, 100) < n
    BY <1>1, <2>1, <2>2
  <2>6. At(90) = Round(a, 100) /\ At(95) = Round(b, 100)
    BY DEF a, b
  <2> HIDE DEF At, n
  <2> QED
    BY <2>2, <2>3, <2>4, <2>5, <2>6
<1>5. ASSUME NEW h, At(h) \in Nat, At(h) < n
      PROVE  Percentile(h) \in W /\ Right(h, Percentile(h))
  <2>1. \E w \in W : Right(h, w)
    <3> DEFINE k == At(h)
    <3>1. k \in Nat /\ k < Cardinality(Measured)
      BY <1>5
    <3> HIDE DEF k
    <3>2. \E w \in W : Cardinality(Below(w)) <= k /\ k < Cardinality(Within(w))
      BY <1>1, <1>2, <3>1, PlaceTaken
    <3> QED
      BY <3>2 DEF k
  <2> HIDE DEF Right, W
  <2> QED
    BY <1>3, <2>1
<1> DEFINE p == Percentile(90)  q == Percentile(95)
<1>6. p \in W /\ q \in W /\ Right(90, p) /\ Right(95, q)
  BY <1>4, <1>5
<1>7. p \in Nat /\ q \in Nat
  BY <1>2, <1>6
<1> HIDE DEF p, q, At, W
<1>8. p <= q
  <2> SUFFICES ASSUME q < p PROVE FALSE
    BY <1>7
  <2>1. Within(q) \subseteq Below(p) /\ IsFiniteSet(Below(p)) /\ IsFiniteSet(Within(q))
    <3>1. \A j \in Measured : Waits(j) <= q => Waits(j) < p
      BY <1>2, <1>7
    <3>2. Within(q) \subseteq Below(p)
      BY <3>1 DEF Within, Below
    <3> QED
      BY <1>1, <3>2, FS_Subset DEF Below, Within
  <2>2. /\ Cardinality(Within(q)) <= Cardinality(Below(p))
        /\ Cardinality(Within(q)) \in Nat /\ Cardinality(Below(p)) \in Nat
    BY <2>1, FS_Subset, FS_CardinalityType
  <2> QED
    BY <1>4, <1>6, <2>2
<1> QED
  BY <1>7, <1>8 DEF p, q

\* Nobody is paged within the promise.
LEMMA PromisesKept ==
  ASSUME ShopInv, StoryInv
  PROVE  PromisesAgree
<1> SUFFICES ASSUME NEW j \in StuckJobs, HasHistory
             PROVE  shopClock - PaidAt(j) >= PromiseSeconds /\ LateThreshold >= PromiseSeconds
  BY DEF PromisesAgree
<1> DEFINE p == Percentile(90)  q == Percentile(95)
<1>1. p \in Nat /\ q \in Nat /\ p <= q
  BY Percentiles
<1>2. LateThreshold = Larger(2 * q, FloorWait) /\ PromiseSeconds = Larger(p, FloorWait)
  BY DEF LateThreshold, PromiseSeconds
<1> HIDE DEF p, q
<1>3. LateThreshold \in Nat /\ PromiseSeconds \in Nat /\ LateThreshold >= PromiseSeconds
  BY <1>1, <1>2, BooksAssumption DEF Larger
<1>4. /\ j \in Job /\ shelf[j].status = "paid"
      /\ shopClock - shelf[j].updated >= IF LateThreshold > 0 THEN LateThreshold ELSE StuckWarn
  BY DEF StuckJobs, Status
<1>5. j \in Paid
  <2>1. SheetInv(shelf[j], ledger, j, j \in listed)
    BY <1>4 DEF ShopInv
  <2> QED
    BY <1>4, <2>1, SaleIs DEF SheetInv, Paid
<1>6. PICK e \in Revenue : Of(j, Revenue) = {e} /\ e.ts <= shelf[j].updated
  BY <1>4, <1>5, PaidJobs
<1>7. e.ts \in Nat /\ PaidAt(j) = e.ts /\ shopClock \in Nat
  <2>1. e.ts \in Nat /\ shopClock \in Nat
    BY <1>6, Tables
  <2> QED
    BY <1>6, <2>1, PaidAtIs
<1>8. shelf[j].updated \in Nat
  BY <1>5, PaidJobs, Tables, SheetFields
<1>9. shopClock - PaidAt(j) >= IF LateThreshold > 0 THEN LateThreshold ELSE StuckWarn
  BY <1>3, <1>4, <1>6, <1>7, <1>8, BooksAssumption
<1> QED
  BY <1>3, <1>7, <1>9, BooksAssumption

-----------------------------------------------------------------------------
(* The reconciliation.                                                     *)

\* Every payment is booked once, after it was made.
LEMMA DriftTells ==
  ASSUME ShopInv, StoryInv
  PROVE  DriftIsReal
<1>1. \A j \in Paid : Cardinality(Of(j, Revenue)) = 1
  <2>1. \A j \in Paid : \E e : Of(j, Revenue) = {e}
    BY PaidJobs
  <2> QED
    BY <2>1, FS_Singleton
<1>2. Duplicates = {}
  <2>1. \A j \in Job : Cardinality(Of(j, Revenue)) \in {0, 1}
    <3> TAKE j \in Job
    <3>1. CASE j \in Paid
      BY <1>1, <3>1
    <3>2. CASE j \notin Paid
      <4>1. Of(j, Revenue) = {}
        BY <3>2 DEF Paid, HasRevenue, Received, Revenue
      <4> QED
        BY <4>1, FS_EmptySet
    <3> QED
      BY <3>1, <3>2
  <2> QED
    BY <2>1 DEF Duplicates, Revenue
<1>3. Since \in Int
  BY Tables, BooksAssumption DEF Since
<1>4. \A j \in Job : intents[j] \in Int /\ Never \in Int
  <2>1. intents \in [Job -> {Never} \cup 0..shopClock] /\ shopClock \in Nat
    BY Tables DEF ShopInv, ShopShapes
  <2> QED
    BY <2>1 DEF Never
<1>5. ASSUME NEW j \in Paid
      PROVE  /\ j \in Job /\ intents[j] # Never /\ PaidAt(j) \in Int /\ intents[j] <= PaidAt(j)
             /\ j \in InLedger <=> PaidAt(j) >= Since
  <2>1. PICK e \in Revenue : Of(j, Revenue) = {e} /\ intents[j] # Never /\ intents[j] <= e.ts
    BY PaidJobs
  <2>2. e.ts \in Nat
    BY Tables
  <2>3. PaidAt(j) = e.ts
    BY <2>1, <2>2, PaidAtIs
  <2>4. j \in Job
    BY DEF Paid
  <2> QED
    BY <2>1, <2>2, <2>3, <2>4 DEF InLedger, Revenue
<1>6. InLedger \subseteq Paid /\ AtStripe = {j \in Job : intents[j] # Never /\ intents[j] >= Since}
  BY DEF InLedger, Paid, HasRevenue, Received, Revenue, AtStripe
<1>7. ~DriftFound => \A j \in AtStripe : Cardinality(Of(j, Revenue)) = 1
  BY <1>1, <1>6 DEF DriftFound
<1>8. ASSUME DriftFound
      PROVE  \E j \in Job : /\ intents[j] # Never
                            /\ \/ ~HasRevenue(j)
                               \/ intents[j] < Since /\ PaidAt(j) >= Since
  <2>1. AtStripe # InLedger
    BY <1>2, <1>8 DEF DriftFound
  <2>2. CASE \E j \in AtStripe : j \notin InLedger
    <3>1. PICK j \in AtStripe : j \notin InLedger
      BY <2>2
    <3>2. j \in Job /\ intents[j] # Never /\ intents[j] >= Since
      BY <1>6, <3>1
    <3>3. j \notin Paid
      BY <1>3, <1>4, <1>5, <3>1, <3>2
    <3> QED
      BY <3>2, <3>3 DEF Paid
  <2>3. CASE \E j \in InLedger : j \notin AtStripe
    <3>1. PICK j \in InLedger : j \notin AtStripe
      BY <2>3
    <3>2. j \in Paid
      BY <1>6, <3>1
    <3>3. j \in Job /\ intents[j] # Never /\ PaidAt(j) >= Since
      BY <1>5, <3>1, <3>2
    <3>4. intents[j] < Since
      BY <1>3, <1>4, <1>6, <3>1, <3>3
    <3> QED
      BY <3>3, <3>4
  <2> QED
    BY <2>1, <2>2, <2>3
<1> QED
  BY <1>7, <1>8 DEF DriftIsReal, Revenue

-----------------------------------------------------------------------------
(* The funnel.                                                             *)

\* Those left when some are taken out.
LEMMA LeftOver ==
  ASSUME NEW S, IsFiniteSet(S), NEW T \in SUBSET S
  PROVE  /\ IsFiniteSet(S \ T) /\ Cardinality(T) \in Nat
         /\ Cardinality(S \ T) = Cardinality(S) - Cardinality(T)
         /\ Cardinality(S \ T) \in Nat /\ Cardinality(T) <= Cardinality(S)
<1>1. IsFiniteSet(T) /\ S \cap T = T
  BY FS_Subset
<1>2. IsFiniteSet(S \ T) /\ Cardinality(S \ T) = Cardinality(S) - Cardinality(T)
  BY <1>1, FS_Difference
<1>3. Cardinality(T) <= Cardinality(S)
  BY FS_Subset
<1> QED
  BY <1>1, <1>2, <1>3, FS_CardinalityType

\* Two sets together are no larger than their sizes.
LEMMA JoinedSize ==
  ASSUME NEW S, IsFiniteSet(S), NEW T, IsFiniteSet(T)
  PROVE  /\ IsFiniteSet(S \cup T) /\ Cardinality(S \cup T) \in Nat
         /\ Cardinality(S \cup T) <= Cardinality(S) + Cardinality(T)
<1>1. /\ IsFiniteSet(S \cup T)
      /\ Cardinality(S \cup T) = Cardinality(S) + Cardinality(T) - Cardinality(S \cap T)
  BY FS_Union
<1>2. IsFiniteSet(S \cap T)
  BY FS_Subset
<1>3. /\ Cardinality(S) \in Nat /\ Cardinality(T) \in Nat /\ Cardinality(S \cap T) \in Nat
      /\ Cardinality(S \cup T) \in Nat
  BY <1>1, <1>2, FS_CardinalityType
<1> QED
  BY <1>1, <1>3

\* The outcome of an order: paid in one way or another just when the ledger says
\* so; before checkout only if it is not listed, or has been turned away since; and
\* at checkout or after it when it is listed, or was cancelled, or waits.
LEMMA OutcomeIs ==
  ASSUME ShopInv, StoryInv, NEW j \in Known
  PROVE  /\ Classify(j) \in {"delivered", "paid", "refunded"} <=> j \in Paid
         /\ Classify(j) \in {"screened", "rejected", "declined", "open"} =>
              j \notin Paid /\ (j \in listed => Status(j) = "failed")
         /\ \/ Classify(j) \in {"screened", "rejected", "declined", "open", "cancelled"}
            \/ j \in listed \/ Status(j) = "awaiting_payment"
<1> DEFINE s == shelf[j]
<1>1. /\ j \in Job /\ s \in Sheets
      /\ s.status \in {"pending_quote", "awaiting_payment", "paid", "completed", "failed",
                       "expired", "cancelled"}
  BY Tables, SheetFields
<1>2. /\ HasRevenue(j) => j \in listed
      /\ s.status \in {"paid", "completed"} => HasRevenue(j)
      /\ s.status = "expired" => j \in listed
  <2>1. SheetInv(s, ledger, j, j \in listed)
    BY <1>1 DEF ShopInv
  <2>2. HasRevenue(j) <=> Sales(j, ledger) # {}
    BY <1>1, SaleIs
  <2> HIDE DEF s
  <2> QED
    BY <2>1, <2>2 DEF SheetInv
<1>3. j \in Paid <=> HasRevenue(j)
  BY <1>1 DEF Paid
<1>4. Status(j) = s.status
  BY DEF Status
<1> HIDE DEF s
<1>5. CASE HasRevenue(j)
  <2>1. Classify(j) = IF s.status = "completed" THEN "delivered"
                      ELSE IF s.status = "failed" THEN "refunded" ELSE "paid"
    BY <1>4, <1>5 DEF Classify
  <2> QED
    BY <1>2, <1>3, <1>5, <2>1
<1>6. CASE ~HasRevenue(j)
  <2>1. CASE s.status = "expired"
    <3>1. Classify(j) = "abandoned"
      BY <1>4, <1>6, <2>1 DEF Classify
    <3> QED
      BY <1>2, <1>3, <1>6, <2>1, <3>1
  <2>2. CASE s.status = "cancelled"
    <3>1. Classify(j) = "cancelled"
      BY <1>4, <1>6, <2>2 DEF Classify
    <3> QED
      BY <1>3, <1>6, <3>1
  <2>3. CASE s.status = "failed"
    <3>1. Classify(j) \in {"screened", "rejected", "declined"}
      BY <1>4, <1>6, <2>3 DEF Classify
    <3> QED
      BY <1>3, <1>4, <1>6, <2>3, <3>1
  <2>4. CASE s.status \in {"pending_quote", "awaiting_payment"}
    <3>1. Classify(j) = IF j \in listed \/ s.status = "awaiting_payment"
                        THEN "awaiting_payment" ELSE "open"
      BY <1>4, <1>6, <2>4 DEF Classify
    <3> QED
      BY <1>3, <1>4, <1>6, <3>1
  <2> QED
    BY <1>1, <1>2, <1>6, <2>1, <2>2, <2>3, <2>4
<1> QED
  BY <1>5, <1>6

\* What the paid jobs were to cost their customers is the revenue, or less.
LEMMA WonAndLost ==
  ASSUME ShopInv, StoryInv
  PROVE  /\ Outcomes({"paid", "delivered", "refunded"}) = Paid
         /\ Outcomes({"delivered", "paid", "refunded"}) = Paid
         /\ Won + Budgets(Outcomes({"refunded"})) <= Cents(Revenue)
         /\ (\A e \in Revenue : e.cents = shelf[e.job].order.budget) =>
              Won + Budgets(Outcomes({"refunded"})) = Cents(Revenue)
<1> DEFINE A == Outcomes({"delivered", "paid"})  B == Outcomes({"refunded"})
           Price(S) == [j \in S |-> shelf[j].order.budget]
           b == Price(Paid)
<1>1. /\ Outcomes({"paid", "delivered", "refunded"}) = Paid
      /\ Outcomes({"delivered", "paid", "refunded"}) = Paid
      /\ A \in SUBSET Paid /\ B = Paid \ A
  <2>1. Paid \subseteq Known
    BY PaidJobs
  <2> QED
    BY <2>1, OutcomeIs DEF Outcomes
<1>2. /\ Budgets(Paid) <= Cents(Revenue)
      /\ (\A e \in Revenue : e.cents = shelf[e.job].order.budget) => Budgets(Paid) = Cents(Revenue)
  <2>1. Paid \in SUBSET Known /\ Revenue \in SUBSET ledger
    BY PaidJobs, Tables
  <2>2. \A e \in Revenue : e.job \in Paid
    <3> SUFFICES ASSUME NEW e \in Revenue PROVE e.job \in Paid
      OBVIOUS
    <3>1. e \in Of(e.job, Revenue) /\ e.job \in Known
      BY Tables DEF Of
    <3> QED
      BY <3>1, PaidJobs
  <2>3. \A j \in Paid : \E e \in Revenue : Of(j, Revenue) = {e} /\ e.cents >= shelf[j].order.budget
    BY PaidJobs
  <2> QED
    BY <2>1, <2>2, <2>3, PricesMakeUp
<1>3. IsFiniteSet(Paid) /\ \A j \in Paid : shelf[j].order.budget \in Int
  <2>1. \A j \in Paid : shelf[j].order.budget \in Nat
    BY PaidJobs, Tables, SheetFields
  <2> QED
    BY <2>1, PaidJobs
<1>4. ASSUME NEW S \in SUBSET Paid PROVE Budgets(S) = SumFunctionOnSet(b, S)
  <2> DEFINE f == Price(S)
  <2>1. \A j \in S : f[j] \in Int /\ f[j] = b[j]
    BY <1>3
  <2>2. IsFiniteSet(S)
    BY <1>3, FS_Subset
  <2>3. Budgets(S) = SumFunctionOnSet(f, S)
    BY DEF Budgets, SumFunction
  <2> HIDE DEF f, b
  <2> QED
    BY <2>1, <2>2, <2>3, SumEqual
<1>5. \A j \in Paid : b[j] \in Int
  BY <1>3
<1> HIDE DEF A, B, b
<1>6. SumFunctionOnSet(b, Paid) = SumFunctionOnSet(b, A) + SumFunctionOnSet(b, B)
  BY <1>1, <1>3, <1>5, SumSplit
<1>7. Won = Budgets(A) /\ A \in SUBSET Paid /\ B \in SUBSET Paid /\ Paid \in SUBSET Paid
  BY <1>1 DEF Won, A
<1>8. Won + Budgets(B) = Budgets(Paid)
  BY <1>4, <1>6, <1>7
<1> QED
  BY <1>1, <1>2, <1>8 DEF B

\* The funnel counts what the ledger and the checkout rows have.
LEMMA FunnelTells ==
  ASSUME ShopInv, StoryInv
  PROVE  FunnelAgrees
<1> DEFINE A == Outcomes({"screened", "rejected"})
           B == Outcomes({"declined"})
           C == Outcomes({"open"})
           X == Outcomes({"cancelled"})
           f == Funnel
           K == Known
           E == ((K \ A) \ B) \ C
           W == {j \in Job : Status(j) = "awaiting_payment"} \ listed
           G == {j \in listed : HasRevenue(j) \/ Status(j) # "failed"}
<1>1. /\ f.accepted = (Cardinality(K) - Cardinality(A)) - Cardinality(B)
      /\ f.checkout = ((Cardinality(K) - Cardinality(A)) - Cardinality(B)) - Cardinality(C)
      /\ f.paid = Cardinality(Outcomes({"paid", "delivered", "refunded"}))
  BY DEF Funnel, Count
<1>2. IsFiniteSet(K) /\ A \in SUBSET K /\ B \in SUBSET (K \ A) /\ C \in SUBSET ((K \ A) \ B) /\ X \in SUBSET K
  BY Tables DEF Outcomes
<1>3. Paid \subseteq E /\ G \subseteq E /\ E \subseteq (listed \cup X) \cup W /\ listed \cup W \subseteq K
  <2>1. Paid \subseteq K
    BY PaidJobs
  <2>2. listed \subseteq K /\ W \subseteq K
    <3>1. \A j \in listed : j \in Job /\ shelf[j] # Empty
      <4>1. \A j \in listed : j \in Job /\ shelf[j] \in Sheets
        BY DEF ShopInv, ShopShapes, SheetInv, Agreed
      <4> QED
        BY <4>1, SheetFields
    <3>2. \A j \in W : j \in Job /\ shelf[j] # Empty
      BY DEF Status, Empty
    <3> HIDE DEF W
    <3> QED
      BY <3>1, <3>2 DEF Known
  <2>3. \A j \in K : /\ j \in E <=> Classify(j) \notin {"screened", "rejected", "declined", "open"}
                     /\ j \in X <=> Classify(j) = "cancelled"
    BY DEF Outcomes
  <2>a. G \subseteq listed /\ \A j \in G : j \in Paid \/ Status(j) # "failed"
    BY DEF Paid, ShopInv, ShopShapes
  <2>b. \A j \in K : j \in listed \cup W <=> j \in listed \/ Status(j) = "awaiting_payment"
    BY Tables
  <2> HIDE DEF E, X, G, W
  <2>4. E \subseteq K
    BY DEF E
  <2>5. Paid \subseteq E
    BY <2>1, <2>3, OutcomeIs
  <2>6. G \subseteq E
    BY <2>2, <2>3, <2>a, OutcomeIs
  <2>7. E \subseteq (listed \cup X) \cup W
    BY <2>3, <2>4, <2>b, OutcomeIs
  <2> QED
    BY <2>2, <2>5, <2>6, <2>7
<1> HIDE DEF A, B, C, X, K, G, W
<1>4. /\ f.checkout = Cardinality(E) /\ IsFiniteSet(E)
      /\ f.accepted >= f.checkout /\ f.checkout \in Nat
  <2> DEFINE K1 == K \ A  K2 == K1 \ B
  <2>1. IsFiniteSet(K1) /\ Cardinality(K1) = Cardinality(K) - Cardinality(A)
    BY <1>2, LeftOver
  <2>2. IsFiniteSet(K2) /\ Cardinality(K2) = Cardinality(K1) - Cardinality(B)
    <3> HIDE DEF K1
    <3>1. B \in SUBSET K1
      BY <1>2 DEF K1
    <3> QED
      BY <2>1, <3>1, LeftOver
  <2>3. /\ IsFiniteSet(E) /\ Cardinality(E) = Cardinality(K2) - Cardinality(C)
        /\ Cardinality(C) \in Nat /\ Cardinality(E) \in Nat
    <3> HIDE DEF K2
    <3>1. C \in SUBSET K2 /\ E = K2 \ C
      BY <1>2 DEF K2
    <3> HIDE DEF E
    <3> QED
      BY <2>2, <3>1, LeftOver
  <2>4. Cardinality(K2) \in Nat
    BY <2>2, FS_CardinalityType
  <2> HIDE DEF K1, K2, E, f
  <2> QED
    BY <1>1, <2>1, <2>2, <2>3, <2>4
<1> HIDE DEF E
<1>5. f.checkout >= f.paid /\ f.paid = Cardinality(Paid)
  <2>1. f.paid = Cardinality(Paid)
    BY <1>1, WonAndLost
  <2>2. Cardinality(Paid) <= Cardinality(E) /\ Cardinality(Paid) \in Nat /\ Cardinality(E) \in Nat
    BY <1>3, <1>4, LeftOver
  <2> HIDE DEF f
  <2> QED
    BY <1>4, <2>1, <2>2
<1>6. /\ Cardinality(G) <= f.checkout
      /\ f.checkout <= Cardinality(listed) + Cardinality(X) + Cardinality(W)
  <2>1. /\ IsFiniteSet(listed) /\ IsFiniteSet(X) /\ IsFiniteSet(W)
        /\ Cardinality(listed) \in Nat /\ Cardinality(X) \in Nat /\ Cardinality(W) \in Nat
    <3>1. IsFiniteSet(listed) /\ IsFiniteSet(X) /\ IsFiniteSet(W)
      BY <1>2, <1>3, FS_Subset
    <3> QED
      BY <3>1, FS_CardinalityType
  <2>2. Cardinality(G) <= Cardinality(E)
    BY <1>3, <1>4, LeftOver
  <2> DEFINE U == listed \cup X  V == U \cup W
  <2>3. /\ IsFiniteSet(U) /\ Cardinality(U) <= Cardinality(listed) + Cardinality(X)
        /\ Cardinality(U) \in Nat
    BY <2>1, JoinedSize
  <2>4. IsFiniteSet(V) /\ Cardinality(V) <= Cardinality(U) + Cardinality(W)
    <3> HIDE DEF U
    <3> QED
      BY <2>1, <2>3, JoinedSize
  <2>5. Cardinality(E) <= Cardinality(V) /\ Cardinality(V) \in Nat /\ Cardinality(E) \in Nat
    <3>1. E \in SUBSET V
      BY <1>3
    <3> HIDE DEF V
    <3> QED
      BY <1>4, <2>4, <3>1, LeftOver, FS_CardinalityType
  <2> HIDE DEF U, V, f
  <2>6. Cardinality(E) <= Cardinality(listed) + Cardinality(X) + Cardinality(W)
    BY <2>1, <2>3, <2>4, <2>5
  <2> QED
    BY <1>4, <2>2, <2>6
<1>7. LET sold == Won + Budgets(Outcomes({"refunded"}))
      IN  /\ sold <= IncomeStatement.revenue
          /\ (\A e \in Entries("revenue") : e.cents = shelf[e.job].order.budget)
               => sold = IncomeStatement.revenue
  BY WonAndLost DEF IncomeStatement, Revenue
<1> HIDE DEF f
<1>8. Cardinality(X) = Count({"cancelled"})
  BY DEF X, Count
<1> QED
  BY <1>4, <1>5, <1>6, <1>7, <1>8 DEF FunnelAgrees, f, G, W, Paid

-----------------------------------------------------------------------------
(* The reports about the future.                                           *)

\* Nothing comes of rounding nothing.
LEMMA RoundNothing ==
  ASSUME NEW d \in Nat, d # 0
  PROVE  Round(0, d) = 0
<1> DEFINE r == Round(0, d)
<1>1. r \in Int /\ 2 * (d * r) <= d /\ 0 <= 2 * (d * r) + d
  BY RoundBounds
<1> HIDE DEF r
<1>2. ASSUME r >= 1 PROVE FALSE
  <2>1. d * r >= d * 1
    BY <1>1, <1>2
  <2> QED
    BY <1>1, <2>1
<1>3. ASSUME r <= -1 PROVE FALSE
  <2>1. d * r <= d * (-1) /\ d * (-1) = -d
    BY <1>1, <1>3
  <2> QED
    BY <1>1, <2>1
<1> QED
  BY <1>1, <1>2, <1>3 DEF r

\* The jobs that earned are those that were paid for.
LEMMA EarnersArePaid ==
  ASSUME ShopInv, StoryInv
  PROVE  Earners = Paid
<1>1. ASSUME NEW j \in Paid PROVE Cents(Of(j, Revenue)) > 0
  <2>0. PICK e \in Revenue : /\ Of(j, Revenue) = {e} /\ e.cents >= shelf[j].order.budget
                            /\ shelf[j].order.budget > 0
    BY PaidJobs
  <2>1. Of(j, Revenue) = {e} /\ e.cents > 0
    <3>1. shelf[j].order.budget \in Nat /\ e.cents \in Nat
      BY PaidJobs, Tables, SheetFields
    <3> QED
      BY <2>0, <3>1
  <2>2. e.cents \in Nat /\ e \notin {} /\ Amounts({}) /\ {} \cup {e} = {e}
    BY Tables, FS_EmptySet DEF Amounts
  <2>3. Cents({e}) = Cents({}) + e.cents /\ Cents({}) = 0
    BY <2>2, CentsInsert, CentsCompare
  <2> QED
    BY <2>1, <2>2, <2>3
<1>2. ASSUME NEW j \in Job, j \notin Paid PROVE ~(Cents(Of(j, Revenue)) > 0)
  <2>1. Of(j, Revenue) = {}
    BY <1>2 DEF Paid, HasRevenue, Received, Revenue
  <2> QED
    BY <2>1, CentsCompare
<1> QED
  BY <1>1, <1>2 DEF Earners, Paid, Revenue

\* Averages times jobs are the profit, up to a cent a job.
LEMMA AveragesTell ==
  ASSUME ShopInv, StoryInv
  PROVE  LET net == SumFunction([j \in Earners |-> JobPnl(j)])
             u == UnitEconomics
         IN  /\ u.jobs = Cardinality(Outcomes({"delivered", "paid", "refunded"}))
             /\ u.jobs * u.profit - net < u.jobs \/ u.jobs = 0
             /\ net - u.jobs * u.profit < u.jobs \/ u.jobs = 0
<1> DEFINE n == Cardinality(Earners)
           r == SumFunction([j \in Earners |-> Cents(Of(j, Revenue))])
           x == SumFunction([j \in Earners |-> Cents(Of(j, Outlay))])
           net == SumFunction([j \in Earners |-> JobPnl(j)])
           u == UnitEconomics
<1>1. /\ u.jobs = n
      /\ n # 0 => u.profit = (r \div n) - (x \div n)
  <2>1. u = IF n = 0 THEN [jobs |-> 0, revenue |-> 0, profit |-> 0]
            ELSE [jobs |-> n, revenue |-> r \div n, profit |-> (r \div n) - (x \div n)]
    BY DEF UnitEconomics, Revenue, Outlay
  <2> HIDE DEF n, r, x, u
  <2> QED
    BY <2>1
<1>2. r \in Nat /\ x \in Nat /\ net = r - x
  <2>1. Earners \in SUBSET Known
    BY EarnersArePaid, PaidJobs
  <2> QED
    BY <2>1, JobsAddUp
<1>3. n \in Nat /\ n = Cardinality(Outcomes({"delivered", "paid", "refunded"}))
  <2>1. IsFiniteSet(Earners) /\ Earners = Outcomes({"delivered", "paid", "refunded"})
    BY EarnersArePaid, PaidJobs, WonAndLost
  <2> QED
    BY <2>1, FS_CardinalityType
<1> HIDE DEF n, r, x, net, u
<1>4. ASSUME n # 0
      PROVE  n * ((r \div n) - (x \div n)) - net < n /\ net - n * ((r \div n) - (x \div n)) < n
  <2> DEFINE a == r \div n  b == x \div n  c == r % n  d == x % n
  <2>1. /\ a \in Int /\ c \in 0..(n - 1) /\ r = n * a + c
        /\ b \in Int /\ d \in 0..(n - 1) /\ x = n * b + d
    <3>1. \A m \in Int : m \div n \in Int /\ m % n \in 0..(n - 1) /\ m = n * (m \div n) + (m % n)
      BY <1>3, <1>4, Division
    <3>2. r \in Int /\ x \in Int
      BY <1>2
    <3> QED
      BY <3>1, <3>2
  <2> HIDE DEF a, b, c, d
  <2>2. n * (a - b) = n * a - n * b /\ n * a \in Int /\ n * b \in Int
    BY <1>3, <2>1
  <2>3. n * (a - b) - net < n /\ net - n * (a - b) < n
    BY <1>2, <1>3, <2>1, <2>2
  <2> QED
    BY <2>3 DEF a, b
<1> QED
  BY <1>1, <1>3, <1>4 DEF n, net, u

\* What the runway says.
LEMMA RunwayTells ==
  ASSUME ShopInv, StoryInv
  PROVE  /\ Runway.status = "burning" => Cents(Revenue) - Cents(Outlay) < 0
         /\ Runway.status = "cashflow_positive" => Cents(Revenue) - Cents(Outlay) >= 0
         /\ Runway.days > 0 => Balance > CashReserve
<1> DEFINE ts == [e \in Operating |-> e.ts]
           T == {ts[e] : e \in Operating}
           span == Max(T) - Min(T)
           net == Flow(Operating)
           left == 10 * Larger(0, Balance - CashReserve) * span
           days == Round(left, -net)
<1>1. Runway = IF Operating = {} THEN [status |-> "idle", days |-> Never]
               ELSE IF span = 0 THEN [status |-> "insufficient_history", days |-> Never]
               ELSE IF net >= 0 THEN [status |-> "cashflow_positive", days |-> Never]
               ELSE [status |-> "burning", days |-> days]
  <2>1. T = {e.ts : e \in Operating}
    OBVIOUS
  <2> HIDE DEF T
  <2> QED
    BY <2>1 DEF Runway
<1>2. net = Cents(Revenue) - Cents(Outlay) /\ net \in Int
  BY Totals DEF Operating, Capital
<1>3. Operating # {} => span \in Int
  <2>1. IsFiniteSet(Operating)
    BY Tables, FS_Difference DEF Operating
  <2>2. \A e \in Operating : e.ts \in Nat
    BY Tables DEF Operating
  <2>3. IsFiniteSet(T)
    <3> HIDE DEF ts
    <3> QED
      BY <2>1, ImageIsFinite
  <2>4. Operating # {} => T # {} /\ \A t \in T : t \in Int
    BY <2>2
  <2> HIDE DEF T
  <2>5. Operating # {} => Min(T) \in Int /\ Max(T) \in Int
    BY <2>3, <2>4, Extremes
  <2> QED
    BY <2>5
<1>4. Balance \in Int /\ CashReserve \in Nat
  BY FundsType, StorefrontAssumption DEF ShopInv
<1> HIDE DEF span, net, T
<1>5. ASSUME Operating # {}, net < 0, ~(Balance > CashReserve)
      PROVE  days = 0
  <2>1. left = 0
    <3>1. Larger(0, Balance - CashReserve) = 0
      BY <1>4, <1>5 DEF Larger
    <3>2. 10 * 0 * span = 0
      BY <1>3, <1>5
    <3> QED
      BY <3>1, <3>2
  <2>2. -net \in Nat /\ -net # 0
    BY <1>2, <1>5
  <2> HIDE DEF left
  <2> QED
    BY <2>1, <2>2, RoundNothing
<1> HIDE DEF days
<1>6. ~(Never > 0)
  BY DEF Never
<1>7. CASE Operating = {} \/ span = 0 \/ net >= 0
  <2>1. Runway.days = Never
    BY <1>1, <1>7
  <2>2. Runway.status # "burning"
    BY <1>1, <1>7
  <2>3. Runway.status = "cashflow_positive" => net >= 0
    BY <1>1, <1>7
  <2> QED
    BY <1>2, <1>6, <2>1, <2>2, <2>3
<1>8. CASE Operating # {} /\ span # 0 /\ ~(net >= 0)
  <2>1. Runway.days = days /\ Runway.status = "burning"
    BY <1>1, <1>8
  <2>2. net < 0
    BY <1>2, <1>8
  <2>3. days > 0 => Balance > CashReserve
    BY <1>5, <1>8, <2>2
  <2> QED
    BY <1>2, <2>1, <2>2, <2>3
<1> QED
  BY <1>7, <1>8

\* The forecast falls by what the days of the past lost, on average.
LEMMA ForecastTells ==
  ASSUME ShopInv, StoryInv, Forecast(1).status = "ok"
  PROVE  /\ Cardinality(DOMAIN PeriodPnl) * Balance \in Int
         /\ Forecast(1).scaled
              = Cardinality(DOMAIN PeriodPnl) * Balance + (Cents(Revenue) - Cents(Outlay))
<1> DEFINE n == Cardinality(DOMAIN PeriodPnl)
           nets == SumFunction([d \in DOMAIN PeriodPnl |-> PeriodPnl[d].net])
           flow == n * Balance
<1>1. Forecast(1) = IF n < 2 \/ 1 = 0 THEN [status |-> "insufficient_history", scaled |-> 0]
                    ELSE [status |-> "ok", scaled |-> n * Balance + nets * 1]
  BY DEF Forecast
<1>2. nets = Cents(Revenue) - Cents(Outlay) /\ nets \in Int
  BY DaysAddUp, Totals
<1>3. n \in Nat /\ flow \in Int
  <2>1. n \in Nat
    BY DaysAddUp, FS_CardinalityType
  <2>2. Balance \in Int
    BY FundsType DEF ShopInv
  <2> HIDE DEF n
  <2> QED
    BY <2>1, <2>2
<1> HIDE DEF n, nets
<1>4. Forecast(1).scaled = n * Balance + nets * 1
  BY <1>1
<1>5. nets * 1 = nets
  BY <1>2
<1> QED
  BY <1>2, <1>3, <1>4, <1>5 DEF n

\* Trends agree.
LEMMA TrendsTell ==
  ASSUME ShopInv, StoryInv
  PROVE  TrendsAgree
<1> DEFINE d == Cents(Revenue) - Cents(Outlay)
           now == Cardinality(DOMAIN PeriodPnl) * Balance
<1>1. d \in Int
  BY Totals
<1>2. Forecast(1).status = "ok" => now \in Int /\ Forecast(1).scaled = now + d
  BY ForecastTells
<1>3. /\ Runway.status = "burning" => d < 0
      /\ Runway.status = "cashflow_positive" => d >= 0
      /\ Runway.days > 0 => Balance > CashReserve
  BY RunwayTells
<1> HIDE DEF d, now
<1>4. /\ Forecast(1).status = "ok" /\ Runway.status = "burning" => Forecast(1).scaled < now
      /\ Forecast(1).status = "ok" /\ Runway.status = "cashflow_positive" => Forecast(1).scaled >= now
  BY <1>1, <1>2, <1>3
<1> QED
  BY <1>3, <1>4, AveragesTell DEF TrendsAgree, now

-----------------------------------------------------------------------------
(* The room that is left.                                                  *)

\* A ceiling is a fraction.
Fraction(r) == r.top \in Nat /\ r.bottom \in Nat /\ r.bottom # 0

\* Of two fractions one is no larger, and what is no larger than that is no
\* larger than the other.
LEMMA TighterOrders ==
  ASSUME NEW a, NEW b, NEW c, Fraction(a), Fraction(b), Fraction(c)
  PROVE  /\ Tighter(a, a) /\ (Tighter(a, b) \/ Tighter(b, a))
         /\ Tighter(a, b) /\ Tighter(b, c) => Tighter(a, c)
<1> DEFINE p == a.top  q == a.bottom  r == b.top  s == b.bottom  t == c.top  u == c.bottom
<1>1. /\ p \in Nat /\ r \in Nat /\ t \in Nat
      /\ q \in Nat \ {0} /\ s \in Nat \ {0} /\ u \in Nat \ {0}
  BY DEF Fraction
<1>2. /\ Tighter(a, a) <=> p * q <= p * q
      /\ Tighter(a, b) <=> p * s <= r * q
      /\ Tighter(b, a) <=> r * q <= p * s
      /\ Tighter(b, c) <=> r * u <= t * s
      /\ Tighter(a, c) <=> p * u <= t * q
  BY DEF Tighter
<1> HIDE DEF p, q, r, s, t, u
<1>3. p * q \in Int /\ p * s \in Int /\ r * q \in Int /\ p * u \in Nat /\ t * q \in Nat
  BY <1>1
<1>4. ASSUME p * s <= r * q, r * u <= t * s PROVE p * u <= t * q
  <2>1. (p * s) * u <= (r * q) * u
    BY <1>1, <1>4
  <2>2. (r * u) * q <= (t * s) * q
    BY <1>1, <1>4
  <2>3. /\ (p * s) * u = s * (p * u) /\ (r * q) * u = (r * u) * q
        /\ (t * s) * q = s * (t * q)
    BY <1>1
  <2> DEFINE x == p * u  y == t * q
  <2>4. s * x <= s * y /\ x \in Nat /\ y \in Nat
    BY <1>1, <1>3, <2>1, <2>2, <2>3
  <2> HIDE DEF x, y
  <2>5. x <= y
    <3> SUFFICES ASSUME x >= y + 1 PROVE FALSE
      BY <2>4
    <3>1. s * x >= s * (y + 1) /\ s * (y + 1) = s * y + s
      BY <1>1, <2>4
    <3> QED
      BY <1>1, <2>4, <3>1
  <2> QED
    BY <2>5 DEF x, y
<1> QED
  BY <1>2, <1>3, <1>4

\* Finitely many fractions have a tightest one.
LEMMA TightestExists ==
  ASSUME NEW S, IsFiniteSet(S), S # {}, \A r \in S : Fraction(r)
  PROVE  \E r \in S : \A s \in S : Tighter(r, s)
<1> DEFINE C == {T \in SUBSET S : T # {} /\ ~ \E r \in T : \A s \in T : Tighter(r, s)}
<1> SUFFICES ASSUME C # {} PROVE FALSE
  OBVIOUS
<1>1. PICK T \in C : \A U \in C : U \subseteq T => U = T
  <2>1. C \subseteq SUBSET S
    OBVIOUS
  <2> HIDE DEF C
  <2> QED
    BY <2>1, SmallestSet
<1>2. PICK x \in T : TRUE
  OBVIOUS
<1> DEFINE U == T \ {x}
<1>3. T \in SUBSET S /\ U \in SUBSET S /\ U # T
  BY <1>2
<1>4. U # {}
  <2> SUFFICES ASSUME U = {} PROVE FALSE
    OBVIOUS
  <2>1. \A s \in T : Tighter(x, s)
    BY <1>3, TighterOrders
  <2> QED
    BY <2>1
<1>5. U \notin C
  BY <1>1, <1>3
<1>6. PICK m \in U : \A s \in U : Tighter(m, s)
  BY <1>3, <1>4, <1>5
<1>7. m \in S /\ x \in S /\ Fraction(m) /\ Fraction(x)
  BY <1>3
<1>8. CASE Tighter(m, x)
  <2>1. \A s \in T : Tighter(m, s)
    BY <1>6, <1>8
  <2> QED
    BY <2>1
<1>9. CASE Tighter(x, m)
  <2>1. \A s \in T : Tighter(x, s)
    <3> TAKE s \in T
    <3>1. s = x \/ (Tighter(m, s) /\ Fraction(s))
      BY <1>3, <1>6
    <3> QED
      BY <1>7, <1>9, <3>1, TighterOrders
  <2> QED
    BY <2>1
<1> QED
  BY <1>7, <1>8, <1>9, TighterOrders

\* Two vendors and three rules are few.
LEMMA FewAreFinite ==
  /\ IsFiniteSet(Vendor)
  /\ \A a, b, c : IsFiniteSet({a, b, c})
<1>1. ASSUME NEW a, NEW b PROVE IsFiniteSet({a, b})
  <2>1. IsFiniteSet({a} \cup {b})
    BY FS_Singleton, FS_Union
  <2>2. {a, b} = {a} \cup {b}
    OBVIOUS
  <2> QED
    BY <2>1, <2>2
<1>2. ASSUME NEW a, NEW b, NEW c PROVE IsFiniteSet({a, b, c})
  <2>1. IsFiniteSet({a, b} \cup {c})
    BY <1>1, FS_Singleton, FS_Union
  <2>2. {a, b, c} = {a, b} \cup {c}
    OBVIOUS
  <2> QED
    BY <2>1, <2>2
<1> QED
  BY <1>1, <1>2 DEF Vendor

\* What a job costs, in whole numbers.
LEMMA UnitCostsType ==
  ASSUME ShopInv, StoryInv
  PROVE  /\ UnitCosts.cost \in Int /\ UnitCosts.payments \in Int
         /\ \A v \in Vendor : UnitCosts.each[v] \in Int
<1> DEFINE n == Cardinality(Served)
           At(v) == Cents({e \in Costs : e.vendor = v /\ e.job \in Served})
           lines == Breakdown(Reference)
           Listed(v) == IF v = "tools" THEN Total(lines) - lines["tokens"] ELSE lines["tokens"]
           f == [v \in Vendor |-> At(v)]
           g == [j \in Served |-> Cardinality(Booked(j))]
           paid == SumFunction(f)
           times == SumFunction(g)
           priced == Cardinality({v \in Vendor : Listed(v) > 0})
<1>1. UnitCosts =
        IF n > 0
        THEN [jobs |-> n, cost |-> Round(paid, n), each |-> [v \in Vendor |-> Round(At(v), n)],
              payments |-> Round(100 * times, n)]
        ELSE [jobs |-> 0, cost |-> Total(lines), each |-> [v \in Vendor |-> Listed(v)],
              payments |-> 100 * priced]
  BY DEF UnitCosts
<1>2. IsFiniteSet(Costs) /\ Costs \in SUBSET ledger /\ Amounts(ledger)
  <2>1. Costs \in SUBSET ledger
    BY DEF Costs, Entries
  <2> QED
    BY <2>1, Tables, FS_Subset DEF Signable
<1>3. IsFiniteSet(Served) /\ n \in Nat
  <2> DEFINE h == [e \in Costs |-> e.job]
             H == {h[e] : e \in Costs}
  <2>1. Served \subseteq H
    BY DEF Served
  <2>2. IsFiniteSet(H)
    <3> HIDE DEF h
    <3> QED
      BY <1>2, ImageIsFinite
  <2> HIDE DEF H
  <2> QED
    BY <2>1, <2>2, FS_Subset, FS_CardinalityType
<1>4. \A v : At(v) \in Nat
  <2>1. \A v : {e \in Costs : e.vendor = v /\ e.job \in Served} \in SUBSET ledger
    BY <1>2
  <2>2. \A S \in SUBSET ledger : Cents(S) \in Nat
    BY <1>2, CentsIs
  <2> QED
    BY <2>1, <2>2
<1>5. paid \in Nat
  <2>1. IsFiniteSet(Vendor)
    BY FewAreFinite
  <2>2. paid = SumFunctionOnSet(f, Vendor) /\ \A v \in Vendor : f[v] \in Nat
    BY <1>4 DEF SumFunction
  <2> HIDE DEF f, paid
  <2> QED
    BY <2>1, <2>2, SumNat
<1>6. times \in Nat
  <2>1. \A j : Cardinality(Booked(j)) \in Nat
    <3> SUFFICES ASSUME NEW j PROVE Cardinality(Booked(j)) \in Nat
      OBVIOUS
    <3> DEFINE S == Of(j, Costs)  h == [e \in S |-> e.vendor]
    <3>1. IsFiniteSet(S)
      BY <1>2, FS_Subset DEF Of
    <3>2. Booked(j) = {h[e] : e \in S}
      BY DEF Booked
    <3> HIDE DEF S, h
    <3> QED
      BY <3>1, <3>2, ImageIsFinite, FS_CardinalityType
  <2>2. times = SumFunctionOnSet(g, Served) /\ \A j \in Served : g[j] \in Nat
    BY <2>1 DEF SumFunction
  <2> HIDE DEF g, times
  <2> QED
    BY <1>3, <2>2, SumNat
<1>7. Total(lines) \in Int /\ lines["tokens"] \in Int /\ \A v \in Vendor : Listed(v) \in Int
  <2>1. Reference \in [Dials -> Nat]
    BY OutlookAssumption
  <2>2. Total(lines) \in Nat /\ lines \in [Lines -> Nat]
    BY <2>1, BriefCosts
  <2>3. lines["tokens"] \in Nat
    BY <2>2 DEF Lines, Dials
  <2> HIDE DEF lines
  <2> QED
    BY <2>2, <2>3
<1>8. priced \in Nat
  <2> DEFINE W == {v \in Vendor : Listed(v) > 0}
  <2>1. IsFiniteSet(Vendor) /\ W \subseteq Vendor
    BY FewAreFinite
  <2> HIDE DEF W
  <2>2. Cardinality(W) \in Nat
    BY <2>1, FS_Subset, FS_CardinalityType
  <2> QED
    BY <2>2 DEF W
<1> HIDE DEF n, At, lines, paid, times, priced, Listed
<1>9. CASE n > 0
  <2>1. /\ Round(paid, n) \in Int /\ Round(100 * times, n) \in Int
        /\ \A v \in Vendor : Round(At(v), n) \in Int
    <3>1. \A m \in Int : Round(m, n) \in Int
      BY <1>3, <1>9, RoundBounds
    <3>2. 100 * times \in Int
      BY <1>6
    <3> QED
      BY <1>4, <1>5, <3>1, <3>2
  <2> QED
    BY <1>1, <1>9, <2>1
<1>10. CASE ~(n > 0)
  BY <1>1, <1>7, <1>8, <1>10
<1> QED
  BY <1>9, <1>10

\* The ceilings are fractions, one of which is nothing for a shop at its reserve,
\* and one for a payment that is too large.
LEMMA CeilingsType ==
  ASSUME ShopInv, StoryInv
  PROVE  LET rules == Ceilings(UnitCosts) IN
         /\ IsFiniteSet(rules) /\ rules # {} /\ \A r \in rules : Fraction(r)
         /\ \E r \in rules : r.top = Larger(Balance - CashReserve, 0)
         /\ \A v \in Vendor : UnitCosts.each[v] > MaxTxn => \E r \in rules : r.top = 0
<1> DEFINE costs == UnitCosts
           job == Larger(costs.cost, 1)
           Rule(name, top, bottom) == [rule |-> name, top |-> top, bottom |-> bottom]
           paid == {v \in Vendor : costs.each[v] > 0}
           large == {w \in paid : costs.each[w] > MaxTxn}
           a == Rule("daily_budget", DayBudget, job)
           b == Rule("min_reserve", Larger(Balance - CashReserve, 0), job)
           c == Rule("spend_velocity", 100 * TxnsPerDay, Larger(costs.payments, 100))
           g == [v \in paid |-> Rule("vendor_daily_budget", VendorCap[v], costs.each[v])]
           h == [v \in large |-> Rule("max_txn_cap", 0, 1)]
           G == {g[v] : v \in paid}
           H == {h[v] : v \in large}
           rules == {a, b, c} \cup G \cup H
<1>1. Ceilings(costs) = rules
  BY DEF Ceilings
<1>2. /\ costs.cost \in Int /\ costs.payments \in Int /\ \A v \in Vendor : costs.each[v] \in Int
      /\ Balance \in Int /\ CashReserve \in Nat /\ DayBudget \in Nat /\ TxnsPerDay \in Nat
      /\ MaxTxn \in Nat /\ \A v \in Vendor : VendorCap[v] \in Nat
  BY UnitCostsType, FundsType, StorefrontAssumption, OutlookAssumption DEF ShopInv
<1> HIDE DEF costs
<1>3. job \in Nat /\ job # 0
  BY <1>2 DEF Larger
<1>4. IsFiniteSet(paid) /\ IsFiniteSet(large)
  <2>1. IsFiniteSet(Vendor) /\ paid \subseteq Vendor /\ large \subseteq Vendor
    BY FewAreFinite
  <2> HIDE DEF paid, large
  <2> QED
    BY <2>1, FS_Subset
<1>5. IsFiniteSet(rules)
  <2>1. IsFiniteSet(G) /\ IsFiniteSet(H)
    <3> HIDE DEF g, h, paid, large
    <3> QED
      BY <1>4, ImageIsFinite
  <2>2. IsFiniteSet({a, b, c})
    <3> HIDE DEF a, b, c
    <3> QED
      BY FewAreFinite
  <2> HIDE DEF a, b, c, G, H
  <2> QED
    BY <2>1, <2>2, FS_Union
<1>6. Fraction(a) /\ Fraction(b) /\ Fraction(c)
  <2>1. a.top = DayBudget /\ a.bottom = job
    OBVIOUS
  <2>2. b.top = Larger(Balance - CashReserve, 0) /\ b.bottom = job
    OBVIOUS
  <2>3. c.top = 100 * TxnsPerDay /\ c.bottom = Larger(costs.payments, 100)
    OBVIOUS
  <2>4. Larger(Balance - CashReserve, 0) \in Nat
    BY <1>2 DEF Larger
  <2>5. Larger(costs.payments, 100) \in Nat /\ Larger(costs.payments, 100) # 0
    BY <1>2 DEF Larger
  <2>6. 100 * TxnsPerDay \in Nat
    BY <1>2
  <2> HIDE DEF a, b, c, job
  <2> QED
    BY <1>2, <1>3, <2>1, <2>2, <2>3, <2>4, <2>5, <2>6 DEF Fraction
<1>7. \A v \in paid : Fraction(g[v])
  <2> SUFFICES ASSUME NEW v \in paid PROVE Fraction(g[v])
    OBVIOUS
  <2>1. g[v].top = VendorCap[v] /\ g[v].bottom = costs.each[v]
    OBVIOUS
  <2>2. v \in Vendor /\ costs.each[v] > 0
    OBVIOUS
  <2>3. costs.each[v] \in Nat /\ costs.each[v] # 0 /\ VendorCap[v] \in Nat
    BY <1>2, <2>2
  <2> HIDE DEF g
  <2> QED
    BY <2>1, <2>3 DEF Fraction
<1>8. \A v \in large : h[v].top = 0 /\ Fraction(h[v])
  BY DEF Fraction
<1>9. \A r \in rules : Fraction(r)
  <2> HIDE DEF a, b, c, g, h, paid, large
  <2> QED
    BY <1>6, <1>7, <1>8
<1>10. b \in rules /\ b.top = Larger(Balance - CashReserve, 0)
  OBVIOUS
<1>11. ASSUME NEW v \in Vendor, costs.each[v] > MaxTxn PROVE \E r \in rules : r.top = 0
  <2>1. v \in large
    BY <1>2, <1>11
  <2>2. h[v] \in rules /\ h[v].top = 0
    BY <1>8, <2>1
  <2> HIDE DEF rules
  <2> QED
    BY <2>2
<1> HIDE DEF rules
<1> QED
  BY <1>1, <1>5, <1>9, <1>10, <1>11 DEF costs

\* The ceiling that binds is the tightest.
LEMMA BindingTells ==
  ASSUME ShopInv, StoryInv, Capacity.binding.top > 0
  PROVE  Balance > CashReserve /\ \A v \in Vendor : UnitCosts.each[v] <= MaxTxn
<1> DEFINE rules == Ceilings(UnitCosts)
           r == Capacity.binding
<1>1. /\ IsFiniteSet(rules) /\ rules # {} /\ \A s \in rules : Fraction(s)
      /\ \E s \in rules : s.top = Larger(Balance - CashReserve, 0)
      /\ \A v \in Vendor : UnitCosts.each[v] > MaxTxn => \E s \in rules : s.top = 0
  BY CeilingsType
<1>2. r = CHOOSE t \in rules : \A s \in rules : Tighter(t, s)
  BY DEF Capacity
<1> HIDE DEF rules, r
<1>3. r \in rules /\ \A s \in rules : Tighter(r, s)
  BY <1>1, <1>2, TightestExists
<1>4. \A s \in rules : s.top # 0
  <2> SUFFICES ASSUME NEW s \in rules, s.top = 0 PROVE FALSE
    OBVIOUS
  <2> DEFINE p == r.top  q == r.bottom  u == s.bottom
  <2>1. p \in Nat /\ q \in Nat /\ u \in Nat /\ u # 0 /\ p * u <= 0 * q /\ p > 0
    BY <1>1, <1>3 DEF Fraction, Tighter, r
  <2> HIDE DEF p, q, u
  <2>2. p * u >= p * 1
    BY <2>1
  <2> QED
    BY <2>1, <2>2
<1>5. Larger(Balance - CashReserve, 0) # 0
  BY <1>1, <1>4
<1>6. /\ Balance \in Int /\ CashReserve \in Nat /\ MaxTxn \in Nat
      /\ \A v \in Vendor : UnitCosts.each[v] \in Int
  BY UnitCostsType, FundsType, StorefrontAssumption, OutlookAssumption DEF ShopInv
<1>7. Balance > CashReserve
  BY <1>5, <1>6 DEF Larger
<1>8. \A v \in Vendor : ~(UnitCosts.each[v] > MaxTxn)
  BY <1>1, <1>4
<1> QED
  BY <1>6, <1>7, <1>8

\* With a job left today, one fits the budget.
LEMMA LeftTells ==
  ASSUME ShopInv, StoryInv, Capacity.left >= 10
  PROVE  20 * (DayBudget - SpentToday) >= 19 * UnitCosts.cost
<1> DEFINE cost == UnitCosts.cost  m == Larger(cost, 1)
           room == Larger(DayBudget - SpentToday, 0)  k == Round(10 * room, m)
<1>1. k >= 10
  BY DEF Capacity
<1>2. cost \in Int /\ DayBudget \in Nat /\ SpentToday \in Nat
  BY UnitCostsType, FundsType, StorefrontAssumption DEF ShopInv
<1> HIDE DEF cost
<1>3. m \in Nat /\ m # 0 /\ m >= cost /\ room \in Nat
  BY <1>2 DEF Larger
<1>4. room = DayBudget - SpentToday \/ room = 0
  BY DEF Larger
<1> HIDE DEF m, room
<1>5. k \in Int /\ 2 * (m * k) <= 2 * (10 * room) + m
  <2> DEFINE x == 10 * room
  <2>1. x \in Int
    BY <1>3
  <2> HIDE DEF x
  <2>2. Round(x, m) \in Int /\ 2 * (m * Round(x, m)) <= 2 * x + m
    BY <1>3, <2>1, RoundBounds
  <2> QED
    BY <2>2 DEF x
<1> HIDE DEF k
<1>6. m * k >= m * 10
  BY <1>1, <1>3, <1>5
<1>7. 19 * m <= 20 * room /\ room # 0
  BY <1>3, <1>5, <1>6
<1> QED
  BY <1>2, <1>3, <1>4, <1>7 DEF cost

\* A quiet alert means that there is room.
LEMMA HeadroomTells ==
  ASSUME ShopInv, DayBudget > 0, CheckSpendHeadroom = "ok"
  PROVE  SpentToday < DayBudget
<1> DEFINE used == Round(1000 * SpentToday, DayBudget)
<1>1. DayBudget \in Nat /\ SpentToday \in Nat
  BY FundsType, StorefrontAssumption DEF ShopInv
<1>2. Capacity.used = used
  BY <1>1 DEF Capacity
<1>3. ~(used >= 800)
  <2> HIDE DEF used
  <2>1. ~(Capacity.used >= 950) /\ ~(Capacity.used >= 800)
    BY DEF CheckSpendHeadroom
  <2> QED
    BY <1>2, <2>1
<1> SUFFICES ASSUME SpentToday >= DayBudget PROVE FALSE
  BY <1>1
<1> DEFINE x == 1000 * SpentToday
<1>4. x \in Int /\ x >= 1000 * DayBudget
  BY <1>1
<1> HIDE DEF x
<1>5. Round(x, DayBudget) \in Int /\ Round(x, DayBudget) >= 1000
  BY <1>1, <1>4, RoundBounds, RoundAtLeast
<1> HIDE DEF used
<1>6. used \in Int /\ used >= 1000
  BY <1>5 DEF used, x
<1> QED
  BY <1>3, <1>6

\* The room the operator is told of is there.
LEMMA RoomTells ==
  ASSUME ShopInv, StoryInv
  PROVE  RoomIsReal
<1>1. \A plan \in Plans : plan.committed <= Capacity.headroom
  <2> SUFFICES ASSUME NEW plan \in Plans PROVE plan.committed <= Capacity.headroom
    OBVIOUS
  <2>1. plan.committed \in Nat /\ plan.committed <= SpendCapacity
    BY PlansAreGood DEF ShopInv, GoodPlans
  <2>2. Capacity.headroom = Larger(DayBudget - SpentToday, 0)
    BY DEF Capacity
  <2>3. /\ DayBudget \in Nat /\ SpentToday \in Nat /\ Balance \in Int /\ CashReserve \in Nat
    BY FundsType, StorefrontAssumption DEF ShopInv
  <2>4. SpendCapacity <= Larger(DayBudget - SpentToday, 0) /\ SpendCapacity \in Nat
        /\ Larger(DayBudget - SpentToday, 0) \in Nat
    BY <2>3 DEF SpendCapacity, Larger, Smaller
  <2> QED
    BY <2>1, <2>2, <2>4
<1>2. Balance < CashReserve => CheckCash = "critical" /\ ~Affordable(1)
  <2>1. Balance \in Int /\ CashReserve \in Nat
    BY FundsType, StorefrontAssumption DEF ShopInv
  <2> QED
    BY <2>1 DEF CheckCash, Affordable
<1>3. CheckCostModel # "ok" =>
        Calibration(Drift.samples >= DriftSamples, Drift.actual, Drift.est) > 1000
  <2> DEFINE mark == Calibration(Drift.samples >= DriftSamples, Drift.actual, Drift.est)
  <2>1. mark \in 1000..FactorCeiling
    BY DriftIsBounded DEF ShopInv, ShopShapes
  <2>2. CheckCostModel = IF mark >= 1500 THEN "critical" ELSE IF mark >= 1200 THEN "warn" ELSE "ok"
    BY DEF CheckCostModel
  <2> HIDE DEF mark
  <2>3. CheckCostModel # "ok" => mark > 1000
    BY <2>1, <2>2 DEF FactorCeiling
  <2> QED
    BY <2>3 DEF mark
<1> QED
  BY <1>1, <1>2, <1>3, LeftTells, HeadroomTells, BindingTells DEF RoomIsReal

-----------------------------------------------------------------------------
\* What the operator is told is true and agrees: funnel, statements, export and
\* customer book close on the ledger, nobody is paged within the promise, drift
\* is about a payment, averages, runway and forecast fit the past, and the room
\* that capacity and alerts report is room the rules leave: for any jobs, orders,
\* rates, budgets, windows and thresholds (funnel.py, finance.py, export.py,
\* customers.py, turnaround.py, reconcile.py, capacity.py, alerts.py).
THEOREM BooksTieOut == ShopSpec => []ReportsAgree
<1>1. ShopInv /\ StoryInv => ReportsAgree
  BY FunnelTells, StatementsTie, PromisesKept, DriftTells, TrendsTell, RoomTells
     DEF ReportsAgree, BooksAgree, OutlookAgrees
<1>2. ShopInit => ShopInv /\ StoryInv
  BY ShopStarts, StoriesStart
<1>3. (ShopInv /\ StoryInv) /\ [ShopNext]_shopVars => (ShopInv /\ StoryInv)'
  BY ShopKeeps, StoriesKeep
<1> QED
  BY <1>1, <1>2, <1>3, PTL DEF ShopSpec
=============================================================================

------------------------------- MODULE Pricing -------------------------------
(***************************************************************************)
(* The margin gate of solvent/pricing.py over the allowance of             *)
(* solvent/resource_budget.py, and the markup of solvent/calibration.py.   *)
(*                                                                         *)
(* Money is in cents.  Tokens are in thousands, the step in which a        *)
(* counter-offer gives them up.  A percentage is in tenths (the gate       *)
(* rounds to one decimal), a factor in thousandths (round(..., 3)).  The   *)
(* divisions the code makes in floating point are exact here; a float may  *)
(* only put an exact tie on the other side.                                *)
(***************************************************************************)
EXTENDS Integers

CONSTANTS Rates,      \* RESOURCE_COSTS_CENTS with the overrides in force
          MarginFloor,\* margin_floor_pct, in tenths of a percent
          MinPrice,   \* min_price_cents
          Dollar,     \* prices are offered in multiples of it (100 cents)
          MinScope    \* min_scope, also the floors of scope_for

Dials == {"data", "tokens", "search"}
Lines == Dials \cup {"pdf", "email"}

ASSUME PricingAssumption ==
    /\ Rates \in [Lines -> Nat]
    /\ MarginFloor \in Nat /\ MinPrice \in Nat \ {0} /\ Dollar \in Nat \ {0}
    /\ MinScope \in [Dials -> Nat]

Larger(a, b)  == IF a >= b THEN a ELSE b
Smaller(a, b) == IF a <= b THEN a ELSE b
CeilDiv(n, d) == (n + d - 1) \div d

\* Python's round: to the nearest, a tie to the even neighbour.
Round(n, d) ==
    LET q == n \div d
        r == n % d
    IN  IF 2 * r > d \/ (2 * r = d /\ q % 2 = 1) THEN q + 1 ELSE q

-----------------------------------------------------------------------------
(* What a brief costs.                                                     *)

\* The floors of scope_for: no brief is scoped below the thinnest one sold.
ScopeFor(asked) == [d \in Dials |-> Larger(asked[d], MinScope[d])]

Breakdown(scope) ==
    [l \in Lines |-> IF l \in Dials THEN scope[l] * Rates[l] ELSE Rates[l]]

Total(items) ==
    items["data"] + items["tokens"] + items["search"] + items["pdf"] + items["email"]

\* The lines are scaled one by one and totalled again: they always add up.
Scaled(scope, factor) ==
    [l \in Lines |-> Round(Breakdown(scope)[l] * Larger(1000, factor), 1000)]
CalibratedCost(scope, factor) == Total(Scaled(scope, factor))

-----------------------------------------------------------------------------
(* The gate: the budget is the price.                                      *)

MarginPct(price, cost) ==
    IF price = 0 THEN -1000 ELSE Round(1000 * (price - cost), price)

\* Mutant: the floor is not looked at.
VerdictAtCost(price, cost) ==
    IF price < MinPrice THEN "minimum" ELSE IF price < cost THEN "cost" ELSE "accepted"

Verdict(price, cost) ==
    IF price < MinPrice THEN "minimum"
    ELSE IF price < cost THEN "cost"
    ELSE IF MarginPct(price, cost) < MarginFloor THEN "floor" ELSE "accepted"

QuoteOf(budget, asked, factor) ==
    LET scope == ScopeFor(asked)
        cost  == CalibratedCost(scope, factor)
    IN  [price  |-> budget, cost |-> cost, scope |-> scope,
         accept |-> Verdict(budget, cost) = "accepted",
         reason |-> Verdict(budget, cost)]

-----------------------------------------------------------------------------
(* What the shop would say yes to instead.                                 *)

\* The scope after n steps of one unit: the dearest dial is given up first.
Narrowed(scope, n) ==
    LET data   == Smaller(n, scope["data"] - MinScope["data"])
        tokens == Smaller(n - data, scope["tokens"] - MinScope["tokens"])
    IN  [scope EXCEPT !["data"] = @ - data, !["tokens"] = @ - tokens,
                      !["search"] = @ - (n - data - tokens)]
StepsToFloor(scope) ==
    (scope["data"] - MinScope["data"]) + (scope["tokens"] - MinScope["tokens"])
        + (scope["search"] - MinScope["search"])

ScopedAlternative(budget, asked, factor) ==
    LET scope == ScopeFor(asked)
        fits  == {n \in 0..StepsToFloor(scope) :
                    QuoteOf(budget, Narrowed(scope, n), factor).accept}
    IN  {Narrowed(scope, n) : n \in {m \in fits : \A k \in fits : m <= k}}

\* None of these when no finite price clears the floor.
MinViablePrices(cost) ==
    IF MarginFloor >= 1000 THEN {}
    ELSE {CeilDiv(Larger(CeilDiv(1000 * cost, 1000 - MarginFloor), MinPrice), Dollar) * Dollar}

\* At most one: a narrower brief for the money, or the brief for more money.
CounterOffers(budget, asked, factor) ==
    LET narrower == ScopedAlternative(budget, asked, factor)
        prices   == {p \in MinViablePrices(CalibratedCost(ScopeFor(asked), factor)) :
                       p > budget /\ QuoteOf(p, asked, factor).accept}
    IN  IF narrower # {} THEN {[kind |-> "scope", price |-> budget, scope |-> s] : s \in narrower}
        ELSE {[kind |-> "price", price |-> p, scope |-> ScopeFor(asked)] : p \in prices}

-----------------------------------------------------------------------------
(* What the jobs on record say about the estimates.                        *)

FactorCeiling == 2000

\* The factor the totals of the usable rows imply.
Calibration(enough, actual, estimated) ==
    IF ~enough \/ estimated = 0 THEN 1000
    ELSE Smaller(Larger(Round(1000 * actual, estimated), 1000), FactorCeiling)

-----------------------------------------------------------------------------
(* Properties of the gate, for one order.                                  *)

\* An accepted price keeps the floor up to the half tenth of a percent the
\* gate's rounding gives away (pricing.quote compares the rounded margin).
KeepsFloor(price, cost) == 2000 * (price - cost) >= (2 * MarginFloor - 1) * price

\* Every order that is turned away can be had some other way, if some price clears
\* the floor at all; the offer is one the gate accepts; and an offered price is no
\* more than a dollar above the least the gate accepts, but for what the gate's
\* rounding of the margin to a tenth of a percent lets in below it
\* (pricing.counter_offer, min_viable_price_cents).
NegotiationHolds(budget, asked, factor) ==
    LET offers == CounterOffers(budget, asked, factor)
        cost   == CalibratedCost(ScopeFor(asked), factor)
    IN  QuoteOf(budget, asked, factor).accept \/
        /\ MarginFloor < 1000 => offers # {}
        /\ \A o \in offers :
             /\ QuoteOf(o.price, o.scope, factor).accept
             /\ KeepsFloor(o.price, CalibratedCost(o.scope, factor))
             /\ o.kind = "price" =>
                  \A p \in 1..(o.price \div Dollar) :
                    QuoteOf(p * Dollar, asked, factor).accept =>
                      2 * (1000 - MarginFloor) * (o.price - Dollar - p * Dollar) < p * Dollar
=============================================================================

-------------------------------- MODULE Outlook --------------------------------
(***************************************************************************)
(* What the shop tells its operator about tomorrow: unit economics, runway *)
(* and forecast (solvent/finance.py), how many jobs a day its rules leave  *)
(* room for (capacity.py), and the alerts (alerts.py).  All of it is read  *)
(* off the ledger of a Storefront by formulas of their own; what they say  *)
(* must fit each other and the rules that really decide.                   *)
(***************************************************************************)
EXTENDS Books

CONSTANTS Reference,   \* REFERENCE_JOB, as asked
          MaxTxn, VendorCap, TxnsPerDay,  \* the other rules of the spend policy
          StuckCritical, \* STUCK_JOB_CRITICAL_HOURS
          BurnWarn, BurnCritical  \* RUNWAY_WARN_DAYS, RUNWAY_CRITICAL_DAYS

ASSUME OutlookAssumption ==
    /\ Reference \in [Dials -> Nat] /\ TxnsPerDay \in Nat
    /\ MaxTxn \in Nat /\ StuckCritical \in Nat /\ VendorCap \in [Vendor -> Nat]
    /\ BurnCritical \in Nat /\ BurnWarn \in Nat /\ BurnCritical <= BurnWarn

-----------------------------------------------------------------------------
(* finance.py                                                              *)

\* A quotient of whole numbers, rounded down also below zero.
Earners == {j \in Job : Cents(Of(j, Entries("revenue"))) > 0}
UnitEconomics ==
    LET n == Cardinality(Earners)
        Mean(kind) == SumFunction([j \in Earners |-> Cents(Of(j, Entries(kind)))]) \div n
    IN  IF n = 0 THEN [jobs |-> 0, revenue |-> 0, profit |-> 0]
        ELSE [jobs |-> n, revenue |-> Mean("revenue"), profit |-> Mean("revenue") - Mean("expense")]

Operating == ledger \ Entries("capital")
\* Days left in tenths, when money burns; one clock step is a day.
Runway ==
    LET times == {e.ts : e \in Operating}
        span  == Max(times) - Min(times)
        net   == Flow(Operating)
    IN  IF Operating = {} THEN [status |-> "idle", days |-> Never]
        ELSE IF span = 0 THEN [status |-> "insufficient_history", days |-> Never]
        ELSE IF net >= 0 THEN [status |-> "cashflow_positive", days |-> Never]
        ELSE [status |-> "burning",
              days |-> Round(10 * Larger(0, Balance - CashReserve) * span, -net)]

\* The balance in so many active days, scaled by their number; the band around
\* it is left out.
Forecast(horizon) ==
    LET days == PeriodPnl
        nets == SumFunction([d \in DOMAIN days |-> days[d].net])
        n    == Cardinality(DOMAIN days)
    IN  IF n < 2 \/ horizon = 0 THEN [status |-> "insufficient_history", scaled |-> 0]
        ELSE [status |-> "ok", scaled |-> n * Balance + nets * horizon]

-----------------------------------------------------------------------------
(* capacity.py                                                             *)

\* What one job costs, and how many payments it takes (in hundredths).
Served == {e.job : e \in Costs} \ {House}
UnitCosts ==
    LET n == Cardinality(Served)
        Paid(v) == Cents({e \in Costs : e.vendor = v /\ e.job \in Served})
        lines == Breakdown(Reference)
        Listed(v) == IF v = "tools" THEN Total(lines) - lines["tokens"] ELSE lines["tokens"]
    IN  IF n > 0
        THEN [jobs |-> n, cost |-> Round(SumFunction([v \in Vendor |-> Paid(v)]), n),
              each |-> [v \in Vendor |-> Round(Paid(v), n)],
              payments |-> Round(100 * SumFunction([j \in Served |-> Cardinality(Booked(j))]), n)]
        ELSE [jobs |-> 0, cost |-> Total(lines), each |-> [v \in Vendor |-> Listed(v)],
              payments |-> 100 * Cardinality({v \in Vendor : Listed(v) > 0})]

\* Each rule's ceiling on jobs per day, as a fraction.
Ceilings(costs) ==
    LET job == Larger(costs.cost, 1)
        Rule(name, top, bottom) == [rule |-> name, top |-> top, bottom |-> bottom]
        paid == {v \in Vendor : costs.each[v] > 0}
    IN  {Rule("daily_budget", DayBudget, job),
         Rule("min_reserve", Larger(Balance - CashReserve, 0), job),
         Rule("spend_velocity", 100 * TxnsPerDay, Larger(costs.payments, 100))}
        \cup {Rule("vendor_daily_budget", VendorCap[v], costs.each[v]) : v \in paid}
        \cup {Rule("max_txn_cap", 0, 1) : v \in {w \in paid : costs.each[w] > MaxTxn}}

Tighter(a, b) == a.top * b.bottom <= b.top * a.bottom
Capacity ==
    LET costs == UnitCosts
        rules == Ceilings(costs)
        headroom == Larger(DayBudget - SpentToday, 0)
    IN  [binding  |-> CHOOSE r \in rules : \A s \in rules : Tighter(r, s),
         headroom |-> headroom,
         left     |-> Round(10 * headroom, Larger(costs.cost, 1)),
         used     |-> IF DayBudget = 0 THEN 0 ELSE Round(1000 * SpentToday, DayBudget)]

-----------------------------------------------------------------------------
(* alerts.py: each check, ok, warn or critical.                            *)

CheckCash ==
    LET r == Runway
    IN  IF Balance < CashReserve THEN "critical"
        ELSE IF r.status # "burning" \/ r.days > 10 * BurnWarn THEN "ok"
        ELSE IF r.days <= 10 * BurnCritical THEN "critical" ELSE "warn"

CheckCostModel ==
    LET mark == Calibration(Drift.samples >= DriftSamples, Drift.actual, Drift.est)
    IN  IF mark >= 1500 THEN "critical" ELSE IF mark >= 1200 THEN "warn" ELSE "ok"

CheckSpendHeadroom ==
    LET used == Capacity.used
    IN  IF used >= 950 THEN "critical" ELSE IF used >= 800 THEN "warn" ELSE "ok"

\* Late is six times as bad at six times the measured threshold, and not before
\* the fixed one.
CheckStuckJobs ==
    LET late == IF HasHistory /\ LateThreshold > 0 THEN Larger(6 * LateThreshold, StuckCritical)
                ELSE StuckCritical
    IN  IF StuckJobs = {} THEN "ok"
        ELSE IF \E j \in StuckJobs : shopClock - shelf[j].updated >= late THEN "critical" ELSE "warn"

Severity(mark) == CASE mark = "ok" -> 0 [] mark = "warn" -> 1 [] OTHER -> 2
WorstSeverity == Max({Severity(CheckCash), Severity(CheckCostModel), Severity(CheckSpendHeadroom), Severity(CheckStuckJobs)})

-----------------------------------------------------------------------------
(* Properties.                                                             *)

\* The reports about the future agree with those about the past and with each
\* other: averages times jobs are the profit the ledger shows, up to a cent a
\* job; money burns in the runway exactly when the forecast falls; and a shop
\* with more than a day of runway has as many days' cash above its reserve.
TrendsAgree ==
    LET net == SumFunction([j \in Earners |-> JobPnl(j)])
        u == UnitEconomics
        r == Runway
        f == Forecast(1)
    IN  /\ u.jobs = Cardinality(Outcomes({"delivered", "paid", "refunded"}))
        /\ u.jobs * u.profit - net < u.jobs \/ u.jobs = 0
        /\ net - u.jobs * u.profit < u.jobs \/ u.jobs = 0
        /\ f.status = "ok" /\ r.status = "burning" =>
             f.scaled < Cardinality(DOMAIN PeriodPnl) * Balance
        /\ f.status = "ok" /\ r.status = "cashflow_positive" =>
             f.scaled >= Cardinality(DOMAIN PeriodPnl) * Balance
        /\ r.days > 0 => Balance > CashReserve

\* What the operator is told of room is room the rules leave: with a whole job
\* left today, an average one (but for a twentieth, which rounding hides) fits
\* the daily budget; the plan never commits more than the headroom; when cash
\* is critical for want of reserve nothing can be spent ("no vendor spend will
\* be approved until it clears", alerts.check_cash); a quiet headroom alert means
\* that the day's budget is not spent, unless it is zero, of which nothing counts
\* as used (capacity.capacity); and no smaller ceiling than the one that binds.
RoomIsReal ==
    LET c == Capacity
        unit == UnitCosts
    IN  /\ c.left >= 10 => 20 * (DayBudget - SpentToday) >= 19 * unit.cost
        /\ \A plan \in Plans : plan.committed <= c.headroom
        /\ Balance < CashReserve => CheckCash = "critical" /\ ~Affordable(1)
        /\ DayBudget > 0 /\ CheckSpendHeadroom = "ok" => SpentToday < DayBudget
        /\ c.binding.top > 0 => Balance > CashReserve /\ \A v \in Vendor : unit.each[v] <= MaxTxn
        /\ CheckCostModel # "ok" =>
             Calibration(Drift.samples >= DriftSamples, Drift.actual, Drift.est) > 1000

OutlookAgrees == TrendsAgree /\ RoomIsReal

\* Everything the operator is told, of the past (Books) and of what comes.
ReportsAgree == BooksAgree /\ OutlookAgrees
=============================================================================

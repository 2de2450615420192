--------------------------------- MODULE Books ---------------------------------
(***************************************************************************)
(* The reports over the rows a Storefront has committed: the order funnel, *)
(* the financial statements, the customer book, the period export, the     *)
(* promised turnaround and the alert on late jobs, the reconciliation with *)
(* Stripe, and the worker's plan of the backlog.  Each reads the tables on *)
(* its own; the properties say where they must agree.                      *)
(***************************************************************************)
EXTENDS Storefront

CONSTANTS Span,       \* the length of a day of the period statements
          PromiseSamples, FloorWait,  \* MIN_SAMPLES, FLOOR_SECONDS of turnaround
          StuckWarn,  \* STUCK_JOB_WARN_HOURS, until there is history
          Lookback    \* since_days of reconcile

ASSUME BooksAssumption ==
    /\ Span \in Nat \ {0} /\ PromiseSamples \in Nat \ {0}
    /\ FloorWait \in Nat /\ StuckWarn \in Nat \ {0} /\ Lookback \in Nat

Known == {j \in Job : shelf[j] # Empty}

-----------------------------------------------------------------------------
(* funnel.py                                                               *)

\* The ledger decides on payment, the status on the rest.
Classify(j) ==
    CASE Status(j) = "completed" -> "delivered"
      [] Status(j) # "completed" /\ HasRevenue(j) ->
            IF Status(j) = "failed" THEN "refunded" ELSE "paid"
      [] ~HasRevenue(j) /\ Status(j) = "expired"   -> "abandoned"
      [] ~HasRevenue(j) /\ Status(j) = "cancelled" -> "cancelled"
      [] ~HasRevenue(j) /\ Status(j) = "failed" ->
            (CASE shelf[j].why = "intake" -> "screened"
               [] shelf[j].why = "rejected" -> "rejected"
               [] OTHER -> "declined")
      [] OTHER -> IF j \in listed \/ Status(j) = "awaiting_payment"
                  THEN "awaiting_payment" ELSE "open"

Outcomes(kinds) == {j \in Known : Classify(j) \in kinds}
Count(kinds) == Cardinality(Outcomes(kinds))
Budgets(jobs) == SumFunction([j \in jobs |-> shelf[j].order.budget])
Won == Budgets(Outcomes({"delivered", "paid"}))

Funnel ==
    LET submitted == Cardinality(Known)
        quoted    == submitted - Count({"screened", "rejected"})
        accepted  == quoted - Count({"declined"})
    IN  [submitted |-> submitted, quoted |-> quoted, accepted |-> accepted,
         checkout  |-> accepted - Count({"open"}),
         paid      |-> Count({"paid", "delivered", "refunded"}),
         delivered |-> Count({"delivered"})]

-----------------------------------------------------------------------------
(* finance.py, export.py, customers.py                                     *)

Signed(e) == IF e.kind \in {"revenue", "capital"} THEN e.cents ELSE -e.cents
Flow(entries) == SumFunction([e \in entries |-> Signed(e)])

IncomeStatement ==
    LET revenue == Cents(Entries("revenue"))
        expense == Cents(Entries("expense"))
    IN  [revenue |-> revenue, expense |-> expense, net |-> revenue - expense,
         balance |-> Flow(ledger),
         vendors |-> [v \in {e.vendor : e \in Entries("expense")} |->
                        Cents({e \in Entries("expense") : e.vendor = v})]]

\* One bucket per day on which anything was booked; the balance runs through them.
PeriodPnl ==
    LET On(d) == {e \in ledger : e.ts \div Span = d}
        days == {e.ts \div Span : e \in ledger}
    IN  [d \in days |->
          [net    |-> Flow(On(d)) - Cents(On(d) \cap Entries("capital")),
           ending |-> SumFunction([k \in {k \in days : k <= d} |-> Flow(On(k))])]]

\* The rows of the window, oldest first.  Entries of one instant are ordered by
\* their ids, which are random: the balance is the one after all of them.
LedgerRows(since) == {e \in ledger : e.ts >= since}
BalanceAfter(e, rows) == Flow({d \in rows : d.ts <= e.ts})

\* The period is closed on the rows of the export, refunds apart from costs.
PeriodSummary(rows) ==
    LET revenue == Cents(rows \cap Entries("revenue"))
        refunds == Cents({e \in rows : e.vendor = Refund})
        cogs    == Cents(rows \cap Costs)
    IN  [revenue |-> revenue, refunds |-> refunds, cogs |-> cogs,
         net |-> revenue - refunds - cogs, capital |-> Cents(rows \cap Entries("capital"))]

CustomerRow(who) ==
    LET hers == {j \in Known : shelf[j].order.who = who}
        unbilled == {j \in hers : Status(j) \in {"failed", "cancelled"}}
    IN  [jobs |-> Cardinality(hers),
         completed |-> Cardinality({j \in hers : Status(j) = "completed"}),
         declined  |-> Cardinality(unbilled),
         revenue |-> SumFunction([j \in hers |-> Cents(Of(j, Entries("revenue")))]),
         cogs    |-> SumFunction([j \in hers |-> Cents(Of(j, Entries("expense")))])]

Buyers == {shelf[j].order.who : j \in Known}
BookSummary ==
    LET revenue == SumFunction([w \in Buyers |-> CustomerRow(w).revenue])
        cogs    == SumFunction([w \in Buyers |-> CustomerRow(w).cogs])
    IN  [revenue |-> revenue, net |-> revenue - cogs]

-----------------------------------------------------------------------------
(* turnaround.py and the alert on late jobs of alerts.py                   *)

PaidAt(j) == Min({e.ts : e \in Of(j, Entries("revenue"))})
Measured == {j \in Job : HasRevenue(j) /\ delivered[j] # Never /\ delivered[j] >= PaidAt(j)}

\* The value at index round((n - 1) * hundredths / 100) of the sorted waits.
Percentile(hundredths) ==
    LET Wait(j) == delivered[j] - PaidAt(j)
        k == Round((Cardinality(Measured) - 1) * hundredths, 100)
    IN  CHOOSE w \in {Wait(j) : j \in Measured} :
          /\ Cardinality({j \in Measured : Wait(j) < w}) <= k
          /\ k < Cardinality({j \in Measured : Wait(j) <= w})

HasHistory == Cardinality(Measured) >= PromiseSamples
PromiseSeconds == Larger(Percentile(90), FloorWait)
LateThreshold  == Larger(2 * Percentile(95), FloorWait)

\* check_stuck_jobs: an age since the row was last touched.
StuckJobs ==
    {j \in Job : /\ Status(j) = "paid"
                 /\ shopClock - shelf[j].updated >= IF HasHistory /\ LateThreshold > 0
                                                    THEN LateThreshold ELSE StuckWarn}

-----------------------------------------------------------------------------
(* reconcile.py                                                            *)

\* A job has one PaymentIntent here; its revenue entry carries its reference.
Since == shopClock - Lookback
AtStripe == {j \in Job : intents[j] # Never /\ intents[j] >= Since}
\* Mutant: all of the ledger is held against the payments of the window.
InLedgerEver == {j \in Job : HasRevenue(j)}

InLedger == {j \in Job : \E e \in Of(j, Entries("revenue")) : e.ts >= Since}
Duplicates == {j \in Job : Cardinality(Of(j, Entries("revenue"))) > 1}
DriftFound == AtStripe # InLedger \/ Duplicates # {}

-----------------------------------------------------------------------------
(* backlog.py                                                              *)

\* The worker scores with the static cost model, whatever the agent quotes with.
Estimate(j) == CalibratedCost(ScopeFor(shelf[j].order.asked), 1000)
Margin(j)   == shelf[j].order.budget - Estimate(j)
Roi(j)      == Round(1000 * Margin(j), Larger(Estimate(j), 1))

OpenRows == {j \in Known : Status(j) \in {"pending_quote", "awaiting_payment", "paid"}}

\* Paid work first, then return on capital, then margin, then age (which no row
\* here records: of two that tie, either may come first, so there are as many
\* queues as ways to break the ties).
Before(a, b) ==
    \/ HasRevenue(a) /\ ~HasRevenue(b)
    \/ /\ HasRevenue(a) = HasRevenue(b)
       /\ Roi(a) > Roi(b) \/ (Roi(a) = Roi(b) /\ Margin(a) > Margin(b))

SpendCapacity == Larger(Smaller(DayBudget - SpentToday, Balance - CashReserve), 0)

Queues == {q \in SetToSeqs(OpenRows) : \A i, k \in DOMAIN q : i < k => ~Before(q[k], q[i])}

\* rank: unpaid jobs are committed in order, one that does not fit is put off.
Commit(plan, j) ==
    IF HasRevenue(j) THEN [plan EXCEPT !.runs = @ \cup {j}]
    ELSE IF plan.committed + Estimate(j) > SpendCapacity THEN plan
    ELSE [runs |-> plan.runs \cup {j}, committed |-> plan.committed + Estimate(j)]
PlanOf(queue) ==
    LET after[n \in 0..Cardinality(OpenRows)] ==
            IF n = 0 THEN [runs |-> {}, committed |-> 0] ELSE Commit(after[n - 1], queue[n])
    IN  after[Cardinality(OpenRows)]
Plans == {PlanOf(q) : q \in Queues}

-----------------------------------------------------------------------------
(* Properties.                                                             *)

\* Money the funnel counts is money the ledger has, between any two commits: as
\* many paid orders as jobs with revenue; the prices of won and lost sales are the
\* revenue, but for what customers paid beyond them; every checkout row is in the
\* checkout stage, unless its order has been turned away since; and what else is
\* in that stage is cancelled, or waits for the row a handler is about to write
\* ("each a superset of the next", funnel._stages).
FunnelAgrees ==
    LET f == Funnel
        sold == Won + Budgets(Outcomes({"refunded"}))
        waiting == {j \in Job : Status(j) = "awaiting_payment"} \ listed
    IN  /\ f.paid = Cardinality({j \in Job : HasRevenue(j)})
        /\ sold <= IncomeStatement.revenue
        /\ (\A e \in Entries("revenue") : e.cents = shelf[e.job].order.budget)
             => sold = IncomeStatement.revenue
        /\ f.accepted >= f.checkout /\ f.checkout >= f.paid
        /\ Cardinality({j \in listed : HasRevenue(j) \/ Status(j) # "failed"}) <= f.checkout
        /\ f.checkout <= Cardinality(listed) + Count({"cancelled"}) + Cardinality(waiting)

\* Treasury, income statement, daily statement, export and customer book close
\* on the same figures, and what went back to customers is what they had paid ("so
\* it always ties out", export.period_summary; "the money that actually moved",
\* customers.customer_stats).
StatementsAgree ==
    LET rows == LedgerRows(0)
        sum  == PeriodSummary(rows)
        days == PeriodPnl
        book == IncomeStatement
        cash == Balance
    IN  /\ book.balance = cash /\ sum.capital + sum.net = cash
        /\ \E d \in DOMAIN days : days[d].ending = cash /\ \A k \in DOMAIN days : k <= d
        /\ \E e \in rows : BalanceAfter(e, rows) = cash
        /\ SumFunction([d \in DOMAIN days |-> days[d].net]) = book.net /\ sum.net = book.net
        /\ sum.refunds = SumFunction([j \in {i \in Job : Refunded(i)} |-> Cents(Received(j))])
        /\ SumFunction(book.vendors) = sum.refunds + sum.cogs
        /\ BookSummary.revenue = book.revenue /\ BookSummary.net = book.net
        /\ SumFunction([j \in Known |-> JobPnl(j)]) = book.net

\* Nobody is paged over a job that is within the promise customers were given:
\* a job reported late has been paid at least that long (turnaround.py, "the
\* slack that keeps a normal slow job from paging anyone").
PromisesAgree ==
    \A j \in StuckJobs :
        HasHistory => /\ shopClock - PaidAt(j) >= PromiseSeconds
                      /\ LateThreshold >= PromiseSeconds

\* A reconciliation without drift has every payment of its window booked once,
\* and one with drift is about an unbooked payment, or one that was made before
\* the window and booked within it.
DriftIsReal ==
    /\ ~DriftFound => \A j \in AtStripe : Cardinality(Of(j, Entries("revenue"))) = 1
    /\ DriftFound => \E j \in Job :
         /\ intents[j] # Never
         /\ \/ ~HasRevenue(j)
            \/ intents[j] < Since /\ PaidAt(j) >= Since

\* What the books say of one state agrees.
BooksAgree == FunnelAgrees /\ StatementsAgree /\ PromisesAgree /\ DriftIsReal

\* The price of every order that is offered or sold keeps the margin floor over the
\* static cost of its brief, whatever the calibration was then, however it came
\* past the gate; and what a sold order really costs, over all its drafts and
\* retries, breaks the floor by no more than a cent for each of its metered requests,
\* which are billed in whole cents (docs/COMMERCIAL_JUDGEMENT.md; pricing.quote,
\* spending.metered_model).
SoldOrdersKeepTheFloor ==
    \A j \in Known :
        /\ j \in listed \/ Status(j) \in {"awaiting_payment", "paid", "completed"} =>
             KeepsFloor(shelf[j].order.budget, shelf[j].raw) /\ shelf[j].est >= shelf[j].raw
        /\ HasRevenue(j) =>
             /\ Cents(Received(j)) >= shelf[j].order.budget
             /\ KeepsFloor(shelf[j].order.budget, Cents(Of(j, Costs)) - Requests(j))

\* Every order that is turned away on its price is told a way that works.
DeclinesNegotiate ==
    \A j \in Known :
        LET o == shelf[j].order
        IN  Status(j) = "pending_quote" => NegotiationHolds(o.budget, o.asked, factor)

\* The plan commits no more than may be spent.  With an agent that quotes from
\* the model the plan uses, an unpaid order the plan runs is not turned away for
\* want of funds, unless it costs nothing and the reserve is short already; and an
\* order that the gate has let through is not blocked for want of funds either,
\* as long as it keeps to its estimate, if no other job has taken money since.
\* (An order that came past the gate on a retry has no such promise.)
\* (backlog.rank, stages._stage_quote, guardrails.evaluate)
PlanHolds ==
    /\ \A plan \in Plans :
         /\ plan.committed <= SpendCapacity
         /\ \A j \in plan.runs :
              LET o == shelf[j].order
                  cost == QuoteOf(o.budget, o.asked, factor).cost
              IN  factor = 1000 /\ Status(j) = "pending_quote" /\ ~HasRevenue(j) /\ cost > 0
                    => Fits(o.budget, cost)
    /\ \A j \in Job :
         LET left == shelf[j].raw - Cents(Of(j, Costs))
         IN  (/\ Status(j) = "paid" /\ ~Refunded(j) /\ shelf[j].cleared \in Nat /\ left >= 0
              /\ \A e \in Entries("expense") \ Of(j, ledger) : e.ts < shelf[j].cleared)
               => Affordable(left)

\* What the shop agrees to pays for itself, what it turns down it negotiates
\* on, and what it plans it can fund.
MarginHolds == ShopTypeOK /\ SoldOrdersKeepTheFloor /\ DeclinesNegotiate /\ PlanHolds
=============================================================================

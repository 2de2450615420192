------------------------------ MODULE Storefront ------------------------------
(***************************************************************************)
(* The shop as its books see it: orders quoted against the margin gate and *)
(* the spend budget, listed for payment, paid, fulfilled cost by cost,     *)
(* refunded, expired, cancelled and taken up again.  A step is what a      *)
(* handler commits at one time to the tables the reports of Books read     *)
(* (the ledger, the job and checkout rows, the metrics, the events), so a  *)
(* report may come, and a handler die, between any two.  Where a handler   *)
(* stands between its own commits is not recorded (JobPipeline has that):  *)
(* what it does next is possible in every state its last commit left.      *)
(***************************************************************************)
EXTENDS Pricing, FiniteSets, SequencesExt

CONSTANTS Job, Order,  \* an order: [who, budget, asked]
          Seed,        \* seed capital
          DayBudget, CashReserve,   \* daily_budget_cents, min_reserve_cents
          DayLength,   \* the rolling 24 hours, in clock steps
          ShopTime,    \* bound on the clock
          Tips,        \* what a payment may exceed the price by
          Bill,        \* the cents one charge may come to
          MaxRequests, \* bound on a brief's metered requests: each takes 1456 tokens
                       \* at least of an allowance that retries do not renew
          DriftSamples, DriftWindow \* MIN_SAMPLES and the window of calibration

\* Every order has a buyer and a price, and the shop starts above its reserve.
ASSUME StorefrontAssumption ==
    /\ \A o \in Order : o.budget \in Nat /\ o.asked \in [Dials -> Nat]
    /\ Seed \in Nat /\ DayBudget \in Nat /\ CashReserve \in Nat
    /\ DayLength \in Nat /\ ShopTime \in Nat /\ DriftWindow \in Nat
    /\ \A n \in Tips : n \in Nat
    /\ \A n \in Bill : n \in Nat \ {0}
    /\ MaxRequests \in Nat

VARIABLES shopClock,
          shelf,     \* the rows of jobs
          ledger,    \* entries [kind, job, vendor, cents, ts, nth]
          intents,   \* when the customer's PaymentIntent was made at Stripe
          listed,    \* jobs with a checkout row
          published, \* jobs whose brief the customer may have seen
          delivered, \* jobs' delivered events
          metrics,   \* rows [job, est, actual, refunded], last touched last
          factor     \* cost_calibration of the running agent

shopVars == <<shopClock, shelf, ledger, intents, listed, published, delivered, metrics, factor>>

House  == "house"      \* entries that belong to no job
Refund == "customer-refund"
Vendor == {"nvidia-nemotron", "tools"}  \* tokens; everything else a brief takes
Never  == -1
Turned == -2           \* turned away at the gate
Reasons == {"none", "intake", "rejected", "other"}
Empty  == [status |-> "none"]
Sheets == [status : {"pending_quote", "awaiting_payment", "paid", "completed", "failed",
                     "expired", "cancelled"},
           order : Order, updated : Nat, why : Reasons,
           est : Nat \cup {Never}, raw : Nat,  \* of the quote, once there is one
           cleared : Nat \cup {Never, Turned}]  \* when the gate let it through

ShopTypeOK ==
    /\ shopClock \in 0..ShopTime /\ factor \in 1000..FactorCeiling
    /\ \A j \in Job : shelf[j] \in Sheets \cup {Empty}
    /\ \A e \in ledger : e.cents \in Nat /\ e.ts \in 0..shopClock
    /\ \A j \in Job : intents[j] \in {Never} \cup 0..shopClock
    /\ \A j \in Job : delivered[j] \in {Never} \cup 0..shopClock
    /\ listed \subseteq Job /\ published \subseteq Job
    /\ \A i, k \in 1..Len(metrics) : metrics[i].job = metrics[k].job => i = k

ShopInit ==
    /\ shopClock = 0 /\ shelf = [j \in Job |-> Empty]
    /\ ledger = {[kind |-> "capital", job |-> House, vendor |-> "none", cents |-> Seed, ts |-> 0,
                nth |-> 0]}
    /\ intents = [j \in Job |-> Never] /\ delivered = [j \in Job |-> Never]
    /\ listed = {} /\ published = {} /\ metrics = <<>> /\ factor = 1000

-----------------------------------------------------------------------------
(* Sums over the ledger (treasury.py).                                     *)

Cents(entries) == SumFunctionOnSet([e \in entries |-> e.cents], entries)
Entries(kind) == {e \in ledger : e.kind = kind}
Of(j, entries) == {e \in entries : e.job = j}
Costs == {e \in Entries("expense") : e.vendor # Refund}
Balance == Cents(ledger \ Entries("expense")) - Cents(Entries("expense"))
Received(j) == Of(j, Entries("revenue"))
HasRevenue(j) == Received(j) # {}
Refunded(j) == Of(j, Entries("expense")) \ Costs # {}
Charges(j, v) == {e \in Of(j, Costs) : e.vendor = v}
JobPnl(j) == Cents(Received(j)) - Cents(Of(j, Entries("expense")))

\* _spent_last_24h: what went to customers is not spend.
SpentToday == Cents({e \in Costs : e.ts >= shopClock - DayLength})

\* No two entries are the same one (uuid in the code, here a number).
Book(kind, j, vendor, cents) ==
    ledger' = ledger \cup {[kind |-> kind, job |-> j, vendor |-> vendor, cents |-> cents,
                            ts |-> shopClock, nth |-> Cardinality({e \in Of(j, ledger) : e.vendor = vendor})]}

-----------------------------------------------------------------------------
(* The handlers.                                                           *)

Status(j) == shelf[j].status
\* updated_at is kept of paid rows: nothing here reads another's.
Touch(j, status) == [shelf EXCEPT ![j].status = status,
                                  ![j].updated = IF status = "paid" THEN shopClock ELSE 0]

\* The row of a job, or the one it is inserted with, column by column; written, it
\* is the latest.
RowOf(j) ==
    IF \E i \in 1..Len(metrics) : metrics[i].job = j
    THEN metrics[CHOOSE i \in 1..Len(metrics) : metrics[i].job = j]
    ELSE [job |-> j, est |-> 0, actual |-> 0, refunded |-> FALSE]
Upsert(row) ==
    \/ /\ \A i \in 1..Len(metrics) : metrics[i].job # row.job
       /\ metrics' = Append(metrics, row)
    \/ \E i \in 1..Len(metrics) :
         metrics[i].job = row.job /\ metrics' = Append(RemoveAt(metrics, i), row)

\* The screens, at the start of run_job: held, not fit to be quoted (security,
\* unknown product), or let through.
Screened(j, sheet) ==
    \E fate \in {"none", "intake", "rejected"} :
      /\ shelf' = [shelf EXCEPT ![j] =
           [sheet EXCEPT !.status = IF fate = "none" THEN "pending_quote" ELSE "failed",
                         !.why = fate, !.updated = 0]]
      /\ IF fate = "intake" THEN Upsert(RowOf(j)) ELSE UNCHANGED metrics

Submit(j, o) ==
    /\ shelf[j] = Empty
    /\ Screened(j, [status |-> "pending_quote", order |-> o, updated |-> 0, why |-> "none",
                    est |-> Never, raw |-> 0, cleared |-> Never])
    /\ UNCHANGED <<shopClock, ledger, intents, listed, published, delivered, factor>>

\* advance_job of an open or cancelled row, retry_job of an unpaid failure: the
\* whole of run_job again, over what is on record.
Rerun(j) ==
    /\ Status(j) \in {"pending_quote", "cancelled"} \/ (Status(j) = "failed" /\ ~HasRevenue(j))
    /\ Screened(j, shelf[j])
    /\ UNCHANGED <<shopClock, ledger, intents, listed, published, delivered, factor>>

\* A quote is made once; a later run meets it in the cache.
Quote(j) ==
    LET o == shelf[j].order
        q == QuoteOf(o.budget, o.asked, factor)
        quoted == [shelf[j] EXCEPT !.est = q.cost,
                                   !.raw = CalibratedCost(ScopeFor(o.asked), 1000)]
    IN  /\ Status(j) = "pending_quote" /\ shelf[j].est = Never
        /\ IF q.accept
           THEN shelf' = [shelf EXCEPT ![j] = quoted] /\ UNCHANGED metrics
           ELSE /\ shelf' = [shelf EXCEPT ![j] = [quoted EXCEPT !.status = "failed", !.why = "other"]]
                /\ Upsert([RowOf(j) EXCEPT !.est = q.cost])
        /\ UNCHANGED <<shopClock, ledger, intents, listed, published, delivered, factor>>

Accepted(j) ==
    shelf[j].est # Never /\ Verdict(shelf[j].order.budget, shelf[j].est) = "accepted"

\* The check of _stage_quote under the treasury lock.
Fits(price, est) ==
    /\ SpentToday + est <= DayBudget
    /\ Balance + price - est >= CashReserve

\* The run that has made the quote goes through the gate to the checkout.
Gate(j) ==
    /\ Status(j) = "pending_quote" /\ Accepted(j) /\ shelf[j].cleared = Never /\ j \notin listed
    /\ shelf' = IF Fits(shelf[j].order.budget, shelf[j].est)
                THEN [Touch(j, "awaiting_payment") EXCEPT ![j].cleared = shopClock]
                ELSE [Touch(j, "failed") EXCEPT ![j].why = "other", ![j].cleared = Turned]
    /\ UNCHANGED <<shopClock, ledger, intents, listed, published, delivered, metrics, factor>>

\* A run that has met the quote passes the gate by; the link, if there is one, it
\* meets too, and leaves the row as it is.
Resume(j) ==
    /\ Status(j) = "pending_quote" /\ Accepted(j) /\ j \notin listed
    /\ shelf' = Touch(j, "awaiting_payment")
    /\ UNCHANGED <<shopClock, ledger, intents, listed, published, delivered, metrics, factor>>

\* The checkout row, once Stripe has made the link, if it does: until then the
\* order waits for a payment nobody can make.  The job row is written again,
\* whatever an operator has made of it.
List(j) ==
    /\ Status(j) \in {"awaiting_payment", "cancelled"} /\ Accepted(j) /\ j \notin listed
    /\ listed' = listed \cup {j}
    /\ shelf' = Touch(j, "awaiting_payment")
    /\ UNCHANGED <<shopClock, ledger, intents, published, delivered, metrics, factor>>

\* The customer, at Stripe, where the link outlives what becomes of the order.
Pay(j) ==
    /\ j \in listed /\ intents[j] = Never
    /\ intents' = [intents EXCEPT ![j] = shopClock]
    /\ UNCHANGED <<shopClock, shelf, ledger, listed, published, delivered, metrics, factor>>

\* A payment short of the price is refused, a larger one is booked as it is.
BookSale(j) ==
    /\ intents[j] # Never /\ ~HasRevenue(j)
    /\ Status(j) \notin {"none", "expired", "failed", "completed"}
    /\ \E tip \in Tips : Book("revenue", j, "none", shelf[j].order.budget + tip)
    /\ UNCHANGED <<shopClock, shelf, intents, listed, published, delivered, metrics, factor>>

\* The row of a job with revenue is set to work: after the booking, by a handler
\* that finds the revenue, or on the retry of a failure whose money was kept.
TakeOn(j) ==
    /\ HasRevenue(j)
    /\ \/ Status(j) \in {"pending_quote", "awaiting_payment", "cancelled", "paid"}
       \/ Status(j) = "failed" /\ ~Refunded(j)
    /\ shelf' = Touch(j, "paid")
    /\ UNCHANGED <<shopClock, ledger, intents, listed, published, delivered, metrics, factor>>

\* What the quote allows for, by vendor.
Share(j, v) ==
    LET lines == Breakdown(ScopeFor(shelf[j].order.asked))
    IN  IF v = "tools" THEN Total(lines) - lines["tokens"] ELSE lines["tokens"]
Booked(j) == {e.vendor : e \in Of(j, Costs)}
Requests(j) == Cardinality(Charges(j, "nvidia-nemotron"))
Affordable(cents) == SpentToday + cents <= DayBudget /\ Balance - cents >= CashReserve

\* One charge.  Tools cost what the quote allows for or less; the requests to the
\* model share its tokens, and each is billed in whole cents, rounded up, while the
\* quote was rounded to the nearest.
Spend(j, v) ==
    /\ Status(j) = "paid" /\ HasRevenue(j) /\ ~Refunded(j) /\ j \notin published
    /\ \E cents \in Bill :
         /\ IF v = "tools" THEN Cents(Charges(j, v)) + cents <= Share(j, v)
            ELSE /\ Requests(j) < MaxRequests
                 /\ Cents(Charges(j, v)) + cents <= Share(j, v) + Requests(j) + 1
         /\ Affordable(cents) /\ Book("expense", j, v, cents)
    /\ UNCHANGED <<shopClock, shelf, intents, listed, published, delivered, metrics, factor>>

\* A spend is blocked, by these or other rules, or the work fails, and the refund
\* is made and booked: what has been spent stays spent.
GiveBack(j) ==
    /\ Status(j) = "paid" /\ HasRevenue(j) /\ ~Refunded(j) /\ j \notin published
    /\ Book("expense", j, Refund, Cents(Received(j)))
    /\ UNCHANGED <<shopClock, shelf, intents, listed, published, delivered, metrics, factor>>

\* The end of the same handler: also where the refund fails, or the brief has
\* been published and cannot be mailed, and the money is kept.
GiveUp(j) ==
    /\ Status(j) = "paid" /\ shelf' = [Touch(j, "failed") EXCEPT ![j].why = "other"]
    /\ IF Refunded(j) THEN Upsert([RowOf(j) EXCEPT !.refunded = TRUE]) ELSE UNCHANGED metrics
    /\ UNCHANGED <<shopClock, ledger, intents, listed, published, delivered, factor>>

\* Reconciled and published; mailed; completed.
Publish(j) ==
    /\ Status(j) = "paid" /\ HasRevenue(j) /\ ~Refunded(j) /\ j \notin published
    /\ Booked(j) = {v \in Vendor : Share(j, v) > 0}
    /\ Upsert([RowOf(j) EXCEPT !.est = shelf[j].est, !.actual = Cents(Of(j, Costs)),
                               !.refunded = FALSE])
    /\ published' = published \cup {j}
    /\ UNCHANGED <<shopClock, shelf, ledger, intents, listed, delivered, factor>>

Mail(j) ==
    /\ Status(j) = "paid" /\ j \in published /\ delivered[j] = Never
    /\ delivered' = [delivered EXCEPT ![j] = shopClock]
    /\ shelf' = Touch(j, "paid")
    /\ UNCHANGED <<shopClock, ledger, intents, listed, published, metrics, factor>>

\* Without the event, where a handler died between the mail and it.
Complete(j) ==
    /\ Status(j) = "paid" /\ j \in published
    /\ shelf' = Touch(j, "completed")
    /\ UNCHANGED <<shopClock, ledger, intents, listed, published, delivered, metrics, factor>>

Expire(j) ==
    /\ Status(j) = "awaiting_payment" /\ j \in listed /\ ~HasRevenue(j)
    /\ shelf' = Touch(j, "expired")
    /\ UNCHANGED <<shopClock, ledger, intents, listed, published, delivered, metrics, factor>>

Cancel(j) ==
    /\ Status(j) \notin {"none", "completed", "cancelled"}
    /\ shelf' = Touch(j, "cancelled")
    /\ UNCHANGED <<shopClock, ledger, intents, listed, published, delivered, metrics, factor>>

\* cost_drift over the newest usable rows, read when the agent is made.
Drift ==
    LET usable == {i \in 1..Len(metrics) :
                     metrics[i].est > 0 /\ metrics[i].actual > 0 /\ ~metrics[i].refunded}
        last   == {i \in usable : Cardinality({k \in usable : k > i}) < DriftWindow}
    IN  [samples |-> Cardinality(last),
         est    |-> SumFunctionOnSet([i \in last |-> metrics[i].est], last),
         actual |-> SumFunctionOnSet([i \in last |-> metrics[i].actual], last)]

Restart ==
    /\ factor' = Calibration(Drift.samples >= DriftSamples, Drift.actual, Drift.est)
    /\ UNCHANGED <<shopClock, shelf, ledger, intents, listed, published, delivered, metrics>>

ShopTick ==
    /\ shopClock < ShopTime /\ shopClock' = shopClock + 1
    /\ UNCHANGED <<shelf, ledger, intents, listed, published, delivered, metrics, factor>>

ShopNext ==
    \/ ShopTick \/ Restart
    \/ \E j \in Job :
         \/ \E o \in Order : Submit(j, o)
         \/ Rerun(j) \/ Quote(j) \/ Gate(j) \/ Resume(j) \/ List(j) \/ Expire(j) \/ Cancel(j)
         \/ Pay(j) \/ BookSale(j) \/ TakeOn(j) \/ GiveBack(j) \/ GiveUp(j)
         \/ Publish(j) \/ Mail(j) \/ Complete(j)
         \/ \E v \in Vendor : Spend(j, v)

ShopSpec == ShopInit /\ [][ShopNext]_shopVars
=============================================================================

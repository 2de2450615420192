----------------------------- MODULE JobPipeline -----------------------------
(***************************************************************************)
(* One commission of SOLVENT, from submission to a delivered brief or a    *)
(* refund, as the stage machine of solvent/stages.py runs it over the      *)
(* SQLite rows of solvent/treasury.py.                                     *)
(*                                                                         *)
(* Everything here is keyed by one job id: its row in `jobs`, its rows in  *)
(* `job_stages`, `stripe_checkout` and `ledger`, and its fulfilment lock   *)
(* file.  Jobs meet only in the shared budgets (SpendGuard) and in the     *)
(* journal of Nano blocks (NanoSettlement).                                *)
(*                                                                         *)
(* Proc are the handlers that may run the job at the same time: HTTP and   *)
(* webhook handlers, worker loops, command line calls.  Every treasury     *)
(* operation holds the treasury file lock, so one operation, or one        *)
(* `with t.lock()` block, is one step here; everything between two of them *)
(* (provider, rail and mail I/O) is a separate step others may overtake.   *)
(* A process may die at any step, and inside a locked block between two of *)
(* its SQLite commits.                                                     *)
(***************************************************************************)
EXTENDS Naturals

CONSTANTS Proc,          \* handlers that may work on the job concurrently
          None,          \* nobody holds the fulfilment lock
          MaxRetries,    \* MAX_RETRIES of retry_job (3 in the code)
          RetryCalls,    \* bound on the calls of retry_job
          MaxCrashes     \* bound on process deaths

ASSUME PipelineAssumption ==
    /\ None \notin Proc
    /\ MaxRetries \in Nat
    /\ RetryCalls \in Nat
    /\ MaxCrashes \in Nat

VARIABLES
    status,        \* jobs.status ("none": no row yet)
    underReview,   \* jobs.error_reason carries the intake-review prefix
    quoteJson,     \* jobs.quote_json is set
    retries,       \* jobs.retry_count
    stages,        \* completed rows of job_stages
    quoteOk,       \* "accept" recorded in the quote stage's result
    link,          \* the payment link at the rail
    checkoutRow,   \* stripe_checkout.status
    payment,       \* "none", or "made" by the customer
    revenue,       \* revenue entries of the job in the ledger
    refunds,       \* customer-refund entries of the job in the ledger
    railRefunded,  \* the rail has accepted a refund of the payment
    reserved,      \* an unresolved spend reservation of the job exists
    fulfilLock,    \* holder of <treasury>.<sha256(job)>.fulfill.lock
    crashes,       \* process deaths so far
    pc             \* where each handler is in the stage machine

jobRow   == <<status, underReview, quoteJson, retries>>
stageRows == <<stages, quoteOk>>
rail     == <<link, checkoutRow, payment>>
money    == <<revenue, refunds, railRefunded, reserved>>
vars == <<jobRow, stageRows, rail, money, fulfilLock, crashes, pc>>

Statuses == {"none", "received", "pending_quote", "awaiting_payment",
             "paid_pending_fulfill", "in_progress", "completed", "failed",
             "expired", "cancelled"}
WorkerStatuses == {"awaiting_payment", "in_progress", "paid_pending_fulfill",
                   "pending_quote"}
Terminal == {"completed", "failed", "expired"}
Stages == {"quote", "checkout", "paid", "fulfill", "spend", "publish",
           "deliver", "refund"}

\* Steps taken while holding the job's fulfilment lock: doing the work, and
\* unwinding it in the `except` branch.
Working   == {"work", "brief", "call", "write", "spend", "publish", "deliver",
              "delivered", "complete"}
Unwinding == {"fail", "refund", "bookRefund", "close"}
Locked    == Working \cup Unwinding
Steps == Locked \cup
         {"idle", "retryOpen", "retryFailed", "resume", "screen", "quote",
          "price", "quoteYes", "quoteNo", "decline", "gate", "checkout",
          "session", "list", "announce", "pay", "poll", "book", "fulfil",
          "sweep", "expire"}

TypeOK ==
    /\ status \in Statuses
    /\ underReview \in BOOLEAN
    /\ quoteJson \in BOOLEAN
    /\ retries \in 0..RetryCalls
    /\ stages \subseteq Stages
    /\ quoteOk \in BOOLEAN
    /\ link \in {"none", "open", "closed"}
    /\ checkoutRow \in {"none", "open", "paid", "expired"}
    /\ payment \in {"none", "made"}
    /\ revenue \in Nat
    /\ refunds \in Nat
    /\ railRefunded \in BOOLEAN
    /\ reserved \in BOOLEAN
    /\ fulfilLock \in Proc \cup {None}
    /\ crashes \in 0..MaxCrashes
    /\ pc \in [Proc -> Steps]

Init ==
    /\ status = "none" /\ underReview = FALSE /\ quoteJson = FALSE /\ retries = 0
    /\ stages = {} /\ quoteOk = FALSE
    /\ link = "none" /\ checkoutRow = "none" /\ payment = "none"
    /\ revenue = 0 /\ refunds = 0 /\ railRefunded = FALSE /\ reserved = FALSE
    /\ fulfilLock = None /\ crashes = 0
    /\ pc = [p \in Proc |-> "idle"]

-----------------------------------------------------------------------------
(* Control: where a handler goes next.                                     *)

At(p, step)   == pc[p] = step
Goto(p, step) == pc' = [pc EXCEPT ![p] = step]

\* The handler dies inside a locked block, after some of its commits.
DieHere(p) ==
    /\ crashes < MaxCrashes
    /\ crashes' = crashes + 1
    /\ Goto(p, "idle")

\* upsert_job(status, error_reason=...): the new reason is not a review hold.
SetStatus(s) == status' = s /\ UNCHANGED <<underReview, quoteJson, retries>>
SetStatusAndReason(s) ==
    status' = s /\ underReview' = FALSE /\ UNCHANGED <<quoteJson, retries>>

\* Where advance_job sends a job that is not terminal.
Entry == IF status = "pending_quote" \/ ~quoteJson THEN "screen"
         ELSE IF status = "awaiting_payment" THEN "pay"
         ELSE IF status \in {"in_progress", "paid_pending_fulfill"} THEN "fulfil"
         ELSE "screen"

-----------------------------------------------------------------------------
(* Entering the machine.                                                   *)

\* enqueue_job claims a fresh id with INSERT OR IGNORE.
Enqueue(p) ==
    /\ At(p, "idle") /\ status = "none"
    /\ SetStatus("received")
    /\ Goto(p, "screen")
    /\ UNCHANGED <<stageRows, rail, money, fulfilLock, crashes>>

\* handle_job runs a job from the top whatever its row says.
HandleJob(p) ==
    /\ At(p, "idle")
    /\ Goto(p, "screen")
    /\ UNCHANGED <<jobRow, stageRows, rail, money, fulfilLock, crashes>>

\* advance_job, called by the worker, a webhook or a Nano proof.
Advance(p) ==
    /\ At(p, "idle")
    /\ status \notin Terminal \cup {"none"}
    /\ Goto(p, Entry)
    /\ UNCHANGED <<jobRow, stageRows, rail, money, fulfilLock, crashes>>

\* retry_job reads the job and refuses one whose payment was refunded; then, in
\* operations of their own, it counts the retry and reads the ledger again.
Retry(p) ==
    /\ At(p, "idle") /\ retries < RetryCalls
    /\ \/ status = "awaiting_payment" /\ Goto(p, "retryOpen")
       \/ /\ status = "failed" /\ ~(revenue > 0 /\ revenue <= refunds)
          /\ Goto(p, "retryFailed")
    /\ UNCHANGED <<jobRow, stageRows, rail, money, fulfilLock, crashes>>

\* Past the cap the counter still grows before the call fails.  A checkout
\* whose quote was lost by a crash is declined.
RetryFrom(p) ==
    /\ retries < RetryCalls
    /\ retries' = retries + 1
    /\ \/ At(p, "retryOpen")
          /\ Goto(p, IF retries' <= MaxRetries /\ quoteJson THEN "pay" ELSE "idle")
       \/ At(p, "retryFailed")
          /\ Goto(p, IF retries' > MaxRetries THEN "idle"
                     ELSE IF revenue > refunds THEN "fulfil" ELSE "screen")
    /\ UNCHANGED <<status, underReview, quoteJson, stageRows, rail, money,
                   fulfilLock, crashes>>

\* resume_incomplete_jobs at worker start: it reads the job, then rewrites its
\* status in a separate operation; the worker advances it later (Advance).
Resume(p) ==
    /\ At(p, "idle")
    /\ status \notin {"none", "completed", "failed"}
    /\ revenue > 0 /\ "fulfill" \notin stages
    /\ Goto(p, "resume")
    /\ UNCHANGED <<jobRow, stageRows, rail, money, fulfilLock, crashes>>

ResumeWrite(p) ==
    /\ At(p, "resume")
    /\ SetStatus("paid_pending_fulfill")
    /\ Goto(p, "idle")
    /\ UNCHANGED <<stageRows, rail, money, fulfilLock, crashes>>

-----------------------------------------------------------------------------
(* Screening, quoting and opening the checkout.                            *)

\* validate_and_coerce_job and screen_and_record: a decline overwrites the row
\* whatever it held, and is reviewable when the intake screen declined.  (A
\* payload refused before anything is written changes nothing: a stutter.)
Screen(p) ==
    /\ At(p, "screen")
    /\ \/ /\ status' = "failed"
          /\ underReview' \in BOOLEAN
          /\ UNCHANGED <<quoteJson, retries>>
          /\ Goto(p, "idle")
       \/ /\ SetStatus("pending_quote")
          /\ Goto(p, "quote")
    /\ UNCHANGED <<stageRows, rail, money, fulfilLock, crashes>>

\* _stage_quote: a recorded quote is final, accepted or not.
Quote(p) ==
    /\ At(p, "quote")
    /\ Goto(p, IF "quote" \notin stages THEN "price"
               ELSE IF quoteOk THEN "checkout" ELSE "idle")
    /\ UNCHANGED <<jobRow, stageRows, rail, money, fulfilLock, crashes>>

\* Two handlers may price the job at once, with different calibrations: the
\* first recorded result stays, each continues with its own.
Price(p) ==
    /\ At(p, "price")
    /\ \E ok \in BOOLEAN :
         /\ quoteOk' = IF "quote" \in stages THEN quoteOk ELSE ok
         /\ Goto(p, IF ok THEN "quoteYes" ELSE "quoteNo")
    /\ stages' = stages \cup {"quote"}
    /\ UNCHANGED <<jobRow, rail, money, fulfilLock, crashes>>

BookQuote(p) ==
    /\ \/ At(p, "quoteYes") /\ status' = "pending_quote" /\ Goto(p, "gate")
       \/ At(p, "quoteNo") /\ status' = "failed" /\ Goto(p, "decline")
    /\ quoteJson' = TRUE
    /\ UNCHANGED <<underReview, retries, stageRows, rail, money, fulfilLock, crashes>>

Decline(p) ==
    /\ At(p, "decline")
    /\ SetStatusAndReason("failed")
    /\ Goto(p, "idle")
    /\ UNCHANGED <<stageRows, rail, money, fulfilLock, crashes>>

\* The 24h budget and cash reserve checks that follow a fresh quote.
Gate(p) ==
    /\ At(p, "gate")
    /\ \/ SetStatusAndReason("failed") /\ Goto(p, "idle")
       \/ UNCHANGED jobRow /\ Goto(p, "checkout")
    /\ UNCHANGED <<stageRows, rail, money, fulfilLock, crashes>>

\* _stage_checkout: a cached checkout leaves the row's status alone.
Checkout(p) ==
    /\ At(p, "checkout")
    /\ IF "checkout" \in stages
       THEN UNCHANGED jobRow /\ Goto(p, "pay")
       ELSE SetStatus("awaiting_payment") /\ Goto(p, "session")
    /\ UNCHANGED <<stageRows, rail, money, fulfilLock, crashes>>

\* Create the session (idempotent at the rail) and record the stage, or fail.
OpenSession(p) ==
    /\ At(p, "session")
    /\ \/ /\ Goto(p, "idle")
          /\ UNCHANGED <<stages, link>>
       \/ /\ link' = IF link = "none" THEN "open" ELSE link
          /\ stages' = stages \cup {"checkout"}
          /\ Goto(p, "list")
    /\ UNCHANGED <<jobRow, quoteOk, checkoutRow, payment, money, fulfilLock, crashes>>

ListCheckout(p) ==
    /\ At(p, "list")
    /\ checkoutRow' = "open"
    /\ Goto(p, "announce")
    /\ UNCHANGED <<jobRow, stageRows, link, payment, money, fulfilLock, crashes>>

\* enqueue_job returns here; run_job goes on to look for the payment.
Announce(p) ==
    /\ At(p, "announce")
    /\ SetStatus("awaiting_payment")
    /\ \/ Goto(p, "idle")
       \/ Goto(p, "pay")
    /\ UNCHANGED <<stageRows, rail, money, fulfilLock, crashes>>

-----------------------------------------------------------------------------
(* Payment.                                                                *)

\* _persist_paid_state, inside the treasury lock: stage and checkout row first,
\* the status last.  The handler may die before any of these commits.
PersistPaid(p) ==
    /\ UNCHANGED <<quoteOk, link, payment>>
    /\ \/ /\ DieHere(p)
          /\ stages' \in {stages, stages \cup {"paid"}}
          /\ UNCHANGED <<jobRow, checkoutRow>>
       \/ /\ stages' = stages \cup {"paid"}
          /\ checkoutRow' = "paid"
          /\ \/ DieHere(p) /\ UNCHANGED jobRow
             \/ /\ SetStatus(IF status \in Terminal \cup {"in_progress"}
                             THEN status ELSE "paid_pending_fulfill")
                /\ Goto(p, "fulfil")
                /\ UNCHANGED crashes

\* _stage_paid's fast path: revenue already booked, repair the projections.
FastPath(p) ==
    /\ At(p, "pay")
    /\ revenue > 0
    /\ PersistPaid(p)
    /\ UNCHANGED <<money, fulfilLock>>

LookForPayment(p) ==
    /\ At(p, "pay")
    /\ revenue = 0
    /\ Goto(p, "poll")
    /\ UNCHANGED <<jobRow, stageRows, rail, money, fulfilLock, crashes>>

\* Outside the lock: a sync_payment runner asks the rail until it gives up; any
\* other looks in the cache of its own Stripe client, which may not have heard of
\* the payment (WebhookDelivery), and what either finds may be refused for its
\* session, currency or amount.  That leaves a note on a job that is waiting.
Poll(p) ==
    /\ At(p, "poll")
    /\ \/ /\ payment = "made"
          /\ Goto(p, "book")
          /\ UNCHANGED underReview
       \/ /\ underReview' = (underReview /\ ~(status = "awaiting_payment" /\ revenue = 0))
          /\ Goto(p, "idle")
    /\ UNCHANGED <<status, quoteJson, retries, stageRows, rail, money,
                   fulfilLock, crashes>>

\* Mutant: earn on what the fast path saw before the lock was given up.
BookBlindly(p) ==
    /\ At(p, "book") /\ status \notin Terminal
    /\ revenue' = revenue + 1
    /\ PersistPaid(p)
    /\ UNCHANGED <<refunds, railRefunded, reserved, fulfilLock>>

\* Mutant: a late payment is booked whatever became of the job.
BookLate(p) ==
    /\ At(p, "book")
    /\ revenue' = IF revenue > 0 THEN revenue ELSE revenue + 1
    /\ PersistPaid(p)
    /\ UNCHANGED <<refunds, railRefunded, reserved, fulfilLock>>

\* Under the lock again: refuse a closed job, accept one already paid, or earn.
Book(p) ==
    /\ At(p, "book")
    /\ \/ /\ status \in Terminal
          /\ Goto(p, "idle")
          /\ UNCHANGED <<jobRow, stageRows, rail, revenue, crashes>>
       \/ /\ status \notin Terminal
          /\ revenue' = IF revenue > 0 THEN revenue ELSE revenue + 1
          /\ PersistPaid(p)
    /\ UNCHANGED <<refunds, railRefunded, reserved, fulfilLock>>

-----------------------------------------------------------------------------
(* Fulfilment, under the job's own lock file.                              *)

\* Mutant: no lock file.
FulfilUnlocked(p) ==
    /\ At(p, "fulfil")
    /\ IF status = "completed" \/ refunds > 0
       THEN Goto(p, "idle") /\ UNCHANGED <<jobRow, fulfilLock>>
       ELSE SetStatus("in_progress") /\ fulfilLock' = p /\ Goto(p, "work")
    /\ UNCHANGED <<stageRows, rail, money, crashes>>

\* Mutant: a refund in the ledger is not looked for.
FulfilRefunded(p) ==
    /\ At(p, "fulfil") /\ fulfilLock = None
    /\ IF status = "completed"
       THEN Goto(p, "idle") /\ UNCHANGED <<jobRow, fulfilLock>>
       ELSE SetStatus("in_progress") /\ fulfilLock' = p /\ Goto(p, "work")
    /\ UNCHANGED <<stageRows, rail, money, crashes>>

\* _stage_fulfill_and_book: wait for the lock, or give up after its timeout.
TakeFulfilLock(p) ==
    /\ At(p, "fulfil")
    /\ \/ /\ fulfilLock # None
          /\ Goto(p, "idle")
          /\ UNCHANGED <<jobRow, fulfilLock>>
       \/ /\ fulfilLock = None
          /\ IF status = "completed" \/ refunds > 0
             THEN Goto(p, "idle") /\ UNCHANGED <<jobRow, fulfilLock>>
             ELSE /\ SetStatus("in_progress")
                  /\ fulfilLock' = p
                  /\ Goto(p, "work")
    /\ UNCHANGED <<stageRows, rail, money, crashes>>

\* Mutant: a charge left open by a crash is written off.
WorkForgiving(p) ==
    /\ At(p, "work")
    /\ Goto(p, IF "fulfill" \in stages THEN "spend" ELSE "brief")
    /\ reserved' = FALSE
    /\ UNCHANGED <<jobRow, stageRows, rail, revenue, refunds, railRefunded,
                   fulfilLock, crashes>>

\* Refuse to go on over an unresolved charge; reuse a finished brief.
Work(p) ==
    /\ At(p, "work")
    /\ Goto(p, IF reserved THEN "fail"
               ELSE IF "fulfill" \in stages THEN "spend" ELSE "brief")
    /\ UNCHANGED <<jobRow, stageRows, rail, money, fulfilLock, crashes>>

\* service.fulfill: its bounded sequence of metered calls is one call here.
\* Each is reserved before the request and settled after it, whatever happened.
ReserveCall(p) ==
    /\ At(p, "brief")
    /\ \/ reserved' = TRUE /\ Goto(p, "call")
       \/ reserved' = reserved /\ Goto(p, "fail")
    /\ UNCHANGED <<jobRow, stageRows, rail, revenue, refunds, railRefunded,
                   fulfilLock, crashes>>

SettleCall(p) ==
    /\ At(p, "call")
    /\ reserved' = FALSE
    /\ \/ Goto(p, "write")
       \/ Goto(p, "fail")
    /\ UNCHANGED <<jobRow, stageRows, rail, revenue, refunds, railRefunded,
                   fulfilLock, crashes>>

Complete(p, step, stage, next) ==
    /\ At(p, step)
    /\ stages' = stages \cup {stage}
    /\ Goto(p, next)
    /\ UNCHANGED <<quoteOk, rail, money, fulfilLock, crashes>>

WriteBrief(p) == Complete(p, "write", "fulfill", "spend") /\ UNCHANGED jobRow

\* Mutant: a refused spend is noted and the brief goes out.
BookCostsLeniently(p) ==
    \/ Complete(p, "spend", "spend", "publish") /\ UNCHANGED jobRow
    \/ /\ At(p, "spend")
       /\ Goto(p, "publish")
       /\ UNCHANGED <<jobRow, stageRows, rail, money, fulfilLock, crashes>>

\* Book what the brief cost, each vendor once, or be refused by the guardrails.
BookCosts(p) ==
    \/ Complete(p, "spend", "spend", "publish") /\ UNCHANGED jobRow
    \/ /\ At(p, "spend")
       /\ Goto(p, "fail")
       /\ UNCHANGED <<jobRow, stageRows, rail, money, fulfilLock, crashes>>

\* The last look at unresolved charges before the brief can be retrieved.
Publish(p) ==
    /\ IF reserved
       THEN /\ At(p, "publish")
            /\ Goto(p, "fail")
            /\ UNCHANGED <<stageRows, rail, money, fulfilLock, crashes>>
       ELSE Complete(p, "publish", "publish", "deliver")
    /\ UNCHANGED jobRow

\* Mutant: a mail error does not stop the job from completing.
DeliverBestEffort(p) ==
    \/ /\ "deliver" \notin stages
       /\ Complete(p, "deliver", "deliver", "delivered") /\ UNCHANGED jobRow
    \/ /\ At(p, "deliver")
       /\ Goto(p, "complete")
       /\ UNCHANGED <<jobRow, stageRows, rail, money, fulfilLock, crashes>>

\* Mail the brief unless that is recorded; a mail error unwinds.
Deliver(p) ==
    \/ /\ "deliver" \notin stages
       /\ Complete(p, "deliver", "deliver", "delivered") /\ UNCHANGED jobRow
    \/ /\ At(p, "deliver")
       /\ \/ "deliver" \in stages /\ Goto(p, "complete")
          \/ "deliver" \notin stages /\ Goto(p, "fail")
       /\ UNCHANGED <<jobRow, stageRows, rail, money, fulfilLock, crashes>>

MarkDelivered(p) ==
    /\ At(p, "delivered")
    /\ SetStatus("in_progress")
    /\ Goto(p, "complete")
    /\ UNCHANGED <<stageRows, rail, money, fulfilLock, crashes>>

MarkCompleted(p) ==
    /\ At(p, "complete")
    /\ SetStatus("completed")
    /\ fulfilLock' = None
    /\ Goto(p, "idle")
    /\ UNCHANGED <<stageRows, rail, money, crashes>>

-----------------------------------------------------------------------------
(* The except branch: refund unless the brief is out, then fail the job.   *)

Refunded == "refund" \in stages \/ refunds > 0

Unwind(p) ==
    /\ At(p, "fail")
    /\ IF "publish" \in stages \/ "deliver" \in stages \/ revenue = 0
       THEN UNCHANGED stages /\ Goto(p, "close")
       ELSE IF Refunded
            THEN stages' = stages \cup {"refund"} /\ Goto(p, "close")
            ELSE UNCHANGED stages /\ Goto(p, "refund")
    /\ UNCHANGED <<jobRow, quoteOk, rail, money, fulfilLock, crashes>>

\* Outside the lock: ask the rail for the money back.  An error may be a lost
\* answer to a refund that did happen.
RefundAtRail(p) ==
    /\ At(p, "refund")
    /\ \/ railRefunded' = TRUE /\ Goto(p, "bookRefund")
       \/ railRefunded' \in {railRefunded, TRUE} /\ Goto(p, "close")
    /\ UNCHANGED <<jobRow, stageRows, rail, revenue, refunds, reserved,
                   fulfilLock, crashes>>

\* Under the lock, re-check and book; the handler may die between the ledger
\* entry and the stage.
BookRefund(p) ==
    /\ At(p, "bookRefund")
    /\ refunds' = IF Refunded THEN refunds ELSE refunds + 1
    /\ \/ /\ stages' = stages \cup {"refund"}
          /\ Goto(p, "close")
          /\ UNCHANGED <<crashes, fulfilLock>>
       \/ DieHere(p) /\ fulfilLock' = None /\ UNCHANGED stages
    /\ UNCHANGED <<jobRow, quoteOk, rail, revenue, railRefunded, reserved>>

\* Mutant: the status is left as it was.
CloseQuietly(p) ==
    /\ At(p, "close")
    /\ fulfilLock' = None
    /\ Goto(p, "idle")
    /\ UNCHANGED <<jobRow, stageRows, rail, money, crashes>>

MarkFailed(p) ==
    /\ At(p, "close")
    /\ SetStatusAndReason("failed")
    /\ fulfilLock' = None
    /\ Goto(p, "idle")
    /\ UNCHANGED <<stageRows, rail, money, crashes>>

-----------------------------------------------------------------------------
(* The checkout sweep, operators, the customer, the rail and crashes.      *)

\* sweep of one overdue open checkout: pick it, close the link (best effort),
\* then expire the job under the lock if it is still unpaid.
SweepPick(p) ==
    /\ At(p, "idle")
    /\ checkoutRow = "open" /\ status = "awaiting_payment"
    /\ Goto(p, "sweep")
    /\ UNCHANGED <<jobRow, stageRows, rail, money, fulfilLock, crashes>>

SweepLink(p) ==
    /\ At(p, "sweep")
    /\ link' \in {link, IF payment = "none" THEN "closed" ELSE link}
    /\ Goto(p, "expire")
    /\ UNCHANGED <<jobRow, stageRows, checkoutRow, payment, money, fulfilLock, crashes>>

\* Mutant: expire what was unpaid when the sweep listed it.
ExpireBlindly(p) ==
    /\ At(p, "expire")
    /\ checkoutRow' = "expired"
    /\ SetStatusAndReason("expired")
    /\ Goto(p, "idle")
    /\ UNCHANGED <<stageRows, link, payment, money, fulfilLock, crashes>>

SweepExpire(p) ==
    /\ At(p, "expire")
    /\ IF status # "awaiting_payment" \/ revenue > 0
       THEN Goto(p, "idle") /\ UNCHANGED <<jobRow, checkoutRow, crashes>>
       ELSE /\ checkoutRow' = "expired"
            /\ \/ /\ SetStatusAndReason("expired")
                  /\ Goto(p, "idle")
                  /\ UNCHANGED crashes
               \/ DieHere(p) /\ UNCHANGED jobRow
    /\ UNCHANGED <<stageRows, link, payment, money, fulfilLock>>

\* Mutant: a status outside the vocabulary.
CancelMisspelt ==
    /\ status \notin {"none", "completed", "cancelled"}
    /\ SetStatus("canceled")
    /\ UNCHANGED <<stageRows, rail, money, fulfilLock, crashes, pc>>

\* `solvent jobs cancel`.
Cancel ==
    /\ status \notin {"none", "completed", "cancelled"}
    /\ SetStatus("cancelled")
    /\ UNCHANGED <<stageRows, rail, money, fulfilLock, crashes, pc>>

\* `solvent review approve`: the test is on the recorded reason alone.
Approve ==
    /\ underReview
    /\ SetStatusAndReason("pending_quote")
    /\ UNCHANGED <<stageRows, rail, money, fulfilLock, crashes, pc>>

\* `solvent review reject` takes any existing job.
Reject ==
    /\ status # "none"
    /\ SetStatusAndReason("cancelled")
    /\ UNCHANGED <<stageRows, rail, money, fulfilLock, crashes, pc>>

CustomerPays ==
    /\ link = "open" /\ payment = "none"
    /\ payment' = "made"
    /\ UNCHANGED <<jobRow, stageRows, link, checkoutRow, money, fulfilLock, crashes, pc>>

\* A checkout.session.completed event marks the checkout row paid; deliveries
\* repeat.  The handler's advance is an Advance step, and what it has in its cache
\* is left open in Poll.
Webhook ==
    /\ payment = "made"
    /\ checkoutRow' = "paid"
    /\ UNCHANGED <<jobRow, stageRows, link, payment, money, fulfilLock, crashes, pc>>

\* Mutant: a lock that outlives its holder (a marker file, not a file lock).
CrashHoldingLock(p) ==
    /\ ~At(p, "idle")
    /\ DieHere(p)
    /\ UNCHANGED <<jobRow, stageRows, rail, money, fulfilLock>>

\* The operating system drops the file locks of a dead process; everything
\* committed stays.
Crash(p) ==
    /\ ~At(p, "idle")
    /\ DieHere(p)
    /\ fulfilLock' = IF fulfilLock = p THEN None ELSE fulfilLock
    /\ UNCHANGED <<jobRow, stageRows, rail, money>>

-----------------------------------------------------------------------------
Selling(p) ==
    \/ Screen(p) \/ Quote(p) \/ Price(p) \/ BookQuote(p) \/ Decline(p) \/ Gate(p)
    \/ Checkout(p) \/ OpenSession(p) \/ ListCheckout(p) \/ Announce(p)
    \/ FastPath(p) \/ LookForPayment(p) \/ Poll(p) \/ Book(p)

Fulfilling(p) ==
    \/ TakeFulfilLock(p) \/ Work(p) \/ ReserveCall(p) \/ SettleCall(p)
    \/ WriteBrief(p) \/ BookCosts(p) \/ Publish(p) \/ Deliver(p)
    \/ MarkDelivered(p) \/ MarkCompleted(p) \/ Unwind(p) \/ RefundAtRail(p) \/ BookRefund(p)
    \/ MarkFailed(p)

Sweeping(p) == SweepLink(p) \/ SweepExpire(p)

\* A handler that has started runs on to its end.
Continue(p) == Selling(p) \/ Fulfilling(p) \/ Sweeping(p) \/ ResumeWrite(p) \/ RetryFrom(p)

Start(p) ==
    \/ Enqueue(p) \/ HandleJob(p) \/ Advance(p) \/ Retry(p) \/ Resume(p)
    \/ SweepPick(p)

Outside == Cancel \/ Approve \/ Reject \/ CustomerPays \/ Webhook

Next ==
    \/ \E p \in Proc : Start(p) \/ Continue(p) \/ Crash(p)
    \/ Outside

Spec == Init /\ [][Next]_vars
-----------------------------------------------------------------------------
(* What the pipeline promises.                                             *)

\* The promise as a machine of its own: paid once, then either released or
\* given back.
Promise == INSTANCE Commission WITH
    received <- revenue, returned <- refunds, released <- "publish" \in stages

\* Concurrent webhooks, workers, retries and sweeps, dying anywhere, implement
\* it: one revenue entry, at most one refund, never both a refund and a brief
\* (_stage_paid, _fulfill_and_book_locked).
KeepsThePromise == Promise!Spec

\* Only one handler works on or unwinds the job, and only over booked money:
\* the lock file of _stage_fulfill_and_book guards every one of these steps.
FulfilmentIsExclusive ==
    \A p \in Proc : pc[p] \in Locked => fulfilLock = p /\ revenue > 0

\* A completed job was paid, kept its money and delivered its brief, whoever
\* else was advancing, cancelling or re-screening it.
CompletedIsDelivered ==
    status = "completed" =>
        revenue = 1 /\ refunds = 0 /\ {"fulfill", "publish", "deliver"} \subseteq stages

\* The sweep never closes a job somebody has paid for: checkout.sweep re-checks
\* under the lock that _stage_paid earns under.
ExpiredIsUnpaid == status = "expired" => revenue = 0

\* README, "Delivery authorization": every resource charge is settled and booked
\* before the brief can reach the customer.
ChargesBeforePublication ==
    "publish" \in stages => "spend" \in stages /\ ~reserved

\* An unresolved charge is settled only by the handler that made it: a charge
\* nobody is working on stays open for an operator (reserved_spends).
ChargesAreNotForgotten ==
    [][reserved /\ ~reserved' => \E p \in Proc : pc[p] = "call" /\ fulfilLock = p]_vars

\* A late payment never reopens a job that was closed: revenue is booked only
\* on a live row (_stage_paid re-reads the status under the lock).
NoSaleOnAClosedJob == [][revenue' > revenue => status \notin Terminal]_vars

\* retry_job, and the test "a refunded payment must not unlock free
\* re-fulfillment on retry": no brief is released once the rail has sent the
\* money back.
NoFreeFulfilment == ~("publish" \in stages /\ railRefunded)

-----------------------------------------------------------------------------
(* Why: the facts about handlers in flight that make the promise inductive. *)

\* Holding the lock file and being between the stages it guards are the same.
LockInv == \A p \in Proc : pc[p] \in Locked <=> fulfilLock = p

\* Money comes first: whoever is about to fulfil, and every status past payment,
\* has exactly one revenue entry behind it; an expired job has none.
PaidInv ==
    /\ revenue <= 1
    /\ \A p \in Proc : pc[p] \in Locked \cup {"fulfil", "resume"} => revenue = 1
    /\ status \in {"paid_pending_fulfill", "in_progress", "completed"} => revenue = 1
    /\ status = "expired" => revenue = 0

\* The brief and the refund exclude each other, also half way to either.
RefundInv ==
    /\ refunds <= 1
    /\ refunds = 1 => revenue = 1 /\ "publish" \notin stages
    /\ "refund" \in stages => refunds = 1
    /\ \A p \in Proc : pc[p] \in Working => refunds = 0
    /\ \A p \in Proc : pc[p] \in {"refund", "bookRefund"} => "publish" \notin stages
    /\ \A p \in Proc : pc[p] = "deliver" => "publish" \in stages
    /\ \A p \in Proc : pc[p] \in {"delivered", "complete"} => "deliver" \in stages
    /\ "deliver" \in stages => "publish" \in stages
    /\ status = "completed" => refunds = 0 /\ "deliver" \in stages

\* The brief is written and its charges are settled before it is published.
ChargeInv ==
    /\ "publish" \in stages => {"fulfill", "spend"} \subseteq stages /\ ~reserved
    /\ \A p \in Proc : pc[p] \in {"brief", "call", "write"} => "fulfill" \notin stages
    /\ \A p \in Proc : pc[p] \in {"spend", "publish"} => "fulfill" \in stages
    /\ \A p \in Proc : pc[p] = "publish" => "spend" \in stages

JobInv == LockInv /\ PaidInv /\ RefundInv /\ ChargeInv

-----------------------------------------------------------------------------
(* Liveness: a handler that started runs on, and the worker keeps polling. *)

WorkerAdvance(p) == status \in WorkerStatuses /\ Advance(p)

\* Every pass of the worker takes up every paid job (backlog.rank).
FairSpec ==
    /\ Spec
    /\ \A p \in Proc : WF_vars(Continue(p))
    /\ SF_vars(\E p \in Proc : revenue > 0 /\ WorkerAdvance(p))

\* An unpaid one is put off while the treasury could not fund it, "not skipped
\* over permanently": this assumes that it can be funded again and again.
FundedSpec == FairSpec /\ SF_vars(\E p \in Proc : WorkerAdvance(p))

\* Booked money is never left in limbo: a job whose recorded quote was accepted
\* leaves the worker's statuses (completed, failed for an operator, or cancelled
\* by one) or is refunded.
PaidJobIsResolved ==
    (revenue > 0 /\ quoteOk /\ status \in WorkerStatuses)
        ~> (refunds > 0 \/ status \notin WorkerStatuses)

\* retry_job's docstring, "failed pre-payment jobs restart from the quote stage":
\* a job put back in the queue to be quoted does not stay there.
QueuedJobIsQuoted == status = "pending_quote" ~> status # "pending_quote"
=============================================================================

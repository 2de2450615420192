# A verification development for SOLVENT

SOLVENT (`solvent/`) is a self-funding agent that sells research briefs. A job is
screened, quoted against a margin gate, offered for payment (Stripe checkout or a
Nano invoice), fulfilled by metered calls of models and tools, published, mailed
and booked, or refunded. Its state lives in one SQLite treasury and a few JSON
files, and HTTP handlers, webhook handlers, worker loops and command line calls in
several processes run the same stage machine over them. What can go wrong is what
those handlers do to each other's rows, and what a crash leaves half done.

The modules here are translated from the source; a definition's lines are in
`PROJECT.json` ("map"), the hazards the properties are aimed at, with the line
where each bites, under "hazards".

## Inventory

| component | state it keeps | operations | what makes it correct |
|---|---|---|---|
| stage machine (`stages.py`, `agent.py`) | `jobs`, `job_stages` | enqueue, handle, advance, retry, one method per stage | paid once; then released or refunded, once, never both; one handler fulfils at a time |
| worker (`worker.py`, `queue.py`, `backlog.py`) | lease in `jobs.locked_until` | resume, sweep, claim, advance, release | a paid job is resolved in the end |
| checkout (`checkout.py`) | `stripe_checkout`, reminders | sweep: remind, close, expire | no paid job expires |
| review, job commands (`review.py`, `job_cmd.py`) | `jobs.error_reason` | approve, reject, cancel | an operator's word does not unbook money |
| spend policy (`guardrails.py`) | policy, approvals | evaluate, reserve | caps, envelope and reserve hold under concurrency |
| metered calls (`spending.py`, `resource_budget.py`) | `spend_reservations`, `resource_budget` stages | debit, reserve, call, settle | every bill is covered; the allowance survives crashes |
| treasury (`treasury.py`, `_filelock.py`, `money.py`) | all tables, lock file | one locked operation each | operations are atomic between processes |
| webhook (`server.py`, `webhook_log.py`) | `webhook_events` | deliver, replay | an event is acknowledged when finished, and finished in the end |
| Stripe client (`stripe_client.py`) | payment cache, `stripe_payments.json` | apply event, look up, refund, pay vendor | only completed sessions count; no payment is forgotten |
| Nano rail (`nano_client.py`) | `nano_invoices`, `nano_payments.json` | invoice, verify, book block | one block, one sale; no sale without proof |
| Nano custody (`nano_custody.py`) | a file of sweeps for each mode | plan, approve, send, record | simulated proofs never fund a live sweep; the rolling cap holds |
| access (`access.py`, `rate_limit.py`, `pairing.py`, `gateway.py`) | windows, bans, codes, sessions | check, ban, pair | limits hold; only paired users act |
| pricing and judgement (`pricing.py`, `intake.py`, `calibration.py`, `products.py`, `quality.py`, `capacity.py`, `backlog.py`) | none (reads history) | quote, screen, calibrate, rank | no sale below the floor margin; order and bounds of the backlog |
| research service (`service.py`, `nemotron.py`, `tools.py`, `llm_backend.py`) | conversation of one job | bounded tool loop | terminates within its allowance |
| chat, memory, channels, ops | sessions, messages, outbox | messages in and out | what only operators may know stays with them; a notice reaches its own chat |
| delivery (`delivery.py`, `service.py`) | files of briefs, signing secret | write, publish, mail, hand out | nobody reads an unpublished or another's brief; one customer sees one draft |
| reports (`simulate.py`, `optimize.py`, `funnel.py`, `finance.py`, `turnaround.py`, `customers.py`, `alerts.py`, `reconcile.py`, `export.py`, `receipt.py`) | none | read committed rows | agree with the ledger |
| dashboard, command line, set-up, spaces | none | I/O | not a question for a model |

Interaction: every handler works on the treasury under one file lock per
operation or `with t.lock()` block, and outside it for provider, rail and mail
I/O. Fulfilment has a second lock file per job. The Nano journal has a third of
its own. Webhooks reach the stage machine by `handle_webhook_payment`, Nano proofs
by `advance_job(verified_nano_payment=...)`, the worker by polling. The budgets
and the journal are the only places where one job meets another.

Hard behaviours: overlapping handlers of one job (the worker's lease of 60 s is
neither renewed nor owned), unconditional upserts by handlers that read earlier,
death between two commits of one locked block, answers of rails and providers
that are lost, events delivered twice or replayed, two files that should agree,
counters read before they are raised (intake, rate limits, custody cap), files
rewritten in place without a lock (sweeps, allowlist, payment cache), reports that
count the same money by formulas of their own.

## Modules

The money path, each module with runs and proofs of its own:

- `JobPipeline` (with `Commission`): one commission, its rows, and the handlers
  `Proc` that may work on it at once. A handler's `pc` is where it is in
  `stages.py`; one step is one treasury operation or one locked block, or one
  exchange with the world outside a lock. Where the code commits several times
  under one lock (`_persist_paid_state`, the refund, the sweep) the handler may
  die between the commits. Actions carry the names of the stages; `Outside` has
  the customer, the rail and the operators. The rail is a link and a payment. A
  handler that polls may or may not take up a payment that has been made
  (`Poll`): its client's cache may not have it, and `accept_cached_payment` may
  refuse it, again and again.
- `Commission` is the abstract specification: receive once, then release or
  return. `Promise` in `JobPipeline` instantiates it over revenue entries, refund
  entries and the publish stage, and `KeepsThePromise` is checked and proved.
- `SpendGuard`: the policy's sums kept as accounts (job, vendor, day, hour) for
  ledger and reservations; callers that debit, reserve, call, settle or die.
- `WebhookDelivery`: the event log, the endpoint's steps for one event, the three
  payment caches and their file, errors, torn writes, restarts.
- `NanoSettlement`: invoices, submissions of blocks, verification outside the
  lock, booking in journal and ledger with deaths between, the sync demo that
  journals before it locks, lapsing, expiry. What the rest of the pipeline does to
  a job's status is any change at any time (`MoveJob`).

What is sold and earned (`MCCommerce` puts these side by side):

| module | code | state and actions |
|---|---|---|
| `Pricing` | `pricing.py`, `resource_budget.py`, `calibration.py` | no state: the gate in whole cents and tenths of a per cent, calibrated costs, smallest prices, counter-offers |
| `Products` | `products.py` | the operator's file; adding entries with numbers finer than a cent, endless or of another type; spoiling the file (no JSON, no UTF-8, a `retire` that is a number) and mending it; every order reads it anew, and may raise |
| `Policies` | the loaders of `guardrails.py`, `checkout.py`, `intake.py` | three files and the environment; values that are whole, fractional, infinite, not numbers, or files that are broken |
| `OperatorFiles` | both | `Products` and `Policies` side by side, either of which may change at any time |
| `Intake` | `intake.py`, `stages.screen_and_record` | orders, and handlers that read the history and record later, or die between; orders closed, cancelled, screened again, or revived without a screening |
| `Storefront` | `treasury.py`, `stages.py` seen by the books | orders screened, quoted, let through the gate, listed, paid, charged for request by request, published, mailed, refunded, expired, cancelled, retried; one commit a step, so a report may read between any two; `factor` is the calibration read at start |
| `Books` | `funnel.py`, `finance.py`, `export.py`, `customers.py`, `turnaround.py`, `reconcile.py`, `alerts.py`, `backlog.py` | operators over `Storefront`'s rows |
| `Outlook` | `finance.py`, `capacity.py`, `alerts.py` | operators over the same rows, about what comes |
| `Research` | `service.py`, `nemotron.py`, `tools.py`, `quality.py` | the rounds of tool calls of one order, its allowance, two drafts, deaths |
| `PaperDay` | `simulate.py`, `optimize.py` | one trading day for each candidate policy, on one stream of draws; each day in any order |

What keeps it running (`MCOperations`):

| module | code | state and actions |
|---|---|---|
| `Custody` | `nano_custody.py` | environments, proofs, files of sweeps, runs between reading, sending and writing |
| `WorkerLoop` | `worker.py`, `queue.py`, `checkout.py`, leases of `treasury.py` | processes from start over resume, sweep, claims and releases to sleep; time; deaths |
| `Access` | `gateway.py`, `rate_limit.py`, `pairing.py`, tokens, `FailureLimiter` | counted messages, bans, codes, allowlist, requests between asking and redeeming |
| `ChatDesk` | `chat.py`, `memory.py`, `ops.py`, `notifications.py` | sessions by trust, a turn's bounded tool calls, orders, notices, what they give away, and the outbox |
| `BriefDesk` | `delivery.py`, `service.py`, routes of `server.py` | files by format, draft by draft; links; what each route shows to whom |

`JobPipelineProofs`, `SpendGuardProofs`, `WebhookDeliveryProofs` and
`NanoSettlementProofs` extend their module and hold its theorems;
`OperationsProofs` has those about the components of `MCOperations`,
`CommerceProofs` and `ShopProofs` those about the components of `MCCommerce`, and
`Sums` what all of them need to know of sums, counts and recursive functions.
`MC*` give constants. The
components of `MCCommerce` and of `MCOperations` share no state, so each run lets
one of them move in a behaviour (`scene`) instead of multiplying them.

Abstractions: wording, payloads and amounts that no decision depends on are left
out; verdicts of pricing, intake and the budget gate are nondeterministic in
`JobPipeline` and computed in `Storefront` and `Intake`; `service.fulfill` is one
metered call in `JobPipeline`, any number of them in `SpendGuard`, and rounds of
tools in `Research`. `Storefront` has the commits of the handlers and not the place
a handler has reached between them: whatever may follow the last commit of some
handler may happen, which includes every order `JobPipeline` has, and handlers that
die anywhere. `WorkerLoop` takes advancing a job as time.
Divisions the code makes in floating point are exact here. Model definitions
marked `Mutant` are plausible bugs: the text before each says which. Every
property of a passing run is violated by one.

## Runs

| run | question | bounds and why they are enough |
|---|---|---|
| `pipeline` | do concurrent, crashing handlers keep the promise? | 2 handlers (every race in the code is between a reader and one overtaker), 2 deaths, 2 retries with the cap at 1, so it is passed; 3.5 million states |
| `pipeline_live` | is a booked payment resolved? | 2 handlers, no retry or death: fairness against interference |
| `pipeline_restart` | does a half-done state block a paid job? | 1 handler, 3 deaths, 1 retry: a death at one step, one in the repair, one after |
| `spend` | do caps, reserve and coverage hold at once? | 2 jobs, 2 vendors, 2 callers, ceilings of 1 and 2 cents against caps of 3 and 4, so both fit and overrun; 1 sale |
| `webhook` | is what Stripe sends processed, and only that believed? | 3 events (two payments, one that is none), one error or crash anywhere |
| `nano` | one block, one sale? | 2 jobs, 2 blocks of different worth, 2 handlers, 2 invoices, one death |
| `nano_live` | is an interrupted payment booked on resubmission? | 1 job, 2 blocks, 2 handlers, 2 invoices, one death |
| `commerce` | do screens, prices, reports and bills say the same? | see below; 0.4 million states |
| `operations` | do caps, quotas, leases and secrets hold, and is every job closed? | see below; 1.6 million states |

`spend`, `commerce` and `operations` switch the deadlock check off: when time,
sales, allowances or messages are used up, nothing is left to do. Symmetry is used
in safety runs only, over handlers, jobs, orders and vendors that nothing
distinguishes.

The scenes of `commerce`:

| scene | property | what it shows, and the bounds |
|---|---|---|
| `products` | `FilesHold` | the price list is the built-in one with the sound entries of the file, whole or not at all, fractions cut off, and the report names the rest; the readers raise for a foreign or crooked file or an endless number and for nothing else; 2 names, 2 entries, numbers in halves (`Grain`) |
| `policies` | `FilesHold` | whatever the files hold, no value is bent, a variable only tightens, loosening is warned about, a broken spend policy stops all spending; one value of each kind for each key |
| `intake` | `ScreensHold` | overlapping handlers let through at most one duplicate and one order of a burst each, apart from duplicates that were dead when they were screened past and came back; 3 orders of one customer, 2 handlers, so that the limit of 1 is met and passed; an operator waves one through or one is revived |
| `shop` | `ReportsAgree`, `MarginHolds` | all reports close on the ledger and on each other between any two commits; no sale below the floor, declines come with an offer that is accepted when taken, the plan fits what may be spent; 2 orders, a day's budget for one brief and not for two, up to 2 metered requests a brief (`MaxRequests`), and 2 departures from the plain course (`MaxDetours`), in any combination (while both orders are under way and neither brief is out, only one): a day passes, the agent restarts with another factor, a vendor charges again, a customer pays more than the price (`Tips`), an order is declined, cancelled, expired, fails, comes past the gate, or completes without its event |
| `research` | `ResearchHolds` | the bill is what was used over both drafts and any deaths, the better draft ships; 2 rounds, 3 runs, an allowance that runs out in the second draft |
| `paper` | `PaperHolds` | a day ties out, all policies hear the same jobs, advice is sound; 3 policies that differ in floor and minimum, 2 jobs |

The scenes of `operations`:

| scene | property | what it shows, and the bounds |
|---|---|---|
| `custody` | `CustodyHolds` | the file never shows more than was earned or capped in its mode; what was sent passes it by at most one cap for each run that overlapped or died; 2 runs, 1 fault |
| `workers` | `WorkersHold`, `JobsAreClosed` | reminders are bounded, leases exclude until one runs out, every job is paid or closed unless a sweep died over it; 1 job, 2 processes, 1 death, a lease of one step of time. A second job passes the time a run may take, and jobs meet only in a worker's queue |
| `limiter`, `pairing`, `tokens` | `AccessHolds` | quotas are passed only by messages under way, only approved users are answered, a token is redeemed once; 2 requests at once, 2 users, 2 approvals |
| `chat` | `ChatHolds` | what operators are told stays with them when they lose the role, a notice reaches its chat and no other and gives nothing away but the reason for a refund; 1 person who is operator and customer in turn, 2 orders, 2 turns |
| `briefs` | `BriefsHold` | nothing unpublished or of another customer is shown away from the machine, a customer sees one draft; 2 briefs, 2 drafts (a death and a retry), a changed secret |

Several of these properties state a bound that is wider than the code's own
comment, because handlers decide on what they read before others record: intake
windows, rate limits, the custody cap, reminders. The bound is then the exact one
for handlers that overlap, and the text of the property says so. Where the code lets
through what its comment rules out, the property names the exception: orders revived
without a screening (`ScreensHold`), the reason on a refund's receipt (`ChatHolds`),
readers of the price list that raise (`FilesHold`).

Runs that disagree with what the repository says (`PROJECT.json`, "findings"):

- `refund`: a refund sent and not booked, because the process died or the rail's
  answer was lost, lets a retry or resume release the brief for money given back.
- `queue`: a retried decline is put back to `pending_quote`, finds its old quote
  stage and stays there.
- `webhook_booked`: the payment of an acknowledged event is in the endpoint's own
  cache; agent and worker read the file when they were made and do not look again.

Met while modelling, and not shown by a run of their own:

- `_stage_quote` completes its stage before the budget gate: a job the gate turns
  away is accepted from the cached stage when it is retried (`stages.py:331`), where
  `docs/COMMERCIAL_JUDGEMENT.md:156` has it declined "permanently" (`Resume` in
  `Storefront`). The guard at spending time still decides.
- `intake.load_policy` says "anything unreadable falls back to defaults"
  (`intake.py:78`) and raises on an infinite hourly limit and on a file that is
  not UTF-8 (`IntakeRaises` in `Policies`).
- `load_catalog` says "Anything unreadable leaves the built-ins alone"
  (`products.py:146`) and raises on an infinite number, on a file that is not UTF-8
  and on a `retire` that is a number (`CatalogueRaises` in `Products`); of the last,
  `catalog_problems` says nothing. A price of 75.99 cents is sold at 75.
- The receipt of a refund gives `error_reason`, which may name a vendor, a cost and a
  limit, to whichever session watches the job (`receipt.py:144`, `gateway.py:212`);
  `job_status` withholds it from customers (`chat.py:80`).
- `retry_job` of a failed order whose payment is held, a handler that booked a late
  payment of a cancelled one, and the checkout's unconditional write bring an order
  back to life without a screening (`Revive` in `Intake`).
- Between `stages.py:392` and the checkout row the customer waits for a link nobody
  has made; if Stripe does not answer, the job stays in `awaiting_payment` without a
  checkout (`FunnelAgrees` counts such orders apart).
- `python3 -m solvent worker`, as `docs/PRODUCTION.md:28` starts it, empties the
  treasury unless told `--keep-balance`; so does `serve`. The models start from a
  treasury that is kept.
- A retried fulfilment whose PDF fails to render leaves the PDF of the draft before
  (`BriefsHold` excepts it).
- A sweep that dies between closing a checkout row and expiring its job leaves the
  job waiting for good (`JobsAreClosed` excepts it).

## Fairness

`JobPipeline!FairSpec` assumes that a handler that has started runs on (weak
fairness of its next step: no step waits for another handler for ever, for the
lock file is held only by steps that are themselves fair) and that the worker
takes up a paid job again and again (strong: its polls may find the job in another
status, but every pass lists all paid jobs, `backlog.rank`). Customers, operators,
webhooks and sweeps get none. An unpaid job is put off while the treasury could
not fund it; `FundedSpec` adds the assumption that this ends, and only the
statement about unpaid jobs (`queue`) uses it. That a payment is ever booked is not
among the statements: the run `webhook_booked` shows that it need not be. Both assume that a
worker whose loop ended in an exception is started again.

`WebhookDelivery!FairSpec` assumes that the endpoint's handler runs to its end,
that the worker polls, and that Stripe sends an event again until it is
acknowledged. `NanoSettlement!FairSpec` assumes a customer who submits the block
again and again and handlers that run on.

`MCOperations!Spec` assumes of the workers that a process goes on with its pass,
or is started again when it is down (`GoOn`), and that time passes
(`WorkerTick`), each weakly fair. Payments and deaths are nobody's duty; deaths are
bounded by `MaxDeaths`, and an exception while resuming counts as one.

## Proofs

All for every value of the constants, from the named assumptions of the modules
alone. Those give constants their types (some of them not zero) and keep model
values apart. Besides, there are finitely many workers, messages under way, requests
at the pairing endpoint, policies under comparison and handlers at intake, and at
least one worker. Neither the number of jobs nor any bound on the clock, on deaths or
on retries is assumed.

The money path:

- `JobPipelineProofs`: `JobInv` is inductive with `TypeOK`. `LockInv` (a handler
  between the locked stages is the holder) is needed because every other part
  says what the one handler in flight may rely on; `PaidInv` (a handler on its way
  to fulfilment, and every status past payment, has exactly one revenue entry);
  `RefundInv` (publishing and refunding exclude each other, also half way to
  either); `ChargeInv` (the order brief, charges, publication). From it follow
  `FulfilmentIsExclusive`, `CompletedIsDelivered`, `ExpiredIsUnpaid`,
  `ChargesBeforePublication`, and the refinement: initial states map to initial
  states, and of the steps that touch revenue, refunds or publication each maps to
  a step of `Commission`, all others to a stutter. `NoSaleOnAClosedJob` and
  `ChargesAreNotForgotten` are proved action by action.
- `SpendGuardProofs`: `Inv` says what a caller holds at each step and that no
  request settles above its ceiling; with it reserving within a cap and settling
  at most what was reserved keep every account within its cap (`Limits`) and what
  is available above the reserve (`Reserve`). `BillsCovered` and `AllowanceIsKept`
  are sums over the callers in flight: what a job's ledger and reservations hold is
  at least what its providers have billed and the open requests of all callers may
  still bill; what is debited is at least what was sent and is about to be.
- `WebhookDeliveryProofs`: typing; what any cache and the file hold has been paid
  (`OnlyPaymentsAreBooked`); an acknowledged event is finished; the endpoint's
  cache includes the file whenever it writes (`NoPaymentIsOverwritten`).
- `NanoSettlementProofs`: the journal is the authority. Its entries are never
  changed (`JournalEntriesStay`) and only for blocks that carry the amount; every
  sale's block is journalled in its job's name, and a job has one sale
  (`ProofInv`). Two sales with one block then find one entry, hence one job, hence
  one sale (`OneBlockPaysOnce`). `PaidRowsAreBooked` is part of the induction.

What keeps the agent running (`OperationsProofs`):

- `WorkersAreSafe`: a sweep that means to remind took the decision when the mails
  so far and the workers with the same intention left room; so mails and intentions
  together stay below the limit, the other workers and the deaths. A lease excludes
  because the step of the clock that passes it notes whoever is still at work.
- `AccessIsGuarded`: rows and messages that were counted and are not yet rows stay
  together below the quota and the messages that can be under way; the same of
  failed attempts and requests that still read their body. Only approved users are
  in the files, also half way through an overlapping approval; a token that was
  redeemed is gone.
- `ChatsAreDiscreet`: a secret stays on the operator's side because sessions belong
  to roles, the role is looked up when a turn begins and no turn outlives a change
  of roles; a notice finds its chat because a session only ever watches a job it
  ordered. Of what notices say the theorem shows that only the receipt of a refund
  has anything to hide: the code does send that to customers.
- `BriefsAreOne`: while a draft is in the making its files are all of it; it is
  recorded once they are there and no other is begun after that, so page, text and
  mail stay those of one draft.
- `CustodyIsBounded`: what was sent in a mode falls into chains, one more than there
  were faults. In a chain each sweep was planned with those before it in sight, so
  a chain stays within balance and cap. Every run extends a chain of its own; one
  that ends leaves it to the file, or its fault has begun a new one.

What is sold and earned (`CommerceProofs`, `ShopProofs`):

- `FilesAreRead`: reading a list entry by entry gives after each the last usable
  entry of every name, each of its numbers within one of the number written;
  `ScreensAreBounded`: the orders whose last screening was in their favour, and those
  in a handler's hand, are together within the limit and the handlers, whatever
  became of them since; of the live ones among them, all but the revived were seen by
  the screenings that came later; `ResearchIsBilled`: recorded calls are within the allowance of the
  order, kept over deaths; `PaperDaysTieOut`: what a simulated day sums up trial by
  trial is what its statement adds up at the end.
- `ShopKeepsItsMargin`: an order from its quote to its last cost. `SheetInv` says of
  every job: it is listed, awaiting payment, paid or completed only on a quote that
  was accepted (`Agreed`), on any path, also past the gate or over a cancelled row;
  such a quote keeps the floor (`GoodQuote`); a listed link comes before a sale, and a
  sale, at the price or more, before any charge; charges are within the parts of the
  brief and a cent for each metered request (`Thrifty`); and an order that went through
  the gate has an estimate that fits what was left of the day's budget and of the
  balance then (`Funded`). That last part is the one that makes a paid order affordable
  later: what was spent since is the order's own, if nobody else took money. That a
  declined order is offered a way that works (`OffersWork`) is arithmetic of the gate,
  for any brief, price, rates and calibration. The plan of the backlog is unrolled job
  by job (`PlansAreGood`).
- `BooksTieOut`: every report of `Books` and `Outlook`. `ShopInv` says what an order
  may cost; that the reports agree takes the story of each order besides
  (`StoryInv`): it is listed before it is paid for, paid for once, at its price or
  more and after the payment at Stripe, and refunded at most once, in full. That holds
  after every commit, so it holds whatever a handler that died left undone. From there
  on it is sums. Each report sorts the ledger in its own way (by day, vendor, customer,
  job, kind), and sorted sums make up the sum of all (`SumSorted`, hence `CentsSorted`
  and `FlowSorted`); a job's share of the revenue is its price or more
  (`PricesMakeUp`), so the funnel, which looks at rows and prices, agrees with the
  statements, which look at entries. Of percentiles the proof shows
  that one exists and that a higher one is no shorter (`PlaceTaken`,
  `Percentiles`), of ceilings that there is a tightest (`TightestExists`), of
  quotients what rounding can hide (`RoundBounds`, `RoundMonotone`).

`Sums` has the facts about sums over finite sets, by the smallest set for which
they could fail (the library's theorem about strict subsets being well founded),
because the provers cannot use the induction theorems that take a predicate; about
counting; and about functions defined by recursion on an index (`Unrolls`, `UpTo`),
with which what a loop of the code computes is followed step by step.

Attempts at a proof that failed, and what they showed. The bound on an offered
price was first stated without the rounding of the margin to a tenth of a per cent:
that is true of the small instance and false of large prices, where the rounding
lets in a price more than a dollar lower (`min_viable_price_cents` solves the exact
margin, `quote` compares the rounded one); `NegotiationHolds` now bounds how much.
With a floor of 100 % or more no price is offered at all, which it now says. That
what the plan runs is not turned away is false of an order that costs nothing while
the balance is below the reserve: the plan's capacity is cut off at zero and takes
it, the gate does not. A daily budget of zero, which lets nothing be spent, counts
as not used at all, so the headroom alert stays quiet (`capacity.py:223`): that a
quiet alert means room was true of the run's budget only, and `RoomIsReal` now says
so of budgets above zero. That the real cost of a brief stays below its estimate is
false once a brief makes more than one metered request, each billed in whole cents;
`SoldOrdersKeepTheFloor` allows a cent for each. Two orders that tie in the backlog may be planned either
way, so `PlanHolds` is about every such plan.

Only model-checked: everything with fairness (`PaidJobIsResolved`,
`DeliveredIsProcessed`, `InterruptedIsBooked`,
`JobsAreClosed`), which the prover cannot reach. Every safety property of a passing
run is a theorem.

## Plan

In this order; all are modelled and checked, and all of their safety properties
proved.

1. `JobPipeline`, `Commission`: the stage machine.
2. `SpendGuard`: spending.
3. `WebhookDelivery`: how payments arrive.
4. `NanoSettlement`: the second rail.
5. `Pricing`, `Products`, `Policies`, `Intake`, `Storefront`, `Books`, `Outlook`,
   `Research`, `PaperDay`: `commerce`.
6. `Custody`, `WorkerLoop`, `Access`, `ChatDesk`, `BriefDesk`: `operations`.

## Not modelled

The dashboard, the command line and set-up: they read committed rows or do I/O, and
no decision above depends on them. Of the modelled parts, wording, rendering,
transport (HTTP, Telegram, mail, RPC), voice and prompts. Signature checks of Stripe
and of bearer tokens are assumed to do what they say. Starting without
`--keep-balance`, which empties the treasury under whatever else runs, is left out.
What a vendor has been paid and not booked for when a process dies
(`stages.py:807`), and a checkout without an invoice row (`stages.py:414`), have no
property: nothing under `src/` states what should become of them. The rest of
`PROJECT.json`, "components", gives the reason for each part.

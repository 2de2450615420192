------------------------------ MODULE SpendGuard ------------------------------
(***************************************************************************)
(* Every cent SOLVENT pays for resources: the policy of                    *)
(* solvent/guardrails.py, the pre-authorised provider calls of             *)
(* solvent/spending.py, the quote's resource allowance of                  *)
(* solvent/resource_budget.py, and the reservations and ledger of          *)
(* solvent/treasury.py they share.                                         *)
(*                                                                         *)
(* The policy's caps are sums over the ledger and over the unresolved      *)
(* reservations.  Each sum is kept here as an account: one per job (for    *)
(* ever), one per vendor and one for all of them (the last 24 hours), and  *)
(* one that counts payments (the last hour).  A charge touches its job,    *)
(* its vendor and the last two.  Ledger entries leave the windows as time  *)
(* passes; reservations never age (reserved_spends).                       *)
(*                                                                         *)
(* Caller are the requests in flight: several jobs, and several processes  *)
(* on one treasury.  One step is one operation under the treasury lock, or *)
(* one exchange with a provider; a process may die between any two.        *)
(***************************************************************************)
EXTENDS Integers

CONSTANTS Job, Vendor, Caller,
          NoRequest,      \* the request of a caller that makes none
          Amounts,        \* what a request may cost at most, in cents
          Allowlist,      \* vendor_allowlist ({}: the policy is unreadable)
          MaxTxn,         \* max_txn_cents
          Cap,            \* the limit of every account but a job's
          JobBudget,      \* job_budget_cents; 0 disables the envelope
          MinReserve,     \* min_reserve_cents
          Allowance,      \* requests the quote of a job pays for
          Price,          \* what a customer pays for a job
          MaxSales        \* bound on sales

Windows  == {"day", "hour"}
Account  == Job \cup Vendor \cup Windows

ASSUME SpendAssumption ==
    /\ Job \cap (Vendor \cup Windows) = {} /\ Vendor \cap Windows = {}
    /\ Allowlist \subseteq Vendor
    /\ Amounts \subseteq Nat \ {0}
    /\ MaxTxn \in Nat /\ JobBudget \in Nat /\ MinReserve \in Nat
    /\ Allowance \in Nat /\ Price \in Nat /\ MaxSales \in Nat
    /\ Cap \in [Vendor \cup Windows -> Nat]

VARIABLES
    cash,       \* balance_cents: revenue and capital less expenses
    earned,     \* revenue and capital ever booked
    refunded,   \* customer refunds ever booked
    booked,     \* ledger expenses per account, refunds left out
    held,       \* spend_reservations per account
    used,       \* resource_budget stage of each job: requests debited
    request,    \* the request each caller is making; what it costs once known
    step,       \* where each caller is
    sent,       \* requests providers have received, per job
    billed      \* what providers have charged for them, per job

vars == <<cash, earned, refunded, booked, held, used, request, step, sent, billed>>
ledger == <<cash, earned, refunded, booked>>

Requests == [job : Job, vendor : Vendor, ceiling : Amounts, actual : Nat]

TypeOK ==
    /\ cash \in Int /\ earned \in Nat /\ refunded \in Nat
    /\ booked \in [Account -> Int] /\ held \in [Account -> Int]
    /\ used \in [Job -> 0..Allowance]
    /\ step \in [Caller -> {"idle", "allowed", "reserved", "answered"}]
    /\ request \in [Caller -> Requests \cup {NoRequest}]
    /\ \A c \in Caller : step[c] # "idle" => request[c] \in Requests
    /\ sent \in [Job -> Nat] /\ billed \in [Job -> Nat]

Init ==
    /\ cash \in {0, Price} /\ earned = cash /\ refunded = 0
    /\ booked = [a \in Account |-> 0] /\ held = [a \in Account |-> 0]
    /\ used = [j \in Job |-> 0]
    /\ request = [c \in Caller |-> NoRequest]
    /\ step = [c \in Caller |-> "idle"]
    /\ sent = [j \in Job |-> 0] /\ billed = [j \in Job |-> 0]

-----------------------------------------------------------------------------
(* The policy.                                                             *)

Touched(j, v) == {j, v} \cup Windows

\* How much a charge of n cents adds to an account it touches.
Weight(a, n) == IF a = "hour" THEN 1 ELSE n

\* The accounts after charging (or, with a negative sign, giving back) n cents.
Charge(acc, j, v, n, sign) ==
    [a \in Account |-> IF a \in Touched(j, v) THEN acc[a] + sign * Weight(a, n)
                       ELSE acc[a]]

Exposure(a) == booked[a] + held[a]

\* Mutant: only the ledger counts against the caps.
HasRoomOnLedger(a, n) ==
    IF a \in Job THEN JobBudget = 0 \/ booked[a] + n <= JobBudget
    ELSE booked[a] + Weight(a, n) <= Cap[a]

HasRoom(a, n) ==
    IF a \in Job THEN JobBudget = 0 \/ Exposure(a) + n <= JobBudget
    ELSE Exposure(a) + Weight(a, n) <= Cap[a]

\* Cash no reservation has a claim on.
Available == cash - held["day"]

\* Mutant: the reserve is kept of the balance, reservations and all.
PermitsOverdraft(n, v, j) ==
    /\ v \in Allowlist /\ n <= MaxTxn
    /\ \A a \in Touched(j, v) : HasRoom(a, n)
    /\ cash - n >= MinReserve

\* Guardrails.evaluate, but for the two rules whose answer lies elsewhere: the
\* job's projected margin, and the human asked above the approval threshold,
\* may deny whatever is permitted here.
Permits(n, v, j) ==
    /\ v \in Allowlist /\ n <= MaxTxn
    /\ \A a \in Touched(j, v) : HasRoom(a, n)
    /\ Available - n >= MinReserve

-----------------------------------------------------------------------------
(* One metered provider request: metered_model and metered_tool.  A free   *)
(* resource makes no reservation and appears nowhere here.                 *)

\* Mutant: off by one.
DebitOneMore(c) ==
    /\ step[c] = "idle"
    /\ \E j \in Job, v \in Vendor, n \in Amounts :
         /\ used[j] <= Allowance
         /\ used' = [used EXCEPT ![j] = @ + 1]
         /\ request' = [request EXCEPT ![c] =
                          [job |-> j, vendor |-> v, ceiling |-> n, actual |-> n]]
    /\ step' = [step EXCEPT ![c] = "allowed"]
    /\ UNCHANGED <<ledger, held, sent, billed>>

\* A request starts by debiting the quote's allowance, which outlives crashes
\* and retries (reserve_job_resources); an exhausted quote asks for no money.
Debit(c) ==
    /\ step[c] = "idle"
    /\ \E j \in Job, v \in Vendor, n \in Amounts :
         /\ used[j] < Allowance
         /\ used' = [used EXCEPT ![j] = @ + 1]
         /\ request' = [request EXCEPT ![c] =
                          [job |-> j, vendor |-> v, ceiling |-> n, actual |-> n]]
    /\ step' = [step EXCEPT ![c] = "allowed"]
    /\ UNCHANGED <<ledger, held, sent, billed>>

\* Guardrails.reserve: decide and reserve the ceiling in one locked block.  What
\* is denied sends nothing.
Authorize(c) ==
    LET r == request[c] IN
    /\ step[c] = "allowed"
    /\ \/ /\ Permits(r.ceiling, r.vendor, r.job)
          /\ held' = Charge(held, r.job, r.vendor, r.ceiling, 1)
          /\ step' = [step EXCEPT ![c] = "reserved"]
          /\ UNCHANGED request
       \/ /\ step' = [step EXCEPT ![c] = "idle"]
          /\ request' = [request EXCEPT ![c] = NoRequest]
          /\ UNCHANGED held
    /\ UNCHANGED <<ledger, used, sent, billed>>

\* Mutant: an outcome nobody knows is taken for free.
ProviderTrusted(c) ==
    LET r == request[c] IN
    /\ step[c] = "reserved"
    /\ sent' = [sent EXCEPT ![r.job] = @ + 1]
    /\ \E bill \in 0..r.ceiling :
         /\ billed' = [billed EXCEPT ![r.job] = @ + bill]
         /\ \E actual \in {bill, 0} :
               request' = [request EXCEPT ![c].actual = actual]
    /\ step' = [step EXCEPT ![c] = "answered"]
    /\ UNCHANGED <<ledger, held, used>>

\* The provider bills at most the ceiling.  A valid usage report settles at the
\* bill; a timeout, an error or a bad report settles at the ceiling.
Provider(c) ==
    LET r == request[c] IN
    /\ step[c] = "reserved"
    /\ sent' = [sent EXCEPT ![r.job] = @ + 1]
    /\ \E bill \in 0..r.ceiling :
         /\ billed' = [billed EXCEPT ![r.job] = @ + bill]
         /\ \E actual \in {bill, r.ceiling} :
               request' = [request EXCEPT ![c].actual = actual]
    /\ step' = [step EXCEPT ![c] = "answered"]
    /\ UNCHANGED <<ledger, held, used>>

\* settle_spend: the incurred cost replaces the reservation in one commit.
Settle(c) ==
    LET r == request[c] IN
    /\ step[c] = "answered"
    /\ held' = Charge(held, r.job, r.vendor, r.ceiling, -1)
    /\ booked' = IF r.actual = 0 THEN booked
                 ELSE Charge(booked, r.job, r.vendor, r.actual, 1)
    /\ cash' = cash - r.actual
    /\ step' = [step EXCEPT ![c] = "idle"]
    /\ request' = [request EXCEPT ![c] = NoRequest]
    /\ UNCHANGED <<earned, refunded, used, sent, billed>>

\* Mutant: the allowance is kept in the process.
DieForgetting(c) ==
    /\ step[c] # "idle"
    /\ used' = [used EXCEPT ![request[c].job] = 0]
    /\ step' = [step EXCEPT ![c] = "idle"]
    /\ request' = [request EXCEPT ![c] = NoRequest]
    /\ UNCHANGED <<ledger, held, sent, billed>>

\* The process dies: what it reserved stays reserved, what it used stays used.
Die(c) ==
    /\ step[c] # "idle"
    /\ step' = [step EXCEPT ![c] = "idle"]
    /\ request' = [request EXCEPT ![c] = NoRequest]
    /\ UNCHANGED <<ledger, held, used, sent, billed>>

-----------------------------------------------------------------------------
(* The rest of the ledger.                                                 *)

\* The spend stage pays what no metered call has booked: decided, paid and
\* booked inside one locked block.
PayRemainder ==
    /\ \E j \in Job, v \in Vendor, n \in Amounts :
         /\ Permits(n, v, j)
         /\ booked' = Charge(booked, j, v, n, 1)
         /\ cash' = cash - n
    /\ UNCHANGED <<earned, refunded, held, used, request, step, sent, billed>>

Earn ==
    /\ earned < MaxSales * Price
    /\ earned' = earned + Price /\ cash' = cash + Price
    /\ UNCHANGED <<refunded, booked, held, used, request, step, sent, billed>>

\* A refund is booked whatever the policy says of spending.
Refund ==
    /\ refunded + Price <= earned
    /\ refunded' = refunded + Price /\ cash' = cash - Price
    /\ UNCHANGED <<earned, booked, held, used, request, step, sent, billed>>

\* Ledger entries leave the 24 hour windows of their vendor and of all vendors,
\* and the hour.
LeaveDay ==
    /\ \E v \in Vendor : \E n \in 1..booked[v] :
         booked' = [booked EXCEPT ![v] = @ - n, !["day"] = @ - n]
    /\ UNCHANGED <<cash, earned, refunded, held, used, request, step, sent, billed>>

LeaveHour ==
    /\ booked["hour"] > 0
    /\ booked' = [booked EXCEPT !["hour"] = @ - 1]
    /\ UNCHANGED <<cash, earned, refunded, held, used, request, step, sent, billed>>

Next ==
    \/ \E c \in Caller : Debit(c) \/ Authorize(c) \/ Provider(c) \/ Settle(c) \/ Die(c)
    \/ PayRemainder \/ Earn \/ Refund \/ LeaveDay \/ LeaveHour

Spec == Init /\ [][Next]_vars
-----------------------------------------------------------------------------
(* What the guard promises.                                                *)

\* No account outgrows its cap, whatever jobs and processes spend at once and
\* wherever they die: the job's envelope, the vendor's and the day's budget and
\* the hourly velocity hold for ledger and reservations together.
WithinEveryLimit ==
    \A a \in Account :
        IF a \in Job THEN JobBudget = 0 \/ Exposure(a) <= JobBudget
        ELSE Exposure(a) <= Cap[a]

\* Spending alone never takes the cash below the reserve, with every reservation
\* counted as spent; only refunds can (min_reserve in Guardrails.evaluate).
KeepsTheReserve ==
    LET kept == Available + refunded
    IN  kept >= MinReserve \/ kept >= earned

\* What providers charge for metered requests is on the ledger or reserved, also
\* after a timeout, a bad usage report or a crash (docstring of spending.py).
BillsAreCovered == \A j \in Job : billed[j] <= Exposure(j)

\* The quote's allowance bounds the requests that leave the process, crashes and
\* retries included (docstring of reserve_job_resources).
AllowanceHolds == \A j \in Job : sent[j] <= used[j] /\ used[j] <= Allowance
=============================================================================

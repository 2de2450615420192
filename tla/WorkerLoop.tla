------------------------------- MODULE WorkerLoop -------------------------------
(***************************************************************************)
(* The worker processes of solvent/worker.py: each sweeps the open         *)
(* checkouts (checkout.sweep: mail a reminder, or close a dead link), then *)
(* claims jobs one by one, advances and releases them (treasury.claim_job, *)
(* release_job).  JobPipeline has what advancing a job does; here it takes *)
(* its time.                                                               *)
(***************************************************************************)
EXTENDS Integers, FiniteSets

CONSTANTS Pending,     \* jobs that wait for payment
          Worker,
          RemindAfter, MaxReminders, ExpireAfter,  \* the chase policy
          InvoiceLife, \* a Nano invoice's life; NoInvoice: the job is on Stripe
          NoInvoice,
          Lease,       \* lease_seconds
          LoopTime, MaxDeaths  \* bounds

\* CheckoutPolicy.validate
ASSUME WorkerAssumption ==
    /\ RemindAfter \in Nat /\ MaxReminders \in Nat /\ ExpireAfter \in Nat \ {0}
    /\ InvoiceLife \in [Pending -> Nat \cup {NoInvoice}] /\ NoInvoice \notin Nat
    /\ Lease \in Nat \ {0} /\ LoopTime \in Nat /\ MaxDeaths \in Nat
    /\ IsFiniteSet(Worker) /\ Worker # {}

VARIABLES loopClock,
          state,     \* the jobs' status, as far as the sweep looks at it
          link,      \* status of the stripe_checkout rows
          counted,   \* reminders_sent
          mailed,    \* reminders the customer got
          leases,    \* locked_until, or 0
          worker,    \* what each process is at
          deaths,    \* of processes, between a mail and its record or in a sweep
          overran    \* jobs whose lease ran out under their worker

workerVars == <<loopClock, state, link, counted, mailed, leases, worker, deaths, overran>>

Down   == [at |-> "down"]
Asleep == [at |-> "asleep"]   \* between two passes

WorkersTypeOK ==
    /\ loopClock \in 0..LoopTime /\ deaths \in 0..MaxDeaths
    /\ state \in [Pending -> {"awaiting_payment", "paid", "expired"}]
    /\ link \in [Pending -> {"open", "expired"}]
    /\ counted \in [Pending -> Nat] /\ mailed \in [Pending -> Nat]
    /\ leases \in [Pending -> 0..(LoopTime + Lease)] /\ overran \subseteq Pending
    /\ \A w \in Worker : worker[w].at \in {"down", "resuming", "resumed", "asleep", "sweeping", "mailed", "closing", "ranked", "busy"}

WorkersInit ==
    /\ loopClock = 0 /\ deaths = 0 /\ overran = {}
    /\ state = [j \in Pending |-> "awaiting_payment"] /\ link = [j \in Pending |-> "open"]
    /\ counted = [j \in Pending |-> 0] /\ mailed = [j \in Pending |-> 0]
    /\ leases = [j \in Pending |-> 0] /\ worker = [w \in Worker |-> Down]

-----------------------------------------------------------------------------
(* A process starts: resume_incomplete_jobs, without a claim.              *)

StartWorker(w) ==
    /\ worker[w] = Down
    /\ worker' = [worker EXCEPT ![w] =
          [at |-> "resuming", queue |-> {j \in Pending : state[j] # "expired"}]]
    /\ UNCHANGED <<loopClock, state, link, counted, mailed, leases, deaths, overran>>

Resume(w, j) ==
    /\ worker[w].at = "resuming" /\ j \in worker[w].queue
    /\ worker' = [worker EXCEPT ![w] = [at |-> "resumed", job |-> j, queue |-> @.queue \ {j}]]
    /\ UNCHANGED <<loopClock, state, link, counted, mailed, leases, deaths, overran>>

Resumed(w) ==
    /\ \/ worker[w].at = "resumed" /\ worker' = [worker EXCEPT ![w] = [at |-> "resuming", queue |-> @.queue]]
       \/ worker[w].at = "resuming" /\ worker[w].queue = {} /\ worker' = [worker EXCEPT ![w] = Asleep]
    /\ UNCHANGED <<loopClock, state, link, counted, mailed, leases, deaths, overran>>

-----------------------------------------------------------------------------
(* The sweep.                                                              *)

\* open_checkouts: what each open row wants; every link is as old as the clock.
IsDead(j) == loopClock >= ExpireAfter \/ (InvoiceLife[j] # NoInvoice /\ loopClock > InvoiceLife[j])
Wants(j) ==
    IF IsDead(j) THEN "expire"
    ELSE IF counted[j] < MaxReminders /\ loopClock >= RemindAfter * (counted[j] + 1) THEN "remind"
    ELSE "wait"
Open == {j \in Pending : link[j] = "open" /\ state[j] = "awaiting_payment"}

\* A pass begins with one reading of all the rows.
StartPass(w) ==
    /\ worker[w] = Asleep
    /\ worker' = [worker EXCEPT ![w] =
          [at |-> "sweeping", expire |-> {j \in Open : Wants(j) = "expire"},
           remind |-> {j \in Open : Wants(j) = "remind"}]]
    /\ UNCHANGED <<loopClock, state, link, counted, mailed, leases, deaths, overran>>

\* A reminder is mailed, unless the mailbox is dead; nothing is looked up again.
Mail(w, j) ==
    /\ worker[w].at = "sweeping" /\ j \in worker[w].remind
    /\ \/ /\ mailed' = [mailed EXCEPT ![j] = @ + 1]
          /\ worker' = [worker EXCEPT ![w] = [at |-> "mailed", job |-> j, expire |-> @.expire,
                                              remind |-> @.remind \ {j}]]
       \/ /\ worker' = [worker EXCEPT ![w].remind = @ \ {j}] /\ UNCHANGED mailed
    /\ UNCHANGED <<loopClock, state, link, counted, leases, deaths, overran>>

\* record_checkout_reminder
CountMail(w) ==
    /\ worker[w].at = "mailed"
    /\ counted' = [counted EXCEPT ![worker[w].job] = @ + 1]
    /\ worker' = [worker EXCEPT ![w] = [at |-> "sweeping", expire |-> @.expire, remind |-> @.remind]]
    /\ UNCHANGED <<loopClock, state, link, mailed, leases, deaths, overran>>

\* Under the lock, job by job: looked up again, the checkout row first.
CloseLink(w, j) ==
    /\ worker[w].at = "sweeping" /\ j \in worker[w].expire
    /\ IF state[j] = "awaiting_payment"
       THEN /\ link' = [link EXCEPT ![j] = "expired"]
            /\ worker' = [worker EXCEPT ![w] = [at |-> "closing", job |-> j, remind |-> @.remind,
                                                expire |-> @.expire \ {j}]]
       ELSE /\ worker' = [worker EXCEPT ![w].expire = @ \ {j}] /\ UNCHANGED link
    /\ \A v \in Worker : worker[v].at = "closing" => worker[v].job # j
    /\ UNCHANGED <<loopClock, state, counted, mailed, leases, deaths, overran>>

\* Mutant: only the checkout row is closed.
CloseJobNot(w) ==
    /\ worker[w].at = "closing"
    /\ worker' = [worker EXCEPT ![w] = [at |-> "sweeping", expire |-> @.expire, remind |-> @.remind]]
    /\ UNCHANGED <<loopClock, state, link, counted, mailed, leases, deaths, overran>>

CloseJob(w) ==
    /\ worker[w].at = "closing"
    /\ state' = [state EXCEPT ![worker[w].job] = "expired"]
    /\ worker' = [worker EXCEPT ![w] = [at |-> "sweeping", expire |-> @.expire, remind |-> @.remind]]
    /\ UNCHANGED <<loopClock, link, counted, mailed, leases, deaths, overran>>

\* prioritise(list_claimable): an expired job has dropped out of the queue.
Rank(w) ==
    /\ worker[w].at = "sweeping" /\ worker[w].expire = {} /\ worker[w].remind = {}
    /\ worker' = [worker EXCEPT ![w] =
          [at |-> "ranked", queue |-> {j \in Pending : state[j] # "expired"}]]
    /\ UNCHANGED <<loopClock, state, link, counted, mailed, leases, deaths, overran>>

-----------------------------------------------------------------------------
(* The lease.                                                              *)

\* Mutant: the lease is taken, whoever has it.
ClaimBlindly(w, j) ==
    /\ worker[w].at = "ranked" /\ j \in worker[w].queue
    /\ leases' = [leases EXCEPT ![j] = loopClock + Lease]
    /\ worker' = [worker EXCEPT ![w] = [at |-> "busy", job |-> j, queue |-> @.queue \ {j}]]
    /\ UNCHANGED <<loopClock, state, link, counted, mailed, deaths, overran>>

Claim(w, j) ==
    /\ worker[w].at = "ranked" /\ j \in worker[w].queue
    /\ IF leases[j] > loopClock
       THEN worker' = [worker EXCEPT ![w].queue = @ \ {j}] /\ UNCHANGED leases
       ELSE /\ leases' = [leases EXCEPT ![j] = loopClock + Lease]
            /\ worker' = [worker EXCEPT ![w] =
                            [at |-> "busy", job |-> j, queue |-> @.queue \ {j}]]
    /\ UNCHANGED <<loopClock, state, link, counted, mailed, deaths, overran>>

\* advance_job is done, or has raised: the lease goes either way, whoever's it
\* is by now, and an exception ends the process.
Release(w) ==
    /\ worker[w].at = "busy"
    /\ leases' = [leases EXCEPT ![worker[w].job] = 0]
    /\ \/ worker' = [worker EXCEPT ![w] = [at |-> "ranked", queue |-> @.queue]]
       \/ worker' = [worker EXCEPT ![w] = Down]
    /\ UNCHANGED <<loopClock, state, link, counted, mailed, deaths, overran>>

EndPass(w) ==
    /\ worker[w].at = "ranked" /\ worker[w].queue = {}
    /\ worker' = [worker EXCEPT ![w] = Asleep]
    /\ UNCHANGED <<loopClock, state, link, counted, mailed, leases, deaths, overran>>

-----------------------------------------------------------------------------
(* The world around.                                                       *)

\* Somebody books the customer's payment (not while a sweep holds the lock).
PayPending(j) ==
    /\ state[j] = "awaiting_payment" /\ state' = [state EXCEPT ![j] = "paid"]
    /\ \A w \in Worker : worker[w].at = "closing" => worker[w].job # j
    /\ UNCHANGED <<loopClock, link, counted, mailed, leases, worker, deaths, overran>>

\* A process dies, or an exception ends it while it resumes (before it has swept
\* anything); it is started again, on the same files, and what it held stays.
KillWorker(w) ==
    /\ worker[w] # Down /\ deaths < MaxDeaths
    /\ deaths' = deaths + 1 /\ worker' = [worker EXCEPT ![w] = Down]
    /\ UNCHANGED <<loopClock, state, link, counted, mailed, leases, overran>>

WorkerTick ==
    /\ loopClock < LoopTime /\ loopClock' = loopClock + 1
    /\ overran' = overran \cup {j \in Pending : /\ leases[j] <= loopClock'
                                                /\ \E w \in Worker : worker[w].at = "busy" /\ worker[w].job = j}
    /\ UNCHANGED <<state, link, counted, mailed, leases, worker, deaths>>

\* What a process does as long as it lives, and its restart.  Weakly fair, as
\* time is; payment and death are nobody's duty.
GoOn(w) ==
    \/ StartWorker(w) \/ Resumed(w) \/ StartPass(w) \/ CountMail(w) \/ CloseJob(w)
    \/ Rank(w) \/ Release(w) \/ EndPass(w)
    \/ \E j \in Pending : Resume(w, j) \/ Mail(w, j) \/ CloseLink(w, j) \/ Claim(w, j)

WorkersNext ==
    \/ WorkerTick \/ \E j \in Pending : PayPending(j)
    \/ \E w \in Worker : GoOn(w) \/ KillWorker(w)

\* The safety part alone, which the proofs are about.
WorkersSpec == WorkersInit /\ [][WorkersNext]_workerVars

-----------------------------------------------------------------------------
(* Properties.                                                             *)

\* A sweep is "safe to run on every worker pass": a customer is reminded at most
\* as often as the policy says, and once more for each other worker and for each
\* death, which may come between a mail and its record; what is counted was
\* mailed; and a job whose link was closed is not paid later, unless a sweep died
\* half way (checkout.sweep, "Never downgrade a paid/terminal job").
RemindersHold ==
    \A j \in Pending :
        /\ mailed[j] <= MaxReminders + (Cardinality(Worker) - 1) + deaths
        /\ counted[j] <= mailed[j]
        /\ link[j] = "expired" /\ deaths = 0 => state[j] # "paid"

\* Two workers have one job claimed only after its lease has run out under one
\* of them (jobs that a starting process resumes it does not claim at all).
LeasesExclude ==
    \A j \in Pending :
        Cardinality({w \in Worker : worker[w].at = "busy" /\ worker[w].job = j}) > 1 => j \in overran

WorkersHold == WorkersTypeOK /\ RemindersHold /\ LeasesExclude

\* An expired job "drops out of the queue instead of being polled forever"
\* (worker.run_worker): every job is paid or closed in the end.  The exception
\* is one whose link a sweep closed and then died over: no sweep looks at a job
\* with a closed link again, so the job row waits for ever.
UnpaidIsClosed ==
    \A j \in Pending :
        <>(state[j] # "awaiting_payment") \/ <>[](link[j] = "expired" /\ deaths > 0)
=============================================================================

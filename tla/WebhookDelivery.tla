--------------------------- MODULE WebhookDelivery ---------------------------
(***************************************************************************)
(* How a Stripe payment reaches the job it pays for: the webhook endpoint  *)
(* of solvent/server.py, its event log (solvent/webhook_log.py), and the   *)
(* payment caches of solvent/stripe_client.py.                             *)
(*                                                                         *)
(* Three Stripe clients keep a cache each: the endpoint's own (`stripe` in *)
(* create_app), the one of the agent in the same process, and the one of   *)
(* the worker process.  A cache is read from stripe_payments.json when its *)
(* client is made, and never again; only the endpoint adds payments, and   *)
(* rewrites the whole file each time.                                      *)
(*                                                                         *)
(* Stripe (external) sends an event again until it is acknowledged, and    *)
(* sometimes after that.  The endpoint has a live key; it handles one      *)
(* event at a time, for its handler awaits nothing once it has the body.   *)
(***************************************************************************)
EXTENDS Naturals

CONSTANTS Job, Event,
          Of,          \* the job an event names
          Completed,   \* events that report a completed, paid session
          None,        \* no event is being handled
          MaxFaults    \* bound on errors and crashes of the server

ASSUME DeliveryAssumption ==
    /\ Of \in [Event -> Job]
    /\ Completed \subseteq Event
    /\ None \notin Event
    /\ MaxFaults \in Nat

VARIABLES
    sent,      \* events Stripe has made
    acked,     \* events answered with success
    log,       \* webhook_events.status
    handling,  \* the event the endpoint is working on
    replayed,  \* it was taken from the log by an operator
    step,      \* what the endpoint does next
    cache,     \* jobs with a payment in each client's _webhook_payments
    file,      \* jobs with a payment in stripe_payments.json
    listed,    \* jobs whose stripe_checkout row says paid
    booked,    \* jobs with revenue in the ledger
    faults

handler  == <<handling, replayed, step>>
payments == <<cache, file, listed, booked>>
vars == <<sent, acked, log, handler, payments, faults>>

Client == {"endpoint", "agent", "worker"}
Server == {"endpoint", "agent"}

TypeOK ==
    /\ sent \subseteq Event /\ acked \subseteq Event
    /\ log \in [Event -> {"none", "received", "processed", "error"}]
    /\ handling \in Event \cup {None} /\ replayed \in BOOLEAN
    /\ step \in {"idle", "apply", "list", "advance", "mark"}
    /\ step # "idle" => handling \in Event
    /\ cache \in [Client -> SUBSET Job]
    /\ file \subseteq Job /\ listed \subseteq Job /\ booked \subseteq Job
    /\ faults \in 0..MaxFaults

Init ==
    /\ sent = {} /\ acked = {}
    /\ log = [e \in Event |-> "none"]
    /\ handling = None /\ replayed = FALSE /\ step = "idle"
    /\ cache = [c \in Client |-> {}]
    /\ file = {} /\ listed = {} /\ booked = {}
    /\ faults = 0

Paid == {Of[e] : e \in sent \cap Completed}

\* Mutant: the step is not reset.
LeaveHalfway == handling' = None /\ replayed' = FALSE /\ UNCHANGED step

\* The endpoint leaves its event, one way or the other.
Leave == handling' = None /\ replayed' = FALSE /\ step' = "idle"

\* Clients made afresh by a process read the file.
Reload(clients, contents) ==
    cache' = [c \in Client |-> IF c \in clients THEN contents ELSE cache[c]]

-----------------------------------------------------------------------------
\* The customer pays, or anything else happens that Stripe reports.
Emit(e) ==
    /\ e \notin sent
    /\ sent' = sent \cup {e}
    /\ UNCHANGED <<acked, log, handler, payments, faults>>

\* Mutant: whatever is in the log has been dealt with.
DeliverOnce(e) ==
    /\ step = "idle" /\ e \in sent
    /\ IF log[e] # "none"
       THEN acked' = acked \cup {e} /\ UNCHANGED <<log, handler>>
       ELSE /\ log' = [log EXCEPT ![e] = "received"]
            /\ handling' = e /\ replayed' = FALSE /\ step' = "apply"
            /\ UNCHANGED acked
    /\ UNCHANGED <<sent, payments, faults>>

\* Mutant: a failed event is not handled again.
DeliverUnlessFailed(e) ==
    /\ step = "idle" /\ e \in sent
    /\ IF log[e] \in {"processed", "error"}
       THEN acked' = acked \cup {e} /\ UNCHANGED <<log, handler>>
       ELSE /\ log' = [log EXCEPT ![e] = "received"]
            /\ handling' = e /\ replayed' = FALSE /\ step' = "apply"
            /\ UNCHANGED acked
    /\ UNCHANGED <<sent, payments, faults>>

\* stripe_webhook: a known event is acknowledged when it was finished, and
\* handled again when an earlier attempt was not.
Deliver(e) ==
    /\ step = "idle" /\ e \in sent
    /\ IF log[e] = "processed"
       THEN acked' = acked \cup {e} /\ UNCHANGED <<log, handler>>
       ELSE /\ log' = IF log[e] = "none" THEN [log EXCEPT ![e] = "received"] ELSE log
            /\ handling' = e /\ replayed' = FALSE /\ step' = "apply"
            /\ UNCHANGED acked
    /\ UNCHANGED <<sent, payments, faults>>

\* The operator's replay of a stored event.
Replay(e) ==
    /\ step = "idle" /\ log[e] # "none"
    /\ handling' = e /\ replayed' = TRUE /\ step' = "apply"
    /\ UNCHANGED <<sent, acked, log, payments, faults>>

\* Mutant: the type and the payment status of the session are not looked at.
ApplyAnything ==
    /\ step = "apply"
    /\ Reload({"endpoint"}, cache["endpoint"] \cup {Of[handling]})
    /\ file' = cache'["endpoint"]
    /\ step' = "list"
    /\ UNCHANGED <<sent, acked, log, handling, replayed, listed, booked, faults>>

\* apply_webhook_event: anything but a completed, paid session is done with;
\* a payment goes into the endpoint's cache and, with it, to the file.
Apply ==
    /\ step = "apply"
    /\ IF handling \in Completed
       THEN /\ Reload({"endpoint"}, cache["endpoint"] \cup {Of[handling]})
            /\ file' = cache'["endpoint"]
            /\ step' = "list"
       ELSE UNCHANGED <<cache, file>> /\ step' = "mark"
    /\ UNCHANGED <<sent, acked, log, handling, replayed, listed, booked, faults>>

\* Best effort: an error leaves the row as it was.
ListPaid ==
    /\ step = "list"
    /\ listed' \in {listed, listed \cup {Of[handling]}}
    /\ step' = "advance"
    /\ UNCHANGED <<sent, acked, log, handling, replayed, cache, file, booked, faults>>

\* handle_webhook_payment runs on the agent, which looks in its own cache.
AdvanceJob ==
    /\ step = "advance"
    /\ booked' = booked \cup ({Of[handling]} \cap cache["agent"])
    /\ step' = "mark"
    /\ UNCHANGED <<sent, acked, log, handling, replayed, cache, file, listed, faults>>

\* mark_processed, and the answer: an operator's replay answers the operator.
Mark ==
    /\ step = "mark"
    /\ log' = [log EXCEPT ![handling] = "processed"]
    /\ acked' = IF replayed THEN acked ELSE acked \cup {handling}
    /\ Leave
    /\ UNCHANGED <<sent, payments, faults>>

\* Any exception on the way marks the event and answers with an error.
Fail ==
    /\ step \in {"apply", "list", "advance"} /\ faults < MaxFaults
    /\ faults' = faults + 1
    /\ log' = [log EXCEPT ![handling] = "error"]
    /\ Leave
    /\ UNCHANGED <<sent, acked, payments>>

\* Mutant: clients start with an empty cache.
StartServerEmpty(contents) ==
    /\ file' = contents
    /\ Reload(Server, {})
    /\ Leave
    /\ UNCHANGED <<sent, acked, log, listed, booked>>

\* A new server process, over the file its predecessor left.
StartServer(contents) ==
    /\ file' = contents
    /\ Reload(Server, contents)
    /\ Leave
    /\ UNCHANGED <<sent, acked, log, listed, booked>>

\* The server dies and is started again.  A death within write_text leaves a
\* torn file, which _load_webhook_cache takes for an empty one.
Crash ==
    /\ faults < MaxFaults /\ faults' = faults + 1
    /\ \/ StartServer(file)
       \/ step = "apply" /\ handling \in Completed /\ StartServer({})

Restart == step = "idle" /\ StartServer(file) /\ UNCHANGED faults

RestartWorker ==
    /\ Reload({"worker"}, file)
    /\ UNCHANGED <<sent, acked, log, handler, file, listed, booked, faults>>

\* The worker loop polls every job that awaits payment.
WorkerAdvance ==
    /\ booked' = booked \cup cache["worker"]
    /\ UNCHANGED <<sent, acked, log, handler, cache, file, listed, faults>>

Handle == Apply \/ ListPaid \/ AdvanceJob \/ Mark

Next ==
    \/ \E e \in Event : Emit(e) \/ Deliver(e) \/ Replay(e)
    \/ Handle \/ Fail \/ Crash \/ Restart \/ RestartWorker \/ WorkerAdvance

Spec == Init /\ [][Next]_vars

\* A handler runs to its end, the worker keeps polling, and Stripe keeps
\* sending what is not acknowledged.
FairSpec ==
    /\ Spec /\ WF_vars(Handle) /\ WF_vars(WorkerAdvance)
    /\ \A e \in Event : SF_vars(Deliver(e))
-----------------------------------------------------------------------------
\* Only a completed session's payment is ever booked: no other event, replay or
\* restart puts a job into a cache a handler books from (apply_webhook_event).
BookedIsPaid == booked \subseteq Paid

\* An event is acknowledged only once handling it has come to an end, in this
\* process or an earlier one: a crash between record and mark is not an answer.
AckedIsFinished == \A e \in acked : log[e] \in {"processed", "error"}

\* Saving the cache drops no payment that is on file, unless the server dies
\* while it writes: whoever saves has everything earlier processes saved.
SavesKeepPayments == [][file \subseteq file' \/ faults' > faults]_vars

\* What Stripe sends is processed in the end, whatever errors and crashes the
\* first attempts met (stripe_webhook, "process it again").
DeliveredIsProcessed ==
    \A e \in Event : (e \in sent \ acked) ~> (log[e] = "processed")

\* docs/PRODUCTION.md, Architecture: after the webhook the worker takes the job
\* to "paid", with no restart of anything in between.
AckedPaymentIsBooked ==
    \A e \in Completed : (e \in acked) ~> (Of[e] \in booked)
=============================================================================

-------------------------------- MODULE Intake --------------------------------
(***************************************************************************)
(* The commercial screen of solvent/intake.py as the handlers of several   *)
(* orders run it at once (stages.screen_and_record, agent.enqueue_job,     *)
(* review.approve and retry_job): a handler reads the history, makes up    *)
(* its mind, and records its own order afterwards.                         *)
(***************************************************************************)
EXTENDS Integers, FiniteSets

CONSTANTS Submission, \* ids of the orders
          Brief,      \* what an order says: [customer, topic, plain], see below
          Screener,   \* handlers that screen at the same time
          DuplicateWindow, BurstWindow,  \* 60 minutes, one hour, in clock steps
          BurstLimit, \* max_jobs_per_customer_per_hour
          IntakeTime  \* bound on the clock

\* Why an order may be turned away unread: unreachable_customer, blocked_domain,
\* oversized_order.  An order with none of these is plain.
ASSUME IntakeAssumption ==
    /\ \A b \in Brief : b.plain \in BOOLEAN
    /\ IsFiniteSet(Screener)
    /\ DuplicateWindow \in Nat /\ BurstWindow \in Nat /\ BurstLimit \in Nat /\ IntakeTime \in Nat

VARIABLES intakeClock,
          desk,      \* the row of an order
          created,   \* its created_at
          waved,     \* orders whose payload carries intake_approved
          passed,    \* orders whose last screening let them through
          revived,   \* orders that came back to life and were not screened since
          screening  \* what each handler has in hand

tallies == <<passed, revived>>
intakeVars == <<intakeClock, desk, created, waved, tallies, screening>>

NoOrder == [id |-> "idle"]
Nowhere == [status |-> "none"]
Dead == {"failed", "cancelled", "expired"}   \* DEAD_STATUSES
Holding == [id : Submission, brief : Brief, fine : BOOLEAN]
\* held: its error_reason is the screen's.  sold: offered, paid or delivered.
Rows == [status : {"pending_quote", "sold"} \cup Dead, brief : Brief, held : BOOLEAN]

Recorded(j) == desk[j].status \notin {"none", "received"}

IntakeTypeOK ==
    /\ intakeClock \in 0..IntakeTime
    /\ \A j \in Submission :
         desk[j] \in Rows \cup {Nowhere, [status |-> "received"]}
    /\ created \in [Submission -> 0..IntakeTime] /\ waved \subseteq Submission
    /\ passed \subseteq {j \in Submission : Recorded(j)} /\ revived \subseteq Submission
    /\ \A h \in Screener : screening[h] \in Holding \cup {NoOrder}

IntakeInit ==
    /\ intakeClock = 0 /\ desk = [j \in Submission |-> Nowhere]
    /\ created = [j \in Submission |-> 0] /\ waved = {} /\ passed = {} /\ revived = {}
    /\ screening = [h \in Screener |-> NoOrder]

-----------------------------------------------------------------------------
(* The screen.                                                             *)

\* A row says whose it is only once it has been recorded.
History(id, brief) ==
    {j \in Submission \ {id} : Recorded(j) /\ desk[j].brief.customer = brief.customer}

IsDuplicate(id, brief) ==
    \E j \in History(id, brief) :
        /\ desk[j].status \notin Dead /\ desk[j].brief.topic = brief.topic
        /\ created[j] >= intakeClock - DuplicateWindow

\* Mutant: one order more than the limit.
IsBurstLater(id, brief) ==
    Cardinality({j \in History(id, brief) : created[j] >= intakeClock - BurstWindow}) > BurstLimit

IsBurst(id, brief) ==
    Cardinality({j \in History(id, brief) : created[j] >= intakeClock - BurstWindow}) >= BurstLimit

\* screen_job: an operator's word comes first, then what the order itself says.
Screen(id, brief) ==
    id \in waved \/ (brief.plain /\ ~IsDuplicate(id, brief) /\ ~IsBurst(id, brief))

Take(h, j, b) ==
    screening' = [screening EXCEPT ![h] = [id |-> j, brief |-> b, fine |-> Screen(j, b)]]

\* enqueue_job claims the id with a bare row, which nobody's history shows, and
\* reads the history.
Receive(h, j, b) ==
    /\ screening[h] = NoOrder /\ desk[j] = Nowhere
    /\ desk' = [desk EXCEPT ![j] = [status |-> "received"]]
    /\ created' = [created EXCEPT ![j] = intakeClock]
    /\ Take(h, j, b)
    /\ UNCHANGED <<intakeClock, waved, tallies>>

\* A failed order is retried, a queued one taken up by the worker, or a webhook
\* advances a cancelled one: run_job screens it again.  One handler at a time
\* screens an order here; JobPipeline has the other interleavings.
Rescreen(h, j) ==
    /\ screening[h] = NoOrder /\ Recorded(j)
    /\ desk[j].status \in {"failed", "pending_quote", "cancelled"}
    /\ \A g \in Screener : screening[g].id # j
    /\ Take(h, j, desk[j].brief)
    /\ UNCHANGED <<intakeClock, desk, created, waved, tallies>>

\* screen_and_record: the row is written whatever has become of it meanwhile, and
\* an order that passes at last keeps the old reason on its row.
Record(h) ==
    /\ screening[h] # NoOrder
    /\ LET fine == screening[h].fine
           j == screening[h].id
       IN  /\ desk' = [desk EXCEPT ![j] =
                 [status |-> IF fine THEN "pending_quote" ELSE "failed", brief |-> screening[h].brief,
                  held |-> fine => Recorded(j) /\ desk[j].held]]
           /\ passed' = IF fine THEN passed \cup {j} ELSE passed \ {j}
           /\ revived' = revived \ {j}
    /\ screening' = [screening EXCEPT ![h] = NoOrder]
    /\ UNCHANGED <<intakeClock, created, waved>>

\* The handler dies; its order stays as it is.
Abandon(h) ==
    /\ screening[h] # NoOrder
    /\ screening' = [screening EXCEPT ![h] = NoOrder]
    /\ UNCHANGED <<intakeClock, desk, created, waved, tallies>>

\* review.approve, for an order held at intake: the flag goes onto its payload.
Wave(j) ==
    /\ Recorded(j) /\ desk[j].held
    /\ waved' = waved \cup {j}
    /\ desk' = [desk EXCEPT ![j].status = "pending_quote", ![j].held = FALSE]
    /\ UNCHANGED <<intakeClock, created, tallies, screening>>

\* review.reject, whatever the order's status (a bare row is left out: it says
\* nothing an operator could judge).
TurnAway(j) ==
    /\ Recorded(j)
    /\ desk' = [desk EXCEPT ![j].status = "cancelled", ![j].held = FALSE]
    /\ UNCHANGED <<intakeClock, created, waved, tallies, screening>>

\* What becomes of a screened order: offered or declined.
Proceed(j) ==
    /\ Recorded(j) /\ desk[j].status = "pending_quote"
    /\ \/ desk' = [desk EXCEPT ![j].status = "sold"]
       \/ desk' = [desk EXCEPT ![j].status = "failed", ![j].held = FALSE]
    /\ UNCHANGED <<intakeClock, created, waved, tallies, screening>>

\* ... and of an offered one: its work fails after it was paid, or its link
\* expires.
Close(j) ==
    /\ Recorded(j) /\ desk[j].status = "sold"
    /\ \E end \in {"failed", "expired"} : desk' = [desk EXCEPT ![j].status = end, ![j].held = FALSE]
    /\ UNCHANGED <<intakeClock, created, waved, tallies, screening>>

\* A dead order lives again and is not screened: retry_job takes a failed one
\* whose payment is held straight to fulfilment; a handler that took the order up
\* before it was cancelled books its payment, for only expired, failed and
\* completed rows refuse one; and checkout writes awaiting_payment over any row.
Revive(j) ==
    /\ j \in passed \cup waved /\ desk[j].status \in Dead
    /\ desk' = [desk EXCEPT ![j].status = "sold"] /\ revived' = revived \cup {j}
    /\ UNCHANGED <<intakeClock, created, waved, passed, screening>>

IntakeTick ==
    /\ intakeClock < IntakeTime /\ intakeClock' = intakeClock + 1
    /\ UNCHANGED <<desk, created, waved, tallies, screening>>

IntakeNext ==
    \/ IntakeTick
    \/ \E h \in Screener : Record(h) \/ Abandon(h)
    \/ \E h \in Screener, j \in Submission :
         Rescreen(h, j) \/ \E b \in Brief : Receive(h, j, b)
    \/ \E j \in Submission : Wave(j) \/ TurnAway(j) \/ Proceed(j) \/ Close(j) \/ Revive(j)

IntakeSpec == IntakeInit /\ [][IntakeNext]_intakeVars

-----------------------------------------------------------------------------
(* Properties.                                                             *)

\* The orders the screen itself has let through.
LetThrough == passed \ waved

\* The screen decides on what it read before others recorded, so handlers that
\* overlap may let through more than they should, but no more than one each.  Of
\* one customer's orders within the hour no more pass than the limit and the other
\* handlers, whatever becomes of them afterwards.  Of one brief no more are alive
\* at a time than handlers, not counting orders that were dead and came back: the
\* screen overlooks a dead order, and nothing screens it when it is retried or
\* paid late, so those may be duplicates in any number (intake.screen_job).
ScreensHold ==
    IntakeTypeOK /\ \A b \in Brief :
        LET hers == {j \in LetThrough : desk[j].brief.customer = b.customer}
        IN  /\ Cardinality({j \in hers \ revived : /\ desk[j].brief.topic = b.topic
                                                   /\ desk[j].status \notin Dead
                                                   /\ created[j] >= intakeClock - DuplicateWindow})
                  <= Cardinality(Screener)
            /\ BurstLimit > 0 =>
                 Cardinality({j \in hers : created[j] >= intakeClock - BurstWindow})
                    <= BurstLimit + Cardinality(Screener) - 1
=============================================================================

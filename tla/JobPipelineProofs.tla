-------------------------- MODULE JobPipelineProofs --------------------------
(***************************************************************************)
(* Proofs about one commission, for any number of handlers, retries and    *)
(* crashes.  The invariant is inductive together with the types; it has    *)
(* four parts, each kept by every action, and one lemma per part says so   *)
(* with one step per action of Next.                                       *)
(***************************************************************************)
EXTENDS JobPipeline, TLAPS

USE PipelineAssumption
    DEF At, Goto, DieHere, SetStatus, SetStatusAndReason,
        jobRow, stageRows, rail, money

-----------------------------------------------------------------------------
(* Types.                                                                  *)

\* Every status an action writes is one of jobs.status.
LEMMA StatusNames ==
    /\ "received" \in Statuses /\ "pending_quote" \in Statuses
    /\ "awaiting_payment" \in Statuses /\ "paid_pending_fulfill" \in Statuses
    /\ "in_progress" \in Statuses /\ "completed" \in Statuses
    /\ "failed" \in Statuses /\ "expired" \in Statuses /\ "cancelled" \in Statuses
  BY DEF Statuses

\* Every stage an action completes is one of job_stages.
LEMMA StageNames ==
    /\ "quote" \in Stages /\ "checkout" \in Stages /\ "paid" \in Stages
    /\ "fulfill" \in Stages /\ "spend" \in Stages /\ "publish" \in Stages
    /\ "deliver" \in Stages /\ "refund" \in Stages
  BY DEF Stages

\* No action leaves the types: the handlers stay in the stage machine, the rows
\* in their vocabularies.
LEMMA TypeStep == TypeOK /\ [Next]_vars => TypeOK'
<1> SUFFICES ASSUME TypeOK, [Next]_vars PROVE TypeOK'
  OBVIOUS
<1> USE DEF TypeOK
<1>1. ASSUME NEW p \in Proc, Enqueue(p) PROVE TypeOK'
  <2>1. pc' \in [Proc -> Steps]
    BY <1>1 DEF Enqueue, Steps, Locked, Working, Unwinding
  <2> QED
    BY <1>1, <2>1, StatusNames, StageNames DEF Enqueue
<1>2. ASSUME NEW p \in Proc, HandleJob(p) PROVE TypeOK'
  <2>1. pc' \in [Proc -> Steps]
    BY <1>2 DEF HandleJob, Steps, Locked, Working, Unwinding
  <2> QED
    BY <1>2, <2>1, StatusNames, StageNames DEF HandleJob
<1>3. ASSUME NEW p \in Proc, Advance(p) PROVE TypeOK'
  <2>1. pc' \in [Proc -> Steps]
    BY <1>3 DEF Advance, Entry, Steps, Locked, Working, Unwinding
  <2> QED
    BY <1>3, <2>1, StatusNames, StageNames DEF Advance, Entry
<1>4. ASSUME NEW p \in Proc, Retry(p) PROVE TypeOK'
  <2>1. pc' \in [Proc -> Steps]
    BY <1>4 DEF Retry, Steps, Locked, Working, Unwinding
  <2> QED
    BY <1>4, <2>1, StatusNames, StageNames DEF Retry
<1>5. ASSUME NEW p \in Proc, RetryFrom(p) PROVE TypeOK'
  <2>1. pc' \in [Proc -> Steps]
    BY <1>5 DEF RetryFrom, Steps, Locked, Working, Unwinding
  <2> QED
    BY <1>5, <2>1, StatusNames, StageNames DEF RetryFrom
<1>6. ASSUME NEW p \in Proc, Resume(p) PROVE TypeOK'
  <2>1. pc' \in [Proc -> Steps]
    BY <1>6 DEF Resume, Steps, Locked, Working, Unwinding
  <2> QED
    BY <1>6, <2>1, StatusNames, StageNames DEF Resume
<1>7. ASSUME NEW p \in Proc, SweepPick(p) PROVE TypeOK'
  <2>1. pc' \in [Proc -> Steps]
    BY <1>7 DEF SweepPick, Steps, Locked, Working, Unwinding
  <2> QED
    BY <1>7, <2>1, StatusNames, StageNames DEF SweepPick
<1>8. ASSUME NEW p \in Proc, ResumeWrite(p) PROVE TypeOK'
  <2>1. pc' \in [Proc -> Steps]
    BY <1>8 DEF ResumeWrite, Steps, Locked, Working, Unwinding
  <2> QED
    BY <1>8, <2>1, StatusNames, StageNames DEF ResumeWrite
<1>9. ASSUME NEW p \in Proc, Screen(p) PROVE TypeOK'
  <2>1. pc' \in [Proc -> Steps]
    BY <1>9 DEF Screen, Steps, Locked, Working, Unwinding
  <2> QED
    BY <1>9, <2>1, StatusNames, StageNames DEF Screen
<1>10. ASSUME NEW p \in Proc, Quote(p) PROVE TypeOK'
  <2>1. pc' \in [Proc -> Steps]
    BY <1>10 DEF Quote, Steps, Locked, Working, Unwinding
  <2> QED
    BY <1>10, <2>1, StatusNames, StageNames DEF Quote
<1>11. ASSUME NEW p \in Proc, Price(p) PROVE TypeOK'
  <2>1. pc' \in [Proc -> Steps]
    BY <1>11 DEF Price, Steps, Locked, Working, Unwinding
  <2> QED
    BY <1>11, <2>1, StatusNames, StageNames DEF Price
<1>12. ASSUME NEW p \in Proc, BookQuote(p) PROVE TypeOK'
  <2>1. pc' \in [Proc -> Steps]
    BY <1>12 DEF BookQuote, Steps, Locked, Working, Unwinding
  <2> QED
    BY <1>12, <2>1, StatusNames, StageNames DEF BookQuote
<1>13. ASSUME NEW p \in Proc, Decline(p) PROVE TypeOK'
  <2>1. pc' \in [Proc -> Steps]
    BY <1>13 DEF Decline, Steps, Locked, Working, Unwinding
  <2> QED
    BY <1>13, <2>1, StatusNames, StageNames DEF Decline
<1>14. ASSUME NEW p \in Proc, Gate(p) PROVE TypeOK'
  <2>1. pc' \in [Proc -> Steps]
    BY <1>14 DEF Gate, Steps, Locked, Working, Unwinding
  <2> QED
    BY ZenonT(40), <1>14, <2>1, StatusNames, StageNames DEF Gate
<1>15. ASSUME NEW p \in Proc, Checkout(p) PROVE TypeOK'
  <2>1. pc' \in [Proc -> Steps]
    BY <1>15 DEF Checkout, Steps, Locked, Working, Unwinding
  <2> QED
    BY <1>15, <2>1, StatusNames, StageNames DEF Checkout
<1>16. ASSUME NEW p \in Proc, OpenSession(p) PROVE TypeOK'
  <2>1. pc' \in [Proc -> Steps]
    BY <1>16 DEF OpenSession, Steps, Locked, Working, Unwinding
  <2> QED
    BY <1>16, <2>1, StatusNames, StageNames DEF OpenSession
<1>17. ASSUME NEW p \in Proc, ListCheckout(p) PROVE TypeOK'
  <2>1. pc' \in [Proc -> Steps]
    BY <1>17 DEF ListCheckout, Steps, Locked, Working, Unwinding
  <2> QED
    BY <1>17, <2>1, StatusNames, StageNames DEF ListCheckout
<1>18. ASSUME NEW p \in Proc, Announce(p) PROVE TypeOK'
  <2>1. pc' \in [Proc -> Steps]
    BY <1>18 DEF Announce, Steps, Locked, Working, Unwinding
  <2> QED
    BY <1>18, <2>1, StatusNames, StageNames DEF Announce
<1>19. ASSUME NEW p \in Proc, FastPath(p) PROVE TypeOK'
  <2>1. pc' \in [Proc -> Steps]
    BY <1>19 DEF FastPath, PersistPaid, Steps, Locked, Working, Unwinding
  <2> QED
    BY <1>19, <2>1, StatusNames, StageNames DEF FastPath, PersistPaid
<1>20. ASSUME NEW p \in Proc, LookForPayment(p) PROVE TypeOK'
  <2>1. pc' \in [Proc -> Steps]
    BY <1>20 DEF LookForPayment, Steps, Locked, Working, Unwinding
  <2> QED
    BY <1>20, <2>1, StatusNames, StageNames DEF LookForPayment
<1>21. ASSUME NEW p \in Proc, Poll(p) PROVE TypeOK'
  <2>1. pc' \in [Proc -> Steps]
    BY <1>21 DEF Poll, Steps, Locked, Working, Unwinding
  <2> QED
    BY ZenonT(40), <1>21, <2>1, StatusNames, StageNames DEF Poll
<1>22. ASSUME NEW p \in Proc, Book(p) PROVE TypeOK'
  <2>1. pc' \in [Proc -> Steps]
    BY <1>22 DEF Book, PersistPaid, Steps, Locked, Working, Unwinding
  <2> QED
    BY <1>22, <2>1, StatusNames, StageNames DEF Book, PersistPaid
<1>23. ASSUME NEW p \in Proc, TakeFulfilLock(p) PROVE TypeOK'
  <2>1. pc' \in [Proc -> Steps]
    BY <1>23 DEF TakeFulfilLock, Steps, Locked, Working, Unwinding
  <2> QED
    BY <1>23, <2>1, StatusNames, StageNames DEF TakeFulfilLock
<1>24. ASSUME NEW p \in Proc, Work(p) PROVE TypeOK'
  <2>1. pc' \in [Proc -> Steps]
    BY <1>24 DEF Work, Steps, Locked, Working, Unwinding
  <2> QED
    BY <1>24, <2>1, StatusNames, StageNames DEF Work
<1>25. ASSUME NEW p \in Proc, ReserveCall(p) PROVE TypeOK'
  <2>1. pc' \in [Proc -> Steps]
    BY <1>25 DEF ReserveCall, Steps, Locked, Working, Unwinding
  <2> QED
    BY ZenonT(40), <1>25, <2>1, StatusNames, StageNames DEF ReserveCall
<1>26. ASSUME NEW p \in Proc, SettleCall(p) PROVE TypeOK'
  <2>1. pc' \in [Proc -> Steps]
    BY <1>26 DEF SettleCall, Steps, Locked, Working, Unwinding
  <2> QED
    BY <1>26, <2>1, StatusNames, StageNames DEF SettleCall
<1>27. ASSUME NEW p \in Proc, WriteBrief(p) PROVE TypeOK'
  <2>1. pc' \in [Proc -> Steps]
    BY <1>27 DEF WriteBrief, Complete, Steps, Locked, Working, Unwinding
  <2> QED
    BY <1>27, <2>1, StatusNames, StageNames DEF WriteBrief, Complete
<1>28. ASSUME NEW p \in Proc, BookCosts(p) PROVE TypeOK'
  <2>1. pc' \in [Proc -> Steps]
    BY <1>28 DEF BookCosts, Complete, Steps, Locked, Working, Unwinding
  <2> QED
    BY <1>28, <2>1, StatusNames, StageNames DEF BookCosts, Complete
<1>29. ASSUME NEW p \in Proc, Publish(p) PROVE TypeOK'
  <2>1. pc' \in [Proc -> Steps]
    BY <1>29 DEF Publish, Complete, Steps, Locked, Working, Unwinding
  <2> QED
    BY <1>29, <2>1, StatusNames, StageNames DEF Publish, Complete
<1>30. ASSUME NEW p \in Proc, Deliver(p) PROVE TypeOK'
  <2>1. pc' \in [Proc -> Steps]
    BY <1>30 DEF Deliver, Complete, Steps, Locked, Working, Unwinding
  <2> QED
    BY <1>30, <2>1, StatusNames, StageNames DEF Deliver, Complete
<1>31. ASSUME NEW p \in Proc, MarkDelivered(p) PROVE TypeOK'
  <2>1. pc' \in [Proc -> Steps]
    BY <1>31 DEF MarkDelivered, Steps, Locked, Working, Unwinding
  <2> QED
    BY <1>31, <2>1, StatusNames, StageNames DEF MarkDelivered
<1>32. ASSUME NEW p \in Proc, MarkCompleted(p) PROVE TypeOK'
  <2>1. pc' \in [Proc -> Steps]
    BY <1>32 DEF MarkCompleted, Steps, Locked, Working, Unwinding
  <2> QED
    BY <1>32, <2>1, StatusNames, StageNames DEF MarkCompleted
<1>33. ASSUME NEW p \in Proc, Unwind(p) PROVE TypeOK'
  <2>1. pc' \in [Proc -> Steps]
    BY <1>33 DEF Unwind, Refunded, Steps, Locked, Working, Unwinding
  <2> QED
    BY <1>33, <2>1, StatusNames, StageNames DEF Unwind, Refunded
<1>34. ASSUME NEW p \in Proc, RefundAtRail(p) PROVE TypeOK'
  <2>1. pc' \in [Proc -> Steps]
    BY <1>34 DEF RefundAtRail, Steps, Locked, Working, Unwinding
  <2> QED
    BY ZenonT(40), <1>34, <2>1, StatusNames, StageNames DEF RefundAtRail
<1>35. ASSUME NEW p \in Proc, BookRefund(p) PROVE TypeOK'
  <2>1. pc' \in [Proc -> Steps]
    BY <1>35 DEF BookRefund, Refunded, Steps, Locked, Working, Unwinding
  <2> QED
    BY <1>35, <2>1, StatusNames, StageNames DEF BookRefund, Refunded
<1>36. ASSUME NEW p \in Proc, MarkFailed(p) PROVE TypeOK'
  <2>1. pc' \in [Proc -> Steps]
    BY <1>36 DEF MarkFailed, Steps, Locked, Working, Unwinding
  <2> QED
    BY <1>36, <2>1, StatusNames, StageNames DEF MarkFailed
<1>37. ASSUME NEW p \in Proc, SweepLink(p) PROVE TypeOK'
  <2>1. pc' \in [Proc -> Steps]
    BY <1>37 DEF SweepLink, Steps, Locked, Working, Unwinding
  <2> QED
    BY <1>37, <2>1, StatusNames, StageNames DEF SweepLink
<1>38. ASSUME NEW p \in Proc, SweepExpire(p) PROVE TypeOK'
  <2>1. pc' \in [Proc -> Steps]
    BY <1>38 DEF SweepExpire, Steps, Locked, Working, Unwinding
  <2>2. status' \in Statuses /\ crashes' \in 0..MaxCrashes
    BY <1>38, StatusNames DEF SweepExpire
  <2>3. underReview' \in BOOLEAN /\ UNCHANGED <<quoteJson, retries>>
    BY <1>38 DEF SweepExpire
  <2>4. checkoutRow' \in {"none", "open", "paid", "expired"}
    BY <1>38 DEF SweepExpire
  <2>5. UNCHANGED <<stages, quoteOk, link, payment, money, fulfilLock>>
    BY <1>38 DEF SweepExpire
  <2> QED
    BY <2>1, <2>2, <2>3, <2>4, <2>5
<1>39. ASSUME NEW p \in Proc, Crash(p) PROVE TypeOK'
  <2>1. pc' \in [Proc -> Steps]
    BY <1>39 DEF Crash, Steps, Locked, Working, Unwinding
  <2> QED
    BY <1>39, <2>1, StatusNames, StageNames DEF Crash
<1>40. ASSUME Outside PROVE TypeOK'
  BY ZenonT(40), <1>40, StatusNames
     DEF Outside, Cancel, Approve, Reject, CustomerPays, Webhook
<1>41. ASSUME UNCHANGED vars PROVE TypeOK'
  BY <1>41 DEF vars
<1> QED
  BY <1>1, <1>2, <1>3, <1>4, <1>5, <1>6, <1>7, <1>8, <1>9, <1>10, <1>11,
     <1>12, <1>13, <1>14, <1>15, <1>16, <1>17, <1>18, <1>19, <1>20, <1>21,
     <1>22, <1>23, <1>24, <1>25, <1>26, <1>27, <1>28, <1>29, <1>30, <1>31,
     <1>32, <1>33, <1>34, <1>35, <1>36, <1>37, <1>38, <1>39, <1>40, <1>41
     DEF Next, Start, Continue, Selling, Fulfilling, Sweeping

\* No job, no rows, every handler idle.
LEMMA InitTyped == Init => TypeOK
<1> SUFFICES ASSUME Init PROVE TypeOK
  OBVIOUS
<1>1. status \in Statuses /\ stages \subseteq Stages /\ pc \in [Proc -> Steps]
  BY DEF Init, Statuses, Steps
<1>2. retries \in 0..RetryCalls /\ crashes \in 0..MaxCrashes
  BY DEF Init
<1> QED
  BY <1>1, <1>2 DEF Init, TypeOK

\* Type correctness: every reachable state has the shape of the SQLite rows and
\* of the handlers' call stacks.
THEOREM TypeCorrect == Spec => []TypeOK
<1>1. Init => TypeOK
  BY InitTyped
<1>2. TypeOK /\ [Next]_vars => TypeOK'
  BY TypeStep
<1> QED
  BY <1>1, <1>2, PTL DEF Spec

-----------------------------------------------------------------------------
(* The inductive invariant, part by part.                                  *)

\* Taking and dropping the lock file bracket the guarded steps exactly, also when
\* the holder dies: the system drops a dead process's lock with it.
LEMMA LockStep == TypeOK /\ JobInv /\ [Next]_vars => LockInv'
<1> SUFFICES ASSUME TypeOK, JobInv, [Next]_vars PROVE LockInv'
  OBVIOUS
<1>0. pc \in [Proc -> Steps] /\ revenue \in Nat /\ refunds \in Nat
  BY DEF TypeOK
<1> USE DEF JobInv, LockInv, PaidInv, RefundInv, ChargeInv, Locked, Working,
            Unwinding, Terminal
<1>1. ASSUME NEW p \in Proc, Enqueue(p) PROVE LockInv'
  BY <1>0, <1>1 DEF Enqueue
<1>2. ASSUME NEW p \in Proc, HandleJob(p) PROVE LockInv'
  BY <1>0, <1>2 DEF HandleJob
<1>3. ASSUME NEW p \in Proc, Advance(p) PROVE LockInv'
  BY <1>0, <1>3 DEF Advance, Entry
<1>4. ASSUME NEW p \in Proc, Retry(p) PROVE LockInv'
  BY <1>0, <1>4 DEF Retry
<1>5. ASSUME NEW p \in Proc, RetryFrom(p) PROVE LockInv'
  BY <1>0, <1>5 DEF RetryFrom
<1>6. ASSUME NEW p \in Proc, Resume(p) PROVE LockInv'
  BY <1>0, <1>6 DEF Resume
<1>7. ASSUME NEW p \in Proc, SweepPick(p) PROVE LockInv'
  BY <1>0, <1>7 DEF SweepPick
<1>8. ASSUME NEW p \in Proc, ResumeWrite(p) PROVE LockInv'
  BY <1>0, <1>8 DEF ResumeWrite
<1>9. ASSUME NEW p \in Proc, Screen(p) PROVE LockInv'
  BY <1>0, <1>9 DEF Screen
<1>10. ASSUME NEW p \in Proc, Quote(p) PROVE LockInv'
  BY <1>0, <1>10 DEF Quote
<1>11. ASSUME NEW p \in Proc, Price(p) PROVE LockInv'
  BY <1>0, <1>11 DEF Price
<1>12. ASSUME NEW p \in Proc, BookQuote(p) PROVE LockInv'
  BY <1>0, <1>12 DEF BookQuote
<1>13. ASSUME NEW p \in Proc, Decline(p) PROVE LockInv'
  BY <1>0, <1>13 DEF Decline
<1>14. ASSUME NEW p \in Proc, Gate(p) PROVE LockInv'
  BY <1>0, <1>14 DEF Gate
<1>15. ASSUME NEW p \in Proc, Checkout(p) PROVE LockInv'
  BY <1>0, <1>15 DEF Checkout
<1>16. ASSUME NEW p \in Proc, OpenSession(p) PROVE LockInv'
  BY <1>0, <1>16 DEF OpenSession
<1>17. ASSUME NEW p \in Proc, ListCheckout(p) PROVE LockInv'
  BY <1>0, <1>17 DEF ListCheckout
<1>18. ASSUME NEW p \in Proc, Announce(p) PROVE LockInv'
  BY <1>0, <1>18 DEF Announce
<1>19. ASSUME NEW p \in Proc, FastPath(p) PROVE LockInv'
  BY <1>0, <1>19 DEF FastPath, PersistPaid
<1>20. ASSUME NEW p \in Proc, LookForPayment(p) PROVE LockInv'
  BY <1>0, <1>20 DEF LookForPayment
<1>21. ASSUME NEW p \in Proc, Poll(p) PROVE LockInv'
  BY <1>0, <1>21 DEF Poll
<1>22. ASSUME NEW p \in Proc, Book(p) PROVE LockInv'
  BY <1>0, <1>22 DEF Book, PersistPaid
<1>23. ASSUME NEW p \in Proc, TakeFulfilLock(p) PROVE LockInv'
  BY <1>0, <1>23 DEF TakeFulfilLock
<1>24. ASSUME NEW p \in Proc, Work(p) PROVE LockInv'
  BY <1>0, <1>24 DEF Work
<1>25. ASSUME NEW p \in Proc, ReserveCall(p) PROVE LockInv'
  BY <1>0, <1>25 DEF ReserveCall
<1>26. ASSUME NEW p \in Proc, SettleCall(p) PROVE LockInv'
  BY <1>0, <1>26 DEF SettleCall
<1>27. ASSUME NEW p \in Proc, WriteBrief(p) PROVE LockInv'
  BY <1>0, <1>27 DEF WriteBrief, Complete
<1>28. ASSUME NEW p \in Proc, BookCosts(p) PROVE LockInv'
  BY <1>0, <1>28 DEF BookCosts, Complete
<1>29. ASSUME NEW p \in Proc, Publish(p) PROVE LockInv'
  BY <1>0, <1>29 DEF Publish, Complete
<1>30. ASSUME NEW p \in Proc, Deliver(p) PROVE LockInv'
  BY <1>0, <1>30 DEF Deliver, Complete
<1>31. ASSUME NEW p \in Proc, MarkDelivered(p) PROVE LockInv'
  BY <1>0, <1>31 DEF MarkDelivered
<1>32. ASSUME NEW p \in Proc, MarkCompleted(p) PROVE LockInv'
  BY <1>0, <1>32 DEF MarkCompleted
<1>33. ASSUME NEW p \in Proc, Unwind(p) PROVE LockInv'
  BY <1>0, <1>33 DEF Unwind, Refunded
<1>34. ASSUME NEW p \in Proc, RefundAtRail(p) PROVE LockInv'
  BY <1>0, <1>34 DEF RefundAtRail
<1>35. ASSUME NEW p \in Proc, BookRefund(p) PROVE LockInv'
  BY <1>0, <1>35 DEF BookRefund, Refunded
<1>36. ASSUME NEW p \in Proc, MarkFailed(p) PROVE LockInv'
  BY <1>0, <1>36 DEF MarkFailed
<1>37. ASSUME NEW p \in Proc, SweepLink(p) PROVE LockInv'
  BY <1>0, <1>37 DEF SweepLink
<1>38. ASSUME NEW p \in Proc, SweepExpire(p) PROVE LockInv'
  BY <1>0, <1>38 DEF SweepExpire
<1>39. ASSUME NEW p \in Proc, Crash(p) PROVE LockInv'
  BY <1>0, <1>39 DEF Crash
<1>40. ASSUME Outside PROVE LockInv'
  BY <1>40 DEF Outside, Cancel, Approve, Reject, CustomerPays, Webhook
<1>41. ASSUME UNCHANGED vars PROVE LockInv'
  BY <1>41 DEF vars
<1> HIDE DEF JobInv, LockInv, PaidInv, RefundInv, ChargeInv
<1> QED
  BY <1>1, <1>2, <1>3, <1>4, <1>5, <1>6, <1>7, <1>8, <1>9, <1>10, <1>11,
     <1>12, <1>13, <1>14, <1>15, <1>16, <1>17, <1>18, <1>19, <1>20, <1>21,
     <1>22, <1>23, <1>24, <1>25, <1>26, <1>27, <1>28, <1>29, <1>30, <1>31,
     <1>32, <1>33, <1>34, <1>35, <1>36, <1>37, <1>38, <1>39, <1>40, <1>41
     DEF Next, Start, Continue, Selling, Fulfilling, Sweeping

\* Revenue is booked once and before anything that relies on it: _stage_paid earns
\* under the treasury lock after re-reading the ledger and the status.
LEMMA PaidStep == TypeOK /\ JobInv /\ [Next]_vars => PaidInv'
<1> SUFFICES ASSUME TypeOK, JobInv, [Next]_vars PROVE PaidInv'
  OBVIOUS
<1>0. pc \in [Proc -> Steps] /\ revenue \in Nat /\ refunds \in Nat
  BY DEF TypeOK
<1> USE DEF JobInv, LockInv, PaidInv, RefundInv, ChargeInv, Locked, Working,
            Unwinding, Terminal
<1>1. ASSUME NEW p \in Proc, Enqueue(p) PROVE PaidInv'
  BY <1>0, <1>1 DEF Enqueue
<1>2. ASSUME NEW p \in Proc, HandleJob(p) PROVE PaidInv'
  BY <1>0, <1>2 DEF HandleJob
<1>3. ASSUME NEW p \in Proc, Advance(p) PROVE PaidInv'
  BY <1>0, <1>3 DEF Advance, Entry
<1>4. ASSUME NEW p \in Proc, Retry(p) PROVE PaidInv'
  BY <1>0, <1>4 DEF Retry
<1>5. ASSUME NEW p \in Proc, RetryFrom(p) PROVE PaidInv'
  BY <1>0, <1>5 DEF RetryFrom
<1>6. ASSUME NEW p \in Proc, Resume(p) PROVE PaidInv'
  BY <1>0, <1>6 DEF Resume
<1>7. ASSUME NEW p \in Proc, SweepPick(p) PROVE PaidInv'
  BY <1>0, <1>7 DEF SweepPick
<1>8. ASSUME NEW p \in Proc, ResumeWrite(p) PROVE PaidInv'
  BY <1>0, <1>8 DEF ResumeWrite
<1>9. ASSUME NEW p \in Proc, Screen(p) PROVE PaidInv'
  BY <1>0, <1>9 DEF Screen
<1>10. ASSUME NEW p \in Proc, Quote(p) PROVE PaidInv'
  BY <1>0, <1>10 DEF Quote
<1>11. ASSUME NEW p \in Proc, Price(p) PROVE PaidInv'
  BY <1>0, <1>11 DEF Price
<1>12. ASSUME NEW p \in Proc, BookQuote(p) PROVE PaidInv'
  BY <1>0, <1>12 DEF BookQuote
<1>13. ASSUME NEW p \in Proc, Decline(p) PROVE PaidInv'
  BY <1>0, <1>13 DEF Decline
<1>14. ASSUME NEW p \in Proc, Gate(p) PROVE PaidInv'
  BY <1>0, <1>14 DEF Gate
<1>15. ASSUME NEW p \in Proc, Checkout(p) PROVE PaidInv'
  BY <1>0, <1>15 DEF Checkout
<1>16. ASSUME NEW p \in Proc, OpenSession(p) PROVE PaidInv'
  BY <1>0, <1>16 DEF OpenSession
<1>17. ASSUME NEW p \in Proc, ListCheckout(p) PROVE PaidInv'
  BY <1>0, <1>17 DEF ListCheckout
<1>18. ASSUME NEW p \in Proc, Announce(p) PROVE PaidInv'
  BY <1>0, <1>18 DEF Announce
<1>19. ASSUME NEW p \in Proc, FastPath(p) PROVE PaidInv'
  BY <1>0, <1>19 DEF FastPath, PersistPaid
<1>20. ASSUME NEW p \in Proc, LookForPayment(p) PROVE PaidInv'
  BY <1>0, <1>20 DEF LookForPayment
<1>21. ASSUME NEW p \in Proc, Poll(p) PROVE PaidInv'
  BY <1>0, <1>21 DEF Poll
<1>22. ASSUME NEW p \in Proc, Book(p) PROVE PaidInv'
  BY <1>0, <1>22 DEF Book, PersistPaid
<1>23. ASSUME NEW p \in Proc, TakeFulfilLock(p) PROVE PaidInv'
  BY <1>0, <1>23 DEF TakeFulfilLock
<1>24. ASSUME NEW p \in Proc, Work(p) PROVE PaidInv'
  BY <1>0, <1>24 DEF Work
<1>25. ASSUME NEW p \in Proc, ReserveCall(p) PROVE PaidInv'
  BY <1>0, <1>25 DEF ReserveCall
<1>26. ASSUME NEW p \in Proc, SettleCall(p) PROVE PaidInv'
  BY <1>0, <1>26 DEF SettleCall
<1>27. ASSUME NEW p \in Proc, WriteBrief(p) PROVE PaidInv'
  BY <1>0, <1>27 DEF WriteBrief, Complete
<1>28. ASSUME NEW p \in Proc, BookCosts(p) PROVE PaidInv'
  BY <1>0, <1>28 DEF BookCosts, Complete
<1>29. ASSUME NEW p \in Proc, Publish(p) PROVE PaidInv'
  BY <1>0, <1>29 DEF Publish, Complete
<1>30. ASSUME NEW p \in Proc, Deliver(p) PROVE PaidInv'
  BY <1>0, <1>30 DEF Deliver, Complete
<1>31. ASSUME NEW p \in Proc, MarkDelivered(p) PROVE PaidInv'
  BY <1>0, <1>31 DEF MarkDelivered
<1>32. ASSUME NEW p \in Proc, MarkCompleted(p) PROVE PaidInv'
  BY <1>0, <1>32 DEF MarkCompleted
<1>33. ASSUME NEW p \in Proc, Unwind(p) PROVE PaidInv'
  BY <1>0, <1>33 DEF Unwind, Refunded
<1>34. ASSUME NEW p \in Proc, RefundAtRail(p) PROVE PaidInv'
  BY <1>0, <1>34 DEF RefundAtRail
<1>35. ASSUME NEW p \in Proc, BookRefund(p) PROVE PaidInv'
  BY <1>0, <1>35 DEF BookRefund, Refunded
<1>36. ASSUME NEW p \in Proc, MarkFailed(p) PROVE PaidInv'
  BY <1>0, <1>36 DEF MarkFailed
<1>37. ASSUME NEW p \in Proc, SweepLink(p) PROVE PaidInv'
  BY <1>0, <1>37 DEF SweepLink
<1>38. ASSUME NEW p \in Proc, SweepExpire(p) PROVE PaidInv'
  BY <1>0, <1>38 DEF SweepExpire
<1>39. ASSUME NEW p \in Proc, Crash(p) PROVE PaidInv'
  BY <1>0, <1>39 DEF Crash
<1>40. ASSUME Outside PROVE PaidInv'
  BY <1>40 DEF Outside, Cancel, Approve, Reject, CustomerPays, Webhook
<1>41. ASSUME UNCHANGED vars PROVE PaidInv'
  BY <1>41 DEF vars
<1> HIDE DEF JobInv, LockInv, PaidInv, RefundInv, ChargeInv
<1> QED
  BY <1>1, <1>2, <1>3, <1>4, <1>5, <1>6, <1>7, <1>8, <1>9, <1>10, <1>11,
     <1>12, <1>13, <1>14, <1>15, <1>16, <1>17, <1>18, <1>19, <1>20, <1>21,
     <1>22, <1>23, <1>24, <1>25, <1>26, <1>27, <1>28, <1>29, <1>30, <1>31,
     <1>32, <1>33, <1>34, <1>35, <1>36, <1>37, <1>38, <1>39, <1>40, <1>41
     DEF Next, Start, Continue, Selling, Fulfilling, Sweeping

\* The lock file keeps publishing and refunding apart: a refund in progress and a
\* publication would need two holders.
LEMMA RefundStep == TypeOK /\ JobInv /\ [Next]_vars => RefundInv'
<1> SUFFICES ASSUME TypeOK, JobInv, [Next]_vars PROVE RefundInv'
  OBVIOUS
<1>0. pc \in [Proc -> Steps] /\ revenue \in Nat /\ refunds \in Nat
  BY DEF TypeOK
<1> USE DEF JobInv, LockInv, PaidInv, RefundInv, ChargeInv, Locked, Working,
            Unwinding, Terminal
<1>1. ASSUME NEW p \in Proc, Enqueue(p) PROVE RefundInv'
  BY <1>0, <1>1 DEF Enqueue
<1>2. ASSUME NEW p \in Proc, HandleJob(p) PROVE RefundInv'
  BY <1>0, <1>2 DEF HandleJob
<1>3. ASSUME NEW p \in Proc, Advance(p) PROVE RefundInv'
  BY <1>0, <1>3 DEF Advance, Entry
<1>4. ASSUME NEW p \in Proc, Retry(p) PROVE RefundInv'
  BY <1>0, <1>4 DEF Retry
<1>5. ASSUME NEW p \in Proc, RetryFrom(p) PROVE RefundInv'
  BY <1>0, <1>5 DEF RetryFrom
<1>6. ASSUME NEW p \in Proc, Resume(p) PROVE RefundInv'
  BY <1>0, <1>6 DEF Resume
<1>7. ASSUME NEW p \in Proc, SweepPick(p) PROVE RefundInv'
  BY <1>0, <1>7 DEF SweepPick
<1>8. ASSUME NEW p \in Proc, ResumeWrite(p) PROVE RefundInv'
  BY <1>0, <1>8 DEF ResumeWrite
<1>9. ASSUME NEW p \in Proc, Screen(p) PROVE RefundInv'
  BY <1>0, <1>9 DEF Screen
<1>10. ASSUME NEW p \in Proc, Quote(p) PROVE RefundInv'
  BY <1>0, <1>10 DEF Quote
<1>11. ASSUME NEW p \in Proc, Price(p) PROVE RefundInv'
  BY <1>0, <1>11 DEF Price
<1>12. ASSUME NEW p \in Proc, BookQuote(p) PROVE RefundInv'
  BY <1>0, <1>12 DEF BookQuote
<1>13. ASSUME NEW p \in Proc, Decline(p) PROVE RefundInv'
  BY <1>0, <1>13 DEF Decline
<1>14. ASSUME NEW p \in Proc, Gate(p) PROVE RefundInv'
  BY <1>0, <1>14 DEF Gate
<1>15. ASSUME NEW p \in Proc, Checkout(p) PROVE RefundInv'
  BY <1>0, <1>15 DEF Checkout
<1>16. ASSUME NEW p \in Proc, OpenSession(p) PROVE RefundInv'
  BY <1>0, <1>16 DEF OpenSession
<1>17. ASSUME NEW p \in Proc, ListCheckout(p) PROVE RefundInv'
  BY <1>0, <1>17 DEF ListCheckout
<1>18. ASSUME NEW p \in Proc, Announce(p) PROVE RefundInv'
  BY <1>0, <1>18 DEF Announce
<1>19. ASSUME NEW p \in Proc, FastPath(p) PROVE RefundInv'
  BY <1>0, <1>19 DEF FastPath, PersistPaid
<1>20. ASSUME NEW p \in Proc, LookForPayment(p) PROVE RefundInv'
  BY <1>0, <1>20 DEF LookForPayment
<1>21. ASSUME NEW p \in Proc, Poll(p) PROVE RefundInv'
  BY <1>0, <1>21 DEF Poll
<1>22. ASSUME NEW p \in Proc, Book(p) PROVE RefundInv'
  BY <1>0, <1>22 DEF Book, PersistPaid
<1>23. ASSUME NEW p \in Proc, TakeFulfilLock(p) PROVE RefundInv'
  BY <1>0, <1>23 DEF TakeFulfilLock
<1>24. ASSUME NEW p \in Proc, Work(p) PROVE RefundInv'
  BY <1>0, <1>24 DEF Work
<1>25. ASSUME NEW p \in Proc, ReserveCall(p) PROVE RefundInv'
  BY <1>0, <1>25 DEF ReserveCall
<1>26. ASSUME NEW p \in Proc, SettleCall(p) PROVE RefundInv'
  BY <1>0, <1>26 DEF SettleCall
<1>27. ASSUME NEW p \in Proc, WriteBrief(p) PROVE RefundInv'
  BY <1>0, <1>27 DEF WriteBrief, Complete
<1>28. ASSUME NEW p \in Proc, BookCosts(p) PROVE RefundInv'
  BY <1>0, <1>28 DEF BookCosts, Complete
<1>29. ASSUME NEW p \in Proc, Publish(p) PROVE RefundInv'
  BY <1>0, <1>29 DEF Publish, Complete
<1>30. ASSUME NEW p \in Proc, Deliver(p) PROVE RefundInv'
  BY <1>0, <1>30 DEF Deliver, Complete
<1>31. ASSUME NEW p \in Proc, MarkDelivered(p) PROVE RefundInv'
  BY <1>0, <1>31 DEF MarkDelivered
<1>32. ASSUME NEW p \in Proc, MarkCompleted(p) PROVE RefundInv'
  BY <1>0, <1>32 DEF MarkCompleted
<1>33. ASSUME NEW p \in Proc, Unwind(p) PROVE RefundInv'
  <2>1. CASE Goto(p, "close") /\ UNCHANGED stages
    BY <1>0, <1>33, <2>1 DEF Unwind
  <2>2. CASE Goto(p, "refund") /\ UNCHANGED stages /\ "publish" \notin stages
    BY <1>0, <1>33, <2>2 DEF Unwind
  <2>3. CASE Goto(p, "close") /\ stages' = stages \cup {"refund"} /\ Refunded
             /\ "publish" \notin stages
    <3>1. refunds = 1 /\ revenue = 1
      BY <1>0, <2>3 DEF Refunded
    <3> QED
      BY <1>0, <1>33, <2>3, <3>1 DEF Unwind
  <2> QED
    BY <1>33, <2>1, <2>2, <2>3 DEF Unwind
<1>34. ASSUME NEW p \in Proc, RefundAtRail(p) PROVE RefundInv'
  BY <1>0, <1>34 DEF RefundAtRail
<1>35. ASSUME NEW p \in Proc, BookRefund(p) PROVE RefundInv'
  BY <1>0, <1>35 DEF BookRefund, Refunded
<1>36. ASSUME NEW p \in Proc, MarkFailed(p) PROVE RefundInv'
  BY <1>0, <1>36 DEF MarkFailed
<1>37. ASSUME NEW p \in Proc, SweepLink(p) PROVE RefundInv'
  BY <1>0, <1>37 DEF SweepLink
<1>38. ASSUME NEW p \in Proc, SweepExpire(p) PROVE RefundInv'
  BY <1>0, <1>38 DEF SweepExpire
<1>39. ASSUME NEW p \in Proc, Crash(p) PROVE RefundInv'
  BY <1>0, <1>39 DEF Crash
<1>40. ASSUME Outside PROVE RefundInv'
  BY <1>40 DEF Outside, Cancel, Approve, Reject, CustomerPays, Webhook
<1>41. ASSUME UNCHANGED vars PROVE RefundInv'
  BY <1>41 DEF vars
<1> HIDE DEF JobInv, LockInv, PaidInv, RefundInv, ChargeInv
<1> QED
  BY <1>1, <1>2, <1>3, <1>4, <1>5, <1>6, <1>7, <1>8, <1>9, <1>10, <1>11,
     <1>12, <1>13, <1>14, <1>15, <1>16, <1>17, <1>18, <1>19, <1>20, <1>21,
     <1>22, <1>23, <1>24, <1>25, <1>26, <1>27, <1>28, <1>29, <1>30, <1>31,
     <1>32, <1>33, <1>34, <1>35, <1>36, <1>37, <1>38, <1>39, <1>40, <1>41
     DEF Next, Start, Continue, Selling, Fulfilling, Sweeping

\* The brief is written, its charges settled and its costs booked, in that order,
\* by whoever holds the lock; a later holder starts from the recorded stages.
LEMMA ChargeStep == TypeOK /\ JobInv /\ [Next]_vars => ChargeInv'
<1> SUFFICES ASSUME TypeOK, JobInv, [Next]_vars PROVE ChargeInv'
  OBVIOUS
<1>0. pc \in [Proc -> Steps] /\ revenue \in Nat /\ refunds \in Nat
  BY DEF TypeOK
<1> USE DEF JobInv, LockInv, PaidInv, RefundInv, ChargeInv, Locked, Working,
            Unwinding, Terminal
<1>1. ASSUME NEW p \in Proc, Enqueue(p) PROVE ChargeInv'
  BY <1>0, <1>1 DEF Enqueue
<1>2. ASSUME NEW p \in Proc, HandleJob(p) PROVE ChargeInv'
  BY <1>0, <1>2 DEF HandleJob
<1>3. ASSUME NEW p \in Proc, Advance(p) PROVE ChargeInv'
  BY <1>0, <1>3 DEF Advance, Entry
<1>4. ASSUME NEW p \in Proc, Retry(p) PROVE ChargeInv'
  BY <1>0, <1>4 DEF Retry
<1>5. ASSUME NEW p \in Proc, RetryFrom(p) PROVE ChargeInv'
  BY <1>0, <1>5 DEF RetryFrom
<1>6. ASSUME NEW p \in Proc, Resume(p) PROVE ChargeInv'
  BY <1>0, <1>6 DEF Resume
<1>7. ASSUME NEW p \in Proc, SweepPick(p) PROVE ChargeInv'
  BY <1>0, <1>7 DEF SweepPick
<1>8. ASSUME NEW p \in Proc, ResumeWrite(p) PROVE ChargeInv'
  BY <1>0, <1>8 DEF ResumeWrite
<1>9. ASSUME NEW p \in Proc, Screen(p) PROVE ChargeInv'
  BY <1>0, <1>9 DEF Screen
<1>10. ASSUME NEW p \in Proc, Quote(p) PROVE ChargeInv'
  BY <1>0, <1>10 DEF Quote
<1>11. ASSUME NEW p \in Proc, Price(p) PROVE ChargeInv'
  BY <1>0, <1>11 DEF Price
<1>12. ASSUME NEW p \in Proc, BookQuote(p) PROVE ChargeInv'
  BY <1>0, <1>12 DEF BookQuote
<1>13. ASSUME NEW p \in Proc, Decline(p) PROVE ChargeInv'
  BY <1>0, <1>13 DEF Decline
<1>14. ASSUME NEW p \in Proc, Gate(p) PROVE ChargeInv'
  BY <1>0, <1>14 DEF Gate
<1>15. ASSUME NEW p \in Proc, Checkout(p) PROVE ChargeInv'
  BY <1>0, <1>15 DEF Checkout
<1>16. ASSUME NEW p \in Proc, OpenSession(p) PROVE ChargeInv'
  BY <1>0, <1>16 DEF OpenSession
<1>17. ASSUME NEW p \in Proc, ListCheckout(p) PROVE ChargeInv'
  BY <1>0, <1>17 DEF ListCheckout
<1>18. ASSUME NEW p \in Proc, Announce(p) PROVE ChargeInv'
  BY <1>0, <1>18 DEF Announce
<1>19. ASSUME NEW p \in Proc, FastPath(p) PROVE ChargeInv'
  BY <1>0, <1>19 DEF FastPath, PersistPaid
<1>20. ASSUME NEW p \in Proc, LookForPayment(p) PROVE ChargeInv'
  BY <1>0, <1>20 DEF LookForPayment
<1>21. ASSUME NEW p \in Proc, Poll(p) PROVE ChargeInv'
  BY <1>0, <1>21 DEF Poll
<1>22. ASSUME NEW p \in Proc, Book(p) PROVE ChargeInv'
  BY <1>0, <1>22 DEF Book, PersistPaid
<1>23. ASSUME NEW p \in Proc, TakeFulfilLock(p) PROVE ChargeInv'
  BY <1>0, <1>23 DEF TakeFulfilLock
<1>24. ASSUME NEW p \in Proc, Work(p) PROVE ChargeInv'
  BY <1>0, <1>24 DEF Work
<1>25. ASSUME NEW p \in Proc, ReserveCall(p) PROVE ChargeInv'
  BY <1>0, <1>25 DEF ReserveCall
<1>26. ASSUME NEW p \in Proc, SettleCall(p) PROVE ChargeInv'
  BY <1>0, <1>26 DEF SettleCall
<1>27. ASSUME NEW p \in Proc, WriteBrief(p) PROVE ChargeInv'
  BY <1>0, <1>27 DEF WriteBrief, Complete
<1>28. ASSUME NEW p \in Proc, BookCosts(p) PROVE ChargeInv'
  BY <1>0, <1>28 DEF BookCosts, Complete
<1>29. ASSUME NEW p \in Proc, Publish(p) PROVE ChargeInv'
  BY <1>0, <1>29 DEF Publish, Complete
<1>30. ASSUME NEW p \in Proc, Deliver(p) PROVE ChargeInv'
  BY <1>0, <1>30 DEF Deliver, Complete
<1>31. ASSUME NEW p \in Proc, MarkDelivered(p) PROVE ChargeInv'
  BY <1>0, <1>31 DEF MarkDelivered
<1>32. ASSUME NEW p \in Proc, MarkCompleted(p) PROVE ChargeInv'
  BY <1>0, <1>32 DEF MarkCompleted
<1>33. ASSUME NEW p \in Proc, Unwind(p) PROVE ChargeInv'
  BY <1>0, <1>33 DEF Unwind, Refunded
<1>34. ASSUME NEW p \in Proc, RefundAtRail(p) PROVE ChargeInv'
  BY <1>0, <1>34 DEF RefundAtRail
<1>35. ASSUME NEW p \in Proc, BookRefund(p) PROVE ChargeInv'
  BY <1>0, <1>35 DEF BookRefund, Refunded
<1>36. ASSUME NEW p \in Proc, MarkFailed(p) PROVE ChargeInv'
  BY <1>0, <1>36 DEF MarkFailed
<1>37. ASSUME NEW p \in Proc, SweepLink(p) PROVE ChargeInv'
  BY <1>0, <1>37 DEF SweepLink
<1>38. ASSUME NEW p \in Proc, SweepExpire(p) PROVE ChargeInv'
  BY <1>0, <1>38 DEF SweepExpire
<1>39. ASSUME NEW p \in Proc, Crash(p) PROVE ChargeInv'
  BY <1>0, <1>39 DEF Crash
<1>40. ASSUME Outside PROVE ChargeInv'
  BY <1>40 DEF Outside, Cancel, Approve, Reject, CustomerPays, Webhook
<1>41. ASSUME UNCHANGED vars PROVE ChargeInv'
  BY <1>41 DEF vars
<1> HIDE DEF JobInv, LockInv, PaidInv, RefundInv, ChargeInv
<1> QED
  BY <1>1, <1>2, <1>3, <1>4, <1>5, <1>6, <1>7, <1>8, <1>9, <1>10, <1>11,
     <1>12, <1>13, <1>14, <1>15, <1>16, <1>17, <1>18, <1>19, <1>20, <1>21,
     <1>22, <1>23, <1>24, <1>25, <1>26, <1>27, <1>28, <1>29, <1>30, <1>31,
     <1>32, <1>33, <1>34, <1>35, <1>36, <1>37, <1>38, <1>39, <1>40, <1>41
     DEF Next, Start, Continue, Selling, Fulfilling, Sweeping

\* The facts about handlers in flight hold throughout every run.
THEOREM JobInvariant == Spec => [](TypeOK /\ JobInv)
<1>1. Init => TypeOK /\ JobInv
  <2>1. Init => LockInv
    BY DEF Init, LockInv, Locked, Working, Unwinding
  <2>2. Init => PaidInv
    BY DEF Init, PaidInv, Locked, Working, Unwinding
  <2>3. Init => RefundInv /\ ChargeInv
    BY DEF Init, RefundInv, ChargeInv, Working
  <2> QED
    BY <2>1, <2>2, <2>3, InitTyped DEF JobInv
<1>2. TypeOK /\ JobInv /\ [Next]_vars => (TypeOK /\ JobInv)'
  BY TypeStep, LockStep, PaidStep, RefundStep, ChargeStep DEF JobInv
<1> QED
  BY <1>1, <1>2, PTL DEF Spec

-----------------------------------------------------------------------------
(* What follows for the commission.                                        *)

\* Only the holder of the job's lock file fulfils or unwinds it, and only over
\* booked revenue.
THEOREM Exclusive == Spec => []FulfilmentIsExclusive
<1>1. TypeOK /\ JobInv => FulfilmentIsExclusive
  BY DEF TypeOK, JobInv, LockInv, PaidInv, FulfilmentIsExclusive
<1> QED
  BY <1>1, JobInvariant, PTL

\* The job row says "completed" only over a paid, unrefunded, delivered brief.
THEOREM Completed == Spec => []CompletedIsDelivered
<1>1. TypeOK /\ JobInv => CompletedIsDelivered
  BY DEF TypeOK, JobInv, PaidInv, RefundInv, ChargeInv, CompletedIsDelivered
<1> QED
  BY <1>1, JobInvariant, PTL

\* The sweep of overdue checkouts never closes a job that has been paid for.
THEOREM Expired == Spec => []ExpiredIsUnpaid
<1>1. JobInv => ExpiredIsUnpaid
  BY DEF JobInv, PaidInv, ExpiredIsUnpaid
<1> QED
  BY <1>1, JobInvariant, PTL

\* A brief that can be retrieved has its charges settled and booked.
THEOREM Charged == Spec => []ChargesBeforePublication
<1>1. JobInv => ChargesBeforePublication
  BY DEF JobInv, ChargeInv, ChargesBeforePublication
<1> QED
  BY <1>1, JobInvariant, PTL

-----------------------------------------------------------------------------
(* The pipeline implements the commission.                                 *)

\* What every action but four leaves alone.
Quiet ==
    /\ UNCHANGED <<revenue, refunds>>
    /\ "publish" \in stages' <=> "publish" \in stages
    /\ reserved => reserved'

Loud(p) == Book(p) \/ Publish(p) \/ BookRefund(p) \/ SettleCall(p)

\* Only booking the revenue, publishing, booking the refund and settling a charge
\* touch the job's money and what the customer was promised.
LEMMA QuietSteps ==
  ASSUME TypeOK, [Next]_vars, \A p \in Proc : ~Loud(p)
  PROVE  Quiet
<1> USE DEF Quiet, TypeOK
<1>1. ASSUME NEW p \in Proc, Enqueue(p) PROVE Quiet
  BY <1>1 DEF Enqueue
<1>2. ASSUME NEW p \in Proc, HandleJob(p) PROVE Quiet
  BY <1>2 DEF HandleJob
<1>3. ASSUME NEW p \in Proc, Advance(p) PROVE Quiet
  BY <1>3 DEF Advance
<1>4. ASSUME NEW p \in Proc, Retry(p) PROVE Quiet
  BY <1>4 DEF Retry
<1>5. ASSUME NEW p \in Proc, RetryFrom(p) PROVE Quiet
  BY <1>5 DEF RetryFrom
<1>6. ASSUME NEW p \in Proc, Resume(p) PROVE Quiet
  BY <1>6 DEF Resume
<1>7. ASSUME NEW p \in Proc, SweepPick(p) PROVE Quiet
  BY <1>7 DEF SweepPick
<1>8. ASSUME NEW p \in Proc, ResumeWrite(p) PROVE Quiet
  BY <1>8 DEF ResumeWrite
<1>9. ASSUME NEW p \in Proc, Screen(p) PROVE Quiet
  BY <1>9 DEF Screen
<1>10. ASSUME NEW p \in Proc, Quote(p) PROVE Quiet
  BY <1>10 DEF Quote
<1>11. ASSUME NEW p \in Proc, Price(p) PROVE Quiet
  BY <1>11 DEF Price
<1>12. ASSUME NEW p \in Proc, BookQuote(p) PROVE Quiet
  BY <1>12 DEF BookQuote
<1>13. ASSUME NEW p \in Proc, Decline(p) PROVE Quiet
  BY <1>13 DEF Decline
<1>14. ASSUME NEW p \in Proc, Gate(p) PROVE Quiet
  BY <1>14 DEF Gate
<1>15. ASSUME NEW p \in Proc, Checkout(p) PROVE Quiet
  BY <1>15 DEF Checkout
<1>16. ASSUME NEW p \in Proc, OpenSession(p) PROVE Quiet
  BY <1>16 DEF OpenSession
<1>17. ASSUME NEW p \in Proc, ListCheckout(p) PROVE Quiet
  BY <1>17 DEF ListCheckout
<1>18. ASSUME NEW p \in Proc, Announce(p) PROVE Quiet
  BY <1>18 DEF Announce
<1>19. ASSUME NEW p \in Proc, FastPath(p) PROVE Quiet
  BY <1>19 DEF FastPath, PersistPaid
<1>20. ASSUME NEW p \in Proc, LookForPayment(p) PROVE Quiet
  BY <1>20 DEF LookForPayment
<1>21. ASSUME NEW p \in Proc, Poll(p) PROVE Quiet
  BY <1>21 DEF Poll
<1>22. ASSUME NEW p \in Proc, TakeFulfilLock(p) PROVE Quiet
  BY <1>22 DEF TakeFulfilLock
<1>23. ASSUME NEW p \in Proc, Work(p) PROVE Quiet
  BY <1>23 DEF Work
<1>24. ASSUME NEW p \in Proc, ReserveCall(p) PROVE Quiet
  BY <1>24 DEF ReserveCall
<1>25. ASSUME NEW p \in Proc, WriteBrief(p) PROVE Quiet
  BY <1>25 DEF WriteBrief, Complete
<1>26. ASSUME NEW p \in Proc, BookCosts(p) PROVE Quiet
  BY <1>26 DEF BookCosts, Complete
<1>27. ASSUME NEW p \in Proc, Deliver(p) PROVE Quiet
  BY <1>27 DEF Deliver, Complete
<1>28. ASSUME NEW p \in Proc, MarkDelivered(p) PROVE Quiet
  BY <1>28 DEF MarkDelivered
<1>29. ASSUME NEW p \in Proc, MarkCompleted(p) PROVE Quiet
  BY <1>29 DEF MarkCompleted
<1>30. ASSUME NEW p \in Proc, Unwind(p) PROVE Quiet
  BY <1>30 DEF Unwind
<1>31. ASSUME NEW p \in Proc, RefundAtRail(p) PROVE Quiet
  BY <1>31 DEF RefundAtRail
<1>32. ASSUME NEW p \in Proc, MarkFailed(p) PROVE Quiet
  BY <1>32 DEF MarkFailed
<1>33. ASSUME NEW p \in Proc, SweepLink(p) PROVE Quiet
  BY <1>33 DEF SweepLink
<1>34. ASSUME NEW p \in Proc, SweepExpire(p) PROVE Quiet
  BY <1>34 DEF SweepExpire
<1>35. ASSUME NEW p \in Proc, Crash(p) PROVE Quiet
  BY <1>35 DEF Crash
<1>36. ASSUME Outside PROVE Quiet
  BY <1>36 DEF Outside, Cancel, Approve, Reject, CustomerPays, Webhook
<1>37. ASSUME UNCHANGED vars PROVE Quiet
  BY <1>37 DEF vars
<1> HIDE DEF Quiet, TypeOK
<1> QED
  BY <1>1, <1>2, <1>3, <1>4, <1>5, <1>6, <1>7, <1>8, <1>9, <1>10, <1>11,
     <1>12, <1>13, <1>14, <1>15, <1>16, <1>17, <1>18, <1>19, <1>20, <1>21,
     <1>22, <1>23, <1>24, <1>25, <1>26, <1>27, <1>28, <1>29, <1>30, <1>31,
     <1>32, <1>33, <1>34, <1>35, <1>36, <1>37
     DEF Next, Start, Continue, Selling, Fulfilling, Sweeping, Loud

\* One step of the pipeline is one step of the commission, or none of it.
LEMMA PromiseStep ==
    TypeOK /\ JobInv /\ [Next]_vars => [Promise!Next]_(Promise!cvars)
<1> SUFFICES ASSUME TypeOK, JobInv, [Next]_vars
             PROVE  Promise!Next \/ UNCHANGED Promise!cvars
  OBVIOUS
<1>0. revenue \in Nat /\ refunds \in Nat
  BY DEF TypeOK
<1>1. ASSUME NEW p \in Proc, Book(p) PROVE Promise!Take \/ UNCHANGED Promise!cvars
  <2>1. UNCHANGED refunds /\ ("publish" \in stages' <=> "publish" \in stages)
    BY <1>1 DEF Book, PersistPaid
  <2>2. revenue' = revenue \/ (revenue = 0 /\ revenue' = 1)
    BY <1>0, <1>1 DEF Book
  <2> QED
    BY <2>1, <2>2 DEF Promise!Take, Promise!cvars
<1>2. ASSUME NEW p \in Proc, Publish(p) PROVE Promise!Release \/ UNCHANGED Promise!cvars
  <2>1. CASE UNCHANGED stages
    BY <1>2, <2>1 DEF Publish, Complete, Promise!cvars
  <2>2. CASE stages' = stages \cup {"publish"}
    <3>1. revenue = 1 /\ refunds = 0
      BY <1>2 DEF Publish, Complete, JobInv, PaidInv, RefundInv, Locked, Working
    <3> QED
      BY <1>2, <2>2, <3>1 DEF Publish, Complete, Promise!Release
  <2> QED
    BY <1>2, <2>1, <2>2 DEF Publish, Complete
<1>3. ASSUME NEW p \in Proc, BookRefund(p) PROVE Promise!GiveBack \/ UNCHANGED Promise!cvars
  <2>1. revenue = 1 /\ "publish" \notin stages
    BY <1>3 DEF BookRefund, JobInv, PaidInv, RefundInv, Locked, Unwinding
  <2>2. UNCHANGED revenue /\ "publish" \notin stages'
    BY <1>3, <2>1 DEF BookRefund
  <2>3. refunds' = refunds \/ (refunds = 0 /\ refunds' = 1)
    BY <1>0, <1>3 DEF BookRefund, Refunded
  <2> QED
    BY <2>1, <2>2, <2>3 DEF Promise!GiveBack, Promise!cvars
<1>4. ASSUME NEW p \in Proc, SettleCall(p) PROVE UNCHANGED Promise!cvars
  BY <1>4 DEF SettleCall, Promise!cvars
<1>5. CASE \A p \in Proc : ~Loud(p)
  BY <1>5, QuietSteps DEF Quiet, Promise!cvars
<1> QED
  BY <1>1, <1>2, <1>3, <1>4, <1>5 DEF Promise!Next, Loud

\* Concurrent, crashing handlers take the money once and then release the brief
\* or give the money back, once, never both.
THEOREM Implements == Spec => KeepsThePromise
<1>1. Init => Promise!Init
  BY DEF Init, Promise!Init
<1>2. TypeOK /\ JobInv /\ [Next]_vars => [Promise!Next]_(Promise!cvars)
  BY PromiseStep
<1> QED
  BY <1>1, <1>2, JobInvariant, PTL DEF Spec, KeepsThePromise, Promise!Spec

\* A payment that is found after the job was closed books nothing.
THEOREM NoLateSale == Spec => NoSaleOnAClosedJob
<1>1. TypeOK /\ [Next]_vars => [revenue' > revenue => status \notin Terminal]_vars
  <2> SUFFICES ASSUME TypeOK, [Next]_vars, revenue' > revenue
               PROVE  status \notin Terminal
    OBVIOUS
  <2>1. PICK p \in Proc : Loud(p)
    BY QuietSteps DEF Quiet, TypeOK
  <2>2. ~Publish(p) /\ ~BookRefund(p) /\ ~SettleCall(p)
    BY DEF Publish, Complete, BookRefund, SettleCall, TypeOK
  <2> QED
    BY <2>1, <2>2 DEF Loud, Book, TypeOK
<1> QED
  BY <1>1, TypeCorrect, PTL DEF Spec, NoSaleOnAClosedJob

\* A charge is settled by the handler that made it, under the job's lock; nobody
\* else, and no restart, forgets one.
THEOREM ChargesRemembered == Spec => ChargesAreNotForgotten
<1>1. TypeOK /\ JobInv /\ [Next]_vars
        => [reserved /\ ~reserved' => \E p \in Proc : pc[p] = "call" /\ fulfilLock = p]_vars
  <2> SUFFICES ASSUME TypeOK, JobInv, [Next]_vars, reserved, ~reserved'
               PROVE  \E p \in Proc : pc[p] = "call" /\ fulfilLock = p
    OBVIOUS
  <2>1. PICK p \in Proc : Loud(p)
    BY QuietSteps DEF Quiet
  <2>2. ~Book(p) /\ ~Publish(p) /\ ~BookRefund(p)
    BY DEF Book, Publish, Complete, BookRefund
  <2>3. pc[p] = "call"
    BY <2>1, <2>2 DEF Loud, SettleCall
  <2> QED
    BY <2>3 DEF JobInv, LockInv, Locked, Working
<1> QED
  BY <1>1, JobInvariant, PTL DEF Spec, ChargesAreNotForgotten

=============================================================================

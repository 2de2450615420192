--------------------------- MODULE OperationsProofs ---------------------------
(***************************************************************************)
(* Proofs about the components that keep the agent running, for any number *)
(* of processes, users, requests and runs under way and any limits: how    *)
(* workers share the jobs (WorkerLoop), who gets in (Access), what a chat  *)
(* does to orders (ChatDesk), which brief a customer is sent (BriefDesk),  *)
(* and what leaves for the cold address (Custody).                         *)
(***************************************************************************)
EXTENDS WorkerLoop, Access, ChatDesk, BriefDesk, Custody, Sums, TLAPS

(***************************************************************************)
(* WorkerLoop.  Reminders stay few because a sweep that means to send one  *)
(* took the decision when at most the other workers had one under way; a   *)
(* lease excludes because whoever overstays it is noted when the clock     *)
(* passes it.                                                              *)
(***************************************************************************)

USE WorkerAssumption

\* Workers with a reminder of a job still to send, with one sent and not yet
\* recorded, over the closing of its link, and advancing it.
Reminding(j) == {w \in Worker : worker[w].at \in {"sweeping", "mailed", "closing"} /\ j \in worker[w].remind}
Mailing(j)   == {w \in Worker : worker[w].at = "mailed" /\ worker[w].job = j}
Closing(j)   == {w \in Worker : worker[w].at = "closing" /\ worker[w].job = j}
Advancing(j) == {w \in Worker : worker[w].at = "busy" /\ worker[w].job = j}

\* What a worker knows at each step.
WorkerStates ==
    {Down, Asleep}
    \cup [at : {"resuming", "ranked"}, queue : SUBSET Pending]
    \cup [at : {"resumed", "busy"}, job : Pending, queue : SUBSET Pending]
    \cup [at : {"sweeping"}, expire : SUBSET Pending, remind : SUBSET Pending]
    \cup [at : {"mailed", "closing"}, job : Pending, expire : SUBSET Pending, remind : SUBSET Pending]

Shapes == WorkersTypeOK /\ worker \in [Worker -> WorkerStates]

\* Every mail is recorded, about to be, or lost to a death.
MailsAreCounted(j) ==
    /\ counted[j] + Cardinality(Mailing(j)) <= mailed[j]
    /\ mailed[j] <= counted[j] + Cardinality(Mailing(j)) + deaths

\* The mails that the readings of all sweeps still allow are within the bound.
MailsAreFew(j) ==
    mailed[j] + Cardinality(Reminding(j)) <= MaxReminders + Cardinality(Worker) - 1 + deaths

NoDoubleMail(j) == Reminding(j) \cap Mailing(j) = {}

\* Who closed the link is about to close the job, under the lock.
ClosingIsAtomic(j) ==
    link[j] = "expired" /\ deaths = 0 =>
        state[j] = "expired" \/ (state[j] = "awaiting_payment" /\ Closing(j) # {})

\* A lease that has not run out under its worker is that worker's alone.
LeaseIsHeld(j) ==
    j \notin overran =>
        /\ \A v, w \in Advancing(j) : v = w
        /\ Advancing(j) # {} => leases[j] > loopClock

WorkersInv ==
    /\ Shapes
    /\ \A j \in Pending : /\ MailsAreCounted(j) /\ MailsAreFew(j) /\ NoDoubleMail(j)
                          /\ ClosingIsAtomic(j) /\ LeaseIsHeld(j)

-----------------------------------------------------------------------------
(* Shapes.                                                                 *)

\* What the fields of a worker are.
LEMMA WorkerFields ==
  ASSUME NEW r \in WorkerStates
  PROVE  /\ r.at \in {"down", "resuming", "resumed", "asleep", "sweeping", "mailed", "closing",
                       "ranked", "busy"}
         /\ r.at \in {"resuming", "ranked", "resumed", "busy"} => r.queue \in SUBSET Pending
         /\ r.at \in {"resumed", "busy", "mailed", "closing"} => r.job \in Pending
         /\ r.at \in {"sweeping", "mailed", "closing"} =>
              r.expire \in SUBSET Pending /\ r.remind \in SUBSET Pending
         /\ r.at = "sweeping" => r = [at |-> "sweeping", expire |-> r.expire, remind |-> r.remind]
         /\ r.at = "ranked" => r = [at |-> "ranked", queue |-> r.queue]
  BY DEF WorkerStates, Down, Asleep

\* The states a worker may move to.
LEMMA NewStates ==
  /\ Down \in WorkerStates /\ Asleep \in WorkerStates
  /\ \A q \in SUBSET Pending :
       /\ [at |-> "resuming", queue |-> q] \in WorkerStates
       /\ [at |-> "ranked", queue |-> q] \in WorkerStates
       /\ \A j \in Pending : /\ [at |-> "resumed", job |-> j, queue |-> q] \in WorkerStates
                             /\ [at |-> "busy", job |-> j, queue |-> q] \in WorkerStates
  /\ \A e, r \in SUBSET Pending :
       /\ [at |-> "sweeping", expire |-> e, remind |-> r] \in WorkerStates
       /\ \A j \in Pending :
            /\ [at |-> "mailed", job |-> j, expire |-> e, remind |-> r] \in WorkerStates
            /\ [at |-> "closing", job |-> j, remind |-> r, expire |-> e] \in WorkerStates
  BY DEF WorkerStates

\* What CloseJob, CountMail, Claim and the rest do to the worker that does them.
LEMMA ShapesStep == Shapes /\ [WorkersNext]_workerVars => Shapes'
<1> SUFFICES ASSUME Shapes, [WorkersNext]_workerVars PROVE Shapes'
  OBVIOUS
<1>a. /\ worker \in [Worker -> WorkerStates]
      /\ loopClock \in 0..LoopTime /\ deaths \in 0..MaxDeaths
      /\ state \in [Pending -> {"awaiting_payment", "paid", "expired"}]
      /\ link \in [Pending -> {"open", "expired"}]
      /\ counted \in [Pending -> Nat] /\ mailed \in [Pending -> Nat]
      /\ leases \in [Pending -> 0..(LoopTime + Lease)] /\ overran \subseteq Pending
  BY DEF Shapes, WorkersTypeOK
<1>b. ASSUME /\ worker' \in [Worker -> WorkerStates]
             /\ loopClock' \in 0..LoopTime /\ deaths' \in 0..MaxDeaths
             /\ state' \in [Pending -> {"awaiting_payment", "paid", "expired"}]
             /\ link' \in [Pending -> {"open", "expired"}]
             /\ counted' \in [Pending -> Nat] /\ mailed' \in [Pending -> Nat]
             /\ leases' \in [Pending -> 0..(LoopTime + Lease)] /\ overran' \subseteq Pending
      PROVE  Shapes'
  BY <1>b, WorkerFields DEF Shapes, WorkersTypeOK
<1>c. \A w \in Worker, x \in WorkerStates :
        worker' = [worker EXCEPT ![w] = x] => worker' \in [Worker -> WorkerStates]
  BY <1>a
<1>1. ASSUME NEW w \in Worker, StartWorker(w) PROVE Shapes'
  <2>1. {j \in Pending : state[j] # "expired"} \in SUBSET Pending
    OBVIOUS
  <2> QED
    BY <1>1, <1>a, <1>b, <1>c, <2>1, NewStates DEF StartWorker
<1>2. ASSUME NEW w \in Worker, Resumed(w) PROVE Shapes'
  BY <1>2, <1>a, <1>b, <1>c, NewStates, WorkerFields DEF Resumed
<1>3. ASSUME NEW w \in Worker, StartPass(w) PROVE Shapes'
  <2>1. {j \in Open : Wants(j) = "expire"} \in SUBSET Pending
        /\ {j \in Open : Wants(j) = "remind"} \in SUBSET Pending
    BY DEF Open
  <2> QED
    BY <1>3, <1>a, <1>b, <1>c, <2>1, NewStates DEF StartPass
<1>4. ASSUME NEW w \in Worker, CountMail(w) PROVE Shapes'
  <2>1. worker[w].job \in Pending
    BY <1>4, <1>a, WorkerFields DEF CountMail
  <2>2. counted' \in [Pending -> Nat]
    BY <1>4, <1>a, <2>1 DEF CountMail
  <2>3. worker[w].expire \in SUBSET Pending /\ worker[w].remind \in SUBSET Pending
    BY <1>4, <1>a, WorkerFields DEF CountMail
  <2>4. worker' \in [Worker -> WorkerStates]
    BY <1>4, <1>c, <2>3, NewStates DEF CountMail
  <2> QED
    BY <1>4, <1>a, <1>b, <2>2, <2>4 DEF CountMail
<1>5. ASSUME NEW w \in Worker, CloseJob(w) PROVE Shapes'
  <2>1. worker[w].job \in Pending
    BY <1>5, <1>a, WorkerFields DEF CloseJob
  <2> QED
    BY <1>5, <1>a, <1>b, <1>c, <2>1, NewStates, WorkerFields DEF CloseJob
<1>6. ASSUME NEW w \in Worker, Rank(w) PROVE Shapes'
  <2>1. {j \in Pending : state[j] # "expired"} \in SUBSET Pending
    OBVIOUS
  <2> QED
    BY <1>6, <1>a, <1>b, <1>c, <2>1, NewStates DEF Rank
<1>7. ASSUME NEW w \in Worker, Release(w) PROVE Shapes'
  <2>1. worker[w].job \in Pending /\ worker[w].queue \in SUBSET Pending
    BY <1>7, <1>a, WorkerFields DEF Release
  <2>2. leases' \in [Pending -> 0..(LoopTime + Lease)]
    BY <1>7, <1>a, <2>1 DEF Release
  <2>3. worker' \in [Worker -> WorkerStates]
    BY <1>7, <1>a, <1>c, <2>1, NewStates DEF Release
  <2> QED
    BY <1>7, <1>a, <1>b, <2>2, <2>3 DEF Release
<1>8. ASSUME NEW w \in Worker, EndPass(w) PROVE Shapes'
  BY <1>8, <1>a, <1>b, <1>c, NewStates DEF EndPass
<1>9. ASSUME NEW w \in Worker, NEW j \in Pending, Resume(w, j) PROVE Shapes'
  <2>1. worker[w].queue \ {j} \in SUBSET Pending
    BY <1>9, <1>a, WorkerFields DEF Resume
  <2> QED
    BY <1>9, <1>a, <1>b, <1>c, <2>1, NewStates DEF Resume
<1>10. ASSUME NEW w \in Worker, NEW j \in Pending, Mail(w, j) PROVE Shapes'
  <2>1. /\ worker[w].remind \ {j} \in SUBSET Pending /\ worker[w].expire \in SUBSET Pending
        /\ worker[w] = [at |-> "sweeping", expire |-> worker[w].expire, remind |-> worker[w].remind]
    BY <1>10, <1>a, WorkerFields DEF Mail
  <2>2. [worker[w] EXCEPT !.remind = @ \ {j}] =
          [at |-> "sweeping", expire |-> worker[w].expire, remind |-> worker[w].remind \ {j}]
    BY <2>1
  <2>3. worker' \in [Worker -> WorkerStates]
    <3>1. CASE worker' = [worker EXCEPT ![w] = [at |-> "mailed", job |-> j, expire |-> @.expire,
                                                remind |-> @.remind \ {j}]]
      BY <1>c, <2>1, <3>1, NewStates
    <3>2. CASE worker' = [worker EXCEPT ![w].remind = @ \ {j}]
      <4>1. worker' = [worker EXCEPT ![w] = [worker[w] EXCEPT !.remind = @ \ {j}]]
        BY <3>2
      <4> QED
        BY <1>c, <2>1, <2>2, <4>1, NewStates
    <3> QED
      BY <1>10, <3>1, <3>2 DEF Mail
  <2>4. mailed' \in [Pending -> Nat]
    BY <1>10, <1>a DEF Mail
  <2> QED
    BY <1>10, <1>a, <1>b, <2>3, <2>4 DEF Mail
<1>11. ASSUME NEW w \in Worker, NEW j \in Pending, CloseLink(w, j) PROVE Shapes'
  <2>1. /\ worker[w].expire \ {j} \in SUBSET Pending /\ worker[w].remind \in SUBSET Pending
        /\ worker[w] = [at |-> "sweeping", expire |-> worker[w].expire, remind |-> worker[w].remind]
    BY <1>11, <1>a, WorkerFields DEF CloseLink
  <2>2. [worker[w] EXCEPT !.expire = @ \ {j}] =
          [at |-> "sweeping", expire |-> worker[w].expire \ {j}, remind |-> worker[w].remind]
    BY <2>1
  <2>3. worker' \in [Worker -> WorkerStates] /\ link' \in [Pending -> {"open", "expired"}]
    <3>1. CASE /\ link' = [link EXCEPT ![j] = "expired"]
               /\ worker' = [worker EXCEPT ![w] = [at |-> "closing", job |-> j, remind |-> @.remind,
                                                   expire |-> @.expire \ {j}]]
      BY <1>a, <1>c, <2>1, <3>1, NewStates
    <3>2. CASE worker' = [worker EXCEPT ![w].expire = @ \ {j}] /\ UNCHANGED link
      <4>1. worker' = [worker EXCEPT ![w] = [worker[w] EXCEPT !.expire = @ \ {j}]]
        BY <3>2
      <4>2. [worker[w] EXCEPT !.expire = @ \ {j}] \in WorkerStates
        <5>1. worker[w].expire \ {j} \in SUBSET Pending
          BY <2>1
        <5> QED
          BY <2>1, <2>2, <5>1, NewStates
      <4> QED
        BY <1>a, <1>c, <3>2, <4>1, <4>2
    <3> QED
      BY <1>11, <3>1, <3>2 DEF CloseLink
  <2> QED
    BY <1>11, <1>a, <1>b, <2>3 DEF CloseLink
<1>12. ASSUME NEW w \in Worker, NEW j \in Pending, Claim(w, j) PROVE Shapes'
  <2>1. /\ worker[w].queue \ {j} \in SUBSET Pending
        /\ worker[w] = [at |-> "ranked", queue |-> worker[w].queue]
    BY <1>12, <1>a, WorkerFields DEF Claim
  <2>2. [worker[w] EXCEPT !.queue = @ \ {j}] = [at |-> "ranked", queue |-> worker[w].queue \ {j}]
    BY <2>1
  <2>3. /\ worker' \in [Worker -> WorkerStates]
        /\ leases' \in [Pending -> 0..(LoopTime + Lease)]
    <3>1. CASE worker' = [worker EXCEPT ![w].queue = @ \ {j}] /\ UNCHANGED leases
      <4>1. worker' = [worker EXCEPT ![w] = [worker[w] EXCEPT !.queue = @ \ {j}]]
        BY <3>1
      <4> QED
        BY <1>a, <1>c, <2>1, <2>2, <3>1, <4>1, NewStates
    <3>2. CASE /\ leases' = [leases EXCEPT ![j] = loopClock + Lease]
               /\ worker' = [worker EXCEPT ![w] =
                               [at |-> "busy", job |-> j, queue |-> @.queue \ {j}]]
      <4>1. loopClock + Lease \in 0..(LoopTime + Lease)
        BY <1>a
      <4>2. leases' \in [Pending -> 0..(LoopTime + Lease)]
        BY <1>a, <3>2, <4>1
      <4>3. worker' \in [Worker -> WorkerStates]
        BY <1>c, <2>1, <3>2, NewStates
      <4> QED
        BY <4>2, <4>3
    <3> QED
      BY <1>12, <3>1, <3>2 DEF Claim
  <2> QED
    BY <1>12, <1>a, <1>b, <2>3 DEF Claim
<1>13. ASSUME NEW w \in Worker, KillWorker(w) PROVE Shapes'
  <2>1. deaths' \in 0..MaxDeaths
    BY <1>13, <1>a DEF KillWorker
  <2> QED
    BY <1>13, <1>a, <1>b, <1>c, <2>1, NewStates DEF KillWorker
<1>14. ASSUME NEW j \in Pending, PayPending(j) PROVE Shapes'
  BY <1>14, <1>a, <1>b DEF PayPending
<1>15. ASSUME WorkerTick PROVE Shapes'
  <2>1. loopClock' \in 0..LoopTime
    BY <1>15, <1>a DEF WorkerTick
  <2> QED
    BY <1>15, <1>a, <1>b, <2>1 DEF WorkerTick
<1>16. ASSUME UNCHANGED workerVars PROVE Shapes'
  BY <1>16, <1>a, <1>b DEF workerVars
<1> HIDE DEF Shapes
<1> QED
  BY <1>1, <1>2, <1>3, <1>4, <1>5, <1>6, <1>7, <1>8, <1>9, <1>10, <1>11, <1>12, <1>13, <1>14,
     <1>15, <1>16 DEF WorkersNext, GoOn

-----------------------------------------------------------------------------
(* Reminders.                                                              *)

MailInv == \A j \in Pending : MailsAreCounted(j) /\ MailsAreFew(j) /\ NoDoubleMail(j)

\* The steps of one worker move no other, and the sets of workers are finite.
LEMMA OneWorkerMoves ==
  ASSUME NEW w \in Worker, NEW j \in Pending,
         \A v \in Worker \ {w} : worker'[v] = worker[v]
  PROVE  /\ IsFiniteSet(Reminding(j)) /\ IsFiniteSet(Mailing(j))
         /\ Cardinality(Reminding(j)) \in Nat /\ Cardinality(Reminding(j)') \in Nat
         /\ Cardinality(Mailing(j)) \in Nat /\ Cardinality(Mailing(j)') \in Nat
         /\ Cardinality(Reminding(j)') =
               Cardinality(Reminding(j)) + (IF w \in Reminding(j)' THEN 1 ELSE 0)
                                         - (IF w \in Reminding(j) THEN 1 ELSE 0)
         /\ Cardinality(Mailing(j)') =
               Cardinality(Mailing(j)) + (IF w \in Mailing(j)' THEN 1 ELSE 0)
                                       - (IF w \in Mailing(j) THEN 1 ELSE 0)
         /\ \A v \in Worker \ {w} : /\ v \in Reminding(j)' <=> v \in Reminding(j)
                                    /\ v \in Mailing(j)' <=> v \in Mailing(j)
<1>1. IsFiniteSet(Reminding(j)) /\ IsFiniteSet(Mailing(j))
  <2>1. Reminding(j) \in SUBSET Worker /\ Mailing(j) \in SUBSET Worker
    BY DEF Reminding, Mailing
  <2> QED
    BY <2>1, FS_Subset
<1>2. \A v \in Worker \ {w} : /\ v \in Reminding(j)' <=> v \in Reminding(j)
                              /\ v \in Mailing(j)' <=> v \in Mailing(j)
  BY DEF Reminding, Mailing
<1>3. Reminding(j) \ {w} = Reminding(j)' \ {w} /\ Mailing(j) \ {w} = Mailing(j)' \ {w}
  BY DEF Reminding, Mailing
<1>4. /\ Cardinality(Reminding(j)) \in Nat /\ Cardinality(Reminding(j)') \in Nat
      /\ Cardinality(Reminding(j)') =
            Cardinality(Reminding(j)) + (IF w \in Reminding(j)' THEN 1 ELSE 0)
                                      - (IF w \in Reminding(j) THEN 1 ELSE 0)
  BY <1>1, <1>3, SizeChange
<1>5. /\ Cardinality(Mailing(j)) \in Nat /\ Cardinality(Mailing(j)') \in Nat
      /\ Cardinality(Mailing(j)') =
            Cardinality(Mailing(j)) + (IF w \in Mailing(j)' THEN 1 ELSE 0)
                                    - (IF w \in Mailing(j) THEN 1 ELSE 0)
  BY <1>1, <1>3, SizeChange
<1> QED
  BY <1>1, <1>2, <1>4, <1>5

\* A worker that neither has decided on a reminder nor is over one leaves room
\* for one more.
LEMMA RoomForOne ==
  ASSUME NEW w \in Worker, NEW j \in Pending, NoDoubleMail(j),
         w \notin Reminding(j), w \notin Mailing(j)
  PROVE  Cardinality(Reminding(j)) + Cardinality(Mailing(j)) <= Cardinality(Worker) - 1
<1> DEFINE R == Reminding(j)
           M == Mailing(j)
<1>1. R \in SUBSET Worker /\ M \in SUBSET Worker /\ R \cup M \in SUBSET (Worker \ {w})
      /\ R \cap M = {}
  BY DEF Reminding, Mailing, NoDoubleMail
<1> HIDE DEF R, M
<1>2. IsFiniteSet(R) /\ IsFiniteSet(M) /\ IsFiniteSet(Worker \ {w})
      /\ Cardinality(Worker \ {w}) = Cardinality(Worker) - 1
  BY <1>1, FS_Subset, FS_RemoveElement
<1>3. Cardinality(R \cup M) <= Cardinality(Worker \ {w})
  BY <1>1, <1>2, FS_Subset
<1>4. Cardinality(R \cup M) = Cardinality(R) + Cardinality(M) - Cardinality(R \cap M)
  BY <1>2, FS_Union
<1>5. Cardinality(R \cap M) = 0
  BY <1>1, FS_EmptySet
<1>6. Cardinality(R) \in Nat /\ Cardinality(M) \in Nat
  BY <1>2, FS_CardinalityType
<1>7. Cardinality(R) + Cardinality(M) <= Cardinality(Worker) - 1
  BY <1>2, <1>3, <1>4, <1>5, <1>6
<1> QED
  BY <1>7 DEF R, M

\* A step of one worker that mails and records nothing, and decides on nothing.
LEMMA NothingMailed ==
  ASSUME Shapes, MailInv, NEW w \in Worker, UNCHANGED <<counted, mailed, deaths>>,
         \A v \in Worker \ {w} : worker'[v] = worker[v],
         \A j \in Pending : /\ w \in Reminding(j)' => w \in Reminding(j)
                            /\ w \in Mailing(j)' <=> w \in Mailing(j)
  PROVE  MailInv'
<1> SUFFICES ASSUME NEW j \in Pending
             PROVE  MailsAreCounted(j)' /\ MailsAreFew(j)' /\ NoDoubleMail(j)'
  BY DEF MailInv
<1>0. MailsAreCounted(j) /\ MailsAreFew(j) /\ NoDoubleMail(j)
  BY DEF MailInv
<1>1. counted[j] \in Nat /\ mailed[j] \in Nat /\ deaths \in Nat
  BY DEF Shapes, WorkersTypeOK
<1>2. /\ Cardinality(Reminding(j)) \in Nat /\ Cardinality(Reminding(j)') \in Nat
      /\ Cardinality(Reminding(j)') <= Cardinality(Reminding(j))
      /\ Cardinality(Mailing(j)) \in Nat
      /\ Cardinality(Mailing(j)') = Cardinality(Mailing(j))
  BY OneWorkerMoves
<1>3. Reminding(j)' \subseteq Reminding(j) /\ Mailing(j)' \subseteq Mailing(j)
  <2>1. Reminding(j)' \subseteq Worker /\ Mailing(j)' \subseteq Worker
    BY DEF Reminding, Mailing
  <2> QED
    BY <2>1, OneWorkerMoves
<1>4. NoDoubleMail(j)'
  BY <1>0, <1>3 DEF NoDoubleMail
<1>5. MailsAreCounted(j)'
  BY <1>0, <1>1, <1>2 DEF MailsAreCounted
<1>6. MailsAreFew(j)'
  <2>1. Cardinality(Worker) \in Nat
    BY FS_CardinalityType
  <2> QED
    BY <1>0, <1>1, <1>2, <2>1 DEF MailsAreFew
<1> QED
  BY <1>4, <1>5, <1>6

\* Where a worker is in these sets.
LEMMA WorkerSets ==
  ASSUME NEW w \in Worker, NEW j
  PROVE  /\ w \in Reminding(j) <=>
              worker[w].at \in {"sweeping", "mailed", "closing"} /\ j \in worker[w].remind
         /\ w \in Mailing(j) <=> worker[w].at = "mailed" /\ worker[w].job = j
         /\ w \in Reminding(j)' <=>
              worker'[w].at \in {"sweeping", "mailed", "closing"} /\ j \in worker'[w].remind
         /\ w \in Mailing(j)' <=> worker'[w].at = "mailed" /\ worker'[w].job = j
  BY DEF Reminding, Mailing

\* A reminder is decided on, mailed, recorded, or lost with its sweep.
LEMMA MailStep == Shapes /\ MailInv /\ [WorkersNext]_workerVars => MailInv'
<1> SUFFICES ASSUME Shapes, MailInv, [WorkersNext]_workerVars PROVE MailInv'
  OBVIOUS
<1>a. /\ worker \in [Worker -> WorkerStates] /\ deaths \in Nat
      /\ counted \in [Pending -> Nat] /\ mailed \in [Pending -> Nat]
  BY DEF Shapes, WorkersTypeOK
<1>b. Cardinality(Worker) \in Nat
  BY FS_CardinalityType
<1>c. ASSUME NEW j \in Pending
      PROVE  MailsAreCounted(j) /\ MailsAreFew(j) /\ NoDoubleMail(j)
             /\ counted[j] \in Nat /\ mailed[j] \in Nat
  BY <1>a DEF MailInv
<1>1. ASSUME NEW w \in Worker, UNCHANGED <<counted, mailed, deaths>>,
             \A v \in Worker \ {w} : worker'[v] = worker[v],
             worker[w].at \notin {"mailed"},
             worker'[w].at \notin {"sweeping", "mailed", "closing"}
      PROVE  MailInv'
  BY <1>1, WorkerSets, NothingMailed
<1>2. ASSUME NEW w \in Worker,
             \/ StartWorker(w) \/ Resumed(w) \/ Rank(w) \/ Release(w) \/ EndPass(w)
             \/ \E j \in Pending : Resume(w, j) \/ Claim(w, j)
      PROVE  MailInv'
  <2>1. /\ UNCHANGED <<counted, mailed, deaths>>
        /\ \A v \in Worker \ {w} : worker'[v] = worker[v]
        /\ worker[w].at \notin {"mailed"}
    BY <1>2, <1>a DEF StartWorker, Resumed, Rank, Release, EndPass, Resume, Claim, Down, Asleep
  <2>2. worker'[w].at \notin {"sweeping", "mailed", "closing"}
    <3>1. CASE \E j \in Pending : Claim(w, j)
      <4>1. PICK j \in Pending : Claim(w, j)
        BY <3>1
      <4>2. worker[w].at = "ranked" /\ worker[w] = [at |-> "ranked", queue |-> worker[w].queue]
        BY <1>a, <4>1, WorkerFields DEF Claim
      <4>3. \/ worker'[w] = [worker[w] EXCEPT !.queue = @ \ {j}]
            \/ worker'[w].at = "busy"
        <5>1. CASE worker' = [worker EXCEPT ![w].queue = @ \ {j}]
          <6>1. worker' = [worker EXCEPT ![w] = [worker[w] EXCEPT !.queue = @ \ {j}]]
            BY <5>1
          <6> QED
            BY <1>a, <6>1
        <5>2. CASE worker' = [worker EXCEPT ![w] = [at |-> "busy", job |-> j, queue |-> @.queue \ {j}]]
          BY <1>a, <5>2
        <5> QED
          BY <4>1, <5>1, <5>2 DEF Claim
      <4>4. [worker[w] EXCEPT !.queue = @ \ {j}].at = "ranked"
        BY <4>2
      <4> QED
        BY <4>3, <4>4
    <3> QED
      BY <1>2, <1>a, <3>1 DEF StartWorker, Resumed, Rank, Release, EndPass, Resume, Down, Asleep
  <2> QED
    BY <1>1, <2>1, <2>2
<1>3. ASSUME NEW w \in Worker, CloseJob(w) PROVE MailInv'
  <2>1. /\ UNCHANGED <<counted, mailed, deaths>>
        /\ \A v \in Worker \ {w} : worker'[v] = worker[v]
        /\ worker[w].at = "closing" /\ worker'[w].at = "sweeping"
        /\ worker'[w].remind = worker[w].remind
    BY <1>3, <1>a DEF CloseJob
  <2> QED
    BY <2>1, WorkerSets, NothingMailed
<1>4. ASSUME NEW w \in Worker, NEW k \in Pending, CloseLink(w, k) PROVE MailInv'
  <2>0. worker[w] = [at |-> "sweeping", expire |-> worker[w].expire, remind |-> worker[w].remind]
    BY <1>4, <1>a, WorkerFields DEF CloseLink
  <2>1. /\ worker[w].at = "sweeping" /\ worker'[w].at \in {"sweeping", "closing"}
        /\ worker'[w].remind = worker[w].remind
    <3>1. CASE worker' = [worker EXCEPT ![w].expire = @ \ {k}]
      <4>1. worker' = [worker EXCEPT ![w] = [worker[w] EXCEPT !.expire = @ \ {k}]]
        BY <3>1
      <4>2. worker'[w] = [worker[w] EXCEPT !.expire = @ \ {k}]
        BY <1>a, <4>1
      <4> QED
        BY <2>0, <4>2
    <3>2. CASE worker' = [worker EXCEPT ![w] = [at |-> "closing", job |-> k, remind |-> @.remind,
                                                expire |-> @.expire \ {k}]]
      BY <1>a, <2>0, <3>2
    <3> QED
      BY <1>4, <3>1, <3>2 DEF CloseLink
  <2>4. /\ UNCHANGED <<counted, mailed, deaths>>
        /\ \A v \in Worker \ {w} : worker'[v] = worker[v]
    BY <1>4, <1>a DEF CloseLink
  <2> QED
    BY <2>1, <2>4, WorkerSets, NothingMailed
<1>5. ASSUME NEW w \in Worker, StartPass(w) PROVE MailInv'
  <2>1. /\ UNCHANGED <<counted, mailed, deaths>>
        /\ \A v \in Worker \ {w} : worker'[v] = worker[v]
        /\ worker[w].at = "asleep" /\ worker'[w].at = "sweeping"
        /\ worker'[w].remind = {j \in Open : Wants(j) = "remind"}
    BY <1>5, <1>a DEF StartPass, Asleep
  <2> SUFFICES ASSUME NEW j \in Pending
               PROVE  MailsAreCounted(j)' /\ MailsAreFew(j)' /\ NoDoubleMail(j)'
    BY DEF MailInv
  <2>2. w \notin Reminding(j) /\ w \notin Mailing(j) /\ w \notin Mailing(j)'
    BY <2>1, WorkerSets
  <2>3. w \in Reminding(j)' => counted[j] < MaxReminders
    <3>1. w \in Reminding(j)' => Wants(j) = "remind"
      BY <2>1, WorkerSets
    <3> QED
      BY <3>1 DEF Wants
  <2>4. Cardinality(Reminding(j)) + Cardinality(Mailing(j)) <= Cardinality(Worker) - 1
    BY <1>c, <2>2, RoomForOne
  <2>5. /\ Cardinality(Reminding(j)) \in Nat /\ Cardinality(Mailing(j)) \in Nat
        /\ Cardinality(Reminding(j)') =
              Cardinality(Reminding(j)) + (IF w \in Reminding(j)' THEN 1 ELSE 0)
        /\ Cardinality(Mailing(j)') = Cardinality(Mailing(j))
    BY <2>1, <2>2, OneWorkerMoves
  <2>6. NoDoubleMail(j)'
    <3>1. \A v \in Worker \ {w} : ~ (v \in Reminding(j)' /\ v \in Mailing(j)')
      BY <1>c, <2>1, OneWorkerMoves DEF NoDoubleMail
    <3>2. Reminding(j)' \subseteq Worker
      BY DEF Reminding
    <3> QED
      BY <2>2, <3>1, <3>2 DEF NoDoubleMail
  <2>7. MailsAreCounted(j)'
    BY <1>c, <2>1, <2>5 DEF MailsAreCounted
  <2>8. MailsAreFew(j)'
    <3>1. /\ mailed[j] <= counted[j] + Cardinality(Mailing(j)) + deaths
          /\ mailed[j] + Cardinality(Reminding(j)) <= MaxReminders + Cardinality(Worker) - 1 + deaths
          /\ counted[j] \in Nat /\ mailed[j] \in Nat
      BY <1>c DEF MailsAreCounted, MailsAreFew
    <3>2. CASE w \in Reminding(j)'
      BY <1>a, <1>b, <2>1, <2>3, <2>4, <2>5, <3>1, <3>2 DEF MailsAreFew
    <3>3. CASE w \notin Reminding(j)'
      BY <2>1, <2>5, <3>1, <3>3 DEF MailsAreFew
    <3> QED
      BY <3>2, <3>3
  <2> QED
    BY <2>6, <2>7, <2>8
<1>6. ASSUME NEW w \in Worker, NEW k \in Pending, Mail(w, k) PROVE MailInv'
  <2>0. worker[w] = [at |-> "sweeping", expire |-> worker[w].expire, remind |-> worker[w].remind]
    BY <1>6, <1>a, WorkerFields DEF Mail
  <2>1. /\ UNCHANGED <<counted, deaths>>
        /\ \A v \in Worker \ {w} : worker'[v] = worker[v]
        /\ worker[w].at = "sweeping" /\ k \in worker[w].remind
    BY <1>6, <1>a DEF Mail
  <2>2. CASE worker' = [worker EXCEPT ![w].remind = @ \ {k}] /\ UNCHANGED mailed
    <3>1. worker'[w] = [worker[w] EXCEPT !.remind = @ \ {k}]
      BY <1>a, <2>2
    <3>2. [worker[w] EXCEPT !.remind = @ \ {k}] =
            [at |-> "sweeping", expire |-> worker[w].expire, remind |-> worker[w].remind \ {k}]
      BY <2>0
    <3>3. worker'[w].at = "sweeping" /\ worker'[w].remind = worker[w].remind \ {k}
      BY <3>1, <3>2
    <3>4. \A j \in Pending : /\ w \in Reminding(j)' => w \in Reminding(j)
                             /\ w \in Mailing(j)' <=> w \in Mailing(j)
      BY <2>1, <3>3, WorkerSets
    <3> QED
      BY <2>1, <2>2, <3>4, NothingMailed
  <2>3. CASE /\ mailed' = [mailed EXCEPT ![k] = @ + 1]
             /\ worker' = [worker EXCEPT ![w] = [at |-> "mailed", job |-> k, expire |-> @.expire,
                                                 remind |-> @.remind \ {k}]]
    <3>1. worker'[w].at = "mailed" /\ worker'[w].job = k
          /\ worker'[w].remind = worker[w].remind \ {k}
      BY <1>a, <2>3
    <3> SUFFICES ASSUME NEW j \in Pending
                 PROVE  MailsAreCounted(j)' /\ MailsAreFew(j)' /\ NoDoubleMail(j)'
      BY DEF MailInv
    <3>2. /\ w \notin Mailing(j) /\ (w \in Mailing(j)' <=> j = k)
          /\ w \in Reminding(j)' <=> (w \in Reminding(j) /\ j # k)
          /\ w \in Reminding(k)
      BY <2>1, <3>1, WorkerSets
    <3>3. mailed'[j] = IF j = k THEN mailed[j] + 1 ELSE mailed[j]
      BY <1>a, <2>3
    <3>4. /\ Cardinality(Reminding(j)) \in Nat /\ Cardinality(Mailing(j)) \in Nat
          /\ Cardinality(Reminding(j)') = Cardinality(Reminding(j)) - (IF j = k THEN 1 ELSE 0)
          /\ Cardinality(Mailing(j)') = Cardinality(Mailing(j)) + (IF j = k THEN 1 ELSE 0)
      <4>1. CASE j = k
        BY <2>1, <3>2, <4>1, OneWorkerMoves
      <4>2. CASE j # k
        BY <2>1, <3>2, <4>2, OneWorkerMoves
      <4> QED
        BY <4>1, <4>2
    <3>5. NoDoubleMail(j)'
      <4>1. \A v \in Worker \ {w} : ~ (v \in Reminding(j)' /\ v \in Mailing(j)')
        BY <1>c, <2>1, OneWorkerMoves DEF NoDoubleMail
      <4>2. Reminding(j)' \subseteq Worker
        BY DEF Reminding
      <4> QED
        BY <3>2, <4>1, <4>2 DEF NoDoubleMail
    <3>6. MailsAreCounted(j)'
      BY <1>a, <1>c, <2>1, <3>3, <3>4 DEF MailsAreCounted
    <3>7. MailsAreFew(j)'
      BY <1>a, <1>b, <1>c, <2>1, <3>3, <3>4 DEF MailsAreFew
    <3> QED
      BY <3>5, <3>6, <3>7
  <2> QED
    BY <1>6, <2>2, <2>3 DEF Mail
<1>7. ASSUME NEW w \in Worker, CountMail(w) PROVE MailInv'
  <2> DEFINE k == worker[w].job
  <2>1. /\ UNCHANGED <<mailed, deaths>> /\ k \in Pending
        /\ \A v \in Worker \ {w} : worker'[v] = worker[v]
        /\ worker[w].at = "mailed" /\ worker'[w].at = "sweeping"
        /\ worker'[w].remind = worker[w].remind
        /\ counted' = [counted EXCEPT ![k] = @ + 1]
    BY <1>7, <1>a, WorkerFields DEF CountMail
  <2> SUFFICES ASSUME NEW j \in Pending
               PROVE  MailsAreCounted(j)' /\ MailsAreFew(j)' /\ NoDoubleMail(j)'
    BY DEF MailInv
  <2>2. /\ w \notin Mailing(j)' /\ (w \in Mailing(j) <=> j = k)
        /\ w \in Reminding(j)' <=> w \in Reminding(j)
    BY <2>1, WorkerSets
  <2>3. counted'[j] = IF j = k THEN counted[j] + 1 ELSE counted[j]
    BY <1>a, <2>1
  <2>4. /\ Cardinality(Reminding(j)) \in Nat /\ Cardinality(Mailing(j)) \in Nat
        /\ Cardinality(Reminding(j)') = Cardinality(Reminding(j))
        /\ Cardinality(Mailing(j)') = Cardinality(Mailing(j)) - (IF j = k THEN 1 ELSE 0)
    BY <2>1, <2>2, OneWorkerMoves
  <2>5. NoDoubleMail(j)'
    <3>1. \A v \in Worker \ {w} : ~ (v \in Reminding(j)' /\ v \in Mailing(j)')
      BY <1>c, <2>1, OneWorkerMoves DEF NoDoubleMail
    <3>2. Reminding(j)' \subseteq Worker
      BY DEF Reminding
    <3> QED
      BY <2>2, <3>1, <3>2 DEF NoDoubleMail
  <2> HIDE DEF k
  <2>6. MailsAreCounted(j)'
    BY <1>a, <1>c, <2>1, <2>3, <2>4 DEF MailsAreCounted
  <2>7. MailsAreFew(j)'
    BY <1>a, <1>b, <1>c, <2>1, <2>3, <2>4 DEF MailsAreFew
  <2> QED
    BY <2>5, <2>6, <2>7
<1>8. ASSUME NEW w \in Worker, KillWorker(w) PROVE MailInv'
  <2>1. /\ UNCHANGED <<counted, mailed>> /\ deaths' = deaths + 1
        /\ \A v \in Worker \ {w} : worker'[v] = worker[v]
        /\ worker'[w].at = "down"
    BY <1>8, <1>a DEF KillWorker, Down
  <2> SUFFICES ASSUME NEW j \in Pending
               PROVE  MailsAreCounted(j)' /\ MailsAreFew(j)' /\ NoDoubleMail(j)'
    BY DEF MailInv
  <2>2. w \notin Mailing(j)' /\ w \notin Reminding(j)'
    BY <2>1, WorkerSets
  <2>3. /\ Cardinality(Reminding(j)) \in Nat /\ Cardinality(Mailing(j)) \in Nat
        /\ Cardinality(Reminding(j)') \in Nat /\ Cardinality(Mailing(j)') \in Nat
        /\ Cardinality(Reminding(j)') <= Cardinality(Reminding(j))
        /\ Cardinality(Mailing(j)') <= Cardinality(Mailing(j))
        /\ Cardinality(Mailing(j)) <= Cardinality(Mailing(j)') + 1
    BY <2>1, <2>2, OneWorkerMoves
  <2>4. NoDoubleMail(j)'
    <3>1. \A v \in Worker \ {w} : ~ (v \in Reminding(j)' /\ v \in Mailing(j)')
      BY <1>c, <2>1, OneWorkerMoves DEF NoDoubleMail
    <3>2. Reminding(j)' \subseteq Worker
      BY DEF Reminding
    <3> QED
      BY <2>2, <3>1, <3>2 DEF NoDoubleMail
  <2>5. MailsAreCounted(j)'
    BY <1>a, <1>c, <2>1, <2>3 DEF MailsAreCounted
  <2>6. MailsAreFew(j)'
    BY <1>a, <1>b, <1>c, <2>1, <2>3 DEF MailsAreFew
  <2> QED
    BY <2>4, <2>5, <2>6
<1>9. CASE UNCHANGED <<worker, counted, mailed, deaths>>
  BY <1>9 DEF MailInv, MailsAreCounted, MailsAreFew, NoDoubleMail, Reminding, Mailing
<1> QED
  BY <1>2, <1>3, <1>4, <1>5, <1>6, <1>7, <1>8, <1>9
     DEF WorkersNext, GoOn, PayPending, WorkerTick, workerVars

-----------------------------------------------------------------------------
(* Closing a link, and the lease.                                          *)

\* No step closes half of a job, except a death.
LEMMA ClosingStep ==
  ASSUME Shapes, [WorkersNext]_workerVars, NEW j \in Pending, ClosingIsAtomic(j)
  PROVE  ClosingIsAtomic(j)'
<1>a. /\ worker \in [Worker -> WorkerStates] /\ deaths \in Nat
      /\ state \in [Pending -> {"awaiting_payment", "paid", "expired"}]
      /\ link \in [Pending -> {"open", "expired"}]
  BY DEF Shapes, WorkersTypeOK
<1>1. ASSUME link'[j] = link[j], deaths' = deaths, state'[j] = state[j],
             \A w \in Worker : w \in Closing(j) => w \in Closing(j)'
      PROVE  ClosingIsAtomic(j)'
  <2>1. Closing(j) # {} => Closing(j)' # {}
    BY <1>1 DEF Closing
  <2> QED
    BY <1>1, <2>1 DEF ClosingIsAtomic
<1>2. ASSUME NEW w \in Worker, UNCHANGED <<link, deaths, state>>,
             \A v \in Worker \ {w} : worker'[v] = worker[v], worker[w].at # "closing"
      PROVE  ClosingIsAtomic(j)'
  BY <1>1, <1>2 DEF Closing
<1>3. ASSUME NEW w \in Worker,
             \/ StartWorker(w) \/ Resumed(w) \/ Rank(w) \/ Release(w) \/ EndPass(w)
             \/ StartPass(w) \/ CountMail(w)
             \/ \E k \in Pending : Resume(w, k) \/ Claim(w, k) \/ Mail(w, k)
      PROVE  ClosingIsAtomic(j)'
  <2>1. /\ UNCHANGED <<link, deaths, state>>
        /\ \A v \in Worker \ {w} : worker'[v] = worker[v]
        /\ worker[w].at # "closing"
    BY <1>3, <1>a DEF StartWorker, Resumed, Rank, Release, EndPass, StartPass, CountMail, Resume,
                      Claim, Mail, Down, Asleep
  <2> QED
    BY <1>2, <2>1
<1>4. ASSUME NEW w \in Worker, CloseJob(w) PROVE ClosingIsAtomic(j)'
  <2>1. worker[w].job \in Pending
    BY <1>4, <1>a, WorkerFields DEF CloseJob
  <2>2. CASE worker[w].job = j
    BY <1>4, <1>a, <2>1, <2>2 DEF CloseJob, ClosingIsAtomic
  <2>3. CASE worker[w].job # j
    <3>1. /\ link'[j] = link[j] /\ deaths' = deaths /\ state'[j] = state[j]
          /\ \A v \in Worker \ {w} : worker'[v] = worker[v]
      BY <1>4, <1>a, <2>1, <2>3 DEF CloseJob
    <3>2. w \notin Closing(j)
      BY <2>3 DEF Closing
    <3>3. \A v \in Worker : v \in Closing(j) => v \in Closing(j)'
      BY <3>1, <3>2 DEF Closing
    <3> QED
      BY <1>1, <3>1, <3>3
  <2> QED
    BY <2>2, <2>3
<1>5. ASSUME NEW w \in Worker, NEW k \in Pending, CloseLink(w, k) PROVE ClosingIsAtomic(j)'
  <2>1. /\ UNCHANGED <<deaths, state>> /\ worker[w].at = "sweeping"
        /\ \A v \in Worker \ {w} : worker'[v] = worker[v]
    BY <1>5, <1>a DEF CloseLink
  <2>2. CASE UNCHANGED link
    BY <1>2, <2>1, <2>2
  <2>3. CASE /\ state[k] = "awaiting_payment" /\ link' = [link EXCEPT ![k] = "expired"]
             /\ worker' = [worker EXCEPT ![w] = [at |-> "closing", job |-> k, remind |-> @.remind,
                                                 expire |-> @.expire \ {k}]]
    <3>1. CASE k = j
      <4>1. worker'[w].at = "closing" /\ worker'[w].job = j
        BY <1>a, <2>3, <3>1
      <4>2. w \in Closing(j)'
        BY <4>1 DEF Closing
      <4> QED
        BY <2>1, <2>3, <3>1, <4>2 DEF ClosingIsAtomic
    <3>2. CASE k # j
      <4>1. link'[j] = link[j]
        BY <1>a, <2>3, <3>2
      <4>2. \A v \in Worker : v \in Closing(j) => v \in Closing(j)'
        BY <2>1 DEF Closing
      <4> QED
        BY <1>1, <2>1, <4>1, <4>2
    <3> QED
      BY <3>1, <3>2
  <2> QED
    BY <1>5, <2>2, <2>3 DEF CloseLink
<1>6. ASSUME NEW w \in Worker, KillWorker(w) PROVE ClosingIsAtomic(j)'
  BY <1>6, <1>a DEF KillWorker, ClosingIsAtomic
<1>7. ASSUME NEW k \in Pending, PayPending(k) PROVE ClosingIsAtomic(j)'
  <2>1. /\ UNCHANGED <<link, deaths, worker>> /\ Closing(k) = {} /\ state[k] = "awaiting_payment"
        /\ state' = [state EXCEPT ![k] = "paid"]
    BY <1>7 DEF PayPending, Closing
  <2>2. CASE k = j
    BY <2>1, <2>2 DEF ClosingIsAtomic
  <2>3. CASE k # j
    BY <1>1, <1>a, <2>1, <2>3 DEF Closing
  <2> QED
    BY <2>2, <2>3
<1>8. CASE UNCHANGED <<worker, link, state, deaths>>
  BY <1>1, <1>8 DEF Closing
<1> QED
  BY <1>3, <1>4, <1>5, <1>6, <1>7, <1>8 DEF WorkersNext, GoOn, WorkerTick, workerVars

\* Only a worker that finds the lease run out gets the job, and while no lease
\* has run out under its worker, nobody else gives that lease back.
LEMMA LeaseStep ==
  ASSUME Shapes, [WorkersNext]_workerVars, NEW j \in Pending, LeaseIsHeld(j)
  PROVE  LeaseIsHeld(j)'
<1>a. /\ worker \in [Worker -> WorkerStates] /\ loopClock \in Nat
      /\ leases \in [Pending -> 0..(LoopTime + Lease)]
  BY DEF Shapes, WorkersTypeOK
<1>1. ASSUME leases'[j] = leases[j], loopClock' = loopClock, overran' = overran,
             \A w \in Worker : w \in Advancing(j)' => w \in Advancing(j)
      PROVE  LeaseIsHeld(j)'
  <2>1. Advancing(j)' \subseteq Advancing(j)
    BY <1>1 DEF Advancing
  <2> QED
    BY <1>1, <2>1 DEF LeaseIsHeld
<1>2. ASSUME NEW w \in Worker, UNCHANGED <<leases, loopClock, overran>>,
             \A v \in Worker \ {w} : worker'[v] = worker[v], worker'[w].at # "busy"
      PROVE  LeaseIsHeld(j)'
  BY <1>1, <1>2 DEF Advancing
<1>3. ASSUME NEW w \in Worker,
             \/ StartWorker(w) \/ Resumed(w) \/ Rank(w) \/ EndPass(w) \/ KillWorker(w)
             \/ StartPass(w) \/ CountMail(w) \/ CloseJob(w)
             \/ \E k \in Pending : Resume(w, k)
      PROVE  LeaseIsHeld(j)'
  <2>1. /\ UNCHANGED <<leases, loopClock, overran>>
        /\ \A v \in Worker \ {w} : worker'[v] = worker[v]
        /\ worker'[w].at # "busy"
    BY <1>3, <1>a DEF StartWorker, Resumed, Rank, EndPass, StartPass, CountMail, CloseJob, Resume,
                      KillWorker, Down, Asleep
  <2> QED
    BY <1>2, <2>1
<1>4. ASSUME NEW w \in Worker, NEW k \in Pending, Mail(w, k) \/ CloseLink(w, k)
      PROVE  LeaseIsHeld(j)'
  <2>0. worker[w] = [at |-> "sweeping", expire |-> worker[w].expire, remind |-> worker[w].remind]
    BY <1>4, <1>a, WorkerFields DEF Mail, CloseLink
  <2>1. /\ UNCHANGED <<leases, loopClock, overran>>
        /\ \A v \in Worker \ {w} : worker'[v] = worker[v]
    BY <1>4, <1>a DEF Mail, CloseLink
  <2>2. worker'[w].at # "busy"
    <3>1. ASSUME NEW s \in WorkerStates, s.at # "busy", worker' = [worker EXCEPT ![w] = s]
          PROVE  worker'[w].at # "busy"
      BY <1>a, <3>1
    <3>2. CASE worker' = [worker EXCEPT ![w].remind = @ \ {k}]
      <4>1. worker' = [worker EXCEPT ![w] = [worker[w] EXCEPT !.remind = @ \ {k}]]
        BY <3>2
      <4>2. worker'[w] = [worker[w] EXCEPT !.remind = @ \ {k}]
        BY <1>a, <4>1
      <4> QED
        BY <2>0, <4>2
    <3>3. CASE worker' = [worker EXCEPT ![w].expire = @ \ {k}]
      <4>1. worker' = [worker EXCEPT ![w] = [worker[w] EXCEPT !.expire = @ \ {k}]]
        BY <3>3
      <4>2. worker'[w] = [worker[w] EXCEPT !.expire = @ \ {k}]
        BY <1>a, <4>1
      <4> QED
        BY <2>0, <4>2
    <3>4. CASE worker' = [worker EXCEPT ![w] = [at |-> "closing", job |-> k, remind |-> @.remind,
                                                expire |-> @.expire \ {k}]]
      BY <1>a, <3>4
    <3>5. CASE worker' = [worker EXCEPT ![w] = [at |-> "mailed", job |-> k, expire |-> @.expire,
                                                remind |-> @.remind \ {k}]]
      BY <1>a, <3>5
    <3> QED
      BY <1>4, <3>2, <3>3, <3>4, <3>5 DEF Mail, CloseLink
  <2> QED
    BY <1>2, <2>1, <2>2
<1>5. ASSUME NEW w \in Worker, NEW k \in Pending, Claim(w, k) PROVE LeaseIsHeld(j)'
  <2>0. /\ worker[w] = [at |-> "ranked", queue |-> worker[w].queue]
        /\ UNCHANGED <<loopClock, overran>>
        /\ \A v \in Worker \ {w} : worker'[v] = worker[v]
    BY <1>5, <1>a, WorkerFields DEF Claim
  <2>1. CASE worker' = [worker EXCEPT ![w].queue = @ \ {k}] /\ UNCHANGED leases
    <3>1. worker' = [worker EXCEPT ![w] = [worker[w] EXCEPT !.queue = @ \ {k}]]
      BY <2>1
    <3>2. worker'[w] = [worker[w] EXCEPT !.queue = @ \ {k}]
      BY <1>a, <3>1
    <3>3. worker'[w].at # "busy"
      BY <2>0, <3>2
    <3> QED
      BY <1>2, <2>0, <2>1, <3>3
  <2>2. CASE /\ ~ (leases[k] > loopClock) /\ leases' = [leases EXCEPT ![k] = loopClock + Lease]
             /\ worker' = [worker EXCEPT ![w] =
                              [at |-> "busy", job |-> k, queue |-> @.queue \ {k}]]
    <3>1. worker'[w].at = "busy" /\ worker'[w].job = k
      BY <1>a, <2>2
    <3>2. CASE k = j
      <4>1. leases'[j] > loopClock'
        BY <1>a, <2>0, <2>2, <3>2
      <4>2. j \notin overran => Advancing(j) = {}
        BY <2>2, <3>2 DEF LeaseIsHeld
      <4>3. j \notin overran => \A v \in Advancing(j)' : v = w
        BY <2>0, <4>2 DEF Advancing
      <4> QED
        BY <2>0, <4>1, <4>3 DEF LeaseIsHeld
    <3>3. CASE k # j
      <4>1. leases'[j] = leases[j]
        BY <1>a, <2>2, <3>3
      <4>2. \A v \in Worker : v \in Advancing(j)' => v \in Advancing(j)
        BY <2>0, <3>1, <3>3 DEF Advancing
      <4> QED
        BY <1>1, <2>0, <4>1, <4>2
    <3> QED
      BY <3>2, <3>3
  <2> QED
    BY <1>5, <2>1, <2>2 DEF Claim
<1>6. ASSUME NEW w \in Worker, Release(w) PROVE LeaseIsHeld(j)'
  <2>1. /\ worker[w].job \in Pending /\ UNCHANGED <<loopClock, overran>>
        /\ \A v \in Worker \ {w} : worker'[v] = worker[v]
        /\ leases' = [leases EXCEPT ![worker[w].job] = 0]
        /\ worker[w].at = "busy" /\ worker'[w].at # "busy"
    BY <1>6, <1>a, WorkerFields DEF Release, Down
  <2>2. CASE worker[w].job = j
    <3>1. w \in Advancing(j)
      BY <2>1, <2>2 DEF Advancing
    <3>2. j \notin overran => Advancing(j)' = {}
      BY <2>1, <3>1 DEF LeaseIsHeld, Advancing
    <3> QED
      BY <2>1, <3>2 DEF LeaseIsHeld
  <2>3. CASE worker[w].job # j
    <3>1. leases'[j] = leases[j]
      BY <1>a, <2>1, <2>3
    <3>2. \A v \in Worker : v \in Advancing(j)' => v \in Advancing(j)
      BY <2>1 DEF Advancing
    <3> QED
      BY <1>1, <2>1, <3>1, <3>2
  <2> QED
    BY <2>2, <2>3
<1>7. CASE WorkerTick
  <2>1. UNCHANGED <<leases, worker>> /\ overran \subseteq overran'
        /\ (leases[j] <= loopClock' /\ Advancing(j) # {} => j \in overran')
    BY <1>7 DEF WorkerTick, Advancing
  <2>2. Advancing(j)' = Advancing(j) /\ leases'[j] = leases[j] /\ leases[j] \in Int
        /\ loopClock' \in Int
    BY <1>7, <1>a, <2>1 DEF Advancing, WorkerTick
  <2> QED
    BY <2>1, <2>2 DEF LeaseIsHeld
<1>8. CASE UNCHANGED <<worker, leases, loopClock, overran>>
  BY <1>1, <1>8 DEF Advancing
<1> QED
  BY <1>3, <1>4, <1>5, <1>6, <1>7, <1>8 DEF WorkersNext, GoOn, PayPending, workerVars

-----------------------------------------------------------------------------
(* The theorems.                                                           *)

\* At the start nobody is at anything.
LEMMA WorkersInvInit == WorkersInit => WorkersInv
<1> SUFFICES ASSUME WorkersInit PROVE WorkersInv
  OBVIOUS
<1>1. Shapes
  <2>1. worker \in [Worker -> WorkerStates]
    BY NewStates DEF WorkersInit
  <2>2. \A w \in Worker : worker[w].at = "down"
    BY DEF WorkersInit, Down
  <2> QED
    BY <2>1, <2>2 DEF Shapes, WorkersInit, WorkersTypeOK
<1>2. ASSUME NEW j \in Pending
      PROVE  /\ Reminding(j) = {} /\ Mailing(j) = {} /\ Advancing(j) = {}
             /\ Cardinality(Reminding(j)) = 0 /\ Cardinality(Mailing(j)) = 0
  <2>1. Reminding(j) = {} /\ Mailing(j) = {} /\ Advancing(j) = {}
    BY DEF Reminding, Mailing, Advancing, WorkersInit, Down
  <2> QED
    BY <2>1, FS_EmptySet
<1>3. Cardinality(Worker) \in Nat /\ Cardinality(Worker) # 0
  BY FS_CardinalityType, FS_EmptySet
<1> QED
  BY <1>1, <1>2, <1>3 DEF WorkersInv, MailsAreCounted, MailsAreFew, NoDoubleMail, ClosingIsAtomic,
                          LeaseIsHeld, WorkersInit

\* The strengthened invariant is inductive.
LEMMA WorkersInvStep == WorkersInv /\ [WorkersNext]_workerVars => WorkersInv'
<1> SUFFICES ASSUME WorkersInv, [WorkersNext]_workerVars PROVE WorkersInv'
  OBVIOUS
<1>1. Shapes /\ Shapes'
  BY ShapesStep DEF WorkersInv
<1>2. MailInv
  BY DEF WorkersInv, MailInv
<1>3. MailInv'
  BY <1>1, <1>2, MailStep
<1>4. ASSUME NEW j \in Pending PROVE ClosingIsAtomic(j)' /\ LeaseIsHeld(j)'
  BY <1>1, ClosingStep, LeaseStep DEF WorkersInv
<1> QED
  BY <1>1, <1>3, <1>4 DEF WorkersInv, MailInv

\* Two workers at one job are two members of a set.
LEMMA WorkersInvMeans == WorkersInv => WorkersHold
<1> SUFFICES ASSUME WorkersInv PROVE WorkersHold
  OBVIOUS
<1>1. WorkersTypeOK
  BY DEF WorkersInv, Shapes
<1>2. RemindersHold
  <2> SUFFICES ASSUME NEW j \in Pending
               PROVE  /\ mailed[j] <= MaxReminders + (Cardinality(Worker) - 1) + deaths
                      /\ counted[j] <= mailed[j]
                      /\ link[j] = "expired" /\ deaths = 0 => state[j] # "paid"
    BY DEF RemindersHold
  <2>1. MailsAreCounted(j) /\ MailsAreFew(j) /\ ClosingIsAtomic(j)
    BY DEF WorkersInv
  <2>2. IsFiniteSet(Reminding(j)) /\ IsFiniteSet(Mailing(j))
    <3>1. Reminding(j) \in SUBSET Worker /\ Mailing(j) \in SUBSET Worker
      BY DEF Reminding, Mailing
    <3> QED
      BY <3>1, FS_Subset
  <2>3. /\ Cardinality(Reminding(j)) \in Nat /\ Cardinality(Mailing(j)) \in Nat
        /\ Cardinality(Worker) \in Nat
    BY <2>2, FS_CardinalityType
  <2>4. counted[j] \in Nat /\ mailed[j] \in Nat /\ deaths \in Nat
    BY <1>1 DEF WorkersTypeOK
  <2>5. mailed[j] <= MaxReminders + (Cardinality(Worker) - 1) + deaths
    BY <2>1, <2>3, <2>4 DEF MailsAreFew
  <2>6. counted[j] <= mailed[j]
    BY <2>1, <2>3, <2>4 DEF MailsAreCounted
  <2> QED
    BY <2>1, <2>5, <2>6 DEF ClosingIsAtomic
<1>3. LeasesExclude
  <2> SUFFICES ASSUME NEW j \in Pending, j \notin overran PROVE ~ (Cardinality(Advancing(j)) > 1)
    BY DEF LeasesExclude, Advancing
  <2>1. \A v, w \in Advancing(j) : v = w
    BY DEF WorkersInv, LeaseIsHeld
  <2>2. CASE Advancing(j) = {}
    BY <2>2, FS_EmptySet
  <2>3. ASSUME NEW w \in Advancing(j) PROVE ~ (Cardinality(Advancing(j)) > 1)
    <3>1. Advancing(j) = {w}
      BY <2>1
    <3>2. Cardinality({w}) = 1
      BY FS_Singleton
    <3> QED
      BY <3>1, <3>2
  <2> QED
    BY <2>2, <2>3
<1> QED
  BY <1>1, <1>2, <1>3 DEF WorkersHold

\* However many worker processes run against one treasury, and however often they
\* die: a customer gets at most one reminder more than the policy allows for each
\* other worker and for each death, every one recorded was mailed, a job whose
\* link was closed is not paid afterwards unless a sweep died, and no job has two
\* workers at it that claimed it before its lease ran out under one of them.
THEOREM WorkersAreSafe == WorkersSpec => []WorkersHold
<1>1. WorkersSpec => []WorkersInv
  BY WorkersInvInit, WorkersInvStep, PTL DEF WorkersSpec
<1> QED
  BY <1>1, WorkersInvMeans, PTL

HIDE WorkerAssumption

-----------------------------------------------------------------------------
USE AccessAssumption

(***************************************************************************)
(* Access.  Each message that was counted and is not yet a row took the    *)
(* decision when there was room; so rows and such messages together stay   *)
(* below the limit plus the messages that can be under way.  The same      *)
(* holds of failures and of requests that still read their body.           *)
(***************************************************************************)

\* What a message, an approval and a request know at each step.
GateStates ==
    {Resting} \cup [at : {"counted", "in"}, user : Guest, kind : {"text", "exempt", "start"},
                    since : Moments, banned : {FALSE}]
ApproverStates ==
    {Resting} \cup [at : {"approved"}, user : Guest] \cup [at : {"read"}, list : SUBSET Guest]
KnockStates == {Resting, [at |-> "reading"]}

AccessShapes ==
    /\ AccessTypeOK
    /\ gates \in [Gate -> GateStates] /\ approvers \in [Approver -> ApproverStates]
    /\ knocks \in [Knock -> KnockStates]
    /\ codes \subseteq [id : Nat, user : Guest, until : Nat, approved : BOOLEAN]
    /\ tokens \subseteq [id : Nat, used : BOOLEAN, until : Nat]
    /\ IsFiniteSet(codes) /\ IsFiniteSet(tokens)

\* Messages of a user that are counted and not yet inserted; requests that have
\* asked the limiter and not yet failed.
Counted(u) == {g \in Gate : gates[g].at = "counted" /\ gates[g].user = u}
Reading    == {k \in Knock : knocks[k].at = "reading"}

QuotaInv ==
    \A u \in Guest, q \in Quotas :
        Within(hits[u], accessClock - q.window) + Cardinality(Counted(u))
            <= q.limit + Cardinality(Gate) - 1
FailureInv ==
    Within(failures, accessClock - FailureWindow) + Cardinality(Reading)
        <= MaxFailures + Cardinality(Knock) - 1

\* Approvals under way, and those whose name is on its way into the file.
Working == {v \in Approver : approvers[v] # Resting}
Carries(v, u) ==
    \/ approvers[v].at = "approved" /\ approvers[v].user = u
    \/ approvers[v].at = "read" /\ u \in approvers[v].list

\* Whoever is answered, listed or about to be was approved; without overlap or
\* death one approval at a time carries the name that the file still lacks.
PairingInv ==
    /\ \A a \in answered :
         /\ a.policy # "disabled" /\ ~a.banned
         /\ a.policy = "pairing" => Paired(a.user)
         /\ a.policy = "allowlist" => Paired(a.user) \/ a.user \in Configured
    /\ \A u \in allowlist : Paired(u)
    /\ \A v \in Approver, u \in Guest : Carries(v, u) => Paired(u)
    /\ slips = 0 =>
         /\ \A v, w \in Working : v = w
         /\ \A v \in Working : approvers[v].at = "read" => allowlist \subseteq approvers[v].list
         /\ \A u \in Guest : Paired(u) => u \in allowlist \/ \E v \in Working : Carries(v, u)

\* A token is known by its id, and one that was redeemed is used.
TokenInv ==
    /\ \A t \in tokens : t.id <= Cardinality(tokens) /\ \A s \in tokens : s.id = t.id => s = t
    /\ \A r \in redeemed :
         /\ r.intime
         /\ \E t \in tokens : t.id = r.token /\ t.used
         /\ \A s \in redeemed : s.token = r.token => s = r

AccessInv == AccessShapes /\ QuotaInv /\ FailureInv /\ PairingInv /\ TokenInv

-----------------------------------------------------------------------------
(* Shapes.                                                                 *)

\* What the fields of these records are.
LEMMA GateFields ==
  ASSUME NEW r \in GateStates
  PROVE  /\ r.at \in {"rest", "counted", "in"}
         /\ r.at \in {"counted", "in"} =>
              /\ r.user \in Guest /\ r.since \in Moments /\ r.banned = FALSE
              /\ [r EXCEPT !.at = "in"] \in GateStates /\ [r EXCEPT !.at = "in"].at = "in"
<1>1. CASE r = Resting
  BY <1>1 DEF Resting
<1>2. CASE r \in [at : {"counted", "in"}, user : Guest, kind : {"text", "exempt", "start"},
                  since : Moments, banned : {FALSE}]
  <2>1. /\ r.at \in {"counted", "in"} /\ r.user \in Guest /\ r.since \in Moments /\ r.banned = FALSE
        /\ r = [at |-> r.at, user |-> r.user, kind |-> r.kind, since |-> r.since, banned |-> r.banned]
    BY <1>2
  <2>2. [r EXCEPT !.at = "in"] =
          [at |-> "in", user |-> r.user, kind |-> r.kind, since |-> r.since, banned |-> r.banned]
    BY <2>1
  <2>3. [r EXCEPT !.at = "in"] \in GateStates /\ [r EXCEPT !.at = "in"].at = "in"
    BY <1>2, <2>2 DEF GateStates
  <2> QED
    BY <2>1, <2>3
<1> QED
  BY <1>1, <1>2 DEF GateStates

\* Of an approval.
LEMMA ApproverFields ==
  ASSUME NEW r \in ApproverStates
  PROVE  /\ r.at \in {"rest", "approved", "read"} /\ (r.at = "rest" <=> r = Resting)
         /\ r.at = "approved" => r.user \in Guest
         /\ r.at = "read" => r.list \in SUBSET Guest
  BY DEF ApproverStates, Resting

\* Approving a code changes nothing else of it.
LEMMA CodeFields ==
  ASSUME NEW c, c \in [id : Nat, user : Guest, until : Nat, approved : BOOLEAN]
  PROVE  LET d == [c EXCEPT !.approved = TRUE]
         IN  /\ d \in [id : Nat, user : Guest, until : Nat, approved : BOOLEAN]
             /\ d.user = c.user /\ d.approved
  OBVIOUS

\* Nor does using up a token.
LEMMA TokenFields ==
  ASSUME NEW t, t \in [id : Nat, used : BOOLEAN, until : Nat]
  PROVE  LET d == [t EXCEPT !.used = TRUE]
         IN  d \in [id : Nat, used : BOOLEAN, until : Nat] /\ d.id = t.id /\ d.used
  OBVIOUS

\* All rest at the start.
LEMMA AccessShapesInit == AccessInit => AccessShapes
<1> SUFFICES ASSUME AccessInit PROVE AccessShapes
  OBVIOUS
<1>1. /\ gates \in [Gate -> GateStates] /\ approvers \in [Approver -> ApproverStates]
      /\ knocks \in [Knock -> KnockStates]
  BY DEF AccessInit, GateStates, ApproverStates, KnockStates
<1>2. /\ \A g \in Gate : gates[g].at = "rest"
      /\ \A v \in Approver : approvers[v].at = "rest"
      /\ \A k \in Knock : knocks[k].at = "rest"
  BY DEF AccessInit, Resting
<1>3. /\ accessClock \in Moments /\ slips \in 0..MaxSlips
      /\ hits \in [Guest -> [Moments -> Nat]] /\ bans \in [Guest -> 0..(AccessTime + BanTime)]
      /\ failures \in [Moments -> Nat]
  BY DEF AccessInit, Moments
<1> QED
  BY <1>1, <1>2, <1>3, FS_EmptySet DEF AccessShapes, AccessTypeOK, AccessInit

\* Every record a step makes is one of these.
LEMMA AccessShapesStep == AccessShapes /\ [AccessNext]_accessVars => AccessShapes'
<1> SUFFICES ASSUME AccessShapes, [AccessNext]_accessVars PROVE AccessShapes'
  OBVIOUS
<1> DEFINE CodeStates  == [id : Nat, user : Guest, until : Nat, approved : BOOLEAN]
           TokenStates == [id : Nat, used : BOOLEAN, until : Nat]
<1>a. /\ accessClock \in Moments /\ dmPolicy \in Policies /\ slips \in 0..MaxSlips
      /\ hits \in [Guest -> [Moments -> Nat]] /\ bans \in [Guest -> 0..(AccessTime + BanTime)]
      /\ codes \subseteq CodeStates /\ allowlist \subseteq Guest /\ failures \in [Moments -> Nat]
      /\ tokens \subseteq TokenStates
      /\ gates \in [Gate -> GateStates] /\ approvers \in [Approver -> ApproverStates]
      /\ knocks \in [Knock -> KnockStates] /\ IsFiniteSet(codes) /\ IsFiniteSet(tokens)
  BY DEF AccessShapes, AccessTypeOK
<1>b. ASSUME /\ accessClock' \in Moments /\ dmPolicy' \in Policies
             /\ hits' \in [Guest -> [Moments -> Nat]]
             /\ bans' \in [Guest -> 0..(AccessTime + BanTime)]
             /\ gates' \in [Gate -> GateStates],
             /\ slips' \in 0..MaxSlips /\ codes' \subseteq CodeStates /\ allowlist' \subseteq Guest
             /\ approvers' \in [Approver -> ApproverStates],
             /\ failures' \in [Moments -> Nat] /\ tokens' \subseteq TokenStates
             /\ knocks' \in [Knock -> KnockStates] /\ IsFiniteSet(codes') /\ IsFiniteSet(tokens')
      PROVE  AccessShapes'
  <2>1. /\ \A g \in Gate : gates'[g].at \in {"rest", "counted", "in"}
        /\ \A v \in Approver : approvers'[v].at \in {"rest", "approved", "read"}
        /\ \A k \in Knock : knocks'[k].at \in {"rest", "reading"}
    <3>1. ASSUME NEW g \in Gate PROVE gates'[g].at \in {"rest", "counted", "in"}
      <4>1. gates'[g] \in GateStates
        BY <1>b
      <4> QED
        BY <4>1, GateFields
    <3>2. ASSUME NEW v \in Approver PROVE approvers'[v].at \in {"rest", "approved", "read"}
      <4>1. approvers'[v] \in ApproverStates
        BY <1>b
      <4> QED
        BY <4>1, ApproverFields
    <3>3. \A k \in Knock : knocks'[k].at \in {"rest", "reading"}
      BY <1>b DEF KnockStates, Resting
    <3> QED
      BY <3>1, <3>2, <3>3
  <2>2. /\ \A c \in codes' : c.user \in Guest /\ c.until \in Nat /\ c.approved \in BOOLEAN
        /\ \A t \in tokens' : t.until \in Nat /\ t.used \in BOOLEAN
    BY <1>b
  <2> QED
    BY <1>b, <2>1, <2>2 DEF AccessShapes, AccessTypeOK
<1>c. accessClock \in Nat /\ accessClock <= AccessTime
  BY <1>a DEF Moments
<1> HIDE DEF CodeStates, TokenStates
<1>1. ASSUME NEW g \in Gate, NEW u \in Guest, NEW kind \in {"text", "exempt", "start"},
             Arrive(g, u, kind)
      PROVE  AccessShapes'
  <2>1. [at |-> IF kind = "exempt" THEN "in" ELSE "counted", user |-> u, kind |-> kind,
         since |-> accessClock, banned |-> bans[u] > accessClock] \in GateStates
    <3>1. (bans[u] > accessClock) = FALSE
      BY <1>1 DEF Arrive, Banned
    <3>2. (IF kind = "exempt" THEN "in" ELSE "counted") \in {"counted", "in"}
      OBVIOUS
    <3> QED
      BY <1>a, <3>1, <3>2 DEF GateStates
  <2> QED
    BY <1>1, <1>a, <1>b, <2>1 DEF Arrive, pairVars, tokenVars
<1>2. ASSUME NEW g \in Gate, CountIn(g) PROVE AccessShapes'
  <2>1. gates[g].user \in Guest /\ gates[g].since \in Moments
        /\ [gates[g] EXCEPT !.at = "in"] \in GateStates
    BY <1>2, <1>a, GateFields DEF CountIn
  <2>2. gates' = [gates EXCEPT ![g] = [gates[g] EXCEPT !.at = "in"]]
    BY <1>2 DEF CountIn
  <2>3. gates' \in [Gate -> GateStates]
    BY <1>a, <2>1, <2>2
  <2>4. hits' \in [Guest -> [Moments -> Nat]]
    BY <1>2, <1>a, <2>1 DEF CountIn
  <2> QED
    BY <1>2, <1>a, <1>b, <2>3, <2>4 DEF CountIn, pairVars, tokenVars
<1>3. ASSUME NEW g \in Gate, Admit(g) PROVE AccessShapes'
  <2> DEFINE u == gates[g].user
             new == [id |-> Cardinality(codes) + 1, user |-> u,
                     until |-> accessClock + CodeLife, approved |-> FALSE]
  <2>1. u \in Guest
    BY <1>3, <1>a, GateFields DEF Admit
  <2>2. codes' = codes \/ codes' = codes \cup {new}
    BY <1>3 DEF Admit
  <2>3. codes' \subseteq CodeStates /\ IsFiniteSet(codes')
    <3>1. Cardinality(codes) \in Nat
      BY <1>a, FS_CardinalityType
    <3>2. new \in CodeStates
      BY <1>c, <2>1, <3>1 DEF CodeStates
    <3> HIDE DEF new
    <3>3. IsFiniteSet(codes \cup {new})
      BY <1>a, FS_AddElement
    <3> QED
      BY <1>a, <2>2, <3>2, <3>3
  <2>4. gates' \in [Gate -> GateStates]
    BY <1>3, <1>a DEF Admit, GateStates
  <2> QED
    BY <1>3, <1>a, <1>b, <2>3, <2>4 DEF Admit, tokenVars
<1>4. ASSUME NEW u \in Guest, Ban(u) \/ Unban(u) PROVE AccessShapes'
  <2>1. accessClock + BanTime \in 0..(AccessTime + BanTime) /\ 0 \in 0..(AccessTime + BanTime)
    BY <1>c
  <2>2. bans' \in [Guest -> 0..(AccessTime + BanTime)]
    BY <1>4, <1>a, <2>1 DEF Ban, Unban
  <2> QED
    BY <1>4, <1>a, <1>b, <2>2 DEF Ban, Unban, pairVars, tokenVars
<1>5. ASSUME CleanUp PROVE AccessShapes'
  <2>1. hits' \in [Guest -> [Moments -> Nat]]
    BY <1>5, <1>a DEF CleanUp
  <2>2. bans' \in [Guest -> 0..(AccessTime + BanTime)]
    BY <1>5, <1>a DEF CleanUp
  <2> QED
    BY <1>5, <1>a, <1>b, <2>1, <2>2 DEF CleanUp, pairVars, tokenVars
<1>6. ASSUME NEW v \in Approver, NEW c \in codes, Approve(v, c) PROVE AccessShapes'
  <2>1. c.user \in Guest /\ [c EXCEPT !.approved = TRUE] \in CodeStates
    BY <1>a, CodeFields DEF CodeStates
  <2>2. codes' \subseteq CodeStates /\ IsFiniteSet(codes')
    <3>1. IsFiniteSet(codes \ {c})
      BY <1>a, FS_RemoveElement
    <3>2. IsFiniteSet((codes \ {c}) \cup {[c EXCEPT !.approved = TRUE]})
      BY <3>1, FS_AddElement
    <3> QED
      BY <1>6, <1>a, <2>1, <3>2 DEF Approve
  <2>3. approvers' \in [Approver -> ApproverStates]
    BY <1>6, <1>a, <2>1 DEF Approve, ApproverStates
  <2>4. slips' \in 0..MaxSlips
    BY <1>6, <1>a DEF Approve
  <2> QED
    BY <1>6, <1>a, <1>b, <2>2, <2>3, <2>4 DEF Approve, gateVars, tokenVars
<1>7. ASSUME NEW v \in Approver, ReadList(v) PROVE AccessShapes'
  <2>1. allowlist \cup {approvers[v].user} \in SUBSET Guest
    BY <1>7, <1>a, ApproverFields DEF ReadList
  <2>2. approvers' \in [Approver -> ApproverStates]
    BY <1>7, <1>a, <2>1 DEF ReadList, ApproverStates
  <2> QED
    BY <1>7, <1>a, <1>b, <2>2 DEF ReadList, gateVars, tokenVars
<1>8. ASSUME NEW v \in Approver, WriteList(v) \/ DieApproving(v) PROVE AccessShapes'
  <2>1. allowlist' \subseteq Guest
    BY <1>8, <1>a, ApproverFields DEF WriteList, DieApproving
  <2>2. approvers' \in [Approver -> ApproverStates]
    BY <1>8, <1>a DEF WriteList, DieApproving, ApproverStates
  <2>3. slips' \in 0..MaxSlips
    BY <1>8, <1>a DEF WriteList, DieApproving
  <2> QED
    BY <1>8, <1>a, <1>b, <2>1, <2>2, <2>3 DEF WriteList, DieApproving, gateVars, tokenVars
<1>9. ASSUME Mint PROVE AccessShapes'
  <2> DEFINE new == [id |-> Cardinality(tokens) + 1, used |-> FALSE, until |-> accessClock + TokenLife]
  <2>1. Cardinality(tokens) \in Nat
    BY <1>a, FS_CardinalityType
  <2>2. new \in TokenStates
    BY <1>c, <2>1 DEF TokenStates
  <2>3. tokens' = tokens \cup {new}
    BY <1>9 DEF Mint
  <2> HIDE DEF new
  <2>4. tokens' \subseteq TokenStates /\ IsFiniteSet(tokens')
    BY <1>a, <2>2, <2>3, FS_AddElement
  <2> QED
    BY <1>9, <1>a, <1>b, <2>4 DEF Mint, gateVars, pairVars
<1>10. ASSUME NEW k \in Knock, Ask(k) \/ Fail(k) PROVE AccessShapes'
  <2>1. knocks' \in [Knock -> KnockStates]
    BY <1>10, <1>a DEF Ask, Fail, KnockStates
  <2>2. failures' \in [Moments -> Nat]
    BY <1>10, <1>a DEF Ask, Fail
  <2> QED
    BY <1>10, <1>a, <1>b, <2>1, <2>2 DEF Ask, Fail, gateVars, pairVars
<1>11. ASSUME NEW k \in Knock, NEW t \in tokens, Redeem(k, t) PROVE AccessShapes'
  <2>1. [t EXCEPT !.used = TRUE] \in TokenStates
    BY <1>a, TokenFields DEF TokenStates
  <2>2. tokens' \subseteq TokenStates /\ knocks' \in [Knock -> KnockStates]
    BY <1>11, <1>a, <2>1 DEF Redeem, KnockStates
  <2>3. IsFiniteSet(tokens')
    <3>1. IsFiniteSet(tokens \ {t})
      BY <1>a, FS_RemoveElement
    <3>2. IsFiniteSet((tokens \ {t}) \cup {[t EXCEPT !.used = TRUE]})
      BY <3>1, FS_AddElement
    <3> QED
      BY <1>11, <3>2 DEF Redeem
  <2> QED
    BY <1>11, <1>a, <1>b, <2>2, <2>3 DEF Redeem, gateVars, pairVars
<1>12. ASSUME AccessTick PROVE AccessShapes'
  <2>1. accessClock' \in Moments
    BY <1>12, <1>a, <1>c DEF AccessTick, Moments
  <2> QED
    BY <1>12, <1>a, <1>b, <2>1 DEF AccessTick, gateVars, pairVars, tokenVars
<1>13. ASSUME UNCHANGED accessVars PROVE AccessShapes'
  BY <1>13, <1>a, <1>b DEF accessVars, gateVars, pairVars, tokenVars
<1> HIDE DEF AccessShapes
<1> QED
  BY <1>1, <1>2, <1>3, <1>4, <1>5, <1>6, <1>7, <1>8, <1>9, <1>10, <1>11, <1>12, <1>13
     DEF AccessNext, DoorNext, BansNext, ApprovalsNext, TokensNext

-----------------------------------------------------------------------------
(* Quotas and failures.                                                    *)

\* A window counts a natural number of rows.
LEMMA WithinType ==
  ASSUME NEW counts \in [Moments -> Nat], NEW since \in Int
  PROVE  Within(counts, since) \in Nat
<1>1. IsFiniteSet(Moments)
  BY FS_Interval DEF Moments
<1>2. IsFiniteSet({m \in Moments : m >= since})
  BY <1>1, FS_Subset
<1> QED
  BY <1>2, SumNat DEF Within

\* With time a window counts no more, nor when rows are deleted.
LEMMA WithinLess ==
  ASSUME NEW counts \in [Moments -> Nat], NEW fewer \in [Moments -> Nat],
         \A m \in Moments : fewer[m] <= counts[m],
         NEW since \in Int, NEW later \in Int, since <= later
  PROVE  Within(fewer, later) <= Within(counts, since)
<1> DEFINE S == {m \in Moments : m >= since}
           T == {m \in Moments : m >= later}
<1>1. IsFiniteSet(Moments)
  BY FS_Interval DEF Moments
<1>2. IsFiniteSet(S) /\ IsFiniteSet(T) /\ S \subseteq Moments
  BY <1>1, FS_Subset
<1>3. T \in SUBSET S
  BY DEF Moments
<1>4. Within(fewer, later) = SumFunctionOnSet(fewer, T)
      /\ Within(counts, since) = SumFunctionOnSet(counts, S)
  BY DEF Within
<1>a. \A m \in S : fewer[m] \in Nat /\ counts[m] \in Nat /\ fewer[m] <= counts[m]
  OBVIOUS
<1> HIDE DEF S, T
<1>5. SumFunctionOnSet(fewer, T) <= SumFunctionOnSet(fewer, S)
  BY <1>2, <1>3, <1>a, SumSubset
<1>6. SumFunctionOnSet(fewer, S) <= SumFunctionOnSet(counts, S)
  BY <1>2, <1>a, SumMonotone
<1>7. /\ SumFunctionOnSet(fewer, T) \in Int /\ SumFunctionOnSet(fewer, S) \in Int
      /\ SumFunctionOnSet(counts, S) \in Int
  <2>1. \A m \in S : fewer[m] \in Int /\ counts[m] \in Int
    BY <1>a
  <2>2. \A m \in T : fewer[m] \in Int
    BY <1>3, <2>1
  <2> QED
    BY <1>2, <2>1, <2>2, SumType
<1> QED
  BY <1>4, <1>5, <1>6, <1>7

\* One row more is at most one more in the window.
LEMMA WithinOne ==
  ASSUME NEW counts \in [Moments -> Nat], NEW x \in Moments, NEW since \in Int
  PROVE  Within([counts EXCEPT ![x] = @ + 1], since) <= Within(counts, since) + 1
<1> DEFINE S == {m \in Moments : m >= since}
           more == [counts EXCEPT ![x] = @ + 1]
<1>1. IsFiniteSet(S)
  <2>1. IsFiniteSet(Moments)
    BY FS_Interval DEF Moments
  <2> QED
    BY <2>1, FS_Subset
<1>2. /\ \A m \in S : counts[m] \in Int /\ more[m] \in Int
      /\ \A m \in S \ {x} : counts[m] = more[m]
      /\ more[x] = counts[x] + 1 /\ counts[x] \in Int
  OBVIOUS
<1>3. Within(more, since) = SumFunctionOnSet(more, S)
      /\ Within(counts, since) = SumFunctionOnSet(counts, S)
  BY DEF Within
<1> HIDE DEF S, more
<1>4. SumFunctionOnSet(counts, S) \in Int
  BY <1>1, <1>2, SumType
<1>5. CASE x \in S
  <2>1. SumFunctionOnSet(more, S) = SumFunctionOnSet(counts, S) + more[x] - counts[x]
    BY <1>1, <1>2, <1>5, SumChange
  <2> QED
    BY <1>2, <1>3, <1>4, <2>1 DEF more
<1>6. CASE x \notin S
  <2>1. \A m \in S : counts[m] \in Int /\ counts[m] = more[m]
    BY <1>2, <1>6
  <2>2. SumFunctionOnSet(counts, S) = SumFunctionOnSet(more, S)
    BY <1>1, <2>1, SumEqual
  <2> QED
    BY <1>3, <1>4, <2>2 DEF more
<1> QED
  BY <1>5, <1>6

\* Rows and counted messages together stay below the quota, give or take the
\* messages that can be under way.
LEMMA QuotaStep == AccessShapes /\ QuotaInv /\ [AccessNext]_accessVars => QuotaInv'
<1> SUFFICES ASSUME AccessShapes, QuotaInv, [AccessNext]_accessVars,
                    NEW u \in Guest, NEW q \in Quotas
             PROVE  Within(hits[u], accessClock - q.window)' + Cardinality(Counted(u)')
                      <= q.limit + Cardinality(Gate) - 1
  BY DEF QuotaInv
<1> DEFINE since == accessClock - q.window
<1>a. /\ accessClock \in Nat /\ accessClock' \in Nat /\ q.window \in Nat /\ q.limit \in Nat
      /\ hits[u] \in [Moments -> Nat] /\ hits'[u] \in [Moments -> Nat]
      /\ hits \in [Guest -> [Moments -> Nat]]
      /\ gates \in [Gate -> GateStates] /\ since \in Int /\ since' \in Int
  <2>1. AccessShapes'
    BY AccessShapesStep
  <2>2. /\ hits \in [Guest -> [Moments -> Nat]] /\ hits' \in [Guest -> [Moments -> Nat]]
        /\ gates \in [Gate -> GateStates] /\ accessClock \in Moments /\ accessClock' \in Moments
    BY <2>1 DEF AccessShapes, AccessTypeOK, Moments
  <2>3. /\ accessClock \in Nat /\ accessClock' \in Nat /\ q.window \in Nat /\ q.limit \in Nat
    BY <2>2 DEF Moments
  <2> QED
    BY <2>2, <2>3
<1>b. /\ IsFiniteSet(Counted(u)) /\ IsFiniteSet(Counted(u)') /\ Cardinality(Counted(u)) \in Nat
      /\ Cardinality(Counted(u)') \in Nat /\ Cardinality(Counted(u)') <= Cardinality(Gate)
      /\ Cardinality(Gate) \in Nat
  <2>1. Counted(u) \in SUBSET Gate /\ Counted(u)' \in SUBSET Gate
    BY DEF Counted
  <2> QED
    BY <2>1, FS_Subset, FS_CardinalityType
<1>c. /\ Within(hits[u], since) \in Nat
      /\ Within(hits[u], since) + Cardinality(Counted(u)) <= q.limit + Cardinality(Gate) - 1
  BY <1>a, WithinType DEF QuotaInv
<1>d. Within(hits[u], since)' = Within(hits'[u], since')
  BY DEF Within
<1>e. Within(hits'[u], since') \in Nat
  BY <1>a, WithinType
<1> HIDE DEF since
<1>1. ASSUME \A m \in Moments : hits'[u][m] <= hits[u][m], accessClock' >= accessClock,
             \A g \in Gate : g \in Counted(u)' => g \in Counted(u)
      PROVE  Within(hits'[u], since') + Cardinality(Counted(u)') <= q.limit + Cardinality(Gate) - 1
  <2>1. Within(hits'[u], since') <= Within(hits[u], since)
    <3>1. since <= since'
      BY <1>1, <1>a DEF since
    <3> QED
      BY <1>1, <1>a, <3>1, WithinLess
  <2>2. Cardinality(Counted(u)') <= Cardinality(Counted(u))
    <3>1. Counted(u)' \subseteq Counted(u)
      BY <1>1 DEF Counted
    <3> QED
      BY <1>b, <3>1, FS_Subset
  <2> QED
    BY <1>a, <1>b, <1>c, <1>e, <2>1, <2>2
<1>f. \A m \in Moments : hits[u][m] <= hits[u][m]
  BY <1>a
<1>2. ASSUME NEW g \in Gate, NEW v \in Guest, NEW kind \in {"text", "exempt", "start"},
             Arrive(g, v, kind)
      PROVE  Within(hits'[u], since') + Cardinality(Counted(u)') <= q.limit + Cardinality(Gate) - 1
  <2>1. /\ hits' = hits /\ accessClock' = accessClock
        /\ \A h \in Gate \ {g} : gates'[h] = gates[h]
        /\ gates'[g].at = (IF kind = "exempt" THEN "in" ELSE "counted") /\ gates'[g].user = v
        /\ kind # "exempt" => ~ OverQuota(v)
    BY <1>2, <1>a DEF Arrive
  <2>2. CASE g \in Counted(u)'
    <3>1. v = u /\ kind # "exempt"
      BY <2>1, <2>2 DEF Counted
    <3>2. ~ (Within(hits[u], since) >= q.limit)
      BY <2>1, <3>1 DEF OverQuota, since
    <3>3. since' = since
      BY <2>1 DEF since
    <3> QED
      BY <1>a, <1>b, <1>c, <2>1, <3>2, <3>3
  <2>3. CASE g \notin Counted(u)'
    <3>1. \A h \in Gate : h \in Counted(u)' => h \in Counted(u)
      BY <2>1, <2>3 DEF Counted
    <3> QED
      BY <1>1, <1>a, <1>f, <2>1, <3>1
  <2> QED
    BY <2>2, <2>3
<1>3. ASSUME NEW g \in Gate, CountIn(g)
      PROVE  Within(hits'[u], since') + Cardinality(Counted(u)') <= q.limit + Cardinality(Gate) - 1
  <2>0. gates' = [gates EXCEPT ![g] = [gates[g] EXCEPT !.at = "in"]]
    BY <1>3 DEF CountIn
  <2>1. /\ gates[g].user \in Guest /\ gates[g].since \in Moments /\ gates[g].at = "counted"
        /\ accessClock' = accessClock /\ gates'[g].at = "in"
        /\ \A h \in Gate \ {g} : gates'[h] = gates[h]
    <3>1. gates[g].at = "counted" /\ accessClock' = accessClock /\ gates[g] \in GateStates
      BY <1>3, <1>a DEF CountIn
    <3>2. gates[g].user \in Guest /\ gates[g].since \in Moments
      BY <3>1, GateFields
    <3>3. [gates[g] EXCEPT !.at = "in"].at = "in"
      BY <3>1, GateFields
    <3> QED
      BY <1>a, <2>0, <3>1, <3>2, <3>3
  <2>2. CASE gates[g].user = u
    <3>1. hits'[u] = [hits[u] EXCEPT ![gates[g].since] = @ + 1]
      BY <1>3, <1>a, <2>1, <2>2 DEF CountIn
    <3>2. Within(hits'[u], since) <= Within(hits[u], since) + 1
      BY <1>a, <2>1, <3>1, WithinOne
    <3>3. Counted(u)' = Counted(u) \ {g} /\ g \in Counted(u)
      BY <2>1, <2>2 DEF Counted
    <3>4. Cardinality(Counted(u)') = Cardinality(Counted(u)) - 1
      BY <1>b, <3>3, FS_RemoveElement
    <3>5. since' = since
      BY <2>1 DEF since
    <3> QED
      BY <1>a, <1>b, <1>c, <1>e, <3>2, <3>4, <3>5
  <2>3. CASE gates[g].user # u
    <3>1. hits'[u] = hits[u]
      BY <1>3, <1>a, <2>1, <2>3 DEF CountIn
    <3>2. \A h \in Gate : h \in Counted(u)' => h \in Counted(u)
      BY <2>1 DEF Counted
    <3> QED
      BY <1>1, <1>a, <1>f, <2>1, <3>1, <3>2
  <2> QED
    BY <2>2, <2>3
<1>4. ASSUME NEW g \in Gate, Admit(g)
      PROVE  Within(hits'[u], since') + Cardinality(Counted(u)') <= q.limit + Cardinality(Gate) - 1
  <2>1. /\ hits' = hits /\ accessClock' = accessClock
        /\ \A h \in Gate : h \in Counted(u)' => h \in Counted(u)
    BY <1>4, <1>a DEF Admit, Counted, Resting
  <2> QED
    BY <1>1, <1>a, <1>f, <2>1
<1>5. ASSUME CleanUp
      PROVE  Within(hits'[u], since') + Cardinality(Counted(u)') <= q.limit + Cardinality(Gate) - 1
  <2>1. accessClock' = accessClock /\ Counted(u)' = Counted(u)
    BY <1>5 DEF CleanUp, Counted
  <2>2. \A m \in Moments : hits'[u][m] \in {0, hits[u][m]} /\ hits[u][m] \in Nat
    BY <1>5, <1>a DEF CleanUp
  <2>3. \A m \in Moments : hits'[u][m] <= hits[u][m]
    BY <2>2
  <2> QED
    BY <1>1, <1>a, <2>1, <2>3
<1>6. ASSUME UNCHANGED <<hits, gates>>, accessClock' >= accessClock
      PROVE  Within(hits'[u], since') + Cardinality(Counted(u)') <= q.limit + Cardinality(Gate) - 1
  BY <1>1, <1>6, <1>f DEF Counted
<1>7. accessClock >= accessClock /\ (accessClock' = accessClock + 1 => accessClock' >= accessClock)
  BY <1>a
<1>8. CASE \/ AccessTick \/ ApprovalsNext \/ TokensNext \/ UNCHANGED accessVars
           \/ \E v \in Guest : Ban(v) \/ Unban(v)
  <2>1. UNCHANGED <<hits, gates>> /\ accessClock' \in {accessClock, accessClock + 1}
    BY <1>8 DEF AccessTick, ApprovalsNext, TokensNext, ReadList, WriteList, DieApproving, Approve,
                Mint, Ask, Fail, Redeem, Ban, Unban, accessVars, gateVars
  <2> QED
    BY <1>6, <1>7, <1>d, <2>1 DEF since
<1> QED
  BY <1>2, <1>3, <1>4, <1>5, <1>8, <1>d DEF since, AccessNext, DoorNext, BansNext

\* So do failures and requests that still read their body.
LEMMA FailureStep == AccessShapes /\ FailureInv /\ [AccessNext]_accessVars => FailureInv'
<1> SUFFICES ASSUME AccessShapes, FailureInv, [AccessNext]_accessVars PROVE FailureInv'
  OBVIOUS
<1> DEFINE since == accessClock - FailureWindow
<1>a. /\ accessClock \in Nat /\ accessClock' \in Nat /\ accessClock \in Moments
      /\ failures \in [Moments -> Nat] /\ failures' \in [Moments -> Nat]
      /\ knocks \in [Knock -> KnockStates] /\ since \in Int /\ since' \in Int
  <2>1. AccessShapes'
    BY AccessShapesStep
  <2>2. /\ failures \in [Moments -> Nat] /\ failures' \in [Moments -> Nat]
        /\ knocks \in [Knock -> KnockStates] /\ accessClock \in Moments /\ accessClock' \in Moments
    BY <2>1 DEF AccessShapes, AccessTypeOK, Moments
  <2>3. accessClock \in Nat /\ accessClock' \in Nat
    BY <2>2 DEF Moments
  <2> QED
    BY <2>2, <2>3
<1>b. /\ IsFiniteSet(Reading) /\ IsFiniteSet(Reading') /\ Cardinality(Reading) \in Nat
      /\ Cardinality(Reading') \in Nat /\ Cardinality(Reading') <= Cardinality(Knock)
      /\ Cardinality(Knock) \in Nat
  <2>1. Reading \in SUBSET Knock /\ Reading' \in SUBSET Knock
    BY DEF Reading
  <2> QED
    BY <2>1, FS_Subset, FS_CardinalityType
<1>c. /\ Within(failures, since) \in Nat
      /\ Within(failures, since) + Cardinality(Reading) <= MaxFailures + Cardinality(Knock) - 1
  BY <1>a, WithinType DEF FailureInv
<1>d. Within(failures, since)' = Within(failures', since')
  BY DEF Within
<1>e. Within(failures', since') \in Nat
  BY <1>a, WithinType
<1>f. \A m \in Moments : failures[m] <= failures[m]
  BY <1>a
<1>g. FailureInv' <=>
        Within(failures', since') + Cardinality(Reading') <= MaxFailures + Cardinality(Knock) - 1
  BY <1>d DEF FailureInv
<1> HIDE DEF since
<1>1. ASSUME failures' = failures, accessClock' >= accessClock,
             \A k \in Knock : k \in Reading' => k \in Reading
      PROVE  FailureInv'
  <2>1. Within(failures', since') <= Within(failures, since)
    <3>0. FailureWindow \in Nat
      OBVIOUS
    <3>a. since = accessClock - FailureWindow /\ since' = accessClock' - FailureWindow
      BY DEF since
    <3>b. accessClock \in Nat /\ accessClock' \in Nat /\ accessClock' >= accessClock
      BY <1>1, <1>a
    <3>c. \A m, n, o \in Nat : n >= m => m - o <= n - o
      OBVIOUS
    <3>d. accessClock - FailureWindow <= accessClock' - FailureWindow
      BY <3>0, <3>b, <3>c
    <3>1. since <= since'
      BY <3>a, <3>d
    <3> QED
      BY <1>1, <1>a, <1>f, <3>1, WithinLess
  <2>2. Cardinality(Reading') <= Cardinality(Reading)
    <3>1. Reading' \subseteq Reading
      BY <1>1 DEF Reading
    <3> QED
      BY <1>b, <3>1, FS_Subset
  <2> QED
    BY <1>a, <1>b, <1>c, <1>e, <1>g, <2>1, <2>2
<1>2. ASSUME NEW k \in Knock, Ask(k) PROVE FailureInv'
  <2>1. failures' = failures /\ since' = since
    BY <1>2 DEF Ask, since
  <2>2. ~ (Within(failures, since) >= MaxFailures)
    BY <1>2 DEF Ask, Blocked, since
  <2> QED
    BY <1>a, <1>b, <1>c, <1>g, <2>1, <2>2
<1>3. ASSUME NEW k \in Knock, Fail(k) PROVE FailureInv'
  <2>1. /\ knocks[k].at = "reading" /\ knocks' = [knocks EXCEPT ![k] = Resting]
        /\ failures' = [failures EXCEPT ![accessClock] = @ + 1] /\ accessClock' = accessClock
    BY <1>3 DEF Fail
  <2>2. Within(failures', since) <= Within(failures, since) + 1
    BY <1>a, <2>1, WithinOne
  <2>3. Reading' = Reading \ {k} /\ k \in Reading
    BY <1>a, <2>1 DEF Reading, Resting
  <2>4. Cardinality(Reading') = Cardinality(Reading) - 1
    BY <1>b, <2>3, FS_RemoveElement
  <2>5. since' = since
    BY <2>1 DEF since
  <2> QED
    BY <1>a, <1>b, <1>c, <1>e, <1>g, <2>2, <2>4, <2>5
<1>4. ASSUME NEW k \in Knock, NEW t \in tokens, Redeem(k, t) PROVE FailureInv'
  <2>1. /\ failures' = failures /\ accessClock' = accessClock
        /\ knocks' = [knocks EXCEPT ![k] = Resting]
    BY <1>4 DEF Redeem
  <2>2. \A l \in Knock : l \in Reading' => l \in Reading
    BY <1>a, <2>1 DEF Reading, Resting
  <2> QED
    BY <1>1, <1>a, <2>1, <2>2
<1>5. CASE UNCHANGED <<failures, knocks>> /\ accessClock' \in {accessClock, accessClock + 1}
  BY <1>1, <1>5, <1>a DEF Reading
<1>6. CASE \/ AccessTick \/ BansNext \/ ApprovalsNext \/ Mint \/ UNCHANGED accessVars
           \/ DoorNext(Guest, {"text", "exempt", "start"})
  <2>1. CASE AccessTick \/ Mint \/ UNCHANGED accessVars
    BY <1>5, <2>1 DEF AccessTick, Mint, accessVars, tokenVars
  <2>2. CASE BansNext
    BY <1>5, <2>2 DEF BansNext, CleanUp, Ban, Unban, tokenVars
  <2>3. CASE ApprovalsNext
    BY <1>5, <2>3 DEF ApprovalsNext, ReadList, WriteList, DieApproving, Approve, tokenVars
  <2>4. CASE DoorNext(Guest, {"text", "exempt", "start"})
    BY <1>5, <2>4 DEF DoorNext, AccessTick, CountIn, Admit, Arrive, tokenVars
  <2> QED
    BY <1>6, <2>1, <2>2, <2>3, <2>4
<1> QED
  BY <1>2, <1>3, <1>4, <1>6 DEF AccessNext, TokensNext

-----------------------------------------------------------------------------
(* Pairing.                                                                *)

\* Who is let in, listed or on the way into the list was approved.
LEMMA PairingStep == AccessShapes /\ PairingInv /\ [AccessNext]_accessVars => PairingInv'
<1> SUFFICES ASSUME AccessShapes, PairingInv, [AccessNext]_accessVars PROVE PairingInv'
  OBVIOUS
<1>a. /\ codes \subseteq [id : Nat, user : Guest, until : Nat, approved : BOOLEAN]
      /\ gates \in [Gate -> GateStates] /\ approvers \in [Approver -> ApproverStates]
      /\ dmPolicy \in Policies /\ allowlist \subseteq Guest /\ slips \in Nat
  BY DEF AccessShapes, AccessTypeOK
<1>1. ASSUME UNCHANGED <<codes, answered, allowlist, approvers, slips>> PROVE PairingInv'
  BY <1>1 DEF PairingInv, Paired, Carries, Working
<1>2. ASSUME NEW g \in Gate, Admit(g) PROVE PairingInv'
  <2> DEFINE u == gates[g].user
             new == [id |-> Cardinality(codes) + 1, user |-> u,
                     until |-> accessClock + CodeLife, approved |-> FALSE]
             a == [user |-> u, policy |-> dmPolicy, banned |-> gates[g].banned]
  <2>1. gates[g].banned = FALSE /\ u \in Guest
    BY <1>2, <1>a, GateFields DEF Admit
  <2>2. codes' \in {codes, codes \cup {new}}
    BY <1>2 DEF Admit
  <2>3. \A v : Paired(v)' <=> Paired(v)
    BY <2>2 DEF Paired
  <2>4. answered' = answered \/ (IsAllowed(u) /\ answered' = answered \cup {a})
    BY <1>2 DEF Admit
  <2>5. IsAllowed(u) => /\ dmPolicy # "disabled" /\ (dmPolicy = "pairing" => Paired(u))
                        /\ dmPolicy = "allowlist" => Paired(u) \/ u \in Configured
    BY DEF IsAllowed, PairingInv
  <2>6. a.user = u /\ a.policy = dmPolicy /\ ~ a.banned
    BY <2>1
  <2>7. UNCHANGED <<allowlist, approvers, slips>>
    BY <1>2 DEF Admit
  <2> HIDE DEF a, u, new
  <2>8. \A b \in answered' :
          /\ b.policy # "disabled" /\ ~b.banned
          /\ b.policy = "pairing" => Paired(b.user)
          /\ b.policy = "allowlist" => Paired(b.user) \/ b.user \in Configured
    BY <2>4, <2>5, <2>6 DEF PairingInv
  <2>9. Working' = Working /\ \A v, w : Carries(v, w)' <=> Carries(v, w)
    BY <2>7 DEF Working, Carries
  <2> QED
    BY <2>3, <2>7, <2>8, <2>9 DEF PairingInv
<1>3. ASSUME NEW v \in Approver, NEW c \in codes, Approve(v, c) PROVE PairingInv'
  <2> DEFINE d == [c EXCEPT !.approved = TRUE]
  <2>1. d.user = c.user /\ d.approved /\ c.user \in Guest
    BY <1>a, CodeFields
  <2>2. codes' = (codes \ {c}) \cup {d}
    BY <1>3 DEF Approve
  <2> HIDE DEF d
  <2>3. \A u : Paired(u)' <=> Paired(u) \/ u = c.user
    BY <2>1, <2>2 DEF Paired
  <2>4. /\ approvers' = [approvers EXCEPT ![v] = [at |-> "approved", user |-> c.user]]
        /\ approvers[v] = Resting /\ UNCHANGED <<answered, allowlist>>
        /\ slips' = slips + (IF Working # {} THEN 1 ELSE 0)
    BY <1>3 DEF Approve, gateVars, Working
  <2>5. \A w \in Approver : \A u : Carries(w, u)' <=> Carries(w, u) \/ (w = v /\ u = c.user)
    BY <1>a, <2>4 DEF Carries, Resting
  <2>6. slips' = 0 => slips = 0 /\ Working = {} /\ Working' = {v}
    <3>1. slips' = 0 => slips = 0 /\ Working = {}
      BY <1>a, <2>4
    <3>2. Working = {} => Working' = {v}
      BY <1>a, <2>4 DEF Working, Resting
    <3> QED
      BY <3>1, <3>2
  <2>7. approvers'[v].at # "read"
    BY <1>a, <2>4
  <2>8. slips' = 0 => \A u \in Guest : Paired(u)' => u \in allowlist \/ Carries(v, u)'
    BY <2>3, <2>5, <2>6 DEF PairingInv
  <2> QED
    BY <2>3, <2>4, <2>5, <2>6, <2>7, <2>8 DEF PairingInv
<1>4. ASSUME NEW v \in Approver, ReadList(v) PROVE PairingInv'
  <2>1. /\ approvers' = [approvers EXCEPT ![v] = [at |-> "read", list |-> allowlist \cup {approvers[v].user}]]
        /\ approvers[v].at = "approved" /\ UNCHANGED <<codes, answered, allowlist, slips>>
    BY <1>4, <1>a DEF ReadList, gateVars
  <2>2. \A u : Paired(u)' <=> Paired(u)
    BY <2>1 DEF Paired
  <2>3. Working' = Working
    BY <1>a, <2>1 DEF Working, Resting
  <2>4. approvers'[v].at = "read" /\ approvers'[v].list = allowlist \cup {approvers[v].user}
    BY <1>a, <2>1
  <2>5. \A w \in Approver : \A u : Carries(w, u)' =>
           Carries(w, u) \/ (w = v /\ u \in allowlist)
    BY <1>a, <2>1, <2>4 DEF Carries
  <2>6. \A w \in Approver : \A u : Carries(w, u) => Carries(w, u)'
    BY <1>a, <2>1, <2>4 DEF Carries
  <2>7. slips = 0 => \A w \in Working' : approvers'[w].at = "read" => allowlist \subseteq approvers'[w].list
    BY <1>a, <2>1, <2>3, <2>4 DEF PairingInv
  <2>8. Working \subseteq Approver
    BY DEF Working
  <2> QED
    BY <2>1, <2>2, <2>3, <2>5, <2>6, <2>7, <2>8 DEF PairingInv
<1>5. ASSUME NEW v \in Approver, WriteList(v) PROVE PairingInv'
  <2>1. /\ approvers' = [approvers EXCEPT ![v] = Resting] /\ approvers[v].at = "read"
        /\ allowlist' = approvers[v].list /\ UNCHANGED <<codes, answered, slips>>
    BY <1>5 DEF WriteList, gateVars
  <2>2. \A u : Paired(u)' <=> Paired(u)
    BY <2>1 DEF Paired
  <2>3. /\ approvers[v].list \in SUBSET Guest /\ v \in Working
        /\ \A u \in approvers[v].list : Carries(v, u)
    BY <1>a, <2>1, ApproverFields DEF Working, Carries, Resting
  <2>4. Working' = Working \ {v}
    BY <1>a, <2>1 DEF Working
  <2>5. \A w \in Approver : \A u : Carries(w, u)' => Carries(w, u)
    BY <1>a, <2>1 DEF Carries, Resting
  <2>6. slips = 0 => Working = {v} /\ Working' = {}
    BY <2>3, <2>4 DEF PairingInv
  <2>7. slips = 0 => \A u \in Guest : Paired(u) => u \in allowlist'
    <3>1. slips = 0 => allowlist \subseteq approvers[v].list
      BY <2>1, <2>3 DEF PairingInv
    <3>2. \A u : Carries(v, u) => u \in approvers[v].list
      BY <2>1 DEF Carries
    <3> QED
      BY <2>1, <2>6, <3>1, <3>2 DEF PairingInv
  <2>8. \A u \in allowlist' : Paired(u)
    BY <2>1, <2>3 DEF PairingInv
  <2> QED
    BY <2>1, <2>2, <2>5, <2>6, <2>7, <2>8 DEF PairingInv
<1>6. ASSUME NEW v \in Approver, DieApproving(v) PROVE PairingInv'
  <2>1. /\ approvers' = [approvers EXCEPT ![v] = Resting] /\ slips' = slips + 1
        /\ UNCHANGED <<codes, answered, allowlist>>
    BY <1>6 DEF DieApproving, gateVars
  <2>2. slips' # 0
    BY <1>a, <2>1
  <2>3. \A w \in Approver : \A u : Carries(w, u)' => Carries(w, u)
    BY <1>a, <2>1 DEF Carries, Resting
  <2>4. \A u : Paired(u)' <=> Paired(u)
    BY <2>1 DEF Paired
  <2> QED
    BY <2>1, <2>2, <2>3, <2>4 DEF PairingInv
<1>7. CASE AccessTick \/ BansNext \/ TokensNext \/ UNCHANGED accessVars
  <2>1. CASE AccessTick \/ UNCHANGED accessVars
    BY <1>1, <2>1 DEF AccessTick, accessVars, gateVars, pairVars
  <2>2. CASE BansNext
    BY <1>1, <2>2 DEF BansNext, CleanUp, Ban, Unban, pairVars
  <2>3. CASE TokensNext
    BY <1>1, <2>3 DEF TokensNext, AccessTick, Mint, Ask, Fail, Redeem, gateVars, pairVars
  <2> QED
    BY <1>7, <2>1, <2>2, <2>3
<1>8. ASSUME NEW g \in Gate,
             CountIn(g) \/ \E u \in Guest, kind \in {"text", "exempt", "start"} : Arrive(g, u, kind)
      PROVE  PairingInv'
  BY <1>1, <1>8 DEF CountIn, Arrive, pairVars
<1> QED
  BY <1>2, <1>3, <1>4, <1>5, <1>6, <1>7, <1>8 DEF AccessNext, DoorNext, ApprovalsNext

-----------------------------------------------------------------------------
(* Tokens.                                                                 *)

\* Two redemptions of one token would both have found it unused.
LEMMA TokenStep == AccessShapes /\ TokenInv /\ [AccessNext]_accessVars => TokenInv'
<1> SUFFICES ASSUME AccessShapes, TokenInv, [AccessNext]_accessVars PROVE TokenInv'
  OBVIOUS
<1>a. /\ tokens \subseteq [id : Nat, used : BOOLEAN, until : Nat] /\ IsFiniteSet(tokens)
      /\ accessClock \in Nat /\ Cardinality(tokens) \in Nat
  BY FS_CardinalityType DEF AccessShapes, AccessTypeOK, Moments
<1>1. CASE UNCHANGED <<tokens, redeemed>>
  BY <1>1 DEF TokenInv
<1>2. CASE Mint
  <2> DEFINE new == [id |-> Cardinality(tokens) + 1, used |-> FALSE, until |-> accessClock + TokenLife]
  <2>1. tokens' = tokens \cup {new} /\ redeemed' = redeemed
    BY <1>2 DEF Mint
  <2>2. new.id = Cardinality(tokens) + 1
    OBVIOUS
  <2> HIDE DEF new
  <2>3. \A t \in tokens : t.id \in Nat /\ t.id <= Cardinality(tokens)
    BY <1>a DEF TokenInv
  <2>4. new \notin tokens
    BY <1>a, <2>2, <2>3
  <2>5. Cardinality(tokens') = Cardinality(tokens) + 1
    BY <1>a, <2>1, <2>4, FS_AddElement
  <2>6. \A t \in tokens' : t.id <= Cardinality(tokens')
    BY <1>a, <2>1, <2>2, <2>3, <2>5
  <2>7. \A t \in tokens' : \A s \in tokens' : s.id = t.id => s = t
    <3>1. \A t \in tokens : t.id # new.id
      BY <1>a, <2>2, <2>3
    <3> QED
      BY <2>1, <3>1 DEF TokenInv
  <2>8. \A r \in redeemed : \E t \in tokens' : t.id = r.token /\ t.used
    BY <2>1 DEF TokenInv
  <2> QED
    BY <2>1, <2>6, <2>7, <2>8 DEF TokenInv
<1>3. ASSUME NEW k \in Knock, NEW t \in tokens, Redeem(k, t) PROVE TokenInv'
  <2> DEFINE d == [t EXCEPT !.used = TRUE]
             r == [knock |-> Cardinality(redeemed) + 1, token |-> t.id, intime |-> t.until >= accessClock]
  <2>1. d.id = t.id /\ d.used
    BY <1>a, TokenFields
  <2>2. tokens' = (tokens \ {t}) \cup {d} /\ redeemed' = redeemed \cup {r}
    BY <1>3 DEF Redeem
  <2>3. ~ t.used /\ (t.until >= accessClock) = TRUE
    BY <1>3 DEF Redeem, Good
  <2>4. r.token = t.id /\ r.intime
    BY <2>3
  <2> HIDE DEF d, r
  <2>5. Cardinality(tokens') >= Cardinality(tokens)
    <3>1. IsFiniteSet(tokens \ {t}) /\ Cardinality(tokens \ {t}) = Cardinality(tokens) - 1
      BY <1>a, FS_RemoveElement
    <3>2. d \notin tokens \ {t}
      BY <2>1 DEF TokenInv
    <3>3. Cardinality((tokens \ {t}) \cup {d}) = Cardinality(tokens \ {t}) + 1
      BY <3>1, <3>2, FS_AddElement
    <3> QED
      BY <1>a, <2>2, <3>1, <3>3
  <2>6. \A s \in tokens' : s.id <= Cardinality(tokens')
    <3>1. \A s \in tokens' : s.id \in Nat /\ s.id <= Cardinality(tokens)
      BY <1>a, <2>1, <2>2 DEF TokenInv
    <3>2. Cardinality(tokens') \in Nat
      <4>1. IsFiniteSet(tokens')
        BY AccessShapesStep DEF AccessShapes
      <4> QED
        BY <4>1, FS_CardinalityType
    <3> QED
      BY <1>a, <2>5, <3>1, <3>2
  <2>7. \A s \in tokens' : \A o \in tokens' : o.id = s.id => o = s
    BY <2>1, <2>2 DEF TokenInv
  <2>8. \A s \in redeemed : s.token # t.id
    <3> SUFFICES ASSUME NEW s \in redeemed, s.token = t.id PROVE FALSE
      OBVIOUS
    <3>1. PICK o \in tokens : o.id = s.token /\ o.used
      BY DEF TokenInv
    <3>2. o = t
      BY <3>1 DEF TokenInv
    <3> QED
      BY <2>3, <3>1, <3>2
  <2>9. \A s \in redeemed' : \E o \in tokens' : o.id = s.token /\ o.used
    <3>1. ASSUME NEW s \in redeemed PROVE \E o \in tokens' : o.id = s.token /\ o.used
      <4>1. PICK o \in tokens : o.id = s.token /\ o.used
        BY DEF TokenInv
      <4>2. o \in tokens'
        BY <2>2, <2>3, <4>1
      <4> QED
        BY <4>1, <4>2
    <3>2. d \in tokens' /\ d.id = r.token /\ d.used
      BY <2>1, <2>2, <2>4
    <3> QED
      BY <2>2, <3>1, <3>2
  <2>10. \A s \in redeemed' : s.intime /\ \A o \in redeemed' : o.token = s.token => o = s
    BY <2>2, <2>4, <2>8 DEF TokenInv
  <2> QED
    BY <2>6, <2>7, <2>9, <2>10 DEF TokenInv
<1>4. CASE AccessTick \/ BansNext \/ ApprovalsNext \/ UNCHANGED accessVars
           \/ DoorNext(Guest, {"text", "exempt", "start"})
  <2>1. CASE AccessTick \/ UNCHANGED accessVars
    BY <1>1, <2>1 DEF AccessTick, accessVars, tokenVars
  <2>2. CASE BansNext
    BY <1>1, <2>2 DEF BansNext, CleanUp, Ban, Unban, tokenVars
  <2>3. CASE ApprovalsNext
    BY <1>1, <2>3 DEF ApprovalsNext, ReadList, WriteList, DieApproving, Approve, tokenVars
  <2>4. CASE DoorNext(Guest, {"text", "exempt", "start"})
    BY <1>1, <2>4 DEF DoorNext, AccessTick, CountIn, Admit, Arrive, tokenVars
  <2> QED
    BY <1>4, <2>1, <2>2, <2>3, <2>4
<1>5. ASSUME NEW k \in Knock, Ask(k) \/ Fail(k) PROVE TokenInv'
  BY <1>1, <1>5 DEF Ask, Fail
<1> QED
  BY <1>2, <1>3, <1>4, <1>5 DEF AccessNext, TokensNext

-----------------------------------------------------------------------------
(* Who gets in, in all.                                                    *)

\* At the start no row is counted and nobody is under way.
LEMMA AccessInvInit == AccessInit => AccessInv
<1> SUFFICES ASSUME AccessInit PROVE AccessInv
  OBVIOUS
<1>1. AccessShapes
  BY AccessShapesInit
<1>0. IsFiniteSet(Moments) /\ Cardinality(Gate) \in Nat /\ Cardinality(Knock) \in Nat
  BY FS_Interval, FS_CardinalityType DEF Moments
<1>2. ASSUME NEW u \in Guest PROVE Cardinality(Counted(u)) = 0
  <2>1. Counted(u) = {}
    BY DEF Counted, AccessInit, Resting
  <2> QED
    BY <2>1, FS_EmptySet
<1>3. Cardinality(Reading) = 0
  <2>1. Reading = {}
    BY DEF Reading, AccessInit, Resting
  <2> QED
    BY <2>1, FS_EmptySet
<1>4. ASSUME NEW since, NEW counts, counts = [m \in Moments |-> 0] PROVE Within(counts, since) = 0
  <2>1. IsFiniteSet({m \in Moments : m >= since})
    BY <1>0, FS_Subset
  <2> QED
    BY <1>4, <2>1, SumZero DEF Within
<1>5. QuotaInv
  <2> SUFFICES ASSUME NEW u \in Guest, NEW q \in Quotas
               PROVE  Within(hits[u], accessClock - q.window) + Cardinality(Counted(u))
                        <= q.limit + Cardinality(Gate) - 1
    BY DEF QuotaInv
  <2>1. hits[u] = [m \in Moments |-> 0]
    BY DEF AccessInit
  <2>2. Within(hits[u], accessClock - q.window) = 0
    BY <1>4, <2>1
  <2>3. q.limit \in Nat \ {0}
    OBVIOUS
  <2> QED
    BY <1>0, <1>2, <2>2, <2>3
<1>6. FailureInv
  <2>1. failures = [m \in Moments |-> 0]
    BY DEF AccessInit
  <2>2. Within(failures, accessClock - FailureWindow) = 0
    BY <1>4, <2>1
  <2>3. MaxFailures \in Nat \ {0}
    OBVIOUS
  <2> QED
    BY <1>0, <1>3, <2>2, <2>3 DEF FailureInv
<1>7. PairingInv
  BY DEF PairingInv, AccessInit, Paired, Carries, Working, Resting
<1>8. TokenInv
  BY DEF TokenInv, AccessInit
<1> QED
  BY <1>1, <1>5, <1>6, <1>7, <1>8 DEF AccessInv

\* The strengthened invariant says what the runs check.
LEMMA AccessInvMeans == AccessInv => AccessHolds
<1> SUFFICES ASSUME AccessInv PROVE AccessHolds
  OBVIOUS
<1>a. /\ hits \in [Guest -> [Moments -> Nat]] /\ failures \in [Moments -> Nat]
      /\ accessClock \in Nat
  BY DEF AccessInv, AccessShapes, AccessTypeOK, Moments
<1>b. ASSUME NEW u \in Guest PROVE Cardinality(Counted(u)) \in Nat
  <2>1. Counted(u) \in SUBSET Gate
    BY DEF Counted
  <2> QED
    BY <2>1, FS_Subset, FS_CardinalityType
<1>c. Cardinality(Reading) \in Nat /\ Cardinality(Gate) \in Nat /\ Cardinality(Knock) \in Nat
  <2>1. Reading \in SUBSET Knock
    BY DEF Reading
  <2> QED
    BY <2>1, FS_Subset, FS_CardinalityType
<1>1. QuotasHold
  <2> SUFFICES ASSUME NEW u \in Guest, NEW q \in Quotas
               PROVE  Within(hits[u], accessClock - q.window) <= q.limit + Cardinality(Gate) - 1
    BY DEF QuotasHold
  <2>1. q.window \in Nat /\ q.limit \in Nat /\ hits[u] \in [Moments -> Nat]
    BY <1>a
  <2>2. Within(hits[u], accessClock - q.window) \in Nat
    BY <1>a, <2>1, WithinType
  <2>3. Within(hits[u], accessClock - q.window) + Cardinality(Counted(u))
          <= q.limit + Cardinality(Gate) - 1
    BY DEF AccessInv, QuotaInv
  <2> QED
    BY <1>b, <1>c, <2>1, <2>2, <2>3
<1>2. Within(failures, accessClock - FailureWindow) <= MaxFailures + Cardinality(Knock) - 1
  <2>1. FailureWindow \in Nat /\ MaxFailures \in Nat
    OBVIOUS
  <2>2. Within(failures, accessClock - FailureWindow) \in Nat
    BY <1>a, <2>1, WithinType
  <2> QED
    BY <1>c, <2>1, <2>2 DEF AccessInv, FailureInv
<1>3. TokensHold
  BY <1>2 DEF AccessInv, TokenInv, TokensHold
<1>4. PairingHolds
  <2>1. (\A v \in Approver : approvers[v] = Resting) => Working = {}
    BY DEF Working
  <2> QED
    BY <2>1 DEF AccessInv, PairingInv, PairingHolds
<1> QED
  BY <1>1, <1>3, <1>4 DEF AccessHolds, AccessInv, AccessShapes

\* However many messages, approvals and requests overlap, and whatever the
\* quotas are: a user gets at most the other messages under way past a quota, the
\* peer of the pairing endpoint at most the other requests past its failures,
\* only approved or configured users who are not banned are answered, and no
\* token is redeemed twice or late.
THEOREM AccessIsGuarded == AccessSpec => []AccessHolds
<1>1. AccessInv /\ [AccessNext]_accessVars => AccessInv'
  BY AccessShapesStep, QuotaStep, FailureStep, PairingStep, TokenStep DEF AccessInv
<1>2. AccessSpec => []AccessInv
  BY <1>1, AccessInvInit, PTL DEF AccessSpec
<1> QED
  BY <1>2, AccessInvMeans, PTL

-----------------------------------------------------------------------------
(***************************************************************************)
(* ChatDesk.  A secret stays on the operator's side because the sessions   *)
(* are the roles', the role is looked up when the turn begins, and no turn *)
(* outlives a change of roles; a notice finds its chat because a session   *)
(* only ever watches a job it ordered.                                     *)
(***************************************************************************)

SessionStates == [pending : BOOLEAN, notify : Ticket \cup {NoTicket}, secret : BOOLEAN]
TurnStates ==
    [at : {"thinking", "calling", "ordered"}, key : Key, calls : Nat, rounds : Nat,
     ticket : Ticket \cup {NoTicket}, secret : BOOLEAN]

ChatShapes ==
    /\ ChatTypeOK
    /\ sessions \in [DOMAIN sessions -> SessionStates]
    /\ turns \in [Desk -> TurnStates \cup {Quiet}]

\* What customers' sessions remember is no secret, and a turn is the turn of
\* whoever its key names in the role he has now.
SecretInv ==
    /\ SecretsHold
    /\ \A k \in DOMAIN sessions : sessions[k].secret => k.role = "operator"
    /\ \A d \in Desk : turns[d] # Quiet =>
         /\ turns[d].key \in DOMAIN sessions
         /\ turns[d].key.role = RoleIn(turns[d].key.who, turns[d].key.chat)
         /\ turns[d].secret => turns[d].key.role = "operator"

\* A session watches a job of its own.
NoticeInv ==
    /\ \A t \in Ticket : screens[t] + outbox[t] <= 2 * raised[t].server + raised[t].elsewhere
    /\ \A k \in DOMAIN sessions :
         sessions[k].notify # NoTicket => orders[sessions[k].notify] = k
    /\ \A d \in Desk : turns[d].at = "ordered" =>
         turns[d].ticket \in Ticket /\ orders[turns[d].ticket] = turns[d].key
    /\ \A n \in told : /\ n.ticket \in Ticket /\ orders[n.ticket] \in Key
                       /\ orders[n.ticket].chat = n.chat /\ orders[n.ticket].who = n.who

ChatInv == ChatShapes /\ SecretInv /\ NoticeInv

-----------------------------------------------------------------------------
(* What edits do to sessions and turns.                                    *)

\* Whoever speaks, wherever, has a key and a desk.
LEMMA KeysAreKeys ==
  ASSUME NEW p \in Person, NEW chat \in Room
  PROVE  /\ KeyOf(p, chat) \in Key /\ DeskOf(chat) \in Desk
         /\ KeyOf(p, chat).role = RoleIn(p, chat)
         /\ KeyOf(p, chat).who = p /\ KeyOf(p, chat).chat = chat
         /\ RoleIn(p, chat) = "operator" <=> IsOperator(p, chat)
  BY DEF KeyOf, Key, DeskOf, Desk, Room, RoleIn, Role

\* A session's key is made of its three parts.
LEMMA KeyFields ==
  ASSUME NEW k \in Key
  PROVE  k.role \in Role /\ k.chat \in Room /\ k.who \in Person
         /\ k = [role |-> k.role, chat |-> k.chat, who |-> k.who] /\ k # Nobody
<1>1. /\ k.role \in Role /\ k.chat \in Room /\ k.who \in Person
      /\ k = [role |-> k.role, chat |-> k.chat, who |-> k.who]
  BY DEF Key
<1>2. k.role # Nobody.role
  BY <1>1 DEF Role, Nobody
<1> QED
  BY <1>1, <1>2

\* Opening a session adds an empty one, if there is none yet.
LEMMA OpenedSessions ==
  ASSUME sessions \in [DOMAIN sessions -> SessionStates], NEW k
  PROVE  /\ Opened(k) \in [DOMAIN sessions \cup {k} -> SessionStates]
         /\ DOMAIN Opened(k) = DOMAIN sessions \cup {k}
         /\ \A l \in DOMAIN sessions : Opened(k)[l] = sessions[l]
         /\ k \notin DOMAIN sessions => Opened(k)[k].secret = FALSE /\ Opened(k)[k].notify = NoTicket
<1>1. NewSession \in SessionStates /\ NewSession.secret = FALSE /\ NewSession.notify = NoTicket
  BY DEF NewSession, SessionStates
<1>2. CASE k \in DOMAIN sessions
  BY <1>2 DEF Opened
<1>3. CASE k \notin DOMAIN sessions
  <2>1. Opened(k) = [l \in DOMAIN sessions \cup {k} |-> IF l = k THEN NewSession ELSE sessions[l]]
    BY <1>3 DEF Opened
  <2> QED
    BY <1>1, <1>3, <2>1
<1> QED
  BY <1>2, <1>3

\* Storing a message.
LEMMA MessageStored ==
  ASSUME NEW f, f \in [DOMAIN f -> SessionStates], NEW k \in DOMAIN f, NEW b \in BOOLEAN
  PROVE  LET g == [f EXCEPT ![k].pending = @ \/ b]
         IN  /\ g \in [DOMAIN f -> SessionStates] /\ g[k].secret = f[k].secret
             /\ g[k].notify = f[k].notify /\ \A l \in DOMAIN f \ {k} : g[l] = f[l]
<1> DEFINE r == f[k]
           x == [pending |-> r.pending \/ b, notify |-> r.notify, secret |-> r.secret]
<1>1. /\ r \in SessionStates
      /\ r.pending \in BOOLEAN /\ r.secret \in BOOLEAN /\ r.notify \in Ticket \cup {NoTicket}
      /\ r = [pending |-> r.pending, notify |-> r.notify, secret |-> r.secret]
  BY DEF SessionStates
<1>2. [f EXCEPT ![k].pending = @ \/ b] = [f EXCEPT ![k] = x]
  <2>1. [f EXCEPT ![k].pending = @ \/ b] = [f EXCEPT ![k] = [r EXCEPT !.pending = @ \/ b]]
    OBVIOUS
  <2>2. [r EXCEPT !.pending = @ \/ b] = x
    BY <1>1
  <2> HIDE DEF x
  <2> QED
    BY <2>1, <2>2
<1>3. x \in SessionStates /\ x.secret = r.secret /\ x.notify = r.notify
  BY <1>1 DEF SessionStates
<1> HIDE DEF x
<1>4. [f EXCEPT ![k] = x] \in [DOMAIN f -> SessionStates] /\ [f EXCEPT ![k] = x][k] = x
      /\ \A l \in DOMAIN f \ {k} : [f EXCEPT ![k] = x][l] = f[l]
  BY <1>3
<1> QED
  BY <1>2, <1>3, <1>4

\* Storing an answer.
LEMMA AnswerStored ==
  ASSUME NEW f, f \in [DOMAIN f -> SessionStates], NEW k \in DOMAIN f, NEW b \in BOOLEAN
  PROVE  LET g == [f EXCEPT ![k].secret = @ \/ b]
         IN  /\ g \in [DOMAIN f -> SessionStates] /\ g[k].secret = (f[k].secret \/ b)
             /\ g[k].notify = f[k].notify /\ \A l \in DOMAIN f \ {k} : g[l] = f[l]
<1> DEFINE r == f[k]
           x == [pending |-> r.pending, notify |-> r.notify, secret |-> r.secret \/ b]
<1>1. /\ r \in SessionStates
      /\ r.pending \in BOOLEAN /\ r.secret \in BOOLEAN /\ r.notify \in Ticket \cup {NoTicket}
      /\ r = [pending |-> r.pending, notify |-> r.notify, secret |-> r.secret]
  BY DEF SessionStates
<1>2. [f EXCEPT ![k].secret = @ \/ b] = [f EXCEPT ![k] = x]
  <2>1. [f EXCEPT ![k].secret = @ \/ b] = [f EXCEPT ![k] = [r EXCEPT !.secret = @ \/ b]]
    OBVIOUS
  <2>2. [r EXCEPT !.secret = @ \/ b] = x
    BY <1>1
  <2> HIDE DEF x
  <2> QED
    BY <2>1, <2>2
<1>3. x \in SessionStates /\ x.secret = (r.secret \/ b) /\ x.notify = r.notify
  BY <1>1 DEF SessionStates
<1> HIDE DEF x
<1>4. [f EXCEPT ![k] = x] \in [DOMAIN f -> SessionStates] /\ [f EXCEPT ![k] = x][k] = x
      /\ \A l \in DOMAIN f \ {k} : [f EXCEPT ![k] = x][l] = f[l]
  BY <1>3
<1> QED
  BY <1>2, <1>3, <1>4

\* Watching a job.
LEMMA JobWatched ==
  ASSUME NEW r \in SessionStates, NEW t \in Ticket
  PROVE  LET x == [r EXCEPT !.notify = t, !.pending = FALSE]
         IN  x \in SessionStates /\ x.secret = r.secret /\ x.notify = t
<1>1. [r EXCEPT !.notify = t, !.pending = FALSE] \in SessionStates
  BY DEF SessionStates
<1> QED
  BY <1>1 DEF SessionStates

\* The records that the steps of a turn make.
LEMMA AskedTurn ==
  ASSUME NEW r \in TurnStates, NEW n \in Nat
  PROVE  LET x == [r EXCEPT !.at = "calling", !.rounds = n]
         IN  x \in TurnStates /\ x.at = "calling" /\ x.key = r.key /\ x.secret = r.secret
<1>1. [r EXCEPT !.at = "calling", !.rounds = n] \in TurnStates
  BY DEF TurnStates
<1> QED
  BY <1>1 DEF TurnStates

\* Going through tools leaves a turn whose it is, and its secret comes from an
\* operator's tools only.
LEMMA TurnEdits ==
  ASSUME turns \in [Desk -> TurnStates \cup {Quiet}], NEW d \in Desk, turns[d] # Quiet,
         AskForTools(d) \/ EndRound(d) \/ CallTool(d) \/ Watch(d)
  PROVE  /\ turns' \in [Desk -> TurnStates \cup {Quiet}] /\ turns'[d] \in TurnStates
         /\ \A e \in Desk \ {d} : turns'[e] = turns[e]
         /\ turns'[d].key = turns[d].key /\ turns'[d].at # "ordered"
         /\ turns'[d].secret => turns[d].secret \/ turns[d].key.role = "operator"
<1> DEFINE r == turns[d]
<1>1. /\ r \in TurnStates
      /\ r.at \in {"thinking", "calling", "ordered"} /\ r.key \in Key /\ r.calls \in Nat
      /\ r.rounds \in Nat /\ r.ticket \in Ticket \cup {NoTicket} /\ r.secret \in BOOLEAN
  <2>1. r \in TurnStates
    OBVIOUS
  <2> QED
    BY <2>1 DEF TurnStates
<1>2. ASSUME NEW x \in TurnStates, turns' = [turns EXCEPT ![d] = x]
      PROVE  /\ turns' \in [Desk -> TurnStates \cup {Quiet}] /\ turns'[d] = x
             /\ \A e \in Desk \ {d} : turns'[e] = turns[e]
  BY <1>2
<1>3. CASE AskForTools(d)
  <2> DEFINE x == [r EXCEPT !.at = "calling", !.rounds = @ + 1]
  <2>1. turns' = [turns EXCEPT ![d] = x]
    BY <1>3 DEF AskForTools
  <2>2. x \in TurnStates /\ x.key = r.key /\ x.secret = r.secret /\ x.at # "ordered"
    <3>1. r.rounds + 1 \in Nat
      BY <1>1
    <3> QED
      BY <1>1, <3>1, AskedTurn
  <2> HIDE DEF x
  <2> QED
    BY <1>2, <2>1, <2>2
<1>4. CASE EndRound(d)
  <2> DEFINE x == [r EXCEPT !.at = "thinking"]
  <2>1. turns' = [turns EXCEPT ![d] = x]
    BY <1>4 DEF EndRound
  <2>2. x \in TurnStates /\ x.key = r.key /\ x.secret = r.secret /\ x.at # "ordered"
    BY <1>1 DEF TurnStates
  <2> HIDE DEF x
  <2> QED
    BY <1>2, <2>1, <2>2
<1>5. CASE CallTool(d)
  <2>1. PICK private \in BOOLEAN :
           turns' = [turns EXCEPT ![d] =
              [r EXCEPT !.calls = @ + 1, !.secret = @ \/ (private /\ r.key.role = "operator")]]
    BY <1>5 DEF CallTool
  <2> DEFINE b == r.secret \/ (private /\ r.key.role = "operator")
             n == r.calls + 1
             x == [r EXCEPT !.calls = n, !.secret = b]
  <2>2. turns' = [turns EXCEPT ![d] = x]
    BY <2>1
  <2>3. b \in BOOLEAN /\ (b => r.secret \/ r.key.role = "operator")
    BY <1>1
  <2> HIDE DEF b
  <2>4. r.at = "calling"
    BY <1>5 DEF CallTool
  <2>5. x \in TurnStates /\ x.key = r.key /\ x.secret = b /\ x.at # "ordered"
    <3>1. n \in Nat /\ r \in TurnStates
      BY <1>1
    <3>2. b \in BOOLEAN
      BY <2>3
    <3> HIDE DEF n, r
    <3>3. x \in TurnStates
      BY <3>1, <3>2 DEF TurnStates
    <3>4. x.at = r.at /\ x.key = r.key /\ x.secret = b
      BY <3>1 DEF TurnStates
    <3> QED
      BY <2>4, <3>3, <3>4
  <2> HIDE DEF x
  <2> QED
    BY <1>2, <2>2, <2>3, <2>5
<1>6. CASE Watch(d)
  <2> DEFINE x == [r EXCEPT !.at = "calling"]
  <2>1. turns' = [turns EXCEPT ![d] = x]
    BY <1>6 DEF Watch
  <2>2. x \in TurnStates /\ x.key = r.key /\ x.secret = r.secret /\ x.at # "ordered"
    BY <1>1 DEF TurnStates
  <2> HIDE DEF x
  <2> QED
    BY <1>2, <2>1, <2>2
<1> QED
  BY <1>3, <1>4, <1>5, <1>6

\* An order is the turn's.
LEMMA OrderEdits ==
  ASSUME turns \in [Desk -> TurnStates \cup {Quiet}], NEW d \in Desk, turns[d] # Quiet,
         NEW t \in Ticket, PlaceOrder(d, t)
  PROVE  /\ turns' \in [Desk -> TurnStates \cup {Quiet}] /\ turns'[d] \in TurnStates
         /\ \A e \in Desk \ {d} : turns'[e] = turns[e]
         /\ turns'[d].key = turns[d].key /\ turns'[d].ticket = t
         /\ turns'[d].secret => turns[d].secret
<1> DEFINE r == turns[d]
<1>1. /\ r \in TurnStates
      /\ r.at \in {"thinking", "calling", "ordered"} /\ r.key \in Key /\ r.calls \in Nat
      /\ r.rounds \in Nat /\ r.ticket \in Ticket \cup {NoTicket} /\ r.secret \in BOOLEAN
  <2>1. r \in TurnStates
    OBVIOUS
  <2> QED
    BY <2>1 DEF TurnStates
<1>2. ASSUME NEW x \in TurnStates, turns' = [turns EXCEPT ![d] = x]
      PROVE  /\ turns' \in [Desk -> TurnStates \cup {Quiet}] /\ turns'[d] = x
             /\ \A e \in Desk \ {d} : turns'[e] = turns[e]
  BY <1>2
<1>3. PICK accepted \in BOOLEAN :
         turns' = [turns EXCEPT ![d] =
            [r EXCEPT !.calls = @ + 1, !.ticket = t,
                      !.at = IF accepted THEN "ordered" ELSE "calling"]]
  BY DEF PlaceOrder
<1> DEFINE where == IF accepted THEN "ordered" ELSE "calling"
           n == r.calls + 1
           x == [r EXCEPT !.calls = n, !.ticket = t, !.at = where]
<1>4. turns' = [turns EXCEPT ![d] = x]
  BY <1>3
<1>5. where \in {"thinking", "calling", "ordered"}
  OBVIOUS
<1> HIDE DEF where
<1>6. x \in TurnStates /\ x.key = r.key /\ x.secret = r.secret /\ x.ticket = t
  <2>1. n \in Nat /\ r \in TurnStates
    BY <1>1
  <2> HIDE DEF n, r
  <2>2. x \in TurnStates
    BY <1>5, <2>1 DEF TurnStates
  <2>3. x.key = r.key /\ x.secret = r.secret /\ x.ticket = t
    BY <2>1 DEF TurnStates
  <2> QED
    BY <2>2, <2>3
<1> HIDE DEF x
<1> QED
  BY <1>2, <1>4, <1>6

-----------------------------------------------------------------------------
(* The steps of ChatDesk.                                                  *)

\* What the shapes say.
LEMMA ChatFacts ==
  ASSUME ChatShapes
  PROVE  /\ operators \subseteq Person /\ DOMAIN sessions \subseteq Key
         /\ sessions \in [DOMAIN sessions -> SessionStates]
         /\ turns \in [Desk -> TurnStates \cup {Quiet}]
         /\ orders \in [Ticket -> Key \cup {Nobody}] /\ metered \subseteq Role
         /\ outbox \in [Ticket -> Nat] /\ screens \in [Ticket -> Nat]
         /\ raised \in [Ticket -> [server : Nat, elsewhere : Nat]] /\ begun \in 0..ChatTurns
  BY DEF ChatShapes, ChatTypeOK

\* And what it takes for them, after a step.
LEMMA ChatShapesNext ==
  ASSUME /\ operators' \subseteq Person /\ DOMAIN sessions' \subseteq Key
         /\ sessions' \in [DOMAIN sessions' -> SessionStates]
         /\ turns' \in [Desk -> TurnStates \cup {Quiet}],
         /\ orders' \in [Ticket -> Key \cup {Nobody}] /\ metered' \subseteq Role
         /\ outbox' \in [Ticket -> Nat] /\ screens' \in [Ticket -> Nat]
         /\ raised' \in [Ticket -> [server : Nat, elsewhere : Nat]] /\ begun' \in 0..ChatTurns
  PROVE  ChatShapes'
<1>1. ASSUME NEW k \in DOMAIN sessions'
      PROVE  /\ sessions'[k].pending \in BOOLEAN /\ sessions'[k].secret \in BOOLEAN
             /\ sessions'[k].notify \in Ticket \cup {NoTicket}
  <2>1. sessions'[k] \in SessionStates
    OBVIOUS
  <2> QED
    BY <2>1 DEF SessionStates
<1>2. ASSUME NEW d \in Desk PROVE turns'[d].at \in {"quiet", "thinking", "calling", "ordered"}
  <2>1. turns'[d] \in TurnStates \cup {Quiet}
    OBVIOUS
  <2> QED
    BY <2>1 DEF TurnStates, Quiet
<1> QED
  BY <1>1, <1>2 DEF ChatShapes, ChatTypeOK

\* A turn under way is a record, of somebody who has a key.
LEMMA TurnFields ==
  ASSUME turns \in [Desk -> TurnStates \cup {Quiet}], NEW d \in Desk
  PROVE  /\ turns[d] = Quiet <=> turns[d].at = "quiet"
         /\ turns[d] # Quiet => turns[d] \in TurnStates /\ turns[d].key \in Key
                                /\ turns[d].secret \in BOOLEAN
                                /\ turns[d].ticket \in Ticket \cup {NoTicket}
<1>1. turns[d] \in TurnStates \cup {Quiet}
  OBVIOUS
<1> QED
  BY <1>1 DEF TurnStates, Quiet

\* What a turn has to be, and a session.
TurnIsSafe(t) ==
    t # Quiet =>
      /\ t.key \in DOMAIN sessions
      /\ t.key.role = RoleIn(t.key.who, t.key.chat)
      /\ t.secret => t.key.role = "operator"
      /\ t.at = "ordered" => t.ticket \in Ticket /\ orders[t.ticket] = t.key
SessionIsSafe(k, s, jobs) ==
    /\ s.secret => k.role = "operator"
    /\ s.notify # NoTicket => jobs[s.notify] = k

\* The invariant in these words.
LEMMA ChatInvParts ==
  ChatInv <=> /\ ChatShapes /\ SecretsHold
              /\ \A t \in Ticket : screens[t] + outbox[t] <= 2 * raised[t].server + raised[t].elsewhere
              /\ \A n \in told : /\ n.ticket \in Ticket /\ orders[n.ticket] \in Key
                                 /\ orders[n.ticket].chat = n.chat /\ orders[n.ticket].who = n.who
              /\ \A k \in DOMAIN sessions : SessionIsSafe(k, sessions[k], orders)
              /\ \A d \in Desk : TurnIsSafe(turns[d])
<1>1. \A d \in Desk : turns[d].at = "ordered" => turns[d] # Quiet
  BY DEF Quiet
<1> QED
  BY <1>1 DEF ChatInv, SecretInv, NoticeInv, SessionIsSafe, TurnIsSafe

\* A step that only touches sessions and turns, each to something safe.
LEMMA SafeStep ==
  ASSUME ChatInv, ChatShapes', SecretsHold', UNCHANGED <<operators, orders, noticeVars>>,
         \A k \in DOMAIN sessions' : SessionIsSafe(k, sessions'[k], orders'),
         \A d \in Desk : TurnIsSafe(turns[d])'
  PROVE  ChatInv'
  BY ChatInvParts DEF ChatInv, SecretInv, NoticeInv, SessionIsSafe, TurnIsSafe, noticeVars, Quiet

\* A command is answered with numbers to the operator only.
LEMMA CommandStep ==
  ASSUME ChatInv, NEW p \in Person, NEW chat \in Room, Command(p, chat) PROVE ChatInv'
<1> DEFINE k == KeyOf(p, chat)
<1>a. ChatShapes /\ SecretsHold
      /\ (\A l \in DOMAIN sessions : SessionIsSafe(l, sessions[l], orders)) /\ (\A d \in Desk : TurnIsSafe(turns[d]))
  BY ChatInvParts
<1>b. /\ DOMAIN sessions \subseteq Key /\ sessions \in [DOMAIN sessions -> SessionStates]
      /\ begun \in 0..ChatTurns
  BY <1>a, ChatFacts
<1>c. /\ sessions' = Opened(k) /\ begun < ChatTurns /\ begun' = begun + 1
      /\ UNCHANGED <<operators, turns, orders, metered, noticeVars>>
      /\ answers' = answers \cup {[who |-> p, chat |-> chat, trusted |-> IsOperator(p, chat),
                                   secret |-> IsOperator(p, chat)]}
  BY DEF Command, Answer
<1>d. k \in Key
  BY KeysAreKeys
<1> HIDE DEF k
<1>1. /\ sessions' \in [DOMAIN sessions' -> SessionStates] /\ DOMAIN sessions' = DOMAIN sessions \cup {k}
      /\ \A l \in DOMAIN sessions : sessions'[l] = sessions[l]
      /\ k \notin DOMAIN sessions => sessions'[k].secret = FALSE /\ sessions'[k].notify = NoTicket
  BY <1>b, <1>c, OpenedSessions
<1>2. ChatShapes'
  <2>1. begun' \in 0..ChatTurns
    BY <1>b, <1>c, ChatAssumption
  <2> QED
    BY <1>a, <1>b, <1>c, <1>d, <1>1, <2>1, ChatFacts, ChatShapesNext DEF noticeVars
<1>3. SecretsHold'
  BY <1>a, <1>c DEF SecretsHold, noticeVars
<1>4. \A l \in DOMAIN sessions' : SessionIsSafe(l, sessions'[l], orders')
  BY <1>a, <1>c, <1>1 DEF SessionIsSafe
<1>5. \A d \in Desk : TurnIsSafe(turns[d])'
  BY <1>a, <1>c, <1>1 DEF TurnIsSafe, RoleIn, IsOperator
<1> QED
  BY <1>c, <1>2, <1>3, <1>4, <1>5, SafeStep

\* A turn begins with the role its speaker has, and what that role's session knows.
LEMMA HearStep ==
  ASSUME ChatInv, NEW p \in Person, NEW chat \in Room, NEW says \in BOOLEAN, Hear(p, chat, says)
  PROVE  ChatInv'
<1> DEFINE k == KeyOf(p, chat)
           d == DeskOf(chat)
           s == Opened(k)
           t == [at |-> "thinking", key |-> k, calls |-> 0, rounds |-> 0, ticket |-> NoTicket,
                 secret |-> s[k].secret]
<1>a. ChatShapes /\ SecretsHold
      /\ (\A l \in DOMAIN sessions : SessionIsSafe(l, sessions[l], orders)) /\ (\A e \in Desk : TurnIsSafe(turns[e]))
  BY ChatInvParts
<1>b. /\ DOMAIN sessions \subseteq Key /\ sessions \in [DOMAIN sessions -> SessionStates]
      /\ turns \in [Desk -> TurnStates \cup {Quiet}] /\ begun \in 0..ChatTurns
      /\ metered \subseteq Role
  BY <1>a, ChatFacts
<1>c. /\ sessions' = [s EXCEPT ![k].pending = @ \/ says] /\ begun < ChatTurns /\ begun' = begun + 1
      /\ UNCHANGED <<operators, orders, answers, noticeVars>>
      /\ turns' = [turns EXCEPT ![d] = t]
      /\ metered' = metered \cup (IF k.role = "operator" THEN {k.role} ELSE {})
  BY DEF Hear
<1>d. k \in Key /\ d \in Desk /\ k.role = RoleIn(k.who, k.chat) /\ k.role \in Role
  BY KeysAreKeys, KeyFields
<1>e. t.at = "thinking" /\ t.key = k /\ t.secret = s[k].secret
  OBVIOUS
<1>f. /\ s \in [DOMAIN sessions \cup {k} -> SessionStates] /\ DOMAIN s = DOMAIN sessions \cup {k}
      /\ \A l \in DOMAIN sessions : s[l] = sessions[l]
      /\ k \notin DOMAIN sessions => s[k].secret = FALSE /\ s[k].notify = NoTicket
  BY <1>b, OpenedSessions
<1>g. t \in TurnStates
  <2>1. s[k] \in SessionStates
    BY <1>f
  <2>2. s[k].secret \in BOOLEAN
    BY <2>1 DEF SessionStates
  <2> HIDE DEF s, k
  <2> QED
    BY <1>d, <2>2 DEF TurnStates
<1> HIDE DEF k, d, s, t
<1>1. /\ sessions' \in [DOMAIN s -> SessionStates] /\ sessions'[k].secret = s[k].secret
      /\ sessions'[k].notify = s[k].notify /\ \A l \in DOMAIN s \ {k} : sessions'[l] = s[l]
  <2>1. k \in DOMAIN s /\ s \in [DOMAIN s -> SessionStates] /\ NoTicket \in Ticket \cup {NoTicket}
    BY <1>f
  <2> QED
    BY <1>c, <2>1, MessageStored
<1>2. DOMAIN sessions' = DOMAIN sessions \cup {k}
  BY <1>1, <1>f
<1>3. s[k].secret => k.role = "operator"
  BY <1>a, <1>f DEF SessionIsSafe
<1>4. ChatShapes'
  <2>1. begun' \in 0..ChatTurns
    BY <1>b, <1>c, ChatAssumption
  <2>2. turns' \in [Desk -> TurnStates \cup {Quiet}]
    BY <1>b, <1>c, <1>g
  <2>3. metered' \subseteq Role
    BY <1>b, <1>c, <1>d
  <2>4. sessions' \in [DOMAIN sessions' -> SessionStates] /\ DOMAIN sessions' \subseteq Key
    BY <1>b, <1>d, <1>f, <1>1, <1>2
  <2> QED
    BY <1>a, <1>c, <2>1, <2>2, <2>3, <2>4, ChatFacts, ChatShapesNext DEF noticeVars
<1>5. SecretsHold'
  BY <1>a, <1>c DEF SecretsHold, noticeVars
<1>6. \A l \in DOMAIN sessions' : SessionIsSafe(l, sessions'[l], orders')
  <2>1. ASSUME NEW l \in DOMAIN sessions', l # k PROVE SessionIsSafe(l, sessions'[l], orders')
    <3>1. l \in DOMAIN sessions /\ sessions'[l] = sessions[l]
      BY <1>f, <1>1, <1>2, <2>1
    <3> QED
      BY <1>a, <1>c, <3>1 DEF SessionIsSafe
  <2>2. SessionIsSafe(k, sessions'[k], orders')
    BY <1>a, <1>c, <1>f, <1>1, <1>3 DEF SessionIsSafe
  <2> QED
    BY <2>1, <2>2
<1>7. ASSUME NEW e \in Desk PROVE TurnIsSafe(turns[e])'
  <2>1. CASE e = d
    <3>1. turns'[e] = t
      BY <1>b, <1>c, <2>1
    <3> QED
      BY <1>c, <1>d, <1>e, <1>2, <1>3, <3>1 DEF TurnIsSafe, RoleIn, IsOperator
  <2>2. CASE e # d
    <3>1. turns'[e] = turns[e]
      BY <1>b, <1>c, <2>2
    <3> QED
      BY <1>a, <1>c, <1>2, <3>1 DEF TurnIsSafe, RoleIn, IsOperator
  <2> QED
    BY <2>1, <2>2
<1> QED
  BY <1>c, <1>4, <1>5, <1>6, <1>7, SafeStep

\* What it takes for the invariant to hold after a step.
LEMMA ChatInvNext ==
  ASSUME ChatShapes', SecretsHold',
         \A t \in Ticket : screens'[t] + outbox'[t] <= 2 * raised'[t].server + raised'[t].elsewhere,
         \A n \in told' : /\ n.ticket \in Ticket /\ orders'[n.ticket] \in Key
                          /\ orders'[n.ticket].chat = n.chat /\ orders'[n.ticket].who = n.who,
         \A k \in DOMAIN sessions' : SessionIsSafe(k, sessions'[k], orders'),
         \A d \in Desk : TurnIsSafe(turns[d])'
  PROVE  ChatInv'
<1>1. \A d \in Desk : turns'[d].at = "ordered" => turns'[d] # Quiet
  BY DEF Quiet
<1> QED
  BY <1>1 DEF ChatInv, SecretInv, NoticeInv, SessionIsSafe, TurnIsSafe

\* An answer has the secrets its turn has, and tells them to an operator.
LEMMA ReplyStep ==
  ASSUME ChatInv, NEW d \in Desk, Reply(d) PROVE ChatInv'
<1> DEFINE t == turns[d]
           k == t.key
<1>a. ChatShapes /\ SecretsHold
      /\ (\A l \in DOMAIN sessions : SessionIsSafe(l, sessions[l], orders))
      /\ (\A e \in Desk : TurnIsSafe(turns[e]))
  BY ChatInvParts
<1>b. /\ DOMAIN sessions \subseteq Key /\ sessions \in [DOMAIN sessions -> SessionStates]
      /\ turns \in [Desk -> TurnStates \cup {Quiet}]
  BY <1>a, ChatFacts
<1>c. /\ sessions' = [sessions EXCEPT ![k].secret = @ \/ t.secret] /\ t.at = "thinking"
      /\ turns' = [turns EXCEPT ![d] = Quiet]
      /\ answers' = answers \cup {[who |-> k.who, chat |-> k.chat,
                                   trusted |-> IsOperator(k.who, k.chat), secret |-> t.secret]}
      /\ UNCHANGED <<operators, orders, metered, noticeVars, begun>>
  BY DEF Reply, Answer
<1>d. t # Quiet /\ t.secret \in BOOLEAN
  BY <1>b, <1>c, TurnFields
<1>e. k \in DOMAIN sessions /\ k.role = RoleIn(k.who, k.chat) /\ (t.secret => k.role = "operator")
  BY <1>a, <1>d DEF TurnIsSafe
<1>f. t.secret => IsOperator(k.who, k.chat)
  BY <1>e DEF RoleIn
<1> HIDE DEF k, t
<1>1. /\ sessions' \in [DOMAIN sessions -> SessionStates]
      /\ sessions'[k].secret = (sessions[k].secret \/ t.secret)
      /\ sessions'[k].notify = sessions[k].notify
      /\ \A l \in DOMAIN sessions \ {k} : sessions'[l] = sessions[l]
  <2> DEFINE b == t.secret
  <2>1. b \in BOOLEAN /\ sessions' = [sessions EXCEPT ![k].secret = @ \/ b]
    BY <1>c, <1>d
  <2> HIDE DEF b
  <2>2. /\ sessions' \in [DOMAIN sessions -> SessionStates]
        /\ sessions'[k].secret = (sessions[k].secret \/ b)
        /\ sessions'[k].notify = sessions[k].notify
        /\ \A l \in DOMAIN sessions \ {k} : sessions'[l] = sessions[l]
    <3> DEFINE f == sessions
    <3>1. f \in [DOMAIN f -> SessionStates] /\ k \in DOMAIN f /\ b \in BOOLEAN
          /\ sessions' = [f EXCEPT ![k].secret = @ \/ b]
      BY <1>b, <1>e, <2>1
    <3> HIDE DEF f
    <3>2. /\ sessions' \in [DOMAIN f -> SessionStates]
          /\ sessions'[k].secret = (f[k].secret \/ b) /\ sessions'[k].notify = f[k].notify
          /\ \A l \in DOMAIN f \ {k} : sessions'[l] = f[l]
      BY <3>1, AnswerStored
    <3> QED
      BY <3>2 DEF f
  <2> QED
    BY <2>2 DEF b
<1>2. DOMAIN sessions' = DOMAIN sessions
  BY <1>1
<1>3. ChatShapes'
  <2>1. turns' \in [Desk -> TurnStates \cup {Quiet}]
    BY <1>b, <1>c
  <2> QED
    BY <1>a, <1>b, <1>c, <1>1, <1>2, <2>1, ChatFacts, ChatShapesNext DEF noticeVars
<1>4. SecretsHold'
  BY <1>a, <1>c, <1>f DEF SecretsHold, noticeVars
<1>5. ASSUME NEW l \in DOMAIN sessions' PROVE SessionIsSafe(l, sessions'[l], orders')
  <2>1. CASE l = k
    BY <1>a, <1>c, <1>e, <1>1, <2>1 DEF SessionIsSafe
  <2>2. CASE l # k
    BY <1>a, <1>c, <1>1, <1>2, <2>2
  <2> QED
    BY <2>1, <2>2
<1>6. ASSUME NEW e \in Desk PROVE TurnIsSafe(turns[e])'
  <2>1. turns'[e] = Quiet \/ turns'[e] = turns[e]
    BY <1>b, <1>c
  <2> QED
    BY <1>a, <1>c, <1>2, <2>1 DEF TurnIsSafe, RoleIn, IsOperator
<1> QED
  BY <1>c, <1>3, <1>4, <1>5, <1>6, SafeStep

\* Tools add no secrets to a customer's turn.
LEMMA ToolStep ==
  ASSUME ChatInv, NEW d \in Desk, AskForTools(d) \/ EndRound(d) \/ CallTool(d) PROVE ChatInv'
<1>a. ChatShapes /\ SecretsHold
      /\ (\A l \in DOMAIN sessions : SessionIsSafe(l, sessions[l], orders))
      /\ (\A e \in Desk : TurnIsSafe(turns[e]))
  BY ChatInvParts
<1>b. turns \in [Desk -> TurnStates \cup {Quiet}]
  BY <1>a, ChatFacts
<1>c. /\ turns[d].at \in {"thinking", "calling"}
      /\ UNCHANGED <<operators, sessions, orders, answers, metered, noticeVars, begun>>
  BY DEF AskForTools, EndRound, CallTool
<1>d. turns[d] # Quiet
  BY <1>b, <1>c, TurnFields
<1>1. /\ turns' \in [Desk -> TurnStates \cup {Quiet}] /\ turns'[d] \in TurnStates
      /\ \A e \in Desk \ {d} : turns'[e] = turns[e]
      /\ turns'[d].key = turns[d].key /\ turns'[d].at # "ordered"
      /\ turns'[d].secret => turns[d].secret \/ turns[d].key.role = "operator"
  BY <1>b, <1>d, TurnEdits
<1>2. ChatShapes'
  BY <1>a, <1>c, <1>1, ChatFacts, ChatShapesNext DEF noticeVars
<1>3. SecretsHold'
  BY <1>a, <1>c DEF SecretsHold, noticeVars
<1>4. \A l \in DOMAIN sessions' : SessionIsSafe(l, sessions'[l], orders')
  BY <1>a, <1>c
<1>5. ASSUME NEW e \in Desk PROVE TurnIsSafe(turns[e])'
  <2>1. CASE e = d
    BY <1>a, <1>c, <1>d, <1>1, <2>1 DEF TurnIsSafe, RoleIn, IsOperator
  <2>2. CASE e # d
    BY <1>a, <1>c, <1>1, <2>2 DEF TurnIsSafe, RoleIn, IsOperator
  <2> QED
    BY <2>1, <2>2
<1> QED
  BY <1>c, <1>2, <1>3, <1>4, <1>5, SafeStep

\* The session watches the job its turn ordered.
LEMMA WatchStep ==
  ASSUME ChatInv, NEW d \in Desk, Watch(d) PROVE ChatInv'
<1> DEFINE t == turns[d]
           k == t.key
<1>a. ChatShapes /\ SecretsHold
      /\ (\A l \in DOMAIN sessions : SessionIsSafe(l, sessions[l], orders))
      /\ (\A e \in Desk : TurnIsSafe(turns[e]))
  BY ChatInvParts
<1>b. /\ DOMAIN sessions \subseteq Key /\ sessions \in [DOMAIN sessions -> SessionStates]
      /\ turns \in [Desk -> TurnStates \cup {Quiet}]
  BY <1>a, ChatFacts
<1>c. /\ sessions' = [sessions EXCEPT ![k] = [@ EXCEPT !.notify = t.ticket, !.pending = FALSE]]
      /\ t.at = "ordered"
      /\ UNCHANGED <<operators, orders, answers, metered, noticeVars, begun>>
  BY DEF Watch
<1>d. turns[d] # Quiet /\ t.ticket \in Ticket \cup {NoTicket}
  BY <1>b, <1>c, TurnFields
<1>e. k \in DOMAIN sessions /\ t.ticket \in Ticket /\ orders[t.ticket] = k
  BY <1>a, <1>c, <1>d DEF TurnIsSafe
<1>f. /\ turns' \in [Desk -> TurnStates \cup {Quiet}] /\ turns'[d] \in TurnStates
      /\ \A e \in Desk \ {d} : turns'[e] = turns[e]
      /\ turns'[d].key = turns[d].key /\ turns'[d].at # "ordered"
      /\ turns'[d].secret => turns[d].secret \/ turns[d].key.role = "operator"
  BY <1>b, <1>d, TurnEdits
<1> HIDE DEF k, t
<1>1. /\ sessions' \in [DOMAIN sessions -> SessionStates]
      /\ sessions'[k].secret = sessions[k].secret /\ sessions'[k].notify = t.ticket
      /\ \A l \in DOMAIN sessions \ {k} : sessions'[l] = sessions[l]
  <2> DEFINE x == [sessions[k] EXCEPT !.notify = t.ticket, !.pending = FALSE]
  <2>1. sessions[k] \in SessionStates
    BY <1>b, <1>e
  <2>2. x \in SessionStates /\ x.secret = sessions[k].secret /\ x.notify = t.ticket
    BY <1>e, <2>1, JobWatched
  <2>3. sessions' = [sessions EXCEPT ![k] = x]
    BY <1>c
  <2> HIDE DEF x
  <2> QED
    BY <1>b, <1>e, <2>2, <2>3
<1>2. DOMAIN sessions' = DOMAIN sessions
  BY <1>1
<1>3. ChatShapes'
  BY <1>a, <1>b, <1>c, <1>f, <1>1, <1>2, ChatFacts, ChatShapesNext DEF noticeVars
<1>4. SecretsHold'
  BY <1>a, <1>c DEF SecretsHold, noticeVars
<1>5. ASSUME NEW l \in DOMAIN sessions' PROVE SessionIsSafe(l, sessions'[l], orders')
  <2>1. CASE l = k
    BY <1>a, <1>c, <1>e, <1>1, <2>1 DEF SessionIsSafe
  <2>2. CASE l # k
    BY <1>a, <1>c, <1>1, <1>2, <2>2
  <2> QED
    BY <2>1, <2>2
<1>6. ASSUME NEW e \in Desk PROVE TurnIsSafe(turns[e])'
  <2>1. CASE e = d
    BY <1>a, <1>c, <1>d, <1>f, <1>2, <2>1 DEF TurnIsSafe, RoleIn, IsOperator
  <2>2. CASE e # d
    BY <1>a, <1>c, <1>f, <1>2, <2>2 DEF TurnIsSafe, RoleIn, IsOperator
  <2> QED
    BY <2>1, <2>2
<1> QED
  BY <1>c, <1>3, <1>4, <1>5, <1>6, SafeStep

\* A new job is nobody's until then, so no session watched it and no notice told of it.
LEMMA PlaceOrderStep ==
  ASSUME ChatInv, NEW d \in Desk, NEW t \in Ticket, PlaceOrder(d, t) PROVE ChatInv'
<1>a. /\ ChatShapes /\ SecretsHold
      /\ \A u \in Ticket : screens[u] + outbox[u] <= 2 * raised[u].server + raised[u].elsewhere
      /\ \A n \in told : /\ n.ticket \in Ticket /\ orders[n.ticket] \in Key
                         /\ orders[n.ticket].chat = n.chat /\ orders[n.ticket].who = n.who
      /\ \A l \in DOMAIN sessions : SessionIsSafe(l, sessions[l], orders)
      /\ \A e \in Desk : TurnIsSafe(turns[e])
  BY ChatInvParts
<1>b. /\ DOMAIN sessions \subseteq Key /\ sessions \in [DOMAIN sessions -> SessionStates]
      /\ turns \in [Desk -> TurnStates \cup {Quiet}] /\ orders \in [Ticket -> Key \cup {Nobody}]
  BY <1>a, ChatFacts
<1>c. /\ orders' = [orders EXCEPT ![t] = turns[d].key] /\ orders[t] = Nobody
      /\ turns[d].at = "calling"
      /\ UNCHANGED <<operators, sessions, answers, metered, noticeVars, begun>>
  BY DEF PlaceOrder
<1>d. turns[d] # Quiet /\ turns[d].key \in Key
  BY <1>b, <1>c, TurnFields
<1>e. Nobody \notin Key
  BY KeyFields
<1>1. /\ turns' \in [Desk -> TurnStates \cup {Quiet}] /\ turns'[d] \in TurnStates
      /\ \A e \in Desk \ {d} : turns'[e] = turns[e]
      /\ turns'[d].key = turns[d].key /\ turns'[d].ticket = t
      /\ turns'[d].secret => turns[d].secret
  BY <1>b, <1>d, OrderEdits
<1>2. orders' \in [Ticket -> Key \cup {Nobody}] /\ orders'[t] = turns[d].key
      /\ \A u \in Ticket : orders[u] \in Key => orders'[u] = orders[u]
  BY <1>b, <1>c, <1>d, <1>e
<1>3. ChatShapes'
  BY <1>a, <1>c, <1>1, <1>2, ChatFacts, ChatShapesNext DEF noticeVars
<1>4. SecretsHold'
  BY <1>a, <1>c DEF SecretsHold, noticeVars
<1>5. ASSUME NEW l \in DOMAIN sessions' PROVE SessionIsSafe(l, sessions'[l], orders')
  <2>1. /\ l \in DOMAIN sessions /\ sessions'[l] = sessions[l] /\ l \in Key
        /\ sessions[l].notify \in Ticket \cup {NoTicket}
    BY <1>b, <1>c DEF SessionStates
  <2>2. SessionIsSafe(l, sessions[l], orders)
    BY <1>a, <2>1
  <2> QED
    BY <1>2, <2>1, <2>2 DEF SessionIsSafe
<1>6. ASSUME NEW e \in Desk PROVE TurnIsSafe(turns[e])'
  <2>1. CASE e = d
    BY <1>a, <1>c, <1>d, <1>1, <1>2, <2>1 DEF TurnIsSafe, RoleIn, IsOperator
  <2>2. CASE e # d
    <3>1. TurnIsSafe(turns[e]) /\ turns'[e] = turns[e]
      BY <1>a, <1>1, <2>2
    <3>2. turns[e] # Quiet => turns[e].key \in Key
      BY <1>b, TurnFields
    <3> QED
      BY <1>c, <1>2, <3>1, <3>2 DEF TurnIsSafe, RoleIn, IsOperator
  <2> QED
    BY <2>1, <2>2
<1>7. \A n \in told' : /\ n.ticket \in Ticket /\ orders'[n.ticket] \in Key
                       /\ orders'[n.ticket].chat = n.chat /\ orders'[n.ticket].who = n.who
  BY <1>a, <1>c, <1>2 DEF noticeVars
<1>8. \A u \in Ticket : screens'[u] + outbox'[u] <= 2 * raised'[u].server + raised'[u].elsewhere
  BY <1>a, <1>c DEF noticeVars
<1> QED
  BY <1>3, <1>4, <1>5, <1>6, <1>7, <1>8, ChatInvNext

\* When the roles change no turn is left that began in another one.
LEMMA RegroupStep ==
  ASSUME ChatInv, NEW ops \in SUBSET Person, Regroup(ops) PROVE ChatInv'
<1>a. /\ ChatShapes /\ SecretsHold
      /\ \A u \in Ticket : screens[u] + outbox[u] <= 2 * raised[u].server + raised[u].elsewhere
      /\ \A n \in told : /\ n.ticket \in Ticket /\ orders[n.ticket] \in Key
                         /\ orders[n.ticket].chat = n.chat /\ orders[n.ticket].who = n.who
      /\ \A l \in DOMAIN sessions : SessionIsSafe(l, sessions[l], orders)
  BY ChatInvParts
<1>c. /\ operators' = ops /\ turns' = [d \in Desk |-> Quiet]
      /\ UNCHANGED <<sessions, orders, answers, metered, noticeVars, begun>>
  BY DEF Regroup
<1>1. ChatShapes'
  <2>1. turns' \in [Desk -> TurnStates \cup {Quiet}]
    BY <1>c
  <2> QED
    BY <1>a, <1>c, <2>1, ChatFacts, ChatShapesNext DEF noticeVars
<1>2. SecretsHold'
  BY <1>a, <1>c DEF SecretsHold, noticeVars
<1>3. \A d \in Desk : TurnIsSafe(turns[d])'
  BY <1>c DEF TurnIsSafe
<1> QED
  BY <1>a, <1>c, <1>1, <1>2, <1>3, ChatInvNext DEF noticeVars

\* One session at most watches a job, so the dashboard gets each notice once from
\* the outbox, and once more in the server itself.
LEMMA TellStep ==
  ASSUME ChatInv, NEW ticket \in Ticket, NEW where \in {"server", "elsewhere"},
         NEW notice \in Notice, NEW private \in BOOLEAN, Tell(ticket, where, notice, private)
  PROVE  ChatInv'
<1> DEFINE web == {k \in Watchers(ticket) : k.chat = "screen"}
           n == Cardinality(web)
           m == IF where = "server" THEN n ELSE 0
<1>a. /\ ChatShapes /\ SecretsHold
      /\ \A u \in Ticket : screens[u] + outbox[u] <= 2 * raised[u].server + raised[u].elsewhere
      /\ \A o \in told : /\ o.ticket \in Ticket /\ orders[o.ticket] \in Key
                         /\ orders[o.ticket].chat = o.chat /\ orders[o.ticket].who = o.who
      /\ \A l \in DOMAIN sessions : SessionIsSafe(l, sessions[l], orders)
      /\ \A e \in Desk : TurnIsSafe(turns[e])
  BY ChatInvParts
<1>b. /\ DOMAIN sessions \subseteq Key /\ outbox \in [Ticket -> Nat] /\ screens \in [Ticket -> Nat]
      /\ raised \in [Ticket -> [server : Nat, elsewhere : Nat]]
  BY <1>a, ChatFacts
<1>c. /\ raised' = [raised EXCEPT ![ticket][where] = @ + 1]
      /\ told' = told \cup
             {[ticket |-> ticket, chat |-> k.chat, who |-> k.who,
               notice |-> notice, secret |-> Tells(notice, private)] : k \in Watchers(ticket) \ web}
      /\ outbox' = [outbox EXCEPT ![ticket] = @ + n]
      /\ screens' = [screens EXCEPT ![ticket] = @ + m]
      /\ UNCHANGED <<operators, sessions, turns, orders, answers, metered, begun>>
  BY DEF Tell
<1>1. \A k \in Watchers(ticket) : k \in Key /\ orders[ticket] = k
  BY <1>a, <1>b, ChatAssumption DEF Watchers, SessionIsSafe
<1>2. n \in {0, 1}
  <2>1. CASE web = {}
    BY <2>1, FS_EmptySet
  <2>2. CASE web # {}
    <3>1. web = {orders[ticket]}
      BY <1>1, <2>2
    <3> QED
      BY <3>1, FS_Singleton
  <2> QED
    BY <2>1, <2>2
<1> HIDE DEF web, n
<1>3. /\ outbox' \in [Ticket -> Nat] /\ outbox'[ticket] = outbox[ticket] + n
      /\ screens' \in [Ticket -> Nat] /\ screens'[ticket] = screens[ticket] + m
      /\ \A u \in Ticket \ {ticket} : outbox'[u] = outbox[u] /\ screens'[u] = screens[u]
  <2>1. m \in {0, 1}
    BY <1>2
  <2> HIDE DEF m
  <2> QED
    BY <1>b, <1>c, <1>2, <2>1
<1>4. /\ raised' \in [Ticket -> [server : Nat, elsewhere : Nat]]
      /\ raised'[ticket].server = raised[ticket].server + (IF where = "server" THEN 1 ELSE 0)
      /\ raised'[ticket].elsewhere = raised[ticket].elsewhere + (IF where = "server" THEN 0 ELSE 1)
      /\ \A u \in Ticket \ {ticket} : raised'[u] = raised[u]
  <2> DEFINE r == raised[ticket]
             x == [r EXCEPT ![where] = @ + 1]
  <2>1. raised' = [raised EXCEPT ![ticket] = x]
    BY <1>c
  <2>2. r \in [server : Nat, elsewhere : Nat]
    BY <1>b
  <2>3. /\ x \in [server : Nat, elsewhere : Nat]
        /\ x.server = r.server + (IF where = "server" THEN 1 ELSE 0)
        /\ x.elsewhere = r.elsewhere + (IF where = "server" THEN 0 ELSE 1)
    <3>1. CASE where = "server"
      BY <2>2, <3>1
    <3>2. CASE where = "elsewhere"
      BY <2>2, <3>2
    <3> QED
      BY <3>1, <3>2
  <2> HIDE DEF x
  <2> QED
    BY <1>b, <2>1, <2>3
<1>5. ChatShapes'
  BY <1>a, <1>c, <1>3, <1>4, ChatFacts, ChatShapesNext
<1>6. SecretsHold'
  <2>1. ASSUME NEW o \in told', o.secret PROVE o.notice = "refund"
    <3>1. CASE o \in told
      BY <1>a, <2>1, <3>1 DEF SecretsHold
    <3>2. CASE o \notin told
      <4>1. PICK k \in Watchers(ticket) :
              o = [ticket |-> ticket, chat |-> k.chat, who |-> k.who,
                   notice |-> notice, secret |-> Tells(notice, private)]
        BY <1>c, <2>1, <3>2
      <4> QED
        BY <2>1, <4>1 DEF Tells
    <3> QED
      BY <3>1, <3>2
  <2> QED
    BY <1>a, <1>c, <2>1 DEF SecretsHold
<1>7. \A d \in Desk : TurnIsSafe(turns[d])'
  BY <1>a, <1>c DEF TurnIsSafe, RoleIn, IsOperator
<1>8. ASSUME NEW u \in Ticket
      PROVE  screens'[u] + outbox'[u] <= 2 * raised'[u].server + raised'[u].elsewhere
  <2>1. /\ outbox[u] \in Nat /\ screens[u] \in Nat /\ raised[u].server \in Nat
        /\ raised[u].elsewhere \in Nat
        /\ screens[u] + outbox[u] <= 2 * raised[u].server + raised[u].elsewhere
    BY <1>a, <1>b
  <2>2. CASE u = ticket /\ where = "server"
    BY <1>2, <1>3, <1>4, <2>1, <2>2
  <2>3. CASE u = ticket /\ where = "elsewhere"
    BY <1>2, <1>3, <1>4, <2>1, <2>3
  <2>4. CASE u # ticket
    BY <1>3, <1>4, <2>1, <2>4
  <2> QED
    BY <2>2, <2>3, <2>4
<1>9. ASSUME NEW o \in told'
      PROVE  /\ o.ticket \in Ticket /\ orders'[o.ticket] \in Key
             /\ orders'[o.ticket].chat = o.chat /\ orders'[o.ticket].who = o.who
  <2>1. CASE o \in told
    BY <1>a, <1>c, <2>1
  <2>2. CASE o \notin told
    <3>1. PICK k \in Watchers(ticket) :
            o = [ticket |-> ticket, chat |-> k.chat, who |-> k.who,
                 notice |-> notice, secret |-> Tells(notice, private)]
      BY <1>c, <2>2
    <3> QED
      BY <1>1, <1>c, <3>1
  <2> QED
    BY <2>1, <2>2
<1>10. \A k \in DOMAIN sessions' : SessionIsSafe(k, sessions'[k], orders')
  BY <1>a, <1>c
<1> QED
  BY <1>5, <1>6, <1>7, <1>8, <1>9, <1>10, ChatInvNext

\* What leaves the outbox is shown once or never.
LEMMA DrainStep ==
  ASSUME ChatInv, Drain PROVE ChatInv'
<1>a. /\ ChatShapes /\ SecretsHold
      /\ \A u \in Ticket : screens[u] + outbox[u] <= 2 * raised[u].server + raised[u].elsewhere
      /\ \A o \in told : /\ o.ticket \in Ticket /\ orders[o.ticket] \in Key
                         /\ orders[o.ticket].chat = o.chat /\ orders[o.ticket].who = o.who
      /\ \A l \in DOMAIN sessions : SessionIsSafe(l, sessions[l], orders)
      /\ \A e \in Desk : TurnIsSafe(turns[e])
  BY ChatInvParts
<1>b. /\ outbox \in [Ticket -> Nat] /\ screens \in [Ticket -> Nat]
      /\ raised \in [Ticket -> [server : Nat, elsewhere : Nat]]
  BY <1>a, ChatFacts
<1>c. /\ outbox' = [t \in Ticket |-> 0]
      /\ screens' = [t \in Ticket |-> screens[t] + outbox[t]] \/ screens' = screens
      /\ UNCHANGED <<operators, sessions, turns, orders, answers, metered, told, raised, begun>>
  BY DEF Drain
<1>1. /\ outbox' \in [Ticket -> Nat] /\ screens' \in [Ticket -> Nat]
      /\ \A u \in Ticket : screens'[u] + outbox'[u] <= screens[u] + outbox[u]
  BY <1>b, <1>c
<1>2. ASSUME NEW u \in Ticket
      PROVE  screens'[u] + outbox'[u] <= 2 * raised'[u].server + raised'[u].elsewhere
  <2>1. /\ outbox[u] \in Nat /\ screens[u] \in Nat /\ raised[u].server \in Nat
        /\ raised[u].elsewhere \in Nat /\ outbox'[u] \in Nat /\ screens'[u] \in Nat
    BY <1>b, <1>1
  <2> QED
    BY <1>a, <1>c, <1>1, <2>1
<1>3. ChatShapes'
  BY <1>a, <1>c, <1>1, ChatFacts, ChatShapesNext
<1>4. SecretsHold'
  BY <1>a, <1>c DEF SecretsHold, noticeVars
<1>5. \A d \in Desk : TurnIsSafe(turns[d])'
  BY <1>a, <1>c DEF TurnIsSafe, RoleIn, IsOperator
<1> QED
  BY <1>a, <1>c, <1>2, <1>3, <1>4, <1>5, ChatInvNext

\* Nothing was said yet.
LEMMA ChatInvInit == ChatInit => ChatInv
<1> SUFFICES ASSUME ChatInit PROVE ChatInv
  OBVIOUS
<1>1. DOMAIN sessions = {} /\ sessions \in [DOMAIN sessions -> SessionStates]
  BY DEF ChatInit
<1>2. \A d \in Desk : turns[d] = Quiet
  BY DEF ChatInit
<1>3. ChatTypeOK
  BY <1>1, <1>2, ChatAssumption DEF ChatInit, ChatTypeOK, Quiet
<1>4. turns \in [Desk -> TurnStates \cup {Quiet}]
  BY DEF ChatInit
<1>5. SecretsHold
  BY DEF ChatInit, SecretsHold
<1>6. \A t \in Ticket : screens[t] + outbox[t] <= 2 * raised[t].server + raised[t].elsewhere
  BY DEF ChatInit
<1> QED
  BY <1>1, <1>2, <1>3, <1>4, <1>5, <1>6, ChatInvParts DEF ChatInit, ChatShapes, TurnIsSafe

\* However many people, jobs and notices there are, and whenever the operator's
\* list changes: no chat answers anyone who is not the operator at that moment with
\* a figure of the shop, no customer's turn is billed to it; a notice tells one
\* only as the reason on a refund's receipt, and reaches the chat that ordered the
\* job and no other; the dashboard shows none twice but those raised in the server.
THEOREM ChatsAreDiscreet == ChatSpec => []ChatHolds
<1>1. ChatInv /\ [ChatNext]_chatVars => ChatInv'
  <2> SUFFICES ASSUME ChatInv, [ChatNext]_chatVars PROVE ChatInv'
    OBVIOUS
  <2>1. CASE UNCHANGED chatVars
    <3>1. ChatShapes'
      BY <2>1, ChatInvParts, ChatFacts, ChatShapesNext DEF chatVars, noticeVars
    <3>2. SecretsHold'
      BY <2>1, ChatInvParts DEF chatVars, noticeVars, SecretsHold
    <3>3. \A d \in Desk : TurnIsSafe(turns[d])'
      BY <2>1, ChatInvParts DEF chatVars, TurnIsSafe, RoleIn, IsOperator
    <3>4. \A k \in DOMAIN sessions' : SessionIsSafe(k, sessions'[k], orders')
      BY <2>1, ChatInvParts DEF chatVars
    <3> QED
      BY <2>1, <3>1, <3>2, <3>3, <3>4, SafeStep DEF chatVars
  <2>2. CASE Drain
    BY <2>2, DrainStep
  <2>3. CASE \E ops \in SUBSET Person : Regroup(ops)
    BY <2>3, RegroupStep
  <2>4. CASE \E p \in Person, chat \in Room : Command(p, chat)
    BY <2>4, CommandStep
  <2>5. CASE \E p \in Person, chat \in Room, says \in BOOLEAN : Hear(p, chat, says)
    BY <2>5, HearStep
  <2>6. CASE \E d \in Desk : Reply(d)
    BY <2>6, ReplyStep
  <2>7. CASE \E d \in Desk : AskForTools(d) \/ EndRound(d) \/ CallTool(d)
    BY <2>7, ToolStep
  <2>8. CASE \E d \in Desk : Watch(d)
    BY <2>8, WatchStep
  <2>9. CASE \E d \in Desk, t \in Ticket : PlaceOrder(d, t)
    BY <2>9, PlaceOrderStep
  <2>10. CASE \E t \in Ticket, where \in {"server", "elsewhere"}, notice \in Notice, private \in BOOLEAN :
                 Tell(t, where, notice, private)
    BY <2>10, TellStep
  <2> QED
    BY <2>1, <2>2, <2>3, <2>4, <2>5, <2>6, <2>7, <2>8, <2>9, <2>10 DEF ChatNext
<1>2. ChatInv => ChatHolds
  BY ChatInvParts DEF ChatInv, ChatShapes, NoticeInv, ChatHolds, NoticesHold
<1>3. ChatSpec => []ChatInv
  BY <1>1, ChatInvInit, PTL DEF ChatSpec
<1> QED
  BY <1>2, <1>3, PTL

-----------------------------------------------------------------------------
(***************************************************************************)
(* BriefDesk.  While a draft is in the making its files are all of it; the *)
(* stage machine records it once they are there, and never begins another  *)
(* after that, so page, text and mail stay those of one draft.             *)
(***************************************************************************)

OpenSteps == {"published", "mailed", "delivered", "review"}

\* What lies in a job's folder when the job is at a step.
FolderFits(at, draft, lying, record) ==
    /\ at \in {"md", "html", "pdf", "made"} \cup OpenSteps => draft # 0 /\ lying["md"] = draft
    /\ at \in {"html", "pdf", "made"} \cup OpenSteps => lying["html"] = draft
    /\ at \in {"made"} \cup OpenSteps =>
         record.draft = draft /\ (record.pdf => lying["pdf"] = draft)

\* A mail is of the recorded draft, and its job stays published.
MailFits(m, at, record) ==
    /\ m.job \in Ordered /\ m.link.job = m.job /\ at \in OpenSteps
    /\ m.text = record.draft /\ m.pdf \in {0, m.text} /\ (m.pdf # 0 => record.pdf)

BriefInv ==
    /\ BriefDeskTypeOK
    /\ \A j \in Ordered : FolderFits(making[j], drafts[j], folder[j], recorded[j])
    /\ \A l \in links : making[l.job] # "ordered"
    /\ \A m \in inbox : MailFits(m, making[m.job], recorded[m.job])

\* What the types say, before a step and after it.
LEMMA BriefTypes ==
  ASSUME BriefDeskTypeOK
  PROVE  /\ deskClock \in 0..DeskTime /\ localMode \in {"auto", "never", "peer"}
         /\ secret \in 0..MaxSecrets /\ folder \in [Ordered -> [Formats -> 0..MaxDrafts]]
         /\ drafts \in [Ordered -> 0..MaxDrafts] /\ making \in [Ordered -> Steps]
         /\ recorded \in [Ordered -> [draft : 0..MaxDrafts, pdf : BOOLEAN]]
         /\ links \subseteq [job : Ordered, secret : 1..MaxSecrets, ts : 0..DeskTime]
         /\ \A m \in inbox : m.link \in links /\ m.text \in 0..MaxDrafts /\ m.pdf \in 0..MaxDrafts
  BY DEF BriefDeskTypeOK

\* A link that is signed now is well formed and is for the order it is signed for.
LEMMA SignedLink ==
  ASSUME BriefDeskTypeOK, NEW j \in Ordered, secret # 0
  PROVE  /\ Sign(j) \in [job : Ordered, secret : 1..MaxSecrets, ts : 0..DeskTime]
         /\ Sign(j).job = j
<1>1. secret \in 1..MaxSecrets /\ deskClock \in 0..DeskTime
  BY BriefTypes, DeskAssumption
<1> QED
  BY <1>1 DEF Sign

\* A step of one job: it leaves the others, signs links of its own, and what it
\* does to its own folder and record fits its next step.
LEMMA JobStep ==
  ASSUME BriefInv, NEW j \in Ordered, UNCHANGED Elsewhere,
         /\ folder' \in [Ordered -> [Formats -> 0..MaxDrafts]] /\ making' \in [Ordered -> Steps]
         /\ drafts' \in [Ordered -> 0..MaxDrafts]
         /\ recorded' \in [Ordered -> [draft : 0..MaxDrafts, pdf : BOOLEAN]],
         \A i \in Ordered \ {j} : /\ making'[i] = making[i] /\ drafts'[i] = drafts[i]
                                  /\ folder'[i] = folder[i] /\ recorded'[i] = recorded[i],
         FolderFits(making'[j], drafts'[j], folder'[j], recorded'[j]),
         making'[j] # "ordered",
         making[j] \in OpenSteps => making'[j] \in OpenSteps /\ recorded'[j] = recorded[j],
         links' = links \/ (secret # 0 /\ links' = links \cup {Sign(j)}),
         \A m \in inbox' : \/ m \in inbox
                           \/ /\ m.link \in links' /\ m.text \in 0..MaxDrafts /\ m.pdf \in 0..MaxDrafts
                              /\ m.job = j /\ MailFits(m, making'[j], recorded'[j])
  PROVE  BriefInv'
<1>1. /\ BriefDeskTypeOK
      /\ \A i \in Ordered : FolderFits(making[i], drafts[i], folder[i], recorded[i])
      /\ \A l \in links : making[l.job] # "ordered"
      /\ \A m \in inbox : MailFits(m, making[m.job], recorded[m.job])
  BY DEF BriefInv
<1>2. /\ links' \subseteq [job : Ordered, secret : 1..MaxSecrets, ts : 0..DeskTime]
      /\ links \subseteq links' /\ \A l \in links' : l \in links \/ l.job = j
  BY <1>1, BriefTypes, SignedLink
<1>3. \A m \in inbox' : m.link \in links' /\ m.text \in 0..MaxDrafts /\ m.pdf \in 0..MaxDrafts
  BY <1>1, <1>2, BriefTypes
<1>4. BriefDeskTypeOK'
  BY <1>1, <1>2, <1>3, BriefTypes DEF BriefDeskTypeOK, Elsewhere
<1>5. \A i \in Ordered : FolderFits(making'[i], drafts'[i], folder'[i], recorded'[i])
  BY <1>1
<1>6. ASSUME NEW l \in links' PROVE making'[l.job] # "ordered"
  <2>1. l.job \in Ordered
    BY <1>2
  <2>2. CASE l.job = j
    BY <2>2
  <2>3. CASE l.job # j
    BY <1>1, <1>2, <2>1, <2>3
  <2> QED
    BY <2>2, <2>3
<1>7. ASSUME NEW m \in inbox' PROVE MailFits(m, making'[m.job], recorded'[m.job])
  <2>1. CASE m \in inbox
    <3>1. MailFits(m, making[m.job], recorded[m.job])
      BY <1>1, <2>1
    <3>2. m.job \in Ordered /\ making[m.job] \in OpenSteps
      BY <3>1 DEF MailFits
    <3>3. making'[m.job] \in OpenSteps /\ recorded'[m.job] = recorded[m.job]
      BY <3>2
    <3> QED
      BY <3>1, <3>3 DEF MailFits
  <2>2. CASE m \notin inbox
    BY <2>2
  <2> QED
    BY <2>1, <2>2
<1> QED
  BY <1>4, <1>5, <1>6, <1>7 DEF BriefInv

\* A move of one job.
LEMMA MoveFacts ==
  ASSUME making \in [Ordered -> Steps], NEW j \in Ordered, NEW from, NEW to \in Steps,
         Move(j, from, to)
  PROVE  /\ making[j] = from /\ making'[j] = to /\ making' \in [Ordered -> Steps]
         /\ \A i \in Ordered \ {j} : making'[i] = making[i]
  BY DEF Move

\* Moves that leave the folder alone and need no more of it than the step before.
LEMMA QuietMove ==
  ASSUME BriefInv, NEW j \in Ordered, NEW from \in Steps, NEW to \in Steps \ {"ordered"},
         Move(j, from, to), UNCHANGED <<Elsewhere, folder, drafts, recorded, inbox>>,
         links' = links \/ (secret # 0 /\ links' = links \cup {Sign(j)}),
         \/ to \in {"awaiting", "paid", "closed"} /\ from \notin OpenSteps
         \/ from = "made" /\ to = "published"
         \/ from \in OpenSteps /\ to \in OpenSteps
  PROVE  BriefInv'
<1>1. BriefDeskTypeOK /\ FolderFits(making[j], drafts[j], folder[j], recorded[j])
  BY DEF BriefInv
<1>2. /\ making[j] = from /\ making'[j] = to /\ making' \in [Ordered -> Steps]
      /\ \A i \in Ordered \ {j} : making'[i] = making[i]
  BY <1>1, BriefTypes, MoveFacts
<1>3. FolderFits(making'[j], drafts'[j], folder'[j], recorded'[j])
  BY <1>1, <1>2 DEF FolderFits, OpenSteps
<1> QED
  BY <1>1, <1>2, <1>3, BriefTypes, JobStep DEF OpenSteps

\* The first file of a draft.
LEMMA WriteMdStep ==
  ASSUME BriefInv, NEW j \in Ordered, WriteMd(j) PROVE BriefInv'
<1>1. BriefDeskTypeOK /\ drafts[j] \in Nat
  BY BriefTypes DEF BriefInv
<1>2. /\ making[j] = "paid" /\ making'[j] = "md" /\ making' \in [Ordered -> Steps]
      /\ \A i \in Ordered \ {j} : making'[i] = making[i]
  BY <1>1, BriefTypes, MoveFacts DEF WriteMd, Steps
<1>3. /\ drafts' \in [Ordered -> 0..MaxDrafts] /\ drafts'[j] # 0
      /\ \A i \in Ordered \ {j} : drafts'[i] = drafts[i]
  BY <1>1, BriefTypes, DeskAssumption DEF WriteMd
<1>4. /\ folder' \in [Ordered -> [Formats -> 0..MaxDrafts]] /\ folder'[j]["md"] = drafts'[j]
      /\ \A i \in Ordered \ {j} : folder'[i] = folder[i]
  <2> DEFINE x == [folder[j] EXCEPT !["md"] = drafts'[j]]
  <2>1. folder' = [folder EXCEPT ![j] = x]
    BY DEF WriteMd
  <2>2. x \in [Formats -> 0..MaxDrafts] /\ x["md"] = drafts'[j]
    BY <1>1, <1>3, BriefTypes DEF Formats
  <2> HIDE DEF x
  <2> QED
    BY <1>1, <2>1, <2>2, BriefTypes
<1>5. FolderFits(making'[j], drafts'[j], folder'[j], recorded'[j])
  BY <1>2, <1>3, <1>4 DEF FolderFits, OpenSteps
<1> QED
  BY <1>1, <1>2, <1>3, <1>4, <1>5, BriefTypes, JobStep DEF WriteMd, OpenSteps

\* The other two: an HTML file is this draft's, a PDF may be another's.
LEMMA WriteOtherStep ==
  ASSUME BriefInv, NEW j \in Ordered, WriteHtml(j) \/ WritePdf(j) PROVE BriefInv'
<1>1. BriefDeskTypeOK /\ FolderFits(making[j], drafts[j], folder[j], recorded[j])
  BY DEF BriefInv
<1>2. UNCHANGED <<Elsewhere, drafts, recorded, links, inbox>>
  BY DEF WriteHtml, WritePdf
<1>3. CASE WriteHtml(j)
  <2>1. /\ making[j] = "md" /\ making'[j] = "html" /\ making' \in [Ordered -> Steps]
        /\ \A i \in Ordered \ {j} : making'[i] = making[i]
    BY <1>1, <1>3, BriefTypes, MoveFacts DEF WriteHtml, Steps
  <2> DEFINE x == [folder[j] EXCEPT !["html"] = drafts[j]]
  <2>2. folder' = [folder EXCEPT ![j] = x]
    BY <1>3 DEF WriteHtml
  <2>3. x \in [Formats -> 0..MaxDrafts] /\ x["html"] = drafts[j] /\ x["md"] = folder[j]["md"]
    BY <1>1, BriefTypes DEF Formats
  <2> HIDE DEF x
  <2>4. /\ folder' \in [Ordered -> [Formats -> 0..MaxDrafts]] /\ folder'[j] = x
        /\ \A i \in Ordered \ {j} : folder'[i] = folder[i]
    BY <1>1, <2>2, <2>3, BriefTypes
  <2>5. FolderFits(making'[j], drafts'[j], folder'[j], recorded'[j])
    BY <1>1, <1>2, <2>1, <2>3, <2>4 DEF FolderFits, OpenSteps
  <2> QED
    BY <1>1, <1>2, <2>1, <2>4, <2>5, BriefTypes, JobStep DEF OpenSteps
<1>4. CASE WritePdf(j)
  <2>1. /\ making[j] = "html" /\ making'[j] = "pdf" /\ making' \in [Ordered -> Steps]
        /\ \A i \in Ordered \ {j} : making'[i] = making[i]
    BY <1>1, <1>4, BriefTypes, MoveFacts DEF WritePdf, Steps
  <2> DEFINE x == [folder[j] EXCEPT !["pdf"] = drafts[j]]
  <2>2. folder' = folder \/ folder' = [folder EXCEPT ![j] = x]
    BY <1>4 DEF WritePdf
  <2>3. /\ x \in [Formats -> 0..MaxDrafts]
        /\ x["html"] = folder[j]["html"] /\ x["md"] = folder[j]["md"]
    BY <1>1, BriefTypes DEF Formats
  <2> HIDE DEF x
  <2>4. /\ folder' \in [Ordered -> [Formats -> 0..MaxDrafts]] /\ folder'[j] \in {folder[j], x}
        /\ \A i \in Ordered \ {j} : folder'[i] = folder[i]
    BY <1>1, <2>2, <2>3, BriefTypes
  <2>5. FolderFits(making'[j], drafts'[j], folder'[j], recorded'[j])
    BY <1>1, <1>2, <2>1, <2>3, <2>4 DEF FolderFits, OpenSteps
  <2> QED
    BY <1>1, <1>2, <2>1, <2>4, <2>5, BriefTypes, JobStep DEF OpenSteps
<1> QED
  BY <1>3, <1>4

\* The record says which draft it is, and of the PDF whether it is that one's.
LEMMA RecordDraftStep ==
  ASSUME BriefInv, NEW j \in Ordered, RecordDraft(j) PROVE BriefInv'
<1>1. BriefDeskTypeOK /\ FolderFits(making[j], drafts[j], folder[j], recorded[j])
  BY DEF BriefInv
<1>2. UNCHANGED <<Elsewhere, folder, drafts, links, inbox>>
  BY DEF RecordDraft
<1>3. /\ making[j] = "pdf" /\ making'[j] = "made" /\ making' \in [Ordered -> Steps]
      /\ \A i \in Ordered \ {j} : making'[i] = making[i]
  BY <1>1, BriefTypes, MoveFacts DEF RecordDraft, Steps
<1> DEFINE b == folder[j]["pdf"] = drafts[j]
           x == [draft |-> drafts[j], pdf |-> b]
<1>4. recorded' = [recorded EXCEPT ![j] = x]
  BY DEF RecordDraft
<1>5. b \in BOOLEAN
  OBVIOUS
<1>6. b => folder[j]["pdf"] = drafts[j]
  OBVIOUS
<1> HIDE DEF b
<1>7. x \in [draft : 0..MaxDrafts, pdf : BOOLEAN] /\ x.draft = drafts[j]
  BY <1>1, <1>5, BriefTypes
<1>8. x.pdf => folder[j]["pdf"] = drafts[j]
  BY <1>6
<1> HIDE DEF x
<1>9. /\ recorded' \in [Ordered -> [draft : 0..MaxDrafts, pdf : BOOLEAN]] /\ recorded'[j] = x
      /\ \A i \in Ordered \ {j} : recorded'[i] = recorded[i]
  BY <1>1, <1>4, <1>7, BriefTypes
<1>10. FolderFits(making'[j], drafts'[j], folder'[j], recorded'[j])
  BY <1>1, <1>2, <1>3, <1>7, <1>8, <1>9 DEF FolderFits, OpenSteps
<1> QED
  BY <1>1, <1>2, <1>3, <1>9, <1>10, BriefTypes, JobStep DEF OpenSteps

\* A mail carries the recorded draft, and a link of its own.
LEMMA MailDraftStep ==
  ASSUME BriefInv, NEW j \in Ordered, MailDraft(j) PROVE BriefInv'
<1>1. BriefDeskTypeOK /\ FolderFits(making[j], drafts[j], folder[j], recorded[j])
  BY DEF BriefInv
<1> DEFINE m == [job |-> j, text |-> folder[j]["md"], link |-> Sign(j),
                 pdf |-> IF recorded[j].pdf THEN folder[j]["pdf"] ELSE 0]
<1>2. /\ UNCHANGED <<Elsewhere, folder, drafts, recorded>> /\ inbox' = inbox \cup {m}
      /\ secret # 0 /\ links' = links \cup {Sign(j)}
  BY DEF MailDraft
<1>3. /\ making[j] = "published" /\ making'[j] = "mailed" /\ making' \in [Ordered -> Steps]
      /\ \A i \in Ordered \ {j} : making'[i] = making[i]
  BY <1>1, BriefTypes, MoveFacts DEF MailDraft, Steps
<1>4. FolderFits(making'[j], drafts'[j], folder'[j], recorded'[j])
  BY <1>1, <1>2, <1>3 DEF FolderFits, OpenSteps
<1>5. /\ recorded[j].draft = folder[j]["md"] /\ folder[j]["md"] \in 0..MaxDrafts
      /\ folder[j]["pdf"] \in 0..MaxDrafts
      /\ recorded[j].pdf => folder[j]["pdf"] = folder[j]["md"]
  BY <1>1, <1>3, BriefTypes DEF FolderFits, OpenSteps, Formats
<1>6. /\ m.job = j /\ m.link = Sign(j) /\ m.text = recorded[j].draft /\ m.text \in 0..MaxDrafts
      /\ m.pdf \in {0, m.text} /\ (m.pdf # 0 => recorded[j].pdf)
  BY <1>5
<1> HIDE DEF m
<1>7. m.pdf \in 0..MaxDrafts
  BY <1>6, DeskAssumption
<1>8. MailFits(m, making'[j], recorded'[j])
  BY <1>1, <1>2, <1>3, <1>6, SignedLink DEF MailFits, OpenSteps
<1>9. \A o \in inbox' : \/ o \in inbox
                        \/ /\ o.link \in links' /\ o.text \in 0..MaxDrafts /\ o.pdf \in 0..MaxDrafts
                           /\ o.job = j /\ MailFits(o, making'[j], recorded'[j])
  BY <1>2, <1>6, <1>7, <1>8
<1> QED
  BY <1>1, <1>2, <1>3, <1>4, <1>9, BriefTypes, JobStep DEF OpenSteps

\* Every step of a job.
LEMMA BriefStep ==
  ASSUME BriefInv, NEW j \in Ordered,
         \/ SignCheckout(j) \/ PayOrder(j) \/ WriteMd(j) \/ WriteHtml(j) \/ WritePdf(j)
         \/ RecordDraft(j) \/ PublishDraft(j) \/ MailDraft(j) \/ RecordDelivery(j)
         \/ Stumble(j) \/ DieWriting(j)
  PROVE  BriefInv'
<1>1. CASE SignCheckout(j)
  BY <1>1, QuietMove DEF SignCheckout, Steps, OpenSteps
<1>2. CASE PayOrder(j)
  BY <1>2, QuietMove DEF PayOrder, Steps, OpenSteps
<1>3. CASE PublishDraft(j)
  BY <1>3, QuietMove DEF PublishDraft, Steps, OpenSteps
<1>4. CASE RecordDelivery(j)
  BY <1>4, QuietMove DEF RecordDelivery, Steps, OpenSteps
<1>5. CASE Stumble(j)
  <2>1. UNCHANGED <<Elsewhere, folder, drafts, recorded, links, inbox>>
    BY <1>5 DEF Stumble
  <2>2. CASE \E s \in {"paid", "md", "html", "made"} : Move(j, s, "closed")
    BY <2>1, <2>2, QuietMove DEF Steps, OpenSteps
  <2>3. CASE Move(j, "published", "review")
    BY <2>1, <2>3, QuietMove DEF Steps, OpenSteps
  <2> QED
    BY <1>5, <2>2, <2>3 DEF Stumble
<1>6. CASE DieWriting(j)
  <2>1. UNCHANGED <<Elsewhere, folder, drafts, recorded, links, inbox>>
    BY <1>6 DEF DieWriting
  <2>2. CASE \E s \in {"md", "html", "pdf"} : Move(j, s, "paid")
    BY <2>1, <2>2, QuietMove DEF Steps, OpenSteps
  <2>3. CASE Move(j, "mailed", "published")
    BY <2>1, <2>3, QuietMove DEF Steps, OpenSteps
  <2> QED
    BY <1>6, <2>2, <2>3 DEF DieWriting
<1> QED
  BY <1>1, <1>2, <1>3, <1>4, <1>5, <1>6,
     WriteMdStep, WriteOtherStep, RecordDraftStep, MailDraftStep

\* Time, and another secret, change no brief.
LEMMA DeskStep ==
  ASSUME BriefInv, deskClock' \in 0..DeskTime, secret' \in 0..MaxSecrets,
         UNCHANGED <<localMode, folder, drafts, making, recorded, links, inbox>>
  PROVE  BriefInv'
<1>1. BriefDeskTypeOK'
  BY BriefTypes DEF BriefInv, BriefDeskTypeOK
<1> QED
  BY <1>1 DEF BriefInv

\* Nothing is made yet.
LEMMA BriefInvInit == BriefDeskInit => BriefInv
<1> SUFFICES ASSUME BriefDeskInit PROVE BriefInv
  OBVIOUS
<1>1. BriefDeskTypeOK
  BY DeskAssumption DEF BriefDeskInit, BriefDeskTypeOK, Steps, Unrecorded
<1> QED
  BY <1>1 DEF BriefInv, BriefDeskInit, FolderFits, OpenSteps

\* The invariant is what the module promises.
LEMMA BriefInvMeans == BriefInv => BriefsHold
<1> SUFFICES ASSUME BriefInv PROVE BriefsHold
  OBVIOUS
<1>1. /\ BriefDeskTypeOK
      /\ \A j \in Ordered : FolderFits(making[j], drafts[j], folder[j], recorded[j])
      /\ \A l \in links : making[l.job] # "ordered"
      /\ \A m \in inbox : MailFits(m, making[m.job], recorded[m.job])
  BY DEF BriefInv
<1>2. \A j \in Ordered : Published(j) <=> making[j] \in OpenSteps
  BY DEF Published, OpenSteps
<1>3. ASSUME NEW j \in Ordered, Published(j)
      PROVE  /\ recorded[j].draft = Page(j) /\ recorded[j].draft = folder[j]["md"]
             /\ recorded[j].draft # 0 /\ making[j] # "closed"
             /\ recorded[j].pdf => folder[j]["pdf"] = recorded[j].draft
  <2>1. FolderFits(making[j], drafts[j], folder[j], recorded[j]) /\ making[j] \in OpenSteps
    BY <1>1, <1>2, <1>3
  <2> QED
    BY <2>1 DEF FolderFits, OpenSteps, Page
<1>4. NothingLeaks
  <2> SUFFICES ASSUME NEW caller \in Caller, localMode # "peer", ~AtTheMachine(caller)
               PROVE  /\ ListBriefs(caller) = {}
                      /\ \A j \in Ordered, l \in links :
                           /\ GetReceipt(j, l, caller) => l.job = j /\ making[j] # "ordered"
                           /\ GetBriefApi(j, l, caller) # 0 \/ GetBrief(j, l, "pdf") # 0 =>
                                l.job = j /\ recorded[j].draft # 0 /\ making[j] # "closed"
    BY DEF NothingLeaks
  <2>1. ~IsLocal(caller)
    BY DEF IsLocal, AtTheMachine
  <2>2. ASSUME NEW j \in Ordered, NEW l \in links, Verifies(j, l)
        PROVE  l.job = j /\ making[j] # "ordered"
    BY <1>1, <2>2 DEF Verifies
  <2> QED
    BY <1>3, <2>1, <2>2 DEF ListBriefs, GetReceipt, GetBriefApi, GetBrief
<1>5. ASSUME NEW m \in inbox
      PROVE  /\ m.text = recorded[m.job].draft /\ m.pdf \in {0, m.text}
             /\ secret = m.link.secret /\ deskClock <= m.link.ts + LinkLife =>
                  GetBrief(m.job, m.link, "html") = m.text
             /\ m.pdf # 0 => recorded[m.job].pdf
  <2>1. /\ m.job \in Ordered /\ m.link.job = m.job /\ making[m.job] \in OpenSteps
        /\ m.text = recorded[m.job].draft /\ m.pdf \in {0, m.text}
        /\ m.pdf # 0 => recorded[m.job].pdf
    BY <1>1 DEF MailFits
  <2>2. ASSUME secret = m.link.secret, deskClock <= m.link.ts + LinkLife
        PROVE  Verifies(m.job, m.link)
    <3>1. m.link.ts \in Nat /\ deskClock \in Nat /\ LinkLife \in Nat
      <4>1. m.link \in [job : Ordered, secret : 1..MaxSecrets, ts : 0..DeskTime]
        BY <1>1, BriefTypes
      <4>2. m.link.ts \in 0..DeskTime
        BY <4>1
      <4> QED
        BY <1>1, <4>2, BriefTypes, DeskAssumption
    <3>2. deskClock - m.link.ts <= LinkLife
      BY <2>2, <3>1
    <3> QED
      BY <2>1, <2>2, <3>2 DEF Verifies
  <2>3. Published(m.job) /\ Page(m.job) = m.text
    BY <1>2, <1>3, <2>1
  <2> QED
    BY <2>1, <2>2, <2>3 DEF GetBrief
<1>6. OneBriefIsShown
  BY <1>3, <1>5 DEF OneBriefIsShown
<1> QED
  BY <1>1, <1>4, <1>6 DEF BriefsHold

\* However many jobs and drafts there are, wherever a process dies over them and
\* whenever the secret is changed: nobody away from the machine sees a draft that
\* is not settled, another customer's brief or the list of them, and page, text,
\* PDF and mail of a published brief are of one draft.
THEOREM BriefsAreOne == BriefDeskSpec => []BriefsHold
<1>1. BriefInv /\ [BriefDeskNext]_deskVars => BriefInv'
  <2> SUFFICES ASSUME BriefInv, [BriefDeskNext]_deskVars PROVE BriefInv'
    OBVIOUS
  <2>1. deskClock \in 0..DeskTime /\ secret \in 0..MaxSecrets
    BY BriefTypes DEF BriefInv
  <2>2. CASE UNCHANGED deskVars
    BY <2>1, <2>2, DeskStep DEF deskVars
  <2>3. CASE DeskTick
    <3>1. deskClock' \in 0..DeskTime
      BY <2>1, <2>3, DeskAssumption DEF DeskTick
    <3> QED
      BY <2>1, <2>3, <3>1, DeskStep DEF DeskTick
  <2>4. CASE \E s \in 0..MaxSecrets : Rotate(s)
    BY <2>1, <2>4, DeskStep DEF Rotate
  <2> QED
    BY <2>2, <2>3, <2>4, BriefStep DEF BriefDeskNext
<1>2. BriefDeskSpec => []BriefInv
  BY <1>1, BriefInvInit, PTL DEF BriefDeskSpec
<1> QED
  BY <1>2, BriefInvMeans, PTL

-----------------------------------------------------------------------------
(***************************************************************************)
(* Custody.  What was sent in a mode falls into chains, one more than      *)
(* there were faults: in a chain each sweep was planned with those before  *)
(* it in sight, so the chain stays within balance and cap.  Every run      *)
(* extends a chain of its own, all of which it has in sight; a run that    *)
(* ends leaves its chain to the file, or its fault has begun a new one.    *)
(***************************************************************************)

Under(run, m) == run # Idle /\ run.mode = m
OutOf(done, m) == {s \in done : s.mode = m}
EarnedFrom(booked, m) == Raw({p \in booked : p.live = (m = "live")})
Since(records, t) == {s \in records : s.ts >= t}
Content(file) == IF file = Torn THEN {} ELSE file

\* Records that are out, and within balance and cap.
Fits(records, out, earned, now) ==
    /\ records \subseteq out /\ Raw(records) <= earned
    /\ Raw(Since(records, now - CapWindow)) <= DailyCap

\* cover says which sweeps are in each of the chains 0..n, owner which chain each
\* run of the mode extends.
Chains(m, runs, seen, out, earned, now, n, cover, owner) ==
    /\ cover \in [0..n -> SUBSET out] /\ owner \in [Sweeper -> 0..n]
    /\ \A s \in out : \E i \in 0..n : s \in cover[i]
    /\ \A i \in 0..n : Fits(cover[i], out, earned, now)
    /\ \A w \in Sweeper : Under(runs[w], m) => cover[owner[w]] \subseteq runs[w].sweeps
    /\ \A v, w \in Sweeper :
         Under(runs[v], m) /\ Under(runs[w], m) /\ owner[v] = owner[w] => v = w
    /\ \/ \E i \in 0..n : /\ cover[i] \subseteq seen
                          /\ \A w \in Sweeper : Under(runs[w], m) => owner[w] # i
       \/ \E w \in Sweeper : /\ Under(runs[w], m)
                             /\ runs[w].at \in {"sent", "writing"} \/ cover[owner[w]] \subseteq seen

Chained(m, runs, seen, out, earned, now, n) ==
    \E cover \in [0..n -> SUBSET out], owner \in [Sweeper -> 0..n] :
       Chains(m, runs, seen, out, earned, now, n, cover, owner)

SweepRecords == [id : Nat, raw : Nat, ts : Nat, mode : Modes]
PaymentRecords == [id : 1..MaxPayments, live : BOOLEAN, raw : Income]
LiveRuns == [at : {"loaded", "sent", "writing"}, mode : Modes, sweeps : SUBSET SweepRecords]
RunStates == {Idle} \cup LiveRuns

CustodyShapes ==
    /\ custodyClock \in 0..CustodyTime /\ custodyEnv \in Settings /\ faults \in 0..MaxFaults
    /\ payments \subseteq PaymentRecords /\ IsFiniteSet(payments)
    /\ sent \subseteq SweepRecords /\ IsFiniteSet(sent) /\ \A s \in sent : s.ts <= custodyClock
    /\ sweeper \in [Sweeper -> RunStates] /\ files \in [Modes -> {Torn} \cup SUBSET SweepRecords]

\* The file of a mode fits, and so does what a run has in sight once it has sent.
RecordsFit(m, file, runs, out, earned, now) ==
    /\ file # Torn => Fits(file, out, earned, now)
    /\ \A w \in Sweeper : Under(runs[w], m) =>
         /\ runs[w].sweeps \subseteq out
         /\ runs[w].at # "loaded" => Fits(runs[w].sweeps, out, earned, now)

CustodyInv ==
    /\ CustodyShapes
    /\ \A m \in Modes :
         LET out == OutOf(sent, m)
             earned == EarnedFrom(payments, m)
         IN  /\ RecordsFit(m, files[m], sweeper, out, earned, custodyClock)
             /\ Chained(m, sweeper, Content(files[m]), out, earned, custodyClock, faults)

-----------------------------------------------------------------------------
(* Amounts.                                                                *)

\* Raw adds up amounts.
LEMMA RawIsSum ==
  ASSUME NEW S, IsFiniteSet(S), NEW f, \A x \in S : f[x] = x.raw
  PROVE  Raw(S) = SumFunctionOnSet(f, S)
<1> DEFINE body(h) == [s \in SUBSET S |-> IF s = {} THEN 0 ELSE Pick(s).raw + h[s \ {Pick(s)}]]
           g == CHOOSE h : h = body(h)
<1>1. ASSUME NEW h PROVE h = body(h) <=> IsSum(h, f, S)
  <2>1. \A s \in SUBSET S : s # {} => f[Pick(s)] = Pick(s).raw
    BY PickIsIn
  <2>2. body(h) = [s \in SUBSET S |-> IF s = {} THEN 0 ELSE f[Pick(s)] + h[s \ {Pick(s)}]]
    BY <2>1
  <2> HIDE DEF body
  <2> QED
    BY <2>2 DEF IsSum
<1>2. Raw(S) = g[S]
  BY DEF Raw, MapThenSumSet, MapThenFoldSet, Pick
<1>3. \E h : h = body(h)
  BY <1>1, SumExists
<1>4. IsSum(g, f, S)
  <2>1. g = body(g)
    BY <1>3
  <2> HIDE DEF g, body
  <2> QED
    BY <1>1, <2>1
<1>5. PICK h : IsSum(h, f, S) /\ SumFunctionOnSet(f, S) = h[S]
  BY SumIsSum
<1>6. g[S] = h[S]
  <2> HIDE DEF g
  <2>1. \A s \in SUBSET S : g[s] = h[s]
    BY <1>4, <1>5, SumsAgree
  <2> QED
    BY <2>1
<1> QED
  BY <1>2, <1>5, <1>6

\* Of fewer records the amount is no more.
LEMMA RawOfFewer ==
  ASSUME NEW S, IsFiniteSet(S), \A x \in S : x.raw \in Nat, NEW T \in SUBSET S
  PROVE  Raw(T) \in Nat /\ Raw(S) \in Nat /\ Raw(T) <= Raw(S)
<1> DEFINE f == [x \in S |-> x.raw]
<1>1. (\A x \in S : f[x] = x.raw /\ f[x] \in Nat) /\ IsFiniteSet(T)
  BY FS_Subset
<1> HIDE DEF f
<1>2. Raw(S) = SumFunctionOnSet(f, S) /\ Raw(T) = SumFunctionOnSet(f, T)
  BY <1>1, RawIsSum
<1>3. SumFunctionOnSet(f, T) \in Nat /\ SumFunctionOnSet(f, S) \in Nat
  BY <1>1, SumNat
<1> QED
  BY <1>1, <1>2, <1>3, SumSubset

\* One more record adds at most its own amount.
LEMMA RawOfOneMore ==
  ASSUME NEW S, IsFiniteSet(S), \A x \in S : x.raw \in Nat, NEW r, r.raw \in Nat
  PROVE  IsFiniteSet(S \cup {r}) /\ Raw(S \cup {r}) \in Nat /\ Raw(S \cup {r}) <= Raw(S) + r.raw
<1> DEFINE U == S \cup {r}
           f == [x \in U |-> x.raw]
<1>1. /\ \A x \in U : f[x] = x.raw /\ f[x] \in Nat /\ f[x] \in Int
      /\ IsFiniteSet(U) /\ r \in U /\ U \ {r} \subseteq S /\ S \subseteq U
  BY FS_AddElement
<1> HIDE DEF f
<1>2. Raw(U) = SumFunctionOnSet(f, U)
  BY <1>1, RawIsSum
<1>3. SumFunctionOnSet(f, U) = f[r] + SumFunctionOnSet(f, U \ {r})
  BY <1>1, SumTakeOut
<1>4. Raw(U \ {r}) = SumFunctionOnSet(f, U \ {r})
  <2>1. IsFiniteSet(U \ {r}) /\ \A x \in U \ {r} : f[x] = x.raw
    BY <1>1, FS_RemoveElement
  <2> QED
    BY <2>1, RawIsSum
<1>5. Raw(U \ {r}) \in Nat /\ Raw(S) \in Nat /\ Raw(U \ {r}) <= Raw(S)
  BY <1>1, RawOfFewer
<1>6. Raw(U) = r.raw + Raw(U \ {r})
  BY <1>1, <1>2, <1>3, <1>4
<1>7. Raw(U) \in Nat /\ Raw(U) <= Raw(S) + r.raw
  <2> DEFINE a == Raw(U)  b == Raw(U \ {r})  c == Raw(S)  d == r.raw
  <2>1. a = d + b /\ b \in Nat /\ c \in Nat /\ d \in Nat /\ b <= c
    BY <1>5, <1>6
  <2>2. a \in Nat /\ a <= c + d
    <3> HIDE DEF a, b, c, d
    <3> QED
      BY <2>1
  <2> QED
    BY <2>2
<1> QED
  BY <1>1, <1>7

\* Records that n chains cover, each within b, are within n times b.
LEMMA RawOfCover ==
  ASSUME NEW S, IsFiniteSet(S), \A x \in S : x.raw \in Nat, NEW b \in Nat, NEW n \in Nat,
         NEW cover \in [0..n -> SUBSET S], \A x \in S : \E i \in 0..n : x \in cover[i],
         \A i \in 0..n : Raw(cover[i]) <= b
  PROVE  Raw(S) <= b * (1 + n)
<1> DEFINE f == [x \in S |-> x.raw]
<1>1. \A x \in S : f[x] = x.raw /\ f[x] \in Nat
  OBVIOUS
<1> HIDE DEF f
<1>2. Raw(S) = SumFunctionOnSet(f, S)
  BY <1>1, RawIsSum
<1>3. ASSUME NEW i \in 0..n PROVE SumFunctionOnSet(f, cover[i]) <= b
  <2>1. cover[i] \subseteq S /\ IsFiniteSet(cover[i])
    BY FS_Subset
  <2>2. Raw(cover[i]) = SumFunctionOnSet(f, cover[i])
    BY <1>1, <2>1, RawIsSum
  <2> QED
    BY <2>2
<1>4. IsFiniteSet(0..n) /\ Cardinality(0..n) = 1 + n
  BY FS_Interval
<1>5. SumFunctionOnSet(f, S) <= b * Cardinality(0..n)
  BY <1>1, <1>3, <1>4, SumCover
<1> QED
  BY <1>2, <1>4, <1>5

-----------------------------------------------------------------------------
(* Chains.                                                                 *)

\* What fits goes on fitting when time passes and more is sent and earned.
LEMMA FitsLater ==
  ASSUME NEW records, NEW out \in SUBSET SweepRecords, IsFiniteSet(out),
         NEW more, NEW earned \in Nat, NEW richer \in Nat, NEW now \in Nat, NEW later \in Nat,
         Fits(records, out, earned, now), out \subseteq more, earned <= richer, now <= later
  PROVE  Fits(records, more, richer, later)
<1>1. /\ records \subseteq out /\ IsFiniteSet(records) /\ Raw(records) <= earned
      /\ Raw(Since(records, now - CapWindow)) <= DailyCap
  BY FS_Subset DEF Fits
<1>2. \A s \in records : s.raw \in Nat /\ s.ts \in Nat
  BY <1>1 DEF SweepRecords
<1>3. Raw(records) \in Nat
  BY <1>1, <1>2, RawOfFewer
<1> DEFINE A == Since(records, now - CapWindow)
           B == Since(records, later - CapWindow)
<1>4. B \subseteq A /\ A \subseteq records
  BY <1>2, CustodyAssumption DEF Since
<1>5. IsFiniteSet(A) /\ \A s \in A : s.raw \in Nat
  BY <1>1, <1>2, <1>4, FS_Subset
<1> HIDE DEF A, B
<1>6. Raw(B) \in Nat /\ Raw(A) \in Nat /\ Raw(B) <= Raw(A)
  BY <1>4, <1>5, RawOfFewer
<1>7. Raw(B) <= DailyCap /\ Raw(records) <= richer
  <2>1. Raw(A) <= DailyCap
    BY <1>1 DEF A
  <2> QED
    BY <1>1, <1>3, <1>6, <2>1, CustodyAssumption
<1> QED
  BY <1>1, <1>7 DEF Fits, B

\* What a run plans on top of what it has in sight fits, if it is anything.
LEMMA PlanFits ==
  ASSUME NEW m \in Modes, NEW R \in SUBSET SweepRecords, IsFiniteSet(R),
         payments \subseteq PaymentRecords, IsFiniteSet(payments), custodyClock \in Nat,
         NEW rec, rec.raw = PlanSweep(m, R), rec.raw > 0, NEW out, R \cup {rec} \subseteq out
  PROVE  rec.raw \in Nat /\ Fits(R \cup {rec}, out, EarnedFrom(payments, m), custodyClock)
<1> DEFINE earned == EarnedFrom(payments, m)
           A == Since(R, custodyClock - CapWindow)
           B == Since(R \cup {rec}, custodyClock - CapWindow)
           balance == Positive(earned - Raw(R))
           room == Positive(DailyCap - Raw(A))
           e == earned   r == Raw(R)   a == Raw(A)   x == rec.raw
<1>1. \A s \in R : s.raw \in Nat
  BY DEF SweepRecords
<1>2. r \in Nat /\ a \in Nat /\ IsFiniteSet(A) /\ A \subseteq R
  <2>1. A \subseteq R
    BY DEF Since
  <2> HIDE DEF A
  <2> QED
    BY <1>1, <2>1, RawOfFewer, FS_Subset
<1>3. e \in Nat
  <2> DEFINE P == {p \in payments : p.live = (m = "live")}
  <2>1. P \subseteq payments /\ IsFiniteSet(payments) /\ \A p \in payments : p.raw \in Nat
    BY CustodyAssumption DEF PaymentRecords
  <2>2. e = Raw(P)
    BY DEF EarnedFrom
  <2> HIDE DEF P, e
  <2> QED
    BY <2>1, <2>2, RawOfFewer
<1>4. x = IF balance < SweepMin \/ Minimum(balance, room) < SweepMin THEN 0 ELSE Minimum(balance, room)
  BY DEF PlanSweep, Earned, EarnedFrom, Recent, Since
<1>5. x \in Nat /\ r + x <= e /\ a + x <= DailyCap
  <2>1. x = Minimum(balance, room) /\ x > 0
    BY <1>4
  <2>2. balance = Positive(e - r) /\ room = Positive(DailyCap - a)
    OBVIOUS
  <2> HIDE DEF balance, room, e, r, a, x
  <2> QED
    BY <1>2, <1>3, <2>1, <2>2, CustodyAssumption DEF Minimum, Positive
<1>6. Raw(R \cup {rec}) \in Nat /\ Raw(R \cup {rec}) <= r + x
  BY <1>1, <1>5, RawOfOneMore
<1>7. Raw(B) \in Nat /\ Raw(B) <= a + x
  <2> DEFINE C == A \cup {rec}
  <2>1. B \subseteq C
    BY DEF Since
  <2>2. \A s \in A : s.raw \in Nat
    BY <1>1, <1>2
  <2> HIDE DEF A, B
  <2>3. IsFiniteSet(C) /\ Raw(C) \in Nat /\ Raw(C) <= a + x
    BY <1>2, <1>5, <2>2, RawOfOneMore
  <2>4. \A s \in C : s.raw \in Nat
    BY <1>5, <2>2
  <2>5. Raw(B) \in Nat /\ Raw(B) <= Raw(C)
    BY <2>1, <2>3, <2>4, RawOfFewer
  <2> DEFINE b == Raw(B)  c == Raw(C)
  <2>6. b \in Nat /\ c \in Nat /\ b <= c /\ c <= a + x
    BY <2>3, <2>5
  <2>7. b <= a + x
    <3> HIDE DEF b, c, a, x
    <3> QED
      BY <1>2, <1>5, <2>6
  <2> QED
    BY <2>5, <2>7
<1>8. Raw(R \cup {rec}) <= earned /\ Raw(B) <= DailyCap
  <2> DEFINE b == Raw(B)  c == Raw(R \cup {rec})
  <2>1. b \in Nat /\ c \in Nat /\ b <= a + x /\ c <= r + x
    BY <1>6, <1>7
  <2>2. c <= e /\ b <= DailyCap
    <3> HIDE DEF b, c, a, x, r, e
    <3> QED
      BY <1>2, <1>3, <1>5, <2>1, CustodyAssumption
  <2> QED
    BY <2>2
<1> QED
  BY <1>5, <1>8 DEF Fits

\* The chains outlive income and time.
LEMMA ChainsLater ==
  ASSUME NEW m, NEW runs, NEW seen, NEW out \in SUBSET SweepRecords, IsFiniteSet(out),
         NEW earned \in Nat, NEW richer \in Nat, NEW now \in Nat, NEW later \in Nat, NEW n,
         earned <= richer, now <= later, Chained(m, runs, seen, out, earned, now, n)
  PROVE  Chained(m, runs, seen, out, richer, later, n)
<1>1. PICK cover \in [0..n -> SUBSET out], owner \in [Sweeper -> 0..n] :
         Chains(m, runs, seen, out, earned, now, n, cover, owner)
  BY DEF Chained
<1>2. ASSUME NEW i \in 0..n PROVE Fits(cover[i], out, richer, later)
  <2>1. Fits(cover[i], out, earned, now)
    BY <1>1 DEF Chains
  <2> QED
    BY <2>1, FitsLater
<1>3. Chains(m, runs, seen, out, richer, later, n, cover, owner)
  BY <1>1, <1>2 DEF Chains
<1> QED
  BY <1>3 DEF Chained

\* The chains of a mode are not touched by runs of the other.
LEMMA ChainsElsewhere ==
  ASSUME NEW m, NEW runs, NEW others, NEW seen, NEW out, NEW earned, NEW now, NEW n,
         Chained(m, runs, seen, out, earned, now, n),
         \A w \in Sweeper : /\ Under(others[w], m) <=> Under(runs[w], m)
                            /\ Under(runs[w], m) => others[w] = runs[w]
  PROVE  Chained(m, others, seen, out, earned, now, n)
<1>1. PICK cover \in [0..n -> SUBSET out], owner \in [Sweeper -> 0..n] :
         Chains(m, runs, seen, out, earned, now, n, cover, owner)
  BY DEF Chained
<1>2. Chains(m, others, seen, out, earned, now, n, cover, owner)
  BY <1>1 DEF Chains
<1> QED
  BY <1>2 DEF Chained

\* A chain that is empty and that nobody extends.
SpareChain(m, runs, seen, out, earned, now, n) ==
    \E cover \in [0..n -> SUBSET out], owner \in [Sweeper -> 0..n], i \in 0..n :
       /\ Chains(m, runs, seen, out, earned, now, n, cover, owner)
       /\ cover[i] = {} /\ \A w \in Sweeper : owner[w] # i

\* A fault begins such a chain.
LEMMA ChainsMore ==
  ASSUME NEW m, NEW runs, NEW seen, NEW out, NEW earned \in Nat, NEW now, NEW n \in Nat,
         Chained(m, runs, seen, out, earned, now, n)
  PROVE  SpareChain(m, runs, seen, out, earned, now, n + 1)
<1>1. PICK cover \in [0..n -> SUBSET out], owner \in [Sweeper -> 0..n] :
         Chains(m, runs, seen, out, earned, now, n, cover, owner)
  BY DEF Chained
<1> DEFINE longer == [i \in 0..(n + 1) |-> IF i = n + 1 THEN {} ELSE cover[i]]
<1>2. /\ 0..n \subseteq 0..(n + 1) /\ n + 1 \in 0..(n + 1) /\ n + 1 \notin 0..n
      /\ \A i \in 0..(n + 1) : i = n + 1 \/ i \in 0..n
  OBVIOUS
<1>3. /\ longer \in [0..(n + 1) -> SUBSET out] /\ longer[n + 1] = {}
      /\ \A i \in 0..n : longer[i] = cover[i]
  BY <1>2
<1>4. owner \in [Sweeper -> 0..(n + 1)] /\ \A w \in Sweeper : owner[w] \in 0..n /\ owner[w] # n + 1
  BY <1>2
<1> HIDE DEF longer
<1>5. Fits({}, out, earned, now)
  <2>1. Raw({}) = 0
    <3>1. Raw({}) = SumFunctionOnSet([x \in {} |-> 0], {})
      BY RawIsSum, FS_EmptySet
    <3> QED
      BY <3>1, SumEmpty
  <2>2. Since({}, now - CapWindow) = {}
    BY DEF Since
  <2>3. 0 <= earned /\ 0 <= DailyCap
    BY CustodyAssumption
  <2>4. Raw({}) <= earned /\ Raw(Since({}, now - CapWindow)) <= DailyCap
    BY <2>1, <2>2, <2>3
  <2>5. {} \subseteq out
    OBVIOUS
  <2> QED
    BY <2>4, <2>5 DEF Fits
<1>6. \A i \in 0..(n + 1) : Fits(longer[i], out, earned, now)
  BY <1>1, <1>2, <1>3, <1>5 DEF Chains
<1>7. \A s \in out : \E i \in 0..(n + 1) : s \in longer[i]
  BY <1>1, <1>2, <1>3 DEF Chains
<1>8. \A w \in Sweeper : longer[owner[w]] = cover[owner[w]]
  BY <1>3, <1>4
<1>9. \/ \E i \in 0..(n + 1) : /\ longer[i] \subseteq seen
                               /\ \A w \in Sweeper : Under(runs[w], m) => owner[w] # i
      \/ \E w \in Sweeper : /\ Under(runs[w], m)
                            /\ runs[w].at \in {"sent", "writing"} \/ longer[owner[w]] \subseteq seen
  BY <1>2, <1>3, <1>4
<1>10. Chains(m, runs, seen, out, earned, now, n + 1, longer, owner)
  BY <1>1, <1>3, <1>4, <1>6, <1>7, <1>8, <1>9 DEF Chains
<1> QED
  BY <1>2, <1>3, <1>4, <1>10 DEF SpareChain

\* A chain that is free, all of it in sight.
FreeChain(m, runs, seen, out, earned, now, n) ==
    \E cover \in [0..n -> SUBSET out], owner \in [Sweeper -> 0..n], i \in 0..n :
       /\ Chains(m, runs, seen, out, earned, now, n, cover, owner)
       /\ cover[i] \subseteq seen /\ \A w \in Sweeper : Under(runs[w], m) => owner[w] # i

\* A run that begins extends such a chain.
LEMMA ChainTaken ==
  ASSUME NEW m \in Modes, NEW runs, NEW seen, NEW out, NEW earned, NEW now, NEW n,
         FreeChain(m, runs, seen, out, earned, now, n),
         NEW w \in Sweeper, ~ Under(runs[w], m),
         NEW next, Under(next[w], m), next[w].sweeps = seen,
         \A v \in Sweeper \ {w} : next[v] = runs[v]
  PROVE  Chained(m, next, seen, out, earned, now, n)
<1>0. PICK cover \in [0..n -> SUBSET out], owner \in [Sweeper -> 0..n], i \in 0..n :
         /\ Chains(m, runs, seen, out, earned, now, n, cover, owner)
         /\ cover[i] \subseteq seen /\ \A v \in Sweeper : Under(runs[v], m) => owner[v] # i
  BY DEF FreeChain
<1> DEFINE holder == [owner EXCEPT ![w] = i]
<1>1. holder \in [Sweeper -> 0..n] /\ holder[w] = i /\ \A v \in Sweeper \ {w} : holder[v] = owner[v]
  OBVIOUS
<1> HIDE DEF holder
<1>2. \A v \in Sweeper : Under(next[v], m) => cover[holder[v]] \subseteq next[v].sweeps
  BY <1>0, <1>1 DEF Chains
<1>3. \A u, v \in Sweeper : Under(next[u], m) /\ Under(next[v], m) /\ holder[u] = holder[v] => u = v
  BY <1>0, <1>1 DEF Chains
<1>4. cover[holder[w]] \subseteq seen
  BY <1>0, <1>1
<1>5. Chains(m, next, seen, out, earned, now, n, cover, holder)
  BY <1>0, <1>1, <1>2, <1>3, <1>4 DEF Chains
<1> QED
  BY <1>0, <1>1, <1>5 DEF Chained

\* In company it begins a chain of its own.
LEMMA ChainBegun ==
  ASSUME NEW m \in Modes, NEW runs, NEW seen, NEW out, NEW earned \in Nat, NEW now, NEW n \in Nat,
         Chained(m, runs, seen, out, earned, now, n),
         NEW w \in Sweeper, ~ Under(runs[w], m),
         NEW next, Under(next[w], m), next[w].sweeps = seen,
         \A v \in Sweeper \ {w} : next[v] = runs[v]
  PROVE  Chained(m, next, seen, out, earned, now, n + 1)
<1> DEFINE k == n + 1
<1>1. SpareChain(m, runs, seen, out, earned, now, k)
  BY ChainsMore
<1> HIDE DEF k
<1>2. FreeChain(m, runs, seen, out, earned, now, k)
  <2>1. PICK cover \in [0..k -> SUBSET out], owner \in [Sweeper -> 0..k], i \in 0..k :
           /\ Chains(m, runs, seen, out, earned, now, k, cover, owner)
           /\ cover[i] = {} /\ \A v \in Sweeper : owner[v] # i
    BY <1>1 DEF SpareChain
  <2>2. Chains(m, runs, seen, out, earned, now, k, cover, owner)
    BY <2>1
  <2>3. cover[i] \subseteq seen /\ \A v \in Sweeper : Under(runs[v], m) => owner[v] # i
    BY <2>1
  <2> QED
    BY <2>2, <2>3 DEF FreeChain
<1>3. Chained(m, next, seen, out, earned, now, k)
  BY <1>2, ChainTaken
<1> QED
  BY <1>3 DEF k

\* Run w may end: the file, which showed before and now shows seen, has in it the
\* chain w leaves or another free one, or some other run will see to that.
Leavable(m, runs, w, before, seen, out, earned, now, n) ==
    \E cover \in [0..n -> SUBSET out], owner \in [Sweeper -> 0..n] :
       /\ Chains(m, runs, before, out, earned, now, n, cover, owner)
       /\ \/ \E i \in 0..n : /\ cover[i] \subseteq seen
                             /\ \A v \in Sweeper \ {w} : Under(runs[v], m) => owner[v] # i
          \/ \E v \in Sweeper \ {w} : /\ Under(runs[v], m)
                                      /\ \/ runs[v].at \in {"sent", "writing"}
                                         \/ cover[owner[v]] \subseteq seen

\* A run that ends so leaves its chain free.
LEMMA ChainLeft ==
  ASSUME NEW m, NEW runs, NEW before, NEW seen, NEW out, NEW earned, NEW now, NEW n, NEW w \in Sweeper,
         Leavable(m, runs, w, before, seen, out, earned, now, n),
         NEW next, next[w] = Idle, \A v \in Sweeper \ {w} : next[v] = runs[v]
  PROVE  Chained(m, next, seen, out, earned, now, n)
<1>0. PICK cover \in [0..n -> SUBSET out], owner \in [Sweeper -> 0..n] :
         /\ Chains(m, runs, before, out, earned, now, n, cover, owner)
         /\ \/ \E i \in 0..n : /\ cover[i] \subseteq seen
                               /\ \A v \in Sweeper \ {w} : Under(runs[v], m) => owner[v] # i
            \/ \E v \in Sweeper \ {w} : /\ Under(runs[v], m)
                                        /\ \/ runs[v].at \in {"sent", "writing"}
                                           \/ cover[owner[v]] \subseteq seen
  BY DEF Leavable
<1>1. ~ Under(next[w], m)
  BY DEF Under
<1>2. \/ \E i \in 0..n : /\ cover[i] \subseteq seen
                         /\ \A v \in Sweeper : Under(next[v], m) => owner[v] # i
      \/ \E v \in Sweeper : /\ Under(next[v], m)
                            /\ next[v].at \in {"sent", "writing"} \/ cover[owner[v]] \subseteq seen
  BY <1>0, <1>1
<1>3. \A v \in Sweeper : Under(next[v], m) => cover[owner[v]] \subseteq next[v].sweeps
  BY <1>0, <1>1 DEF Chains
<1>4. \A u, v \in Sweeper : Under(next[u], m) /\ Under(next[v], m) /\ owner[u] = owner[v] => u = v
  BY <1>0, <1>1 DEF Chains
<1>5. Chains(m, next, seen, out, earned, now, n, cover, owner)
  BY <1>0, <1>2, <1>3, <1>4 DEF Chains
<1> QED
  BY <1>5 DEF Chained

\* A run that sends extends its chain to all it has in sight and what it sent.
LEMMA ChainExtended ==
  ASSUME NEW m, NEW runs, NEW seen, NEW out \in SUBSET SweepRecords, IsFiniteSet(out),
         NEW earned \in Nat, NEW now \in Nat, NEW n, Chained(m, runs, seen, out, earned, now, n),
         NEW w \in Sweeper, Under(runs[w], m), NEW rec,
         Fits(runs[w].sweeps \cup {rec}, out \cup {rec}, earned, now),
         NEW next, Under(next[w], m), next[w].at = "sent", next[w].sweeps = runs[w].sweeps \cup {rec},
         \A v \in Sweeper \ {w} : next[v] = runs[v]
  PROVE  Chained(m, next, seen, out \cup {rec}, earned, now, n)
<1>1. PICK cover \in [0..n -> SUBSET out], owner \in [Sweeper -> 0..n] :
         Chains(m, runs, seen, out, earned, now, n, cover, owner)
  BY DEF Chained
<1> DEFINE R == runs[w].sweeps \cup {rec}
           longer == [cover EXCEPT ![owner[w]] = R]
           more == out \cup {rec}
<1>2. R \subseteq more /\ cover[owner[w]] \subseteq R /\ owner[w] \in 0..n
  BY <1>1 DEF Chains, Fits
<1>3. /\ longer \in [0..n -> SUBSET more] /\ longer[owner[w]] = R
      /\ \A i \in 0..n : i # owner[w] => longer[i] = cover[i]
  BY <1>2
<1>4. Fits(R, more, earned, now) /\ next[w].sweeps = R
  OBVIOUS
<1>5. rec \in R /\ out \subseteq more /\ \A s \in more : s \in out \/ s = rec
  OBVIOUS
<1> HIDE DEF R, longer, more
<1>6. ASSUME NEW i \in 0..n PROVE Fits(longer[i], more, earned, now)
  <2>1. CASE i = owner[w]
    BY <1>3, <1>4, <2>1
  <2>2. CASE i # owner[w]
    <3>1. Fits(cover[i], out, earned, now)
      BY <1>1 DEF Chains
    <3>2. Fits(cover[i], more, earned, now)
      BY <1>5, <3>1, FitsLater
    <3> QED
      BY <1>3, <2>2, <3>2
  <2> QED
    BY <2>1, <2>2
<1>7. ASSUME NEW s \in more PROVE \E i \in 0..n : s \in longer[i]
  <2>1. CASE s = rec
    BY <1>2, <1>3, <1>5, <2>1
  <2>2. CASE s \in out
    <3>1. PICK i \in 0..n : s \in cover[i]
      BY <1>1, <2>2 DEF Chains
    <3> QED
      BY <1>2, <1>3, <3>1
  <2> QED
    BY <1>5, <2>1, <2>2
<1>8. ASSUME NEW v \in Sweeper, Under(next[v], m) PROVE longer[owner[v]] \subseteq next[v].sweeps
  <2>1. CASE v = w
    BY <1>3, <1>4, <2>1
  <2>2. CASE v # w
    <3>1. next[v] = runs[v] /\ owner[v] # owner[w] /\ owner[v] \in 0..n
      BY <1>1, <1>8, <2>2 DEF Chains
    <3>2. cover[owner[v]] \subseteq runs[v].sweeps
      BY <1>1, <1>8, <3>1 DEF Chains
    <3> QED
      BY <1>3, <3>1, <3>2
  <2> QED
    BY <2>1, <2>2
<1>9. \A u, v \in Sweeper : Under(next[u], m) /\ Under(next[v], m) /\ owner[u] = owner[v] => u = v
  BY <1>1 DEF Chains
<1>10. Chains(m, next, seen, more, earned, now, n, longer, owner)
  BY <1>3, <1>6, <1>7, <1>8, <1>9 DEF Chains
<1> QED
  BY <1>3, <1>10 DEF Chained, more

-----------------------------------------------------------------------------
(* The steps of Custody.                                                   *)

\* What the shapes say, of the state and of a mode.
LEMMA CustodyFacts ==
  ASSUME CustodyShapes
  PROVE  /\ custodyClock \in 0..CustodyTime /\ custodyClock \in Nat /\ custodyEnv \in Settings
         /\ faults \in 0..MaxFaults /\ faults \in Nat
         /\ payments \subseteq PaymentRecords /\ IsFiniteSet(payments)
         /\ sent \subseteq SweepRecords /\ IsFiniteSet(sent) /\ \A s \in sent : s.ts <= custodyClock
         /\ sweeper \in [Sweeper -> RunStates] /\ files \in [Modes -> {Torn} \cup SUBSET SweepRecords]
  BY CustodyAssumption DEF CustodyShapes

\* More payments earn no less.
LEMMA EarnedGrows ==
  ASSUME NEW booked \in SUBSET PaymentRecords, IsFiniteSet(booked), NEW fewer \in SUBSET booked, NEW m
  PROVE  /\ EarnedFrom(booked, m) \in Nat /\ EarnedFrom(fewer, m) \in Nat
         /\ EarnedFrom(fewer, m) <= EarnedFrom(booked, m)
<1> DEFINE P == {p \in booked : p.live = (m = "live")}
           Q == {p \in fewer : p.live = (m = "live")}
<1>1. P \subseteq booked /\ Q \subseteq P
  OBVIOUS
<1>2. EarnedFrom(booked, m) = Raw(P) /\ EarnedFrom(fewer, m) = Raw(Q)
  BY DEF EarnedFrom
<1> HIDE DEF P, Q
<1>3. IsFiniteSet(P) /\ \A p \in P : p.raw \in Nat
  BY <1>1, FS_Subset, CustodyAssumption DEF PaymentRecords
<1> QED
  BY <1>1, <1>2, <1>3, RawOfFewer

\* What is out in a mode is finite, and part of what is out.
LEMMA ModeFacts ==
  ASSUME CustodyShapes, NEW m
  PROVE  /\ OutOf(sent, m) \in SUBSET SweepRecords /\ IsFiniteSet(OutOf(sent, m))
         /\ OutOf(sent, m) \subseteq sent /\ EarnedFrom(payments, m) \in Nat
<1>1. OutOf(sent, m) \subseteq sent
  BY DEF OutOf
<1>2. IsFiniteSet(OutOf(sent, m))
  BY <1>1, CustodyFacts, FS_Subset
<1>3. EarnedFrom(payments, m) \in Nat
  BY CustodyFacts, EarnedGrows
<1> QED
  BY <1>1, <1>2, <1>3, CustodyFacts

\* What a file shows is real, and no such set is the mark of a torn one.
LEMMA RealIsNotTorn ==
  ASSUME NEW R \in SUBSET SweepRecords PROVE R # Torn /\ Content(R) = R
<1> SUFFICES ASSUME R = Torn PROVE FALSE
  BY DEF Content
<1> DEFINE mark == [id |-> 0, raw |-> 0, ts |-> -1]
<1>1. mark \in SweepRecords /\ mark.ts = -1
  BY DEF Torn
<1> HIDE DEF mark
<1>2. mark.ts \in Nat
  BY <1>1 DEF SweepRecords
<1> QED
  BY <1>1, <1>2

\* A run at work.
LEMMA RunFields ==
  ASSUME sweeper \in [Sweeper -> RunStates], NEW w \in Sweeper, sweeper[w].at # "idle"
  PROVE  LET r == sweeper[w]
         IN  /\ r \in LiveRuns /\ r.at \in {"loaded", "sent", "writing"} /\ r.mode \in Modes
             /\ r.sweeps \in SUBSET SweepRecords /\ \A m : Under(r, m) <=> r.mode = m
<1>1. sweeper[w] # Idle
  BY DEF Idle
<1>2. sweeper[w] \in LiveRuns
  BY <1>1 DEF RunStates
<1>3. \A m : Under(sweeper[w], m) <=> sweeper[w].mode = m
  BY <1>1 DEF Under
<1> QED
  BY <1>2, <1>3 DEF LiveRuns

\* A record of a run is no idle one.
LEMMA LiveIsUnder ==
  ASSUME NEW r \in LiveRuns PROVE r # Idle /\ \A m : Under(r, m) <=> r.mode = m
<1>1. r.at # Idle.at
  BY DEF LiveRuns, Idle
<1> QED
  BY <1>1 DEF Under

\* What it takes for the invariant to hold after a step.
LEMMA CustodyInvNext ==
  ASSUME CustodyShapes',
         \A m \in Modes :
            /\ RecordsFit(m, files'[m], sweeper', OutOf(sent', m), EarnedFrom(payments', m), custodyClock')
            /\ Chained(m, sweeper', Content(files'[m]), OutOf(sent', m), EarnedFrom(payments', m),
                       custodyClock', faults')
  PROVE  CustodyInv'
  BY DEF CustodyInv

\* Income, time and settings.
LEMMA LaterStep ==
  ASSUME CustodyInv, payments \subseteq payments', payments' \subseteq PaymentRecords, IsFiniteSet(payments'),
         custodyClock' \in 0..CustodyTime, custodyClock <= custodyClock', custodyEnv' \in Settings,
         UNCHANGED <<files, sweeper, sent, faults>>
  PROVE  CustodyInv'
<1>1. CustodyShapes
  BY DEF CustodyInv
<1>2. CustodyShapes'
  <2>1. \A s \in sent : s.ts <= custodyClock'
    <3>1. \A s \in sent : s.ts \in Nat /\ s.ts <= custodyClock
      BY <1>1, CustodyFacts DEF SweepRecords
    <3>2. custodyClock \in Nat /\ custodyClock' \in Nat
      BY <1>1, CustodyFacts, CustodyAssumption
    <3> QED
      BY <3>1, <3>2
  <2> QED
    BY <1>1, <2>1, CustodyFacts DEF CustodyShapes
<1>3. ASSUME NEW m \in Modes
      PROVE  /\ RecordsFit(m, files'[m], sweeper', OutOf(sent', m), EarnedFrom(payments', m), custodyClock')
             /\ Chained(m, sweeper', Content(files'[m]), OutOf(sent', m), EarnedFrom(payments', m),
                        custodyClock', faults')
  <2> DEFINE out == OutOf(sent, m)
             e == EarnedFrom(payments, m)
             f == EarnedFrom(payments', m)
  <2>1. /\ out \in SUBSET SweepRecords /\ IsFiniteSet(out) /\ e \in Nat /\ f \in Nat /\ e <= f
        /\ custodyClock \in Nat /\ custodyClock' \in Nat
    <3>1. out \in SUBSET SweepRecords /\ IsFiniteSet(out)
      BY <1>1, ModeFacts
    <3>2. e \in Nat /\ f \in Nat /\ e <= f
      BY EarnedGrows
    <3> QED
      BY <1>1, <3>1, <3>2, CustodyFacts, CustodyAssumption
  <2>2. /\ RecordsFit(m, files[m], sweeper, out, e, custodyClock)
        /\ Chained(m, sweeper, Content(files[m]), out, e, custodyClock, faults)
    BY DEF CustodyInv
  <2>3. OutOf(sent', m) = out
    OBVIOUS
  <2> HIDE DEF out, e, f
  <2>4. ASSUME NEW R, Fits(R, out, e, custodyClock) PROVE Fits(R, out, f, custodyClock')
    BY <2>1, <2>4, FitsLater
  <2>5. RecordsFit(m, files[m], sweeper, out, f, custodyClock')
    BY <2>2, <2>4 DEF RecordsFit
  <2>6. Chained(m, sweeper, Content(files[m]), out, f, custodyClock', faults)
    BY <2>1, <2>2, ChainsLater
  <2> QED
    BY <2>3, <2>5, <2>6 DEF f
<1> QED
  BY <1>2, <1>3, CustodyInvNext

\* What a run does, seen from the mode that is not its own.
LEMMA ElsewhereStep ==
  ASSUME CustodyInv, NEW m \in Modes, NEW w \in Sweeper,
         ~ Under(sweeper[w], m), ~ Under(sweeper'[w], m),
         \A v \in Sweeper \ {w} : sweeper'[v] = sweeper[v],
         files'[m] = files[m], OutOf(sent', m) = OutOf(sent, m), UNCHANGED <<payments, custodyClock>>,
         faults' = faults \/ faults' = faults + 1
  PROVE  /\ RecordsFit(m, files'[m], sweeper', OutOf(sent', m), EarnedFrom(payments', m), custodyClock')
         /\ Chained(m, sweeper', Content(files'[m]), OutOf(sent', m), EarnedFrom(payments', m),
                    custodyClock', faults')
<1> DEFINE out == OutOf(sent, m)
           e == EarnedFrom(payments, m)
           now == custodyClock
           seen == Content(files[m])
           runs == sweeper
           next == sweeper'
<1>1. CustodyShapes
  BY DEF CustodyInv
<1>2. /\ RecordsFit(m, files[m], sweeper, out, e, now) /\ Chained(m, runs, seen, out, e, now, faults)
      /\ e \in Nat /\ faults \in Nat
  BY <1>1, ModeFacts, CustodyFacts DEF CustodyInv
<1>3. RecordsFit(m, files[m], next, out, e, now)
  BY <1>2 DEF RecordsFit
<1>4. \A v \in Sweeper : /\ Under(next[v], m) <=> Under(runs[v], m)
                         /\ Under(runs[v], m) => next[v] = runs[v]
  OBVIOUS
<1>5. EarnedFrom(payments', m) = e /\ OutOf(sent', m) = out /\ custodyClock' = now
      /\ Content(files'[m]) = seen
  OBVIOUS
<1> HIDE DEF out, e, now, seen, runs, next
<1>6. Chained(m, runs, seen, out, e, now, faults')
  <2>1. CASE faults' = faults
    BY <1>2, <2>1
  <2>2. CASE faults' = faults + 1
    <3> DEFINE n == faults
    <3>1. n \in Nat /\ Chained(m, runs, seen, out, e, now, n)
      BY <1>2
    <3> HIDE DEF n
    <3>2. Chained(m, runs, seen, out, e, now, n + 1)
      BY <1>2, <3>1, ChainsMore DEF Chained, SpareChain
    <3> QED
      BY <2>2, <3>2 DEF n
  <2> QED
    BY <2>1, <2>2
<1>7. Chained(m, next, seen, out, e, now, faults')
  BY <1>4, <1>6, ChainsElsewhere
<1> QED
  BY <1>3, <1>5, <1>7 DEF next

\* A step of a run whose mode is m0: what is left to show is about that mode.
LEMMA OwnStep ==
  ASSUME CustodyInv, NEW w \in Sweeper, NEW m0 \in Modes, CustodyShapes',
         \A m \in Modes : Under(sweeper[w], m) \/ Under(sweeper'[w], m) => m = m0,
         \A v \in Sweeper \ {w} : sweeper'[v] = sweeper[v],
         \A m \in Modes \ {m0} : files'[m] = files[m] /\ OutOf(sent', m) = OutOf(sent, m),
         UNCHANGED <<payments, custodyClock>>, faults' = faults \/ faults' = faults + 1,
         RecordsFit(m0, files'[m0], sweeper', OutOf(sent', m0), EarnedFrom(payments, m0), custodyClock),
         Chained(m0, sweeper', Content(files'[m0]), OutOf(sent', m0), EarnedFrom(payments, m0),
                 custodyClock, faults')
  PROVE  CustodyInv'
<1>1. ASSUME NEW m \in Modes
      PROVE  /\ RecordsFit(m, files'[m], sweeper', OutOf(sent', m), EarnedFrom(payments', m), custodyClock')
             /\ Chained(m, sweeper', Content(files'[m]), OutOf(sent', m), EarnedFrom(payments', m),
                        custodyClock', faults')
  <2>1. CASE m = m0
    BY <2>1
  <2>2. CASE m # m0
    BY <2>2, ElsewhereStep
  <2> QED
    BY <2>1, <2>2
<1> QED
  BY <1>1, CustodyInvNext

\* A run begins: on the file's chain when it is alone, on a new one otherwise.
LEMMA LoadStep ==
  ASSUME CustodyInv, NEW w \in Sweeper, Load(w) PROVE CustodyInv'
<1> DEFINE m == ModeOf(custodyEnv)
           seen == Content(files[m])
           x == [at |-> "loaded", mode |-> m, sweeps |-> seen]
           out == OutOf(sent, m)
           e == EarnedFrom(payments, m)
           now == custodyClock
           runs == sweeper
           next == sweeper'
<1>1. CustodyShapes
  BY DEF CustodyInv
<1>2. /\ sweeper[w] = Idle /\ m \in Modes /\ sweeper' = [sweeper EXCEPT ![w] = x]
      /\ faults' = faults + (IF Busy(m) THEN 1 ELSE 0) /\ faults' <= MaxFaults
      /\ UNCHANGED <<custodyClock, custodyEnv, payments, files, sent>>
  BY DEF Load, Content
<1> HIDE DEF m
<1>3. /\ RecordsFit(m, files[m], sweeper, out, e, now) /\ Chained(m, runs, seen, out, e, now, faults)
      /\ e \in Nat /\ faults \in Nat /\ out \subseteq SweepRecords
  BY <1>1, <1>2, ModeFacts, CustodyFacts DEF CustodyInv
<1>4. seen \subseteq out
  BY <1>3 DEF RecordsFit, Fits, Content
<1>5. x \in LiveRuns /\ x.at = "loaded" /\ x.mode = m /\ x.sweeps = seen
  BY <1>2, <1>3, <1>4 DEF LiveRuns
<1>6. \A k \in Modes : ~ Under(sweeper[w], k)
  BY <1>2 DEF Under
<1> HIDE DEF x, seen, out, e
<1>7. /\ sweeper' \in [Sweeper -> RunStates] /\ sweeper'[w] = x
      /\ \A v \in Sweeper \ {w} : sweeper'[v] = sweeper[v]
  BY <1>1, <1>2, <1>5, CustodyFacts DEF RunStates
<1>8. \A k : Under(sweeper'[w], k) <=> k = m
  BY <1>5, <1>7, LiveIsUnder
<1>9. faults' \in 0..MaxFaults /\ (faults' = faults \/ faults' = faults + 1)
  BY <1>1, <1>2, <1>3, CustodyFacts, CustodyAssumption
<1>10. CustodyShapes'
  BY <1>1, <1>2, <1>7, <1>9, CustodyFacts DEF CustodyShapes
<1>11. RecordsFit(m, files[m], sweeper', out, e, now)
  BY <1>3, <1>4, <1>5, <1>6, <1>7 DEF RecordsFit
<1>12. Chained(m, sweeper', seen, out, e, now, faults')
  <2>1. CASE Busy(m)
    <3> DEFINE n == faults
    <3>1. /\ n \in Nat /\ Chained(m, runs, seen, out, e, now, n) /\ ~ Under(runs[w], m)
          /\ Under(next[w], m) /\ next[w].sweeps = seen
          /\ \A v \in Sweeper \ {w} : next[v] = runs[v]
      BY <1>2, <1>3, <1>5, <1>6, <1>7, <1>8
    <3>2. faults' = n + 1
      BY <2>1, <1>2
    <3> HIDE DEF n, runs, next, now
    <3>3. Chained(m, next, seen, out, e, now, n + 1)
      BY <1>2, <1>3, <3>1, ChainBegun
    <3> QED
      BY <3>2, <3>3 DEF next
  <2>2. CASE ~ Busy(m)
    <3> DEFINE n == faults
    <3>1. \A v \in Sweeper : ~ Under(runs[v], m)
      BY <2>2 DEF Busy, Under
    <3>2. FreeChain(m, runs, seen, out, e, now, n)
      BY <1>3, <3>1 DEF Chained, Chains, FreeChain
    <3>4. ~ Under(runs[w], m) /\ Under(next[w], m) /\ next[w].sweeps = seen
          /\ \A v \in Sweeper \ {w} : next[v] = runs[v]
      BY <1>2, <1>5, <1>6, <1>7, <1>8
    <3>5. faults' = n
      BY <1>2, <1>3, <2>2
    <3> HIDE DEF n, runs, next, now
    <3>6. Chained(m, next, seen, out, e, now, n)
      BY <1>2, <3>2, <3>4, ChainTaken
    <3> QED
      BY <3>5, <3>6 DEF next
  <2> QED
    BY <2>1, <2>2
<1>13. /\ \A k \in Modes : Under(sweeper[w], k) \/ Under(sweeper'[w], k) => k = m
       /\ \A k \in Modes \ {m} : files'[k] = files[k] /\ OutOf(sent', k) = OutOf(sent, k)
       /\ files'[m] = files[m] /\ OutOf(sent', m) = out
  BY <1>2, <1>6, <1>8 DEF out
<1> QED
  BY <1>2, <1>7, <1>9, <1>10, <1>11, <1>12, <1>13, OwnStep DEF seen, e

\* A run sends what it has planned.
LEMMA SendSweepStep ==
  ASSUME CustodyInv, NEW w \in Sweeper, SendSweep(w) PROVE CustodyInv'
<1> DEFINE run == sweeper[w]
           m == run.mode
           R == run.sweeps
           rec == [id |-> Cardinality(sent) + 1, raw |-> PlanSweep(m, R),
                   ts |-> custodyClock, mode |-> m]
           x == [run EXCEPT !.at = "sent", !.sweeps = R \cup {rec}]
           out == OutOf(sent, m)
           more == OutOf(sent', m)
           e == EarnedFrom(payments, m)
           now == custodyClock
           seen == Content(files[m])
           runs == sweeper
           next == sweeper'
<1>1. CustodyShapes
  BY DEF CustodyInv
<1>2. /\ run.at = "loaded" /\ rec.raw > 0 /\ sent' = sent \cup {rec}
      /\ sweeper' = [sweeper EXCEPT ![w] = x]
      /\ UNCHANGED <<custodyClock, custodyEnv, payments, files, faults>>
  BY DEF SendSweep
<1>3. /\ run \in LiveRuns /\ m \in Modes /\ R \in SUBSET SweepRecords
      /\ \A k : Under(sweeper[w], k) <=> k = m
  BY <1>1, <1>2, CustodyFacts, RunFields
<1>4. /\ RecordsFit(m, files[m], runs, out, e, now) /\ Chained(m, runs, seen, out, e, now, faults)
      /\ e \in Nat /\ out \in SUBSET SweepRecords /\ IsFiniteSet(out) /\ out \subseteq sent
      /\ now \in Nat /\ faults \in Nat
  BY <1>1, <1>3, ModeFacts, CustodyFacts DEF CustodyInv
<1>5. R \subseteq out /\ IsFiniteSet(R)
  <2>1. R \subseteq out
    BY <1>3, <1>4 DEF RecordsFit
  <2> QED
    BY <1>4, <2>1, FS_Subset
<1>6. rec.mode = m /\ rec.ts = now /\ rec.raw = PlanSweep(m, R)
  OBVIOUS
<1>7. more = out \cup {rec} /\ \A k \in Modes \ {m} : OutOf(sent', k) = OutOf(sent, k)
  <2> HIDE DEF rec, m
  <2> QED
    BY <1>2, <1>6 DEF OutOf
<1>8. Cardinality(sent) \in Nat
  BY <1>1, CustodyFacts, FS_CardinalityType
<1>9. rec.raw \in Nat /\ Fits(R \cup {rec}, more, e, now)
  <2>1. R \cup {rec} \subseteq more
    BY <1>5, <1>7
  <2>2. payments \subseteq PaymentRecords /\ IsFiniteSet(payments) /\ custodyClock \in Nat
    BY <1>1, CustodyFacts
  <2> HIDE DEF rec, m, R, more
  <2> QED
    BY <1>2, <1>3, <1>5, <1>6, <2>1, <2>2, PlanFits
<1>10. rec \in SweepRecords
  <2>1. PlanSweep(m, R) \in Nat
    BY <1>6, <1>9
  <2> HIDE DEF m, R
  <2> QED
    BY <1>3, <1>4, <1>8, <2>1 DEF SweepRecords
<1> HIDE DEF rec
<1>11. x \in LiveRuns /\ x.at = "sent" /\ x.mode = m /\ x.sweeps = R \cup {rec}
  <2>1. R \cup {rec} \in SUBSET SweepRecords
    BY <1>3, <1>10
  <2> DEFINE T == R \cup {rec}
             y == [run EXCEPT !.at = "sent", !.sweeps = T]
  <2>2. T \in SUBSET SweepRecords
    BY <2>1
  <2> HIDE DEF T, run
  <2>3. y \in LiveRuns
    BY <1>3, <2>2 DEF LiveRuns
  <2>4. y.at = "sent" /\ y.mode = run.mode /\ y.sweeps = T
    BY <1>3 DEF LiveRuns
  <2> QED
    BY <2>3, <2>4 DEF T, run
<1> HIDE DEF x
<1>12. /\ sweeper' \in [Sweeper -> RunStates] /\ sweeper'[w] = x
       /\ \A v \in Sweeper \ {w} : sweeper'[v] = sweeper[v]
  BY <1>1, <1>2, <1>11, CustodyFacts DEF RunStates
<1>13. \A k : Under(sweeper'[w], k) <=> k = m
  BY <1>11, <1>12, LiveIsUnder
<1>14. CustodyShapes'
  <2>1. /\ sent' \subseteq SweepRecords /\ IsFiniteSet(sent')
        /\ \A s \in sent' : s.ts <= custodyClock
    BY <1>1, <1>2, <1>4, <1>6, <1>10, CustodyFacts, FS_AddElement
  <2> QED
    BY <1>1, <1>2, <1>12, <2>1, CustodyFacts DEF CustodyShapes
<1>15. RecordsFit(m, files[m], next, more, e, now)
  <2>1. ASSUME NEW S, Fits(S, out, e, now) PROVE Fits(S, more, e, now)
    <3>1. out \subseteq more /\ e <= e /\ now <= now
      BY <1>4, <1>7
    <3> HIDE DEF out, more, e, now
    <3> QED
      BY <1>4, <2>1, <3>1, FitsLater
  <2>2. ASSUME NEW v \in Sweeper, Under(next[v], m)
        PROVE  /\ next[v].sweeps \subseteq more
               /\ next[v].at # "loaded" => Fits(next[v].sweeps, more, e, now)
    <3>1. CASE v = w
      BY <1>9, <1>11, <1>12, <3>1 DEF Fits
    <3>2. CASE v # w
      <4>1. next[v] = runs[v] /\ out \subseteq more
        BY <1>7, <1>12, <3>2
      <4> HIDE DEF out, more, e, now, runs, next
      <4> QED
        BY <1>4, <2>1, <2>2, <4>1 DEF RecordsFit
    <3> QED
      BY <3>1, <3>2
  <2> HIDE DEF out, more, e, now, runs, next
  <2> QED
    BY <1>4, <2>1, <2>2 DEF RecordsFit
<1>16. Chained(m, next, seen, more, e, now, faults)
  <2>1. /\ Under(runs[w], m) /\ Under(next[w], m) /\ next[w].at = "sent"
        /\ next[w].sweeps = runs[w].sweeps \cup {rec}
        /\ \A v \in Sweeper \ {w} : next[v] = runs[v]
        /\ Fits(runs[w].sweeps \cup {rec}, out \cup {rec}, e, now)
    BY <1>3, <1>7, <1>9, <1>11, <1>12, <1>13
  <2> HIDE DEF m, R, out, more, e, now, runs, next, seen, run
  <2>2. Chained(m, next, seen, out \cup {rec}, e, now, faults)
    BY <1>4, <2>1, ChainExtended
  <2> QED
    BY <1>7, <2>2
<1>17. \A k \in Modes : Under(sweeper[w], k) \/ Under(sweeper'[w], k) => k = m
  BY <1>3, <1>13
<1>18. \A k \in Modes \ {m} : files'[k] = files[k] /\ OutOf(sent', k) = OutOf(sent, k)
  BY <1>2, <1>7
<1>19. files'[m] = files[m] /\ UNCHANGED <<payments, custodyClock>> /\ faults' = faults
  BY <1>2
<1>20. /\ RecordsFit(m, files'[m], sweeper', OutOf(sent', m), EarnedFrom(payments, m), custodyClock)
       /\ Chained(m, sweeper', Content(files'[m]), OutOf(sent', m), EarnedFrom(payments, m),
                  custodyClock, faults')
  BY <1>15, <1>16, <1>19
<1> HIDE DEF m
<1> QED
  BY <1>3, <1>12, <1>14, <1>17, <1>18, <1>19, <1>20, OwnStep

\* What every step of a run that has begun starts from, in the run's own mode.
LEMMA OwnFacts ==
  ASSUME CustodyInv, NEW w \in Sweeper, sweeper[w].at # "idle"
  PROVE  LET m == sweeper[w].mode
         IN  /\ CustodyShapes /\ m \in Modes /\ sweeper[w] \in LiveRuns
             /\ \A k : Under(sweeper[w], k) <=> k = m
             /\ RecordsFit(m, files[m], sweeper, OutOf(sent, m), EarnedFrom(payments, m), custodyClock)
             /\ Chained(m, sweeper, Content(files[m]), OutOf(sent, m), EarnedFrom(payments, m),
                        custodyClock, faults)
             /\ EarnedFrom(payments, m) \in Nat /\ faults \in Nat
<1> DEFINE m == sweeper[w].mode
<1>1. CustodyShapes
  BY DEF CustodyInv
<1>2. m \in Modes /\ sweeper[w] \in LiveRuns /\ \A k : Under(sweeper[w], k) <=> k = m
  BY <1>1, CustodyFacts, RunFields
<1> HIDE DEF m
<1>3. EarnedFrom(payments, m) \in Nat /\ faults \in Nat
  BY <1>1, ModeFacts, CustodyFacts
<1>4. /\ RecordsFit(m, files[m], sweeper, OutOf(sent, m), EarnedFrom(payments, m), custodyClock)
      /\ Chained(m, sweeper, Content(files[m]), OutOf(sent, m), EarnedFrom(payments, m),
                 custodyClock, faults)
  BY <1>2 DEF CustodyInv
<1> QED
  BY <1>1, <1>2, <1>3, <1>4 DEF m

\* A run that ends, refused, lost or with its file written.
LEMMA EndStep ==
  ASSUME CustodyInv, NEW w \in Sweeper, sweeper[w].at # "idle",
         sweeper' = [sweeper EXCEPT ![w] = Idle],
         UNCHANGED <<custodyClock, custodyEnv, payments, sent>>,
         faults' \in 0..MaxFaults, faults' = faults \/ faults' = faults + 1,
         NEW m, m = sweeper[w].mode,
         files' \in [Modes -> {Torn} \cup SUBSET SweepRecords],
         \A k \in Modes \ {m} : files'[k] = files[k],
         files'[m] # Torn =>
            Fits(files'[m], OutOf(sent, m), EarnedFrom(payments, m), custodyClock),
         Leavable(m, sweeper, w, Content(files[m]), Content(files'[m]), OutOf(sent, m),
                  EarnedFrom(payments, m), custodyClock, faults')
  PROVE  CustodyInv'
<1> DEFINE out == OutOf(sent, m)
           e == EarnedFrom(payments, m)
           now == custodyClock
           runs == sweeper
           next == sweeper'
           before == Content(files[m])
           seen == Content(files'[m])
           n == faults'
<1>1. /\ CustodyShapes /\ m \in Modes /\ (\A k : Under(sweeper[w], k) <=> k = m)
      /\ RecordsFit(m, files[m], runs, out, e, now)
  BY OwnFacts
<1>2. sweeper' \in [Sweeper -> RunStates] /\ next[w] = Idle
      /\ \A v \in Sweeper \ {w} : next[v] = runs[v]
  BY <1>1, CustodyFacts DEF RunStates
<1>3. \A k : ~ Under(sweeper'[w], k)
  BY <1>2 DEF Under
<1>4. CustodyShapes'
  BY <1>1, <1>2, CustodyFacts DEF CustodyShapes
<1>5. RecordsFit(m, files'[m], next, out, e, now)
  BY <1>1, <1>2, <1>3 DEF RecordsFit
<1>6. Chained(m, next, seen, out, e, now, n)
  <2>1. Leavable(m, runs, w, before, seen, out, e, now, n)
    OBVIOUS
  <2> HIDE DEF out, e, now, runs, next, before, seen, n
  <2> QED
    BY <1>2, <2>1, ChainLeft
<1>7. OutOf(sent', m) = out /\ \A k \in Modes \ {m} : OutOf(sent', k) = OutOf(sent, k)
  OBVIOUS
<1>8. \A k \in Modes : Under(sweeper[w], k) \/ Under(sweeper'[w], k) => k = m
  BY <1>1, <1>3
<1>9. /\ RecordsFit(m, files'[m], sweeper', OutOf(sent', m), EarnedFrom(payments, m), custodyClock)
      /\ Chained(m, sweeper', Content(files'[m]), OutOf(sent', m), EarnedFrom(payments, m),
                 custodyClock, faults')
  BY <1>5, <1>6, <1>7
<1> HIDE DEF out, e, now, runs, next, before, seen, n
<1> QED
  BY <1>1, <1>2, <1>4, <1>7, <1>8, <1>9, OwnStep DEF next, runs

\* A refused run has sent nothing, so its chain is as it took it.
LEMMA RefuseStep ==
  ASSUME CustodyInv, NEW w \in Sweeper, Refuse(w) PROVE CustodyInv'
<1> DEFINE m == sweeper[w].mode
           out == OutOf(sent, m)
           e == EarnedFrom(payments, m)
           now == custodyClock
           runs == sweeper
           seen == Content(files[m])
           n == faults
<1>1. /\ sweeper[w].at = "loaded" /\ sweeper' = [sweeper EXCEPT ![w] = Idle]
      /\ UNCHANGED <<custodyClock, custodyEnv, payments, files, sent, faults>>
  BY DEF Refuse
<1>2. /\ CustodyShapes /\ m \in Modes /\ Under(runs[w], m)
      /\ RecordsFit(m, files[m], runs, out, e, now) /\ Chained(m, runs, seen, out, e, now, n)
  BY <1>1, OwnFacts
<1>3. Leavable(m, runs, w, seen, seen, out, e, now, n)
  <2> HIDE DEF m, out, e, now, seen, n
  <2>1. PICK cover \in [0..n -> SUBSET out], owner \in [Sweeper -> 0..n] :
           Chains(m, runs, seen, out, e, now, n, cover, owner)
    BY <1>2 DEF Chained
  <2>2. \A v \in Sweeper \ {w} : Under(runs[v], m) => owner[v] # owner[w]
    BY <1>2, <2>1 DEF Chains
  <2>3. \/ \E i \in 0..n : /\ cover[i] \subseteq seen
                           /\ \A v \in Sweeper \ {w} : Under(runs[v], m) => owner[v] # i
        \/ \E v \in Sweeper \ {w} : /\ Under(runs[v], m)
                                    /\ \/ runs[v].at \in {"sent", "writing"}
                                       \/ cover[owner[v]] \subseteq seen
    BY <1>1, <2>1, <2>2 DEF Chains
  <2> QED
    BY <2>1, <2>3 DEF Leavable
<1>4. files'[m] = files[m] /\ \A k \in Modes \ {m} : files'[k] = files[k]
  BY <1>1
<1>5. /\ files' \in [Modes -> {Torn} \cup SUBSET SweepRecords] /\ faults' \in 0..MaxFaults
      /\ files'[m] # Torn => Fits(files'[m], out, e, now)
      /\ faults' = faults
  BY <1>1, <1>2, <1>4, CustodyFacts DEF RecordsFit
<1>6. Leavable(m, sweeper, w, Content(files[m]), Content(files'[m]), out, e, now, faults')
  BY <1>1, <1>3, <1>4
<1>7. m = sweeper[w].mode
  OBVIOUS
<1> HIDE DEF m
<1> QED
  BY <1>1, <1>4, <1>5, <1>6, <1>7, EndStep

\* What is written fits, and has the run's chain in it.
LEMMA WriteFileStep ==
  ASSUME CustodyInv, NEW w \in Sweeper, WriteFile(w) PROVE CustodyInv'
<1> DEFINE m == sweeper[w].mode
           R == sweeper[w].sweeps
           out == OutOf(sent, m)
           e == EarnedFrom(payments, m)
           now == custodyClock
           runs == sweeper
           before == Content(files[m])
           n == faults
<1>1. /\ sweeper[w].at = "writing" /\ sweeper' = [sweeper EXCEPT ![w] = Idle]
      /\ files' = [files EXCEPT ![m] = R]
      /\ UNCHANGED <<custodyClock, custodyEnv, payments, sent, faults>>
  BY DEF WriteFile
<1>2. /\ CustodyShapes /\ m \in Modes /\ Under(runs[w], m) /\ R \in SUBSET SweepRecords
      /\ RecordsFit(m, files[m], runs, out, e, now) /\ Chained(m, runs, before, out, e, now, n)
  BY <1>1, OwnFacts DEF LiveRuns
<1>3. Fits(R, out, e, now) /\ Content(R) = R /\ R # Torn
  BY <1>1, <1>2, RealIsNotTorn DEF RecordsFit
<1>4. Leavable(m, runs, w, before, R, out, e, now, n)
  <2> HIDE DEF m, out, e, now, before, n
  <2>1. PICK cover \in [0..n -> SUBSET out], owner \in [Sweeper -> 0..n] :
           Chains(m, runs, before, out, e, now, n, cover, owner)
    BY <1>2 DEF Chained
  <2>2. /\ \A v \in Sweeper \ {w} : Under(runs[v], m) => owner[v] # owner[w]
        /\ owner[w] \in 0..n /\ cover[owner[w]] \subseteq R
    BY <1>2, <2>1 DEF Chains
  <2> HIDE DEF R, runs
  <2>3. PICK i \in 0..n : /\ cover[i] \subseteq R
                         /\ \A v \in Sweeper \ {w} : Under(runs[v], m) => owner[v] # i
    BY <2>2
  <2>4. Chains(m, runs, before, out, e, now, n, cover, owner)
    BY <2>1
  <2> QED
    BY <2>3, <2>4 DEF Leavable
<1>5. /\ files' \in [Modes -> {Torn} \cup SUBSET SweepRecords] /\ files'[m] = R
      /\ \A k \in Modes \ {m} : files'[k] = files[k]
  <2> HIDE DEF m, R
  <2> QED
    BY <1>1, <1>2, CustodyFacts
<1>6. /\ faults' \in 0..MaxFaults /\ faults' = faults
      /\ files'[m] # Torn => Fits(files'[m], out, e, now)
  BY <1>1, <1>2, <1>3, <1>5, CustodyFacts
<1>7. Leavable(m, sweeper, w, Content(files[m]), Content(files'[m]), out, e, now, faults')
  BY <1>3, <1>4, <1>5, <1>6
<1>8. m = sweeper[w].mode
  OBVIOUS
<1> HIDE DEF m
<1> QED
  BY <1>1, <1>5, <1>6, <1>7, <1>8, EndStep

\* A lost run is a fault: its chain is given up, and an empty one is begun.
LEMMA LoseSweepStep ==
  ASSUME CustodyInv, NEW w \in Sweeper, LoseSweep(w) PROVE CustodyInv'
<1> DEFINE m == sweeper[w].mode
           out == OutOf(sent, m)
           e == EarnedFrom(payments, m)
           now == custodyClock
           runs == sweeper
           seen == Content(files[m])
           n == faults
<1>1. /\ sweeper[w].at \in {"sent", "writing"} /\ faults < MaxFaults
      /\ sweeper' = [sweeper EXCEPT ![w] = Idle] /\ faults' = faults + 1
      /\ UNCHANGED <<custodyClock, custodyEnv, payments, files, sent>>
  BY DEF LoseSweep
<1>2. /\ CustodyShapes /\ m \in Modes /\ e \in Nat /\ n \in Nat
      /\ RecordsFit(m, files[m], runs, out, e, now) /\ Chained(m, runs, seen, out, e, now, n)
  BY <1>1, OwnFacts
<1>3. Leavable(m, runs, w, seen, seen, out, e, now, n + 1)
  <2> HIDE DEF m, out, e, now, seen, n, runs
  <2> DEFINE k == n + 1
  <2>1. SpareChain(m, runs, seen, out, e, now, k)
    BY <1>2, ChainsMore
  <2> HIDE DEF k
  <2>2. PICK cover \in [0..k -> SUBSET out], owner \in [Sweeper -> 0..k], i \in 0..k :
           /\ Chains(m, runs, seen, out, e, now, k, cover, owner)
           /\ cover[i] = {} /\ \A v \in Sweeper : owner[v] # i
    BY <2>1 DEF SpareChain
  <2>3. Chains(m, runs, seen, out, e, now, k, cover, owner)
    BY <2>2
  <2>4. cover[i] \subseteq seen /\ \A v \in Sweeper \ {w} : Under(runs[v], m) => owner[v] # i
    BY <2>2
  <2>5. Leavable(m, runs, w, seen, seen, out, e, now, k)
    BY <2>3, <2>4 DEF Leavable
  <2> QED
    BY <2>5 DEF k
<1>4. files'[m] = files[m] /\ \A k \in Modes \ {m} : files'[k] = files[k]
  BY <1>1
<1>5. /\ files' \in [Modes -> {Torn} \cup SUBSET SweepRecords] /\ faults' \in 0..MaxFaults
      /\ files'[m] # Torn => Fits(files'[m], out, e, now)
  BY <1>1, <1>2, <1>4, CustodyFacts, CustodyAssumption DEF RecordsFit
<1>6. Leavable(m, sweeper, w, Content(files[m]), Content(files'[m]), out, e, now, faults')
  BY <1>1, <1>3, <1>4
<1>7. m = sweeper[w].mode /\ sweeper[w].at # "idle"
  BY <1>1
<1> HIDE DEF m
<1> QED
  BY <1>1, <1>4, <1>5, <1>6, <1>7, EndStep

\* A file that is being written shows nothing, but its writer will see to it.
LEMMA OpenFileStep ==
  ASSUME CustodyInv, NEW w \in Sweeper, OpenFile(w) PROVE CustodyInv'
<1> DEFINE m == sweeper[w].mode
           run == sweeper[w]
           x == [run EXCEPT !.at = "writing"]
           out == OutOf(sent, m)
           e == EarnedFrom(payments, m)
           now == custodyClock
           runs == sweeper
           next == sweeper'
           before == Content(files[m])
           n == faults
<1>1. /\ run.at = "sent" /\ sweeper' = [sweeper EXCEPT ![w] = x]
      /\ files' = [files EXCEPT ![m] = Torn]
      /\ UNCHANGED <<custodyClock, custodyEnv, payments, sent, faults>>
  BY DEF OpenFile
<1>2. /\ CustodyShapes /\ m \in Modes /\ run \in LiveRuns /\ (\A k : Under(sweeper[w], k) <=> k = m)
      /\ RecordsFit(m, files[m], runs, out, e, now) /\ Chained(m, runs, before, out, e, now, n)
  BY <1>1, OwnFacts
<1>3. x \in LiveRuns /\ x.at = "writing" /\ x.mode = m /\ x.sweeps = run.sweeps
  BY <1>2 DEF LiveRuns
<1> HIDE DEF x
<1>4. /\ sweeper' \in [Sweeper -> RunStates] /\ next[w] = x
      /\ \A v \in Sweeper \ {w} : next[v] = runs[v]
  BY <1>1, <1>2, <1>3, CustodyFacts DEF RunStates
<1>5. \A k : Under(sweeper'[w], k) <=> k = m
  BY <1>3, <1>4, LiveIsUnder
<1>6. /\ files' \in [Modes -> {Torn} \cup SUBSET SweepRecords] /\ files'[m] = Torn
      /\ \A k \in Modes \ {m} : files'[k] = files[k]
  <2> HIDE DEF m
  <2> QED
    BY <1>1, <1>2, CustodyFacts
<1>7. CustodyShapes'
  BY <1>1, <1>2, <1>4, <1>6, CustodyFacts DEF CustodyShapes
<1>8. RecordsFit(m, Torn, next, out, e, now)
  <2> HIDE DEF m, out, e, now
  <2> QED
    BY <1>1, <1>2, <1>3, <1>4, <1>5 DEF RecordsFit
<1>9. Chained(m, next, {}, out, e, now, n)
  <2> HIDE DEF m, out, e, now, before, n, runs, next, run
  <2>1. PICK cover \in [0..n -> SUBSET out], owner \in [Sweeper -> 0..n] :
           Chains(m, runs, before, out, e, now, n, cover, owner)
    BY <1>2 DEF Chained
  <2>2. \A v \in Sweeper : /\ Under(next[v], m) <=> Under(runs[v], m)
                           /\ Under(runs[v], m) => next[v].sweeps = runs[v].sweeps
    BY <1>2, <1>3, <1>4, <1>5 DEF run, next, runs
  <2>3. Under(next[w], m) /\ next[w].at \in {"sent", "writing"}
    BY <1>3, <1>4, <1>5 DEF next
  <2>4. Chains(m, next, {}, out, e, now, n, cover, owner)
    BY <2>1, <2>2, <2>3 DEF Chains
  <2> QED
    BY <2>4 DEF Chained
<1>10. OutOf(sent', m) = out /\ (\A k \in Modes \ {m} : OutOf(sent', k) = OutOf(sent, k))
       /\ Content(files'[m]) = {}
  BY <1>1, <1>6 DEF Content
<1>11. \A k \in Modes : Under(sweeper[w], k) \/ Under(sweeper'[w], k) => k = m
  BY <1>2, <1>5
<1>12. /\ RecordsFit(m, files'[m], sweeper', OutOf(sent', m), EarnedFrom(payments, m), custodyClock)
       /\ Chained(m, sweeper', Content(files'[m]), OutOf(sent', m), EarnedFrom(payments, m),
                  custodyClock, faults')
  BY <1>1, <1>6, <1>8, <1>9, <1>10
<1>13. \A v \in Sweeper \ {w} : sweeper'[v] = sweeper[v]
  BY <1>4
<1> HIDE DEF m, out, e, now, runs, next, before, n
<1> QED
  BY <1>1, <1>2, <1>6, <1>7, <1>10, <1>11, <1>12, <1>13, OwnStep

\* At first there is one chain, with nothing in it.
LEMMA CustodyInvInit == CustodyInit => CustodyInv
<1> SUFFICES ASSUME CustodyInit PROVE CustodyInv
  OBVIOUS
<1>1. CustodyShapes
  <2>1. custodyEnv \in Settings
    BY DEF CustodyInit, Settings, Modes
  <2>2. custodyClock \in 0..CustodyTime /\ faults \in 0..MaxFaults
    BY CustodyAssumption DEF CustodyInit
  <2>3. sweeper \in [Sweeper -> RunStates] /\ files \in [Modes -> {Torn} \cup SUBSET SweepRecords]
    BY DEF CustodyInit, RunStates
  <2> QED
    BY <2>1, <2>2, <2>3, FS_EmptySet DEF CustodyInit, CustodyShapes
<1>2. ASSUME NEW m \in Modes
      PROVE  /\ RecordsFit(m, files[m], sweeper, OutOf(sent, m), EarnedFrom(payments, m), custodyClock)
             /\ Chained(m, sweeper, Content(files[m]), OutOf(sent, m), EarnedFrom(payments, m),
                        custodyClock, faults)
  <2> DEFINE e == EarnedFrom(payments, m)
             cover == [i \in 0..0 |-> {}]
             owner == [w \in Sweeper |-> 0]
  <2>1. /\ OutOf(sent, m) = {} /\ files[m] = {} /\ custodyClock = 0 /\ faults = 0 /\ e \in Nat
        /\ \A w \in Sweeper : ~ Under(sweeper[w], m)
    BY <1>1, ModeFacts DEF CustodyInit, OutOf, Under
  <2> HIDE DEF e
  <2>2. Fits({}, {}, e, 0)
    <3>1. Raw({}) = 0
      <4>1. Raw({}) = SumFunctionOnSet([x \in {} |-> 0], {})
        BY RawIsSum, FS_EmptySet
      <4> QED
        BY <4>1, SumEmpty
    <3>2. Since({}, 0 - CapWindow) = {}
      BY DEF Since
    <3>3. 0 <= e /\ 0 <= DailyCap
      BY <2>1, CustodyAssumption
    <3>4. Raw({}) <= e /\ Raw(Since({}, 0 - CapWindow)) <= DailyCap
      BY <3>1, <3>2, <3>3
    <3> QED
      BY <3>4 DEF Fits
  <2>3. RecordsFit(m, {}, sweeper, {}, e, 0)
    BY <2>1, <2>2 DEF RecordsFit
  <2>4. /\ cover \in [0..0 -> SUBSET {}] /\ owner \in [Sweeper -> 0..0] /\ cover[0] = {}
        /\ 0 \in 0..0 /\ \A i \in 0..0 : cover[i] = {}
    OBVIOUS
  <2> HIDE DEF cover, owner
  <2>5. Chains(m, sweeper, {}, {}, e, 0, 0, cover, owner)
    BY <2>1, <2>2, <2>4 DEF Chains
  <2>6. Chained(m, sweeper, {}, {}, e, 0, 0)
    BY <2>4, <2>5 DEF Chained
  <2>7. Content({}) = {}
    BY RealIsNotTorn
  <2> QED
    BY <2>1, <2>3, <2>6, <2>7 DEF e
<1> QED
  BY <1>1, <1>2 DEF CustodyInv

\* The inductive invariant has what the run checks in it: a file fits, and what
\* is out is what the chains cover, each of them within balance and cap.
LEMMA CustodyInvMeans == CustodyInv => CustodyHolds
<1> SUFFICES ASSUME CustodyInv PROVE CustodyHolds
  OBVIOUS
<1>1. CustodyShapes
  BY DEF CustodyInv
<1>2. ASSUME NEW m \in Modes
      PROVE  /\ files[m] # Torn =>
                  /\ files[m] \subseteq OutOf(sent, m)
                  /\ Raw(files[m]) <= EarnedFrom(payments, m) /\ Raw(Recent(files[m])) <= DailyCap
             /\ Raw(OutOf(sent, m)) <= EarnedFrom(payments, m) * (1 + faults)
             /\ Raw(Recent(OutOf(sent, m))) <= DailyCap * (1 + faults)
  <2> DEFINE out == OutOf(sent, m)
             e == EarnedFrom(payments, m)
             now == custodyClock
             n == faults
             t == now - CapWindow
             new == Since(out, t)
  <2>1. /\ RecordsFit(m, files[m], sweeper, out, e, now)
        /\ Chained(m, sweeper, Content(files[m]), out, e, now, n)
        /\ e \in Nat /\ n \in Nat /\ out \in SUBSET SweepRecords /\ IsFiniteSet(out)
    BY <1>1, ModeFacts, CustodyFacts DEF CustodyInv
  <2>2. \A records : Recent(records) = Since(records, t)
    BY DEF Recent, Since
  <2>3. files[m] # Torn => Fits(files[m], out, e, now)
    BY <2>1 DEF RecordsFit
  <2> HIDE DEF out, e, n, now
  <2>4. PICK cover \in [0..n -> SUBSET out], owner \in [Sweeper -> 0..n] :
           Chains(m, sweeper, Content(files[m]), out, e, now, n, cover, owner)
    BY <2>1 DEF Chained
  <2>5. /\ \A s \in out : s.raw \in Nat /\ \E i \in 0..n : s \in cover[i]
        /\ \A i \in 0..n : Raw(cover[i]) <= e /\ Raw(Since(cover[i], t)) <= DailyCap
    BY <2>1, <2>4 DEF Chains, Fits, SweepRecords
  <2>6. Raw(out) <= e * (1 + n)
    BY <2>1, <2>5, RawOfCover
  <2>7. Raw(new) <= DailyCap * (1 + n)
    <3> DEFINE late == [i \in 0..n |-> Since(cover[i], t)]
    <3> HIDE DEF t
    <3>1. new \subseteq out /\ IsFiniteSet(new) /\ \A s \in new : s.raw \in Nat
      <4>1. new \subseteq out
        BY DEF Since
      <4> HIDE DEF new
      <4> QED
        BY <2>1, <2>5, <4>1, FS_Subset
    <3>2. /\ late \in [0..n -> SUBSET new] /\ \A i \in 0..n : late[i] = Since(cover[i], t)
          /\ \A s \in new : \E i \in 0..n : s \in Since(cover[i], t)
      BY <2>4, <2>5 DEF Since
    <3>3. /\ \A s \in new : \E i \in 0..n : s \in late[i]
          /\ \A i \in 0..n : Raw(late[i]) <= DailyCap
      BY <2>5, <3>2
    <3> HIDE DEF late, new
    <3> QED
      BY <2>1, <3>1, <3>2, <3>3, CustodyAssumption, RawOfCover
  <2> QED
    BY <2>2, <2>3, <2>6, <2>7 DEF out, e, n, Fits, now
<1>3. CustodyTypeOK
  <2>1. custodyClock \in 0..CustodyTime /\ custodyEnv \in Settings /\ faults \in 0..MaxFaults
    BY <1>1 DEF CustodyShapes
  <2>2. \A p \in payments : p.id \in 1..MaxPayments /\ p.raw \in Income /\ p.live \in BOOLEAN
    BY <1>1 DEF CustodyShapes, PaymentRecords
  <2>3. ASSUME NEW m \in Modes, files[m] # Torn, NEW s \in files[m]
        PROVE  s.raw \in Nat /\ s.ts \in 0..custodyClock
    <3>1. s \in sent /\ s \in SweepRecords
      BY <1>1, <1>2, <2>3 DEF OutOf, CustodyShapes
    <3> QED
      BY <1>1, <3>1 DEF CustodyShapes, SweepRecords
  <2>4. ASSUME NEW w \in Sweeper
        PROVE  sweeper[w].at \in {"idle", "loaded", "sent", "writing"}
    <3>1. sweeper[w] = Idle \/ sweeper[w] \in LiveRuns
      BY <1>1 DEF CustodyShapes, RunStates
    <3> QED
      BY <3>1 DEF Idle, LiveRuns
  <2>5. \A s \in sent : s.mode \in Modes
    BY <1>1 DEF CustodyShapes, SweepRecords
  <2> QED
    BY <2>1, <2>2, <2>3, <2>4, <2>5 DEF CustodyTypeOK
<1> QED
  BY <1>2, <1>3 DEF CustodyHolds, OutOf, EarnedFrom

\* What the file of a mode shows was sent, within the balance of that mode and the
\* daily cap, and what was really sent is within either once over for each run that
\* overlapped, died or was misinformed, in every state of every behaviour
\* (nano_custody: the sweep cap and the separation of sim from live).
THEOREM CustodyIsBounded == CustodySpec => []CustodyHolds
<1>1. ASSUME CustodyInv, [CustodyNext]_custodyVars PROVE CustodyInv'
  <2>0. /\ payments \subseteq PaymentRecords /\ IsFiniteSet(payments) /\ custodyEnv \in Settings
        /\ custodyClock \in 0..CustodyTime /\ custodyClock <= custodyClock
    BY <1>1, CustodyAssumption DEF CustodyInv, CustodyShapes
  <2>1. CASE UNCHANGED custodyVars
    <3>1. /\ UNCHANGED <<files, sweeper, sent, faults>>
          /\ payments' = payments /\ custodyClock' = custodyClock /\ custodyEnv' = custodyEnv
      BY <2>1 DEF custodyVars
    <3> QED
      BY <1>1, <2>0, <3>1, LaterStep
  <2>2. CASE CustodyTick
    <3>1. /\ UNCHANGED <<files, sweeper, sent, faults>>
          /\ payments' = payments /\ custodyEnv' = custodyEnv
          /\ custodyClock' = custodyClock + 1 /\ custodyClock < CustodyTime
      BY <2>2 DEF CustodyTick
    <3>2. custodyClock' \in 0..CustodyTime /\ custodyClock <= custodyClock'
      BY <2>0, <3>1, CustodyAssumption
    <3> QED
      BY <1>1, <2>0, <3>1, <3>2, LaterStep
  <2>3. CASE Earn
    <3> DEFINE n == Cardinality(payments)
    <3>1. PICK raw \in Income, live \in BOOLEAN :
             payments' = payments \cup {[id |-> n + 1, live |-> live, raw |-> raw]}
      BY <2>3 DEF Earn
    <3>2. /\ UNCHANGED <<files, sweeper, sent, faults>> /\ n < MaxPayments
          /\ custodyClock' = custodyClock /\ custodyEnv' = custodyEnv
      BY <2>3 DEF Earn
    <3>3. n + 1 \in 1..MaxPayments
      <4>1. n \in Nat
        BY <2>0, FS_CardinalityType
      <4> HIDE DEF n
      <4> QED
        BY <3>2, <4>1, CustodyAssumption
    <3> HIDE DEF n
    <3> DEFINE p == [id |-> n + 1, live |-> live, raw |-> raw]
    <3>4. p \in PaymentRecords
      BY <3>3 DEF PaymentRecords
    <3>5. payments' = payments \cup {p}
      BY <3>1
    <3> HIDE DEF p
    <3>6. IsFiniteSet(payments') /\ payments' \subseteq PaymentRecords /\ payments \subseteq payments'
      BY <2>0, <3>4, <3>5, FS_AddElement
    <3> QED
      BY <1>1, <2>0, <3>2, <3>6, LaterStep
  <2>4. ASSUME NEW e \in Environments, Configure(e) PROVE CustodyInv'
    <3>1. /\ UNCHANGED <<files, sweeper, sent, faults>>
          /\ payments' = payments /\ custodyClock' = custodyClock /\ custodyEnv' \in Settings
      BY <2>4, CustodyAssumption DEF Configure
    <3> QED
      BY <1>1, <2>0, <3>1, LaterStep
  <2>5. ASSUME NEW w \in Sweeper,
               Load(w) \/ SendSweep(w) \/ Refuse(w) \/ OpenFile(w) \/ WriteFile(w) \/ LoseSweep(w)
        PROVE  CustodyInv'
    BY <1>1, <2>5, LoadStep, SendSweepStep, RefuseStep, OpenFileStep, WriteFileStep, LoseSweepStep
  <2> QED
    BY <1>1, <2>1, <2>2, <2>3, <2>4, <2>5 DEF CustodyNext
<1>2. CustodySpec => []CustodyInv
  BY <1>1, CustodyInvInit, PTL DEF CustodySpec
<1> QED
  BY <1>2, CustodyInvMeans, PTL
=============================================================================

------------------------ MODULE WebhookDeliveryProofs ------------------------
(***************************************************************************)
(* Proofs about webhook delivery, for any jobs and events, and any number  *)
(* of faults.  Every cache is a past state of the file, and the file is    *)
(* what the endpoint has in memory; so nothing but payments is ever        *)
(* cached, and whoever saves the file has all that is on it.               *)
(***************************************************************************)
EXTENDS WebhookDelivery, TLAPS

USE DeliveryAssumption DEF Client, Server

\* What is on the event's way, and what has been kept of earlier ones.
CachesArePaid ==
    /\ file \subseteq Paid /\ booked \subseteq Paid
    /\ \A c \in Client : cache[c] \subseteq Paid
    /\ \A e \in Event : log[e] # "none" => e \in sent
    /\ step # "idle" => handling \in sent
    /\ step \in {"list", "advance"} => handling \in Completed

FileIsCurrent == file = cache["endpoint"]

Inv == TypeOK /\ CachesArePaid /\ FileIsCurrent /\ AckedIsFinished

\* Nothing has been sent or stored: the invariant holds.
LEMMA InvInit == Init => Inv
<1> SUFFICES ASSUME Init PROVE Inv
  OBVIOUS
<1> USE DEF Init
<1>1. TypeOK
  <2>1. log \in [Event -> {"none", "received", "processed", "error"}]
    OBVIOUS
  <2>2. cache \in [Client -> SUBSET Job]
    OBVIOUS
  <2>3. faults \in 0..MaxFaults
    OBVIOUS
  <2> QED
    BY <2>1, <2>2, <2>3 DEF TypeOK
<1>2. CachesArePaid
  BY DEF CachesArePaid
<1>3. FileIsCurrent /\ AckedIsFinished
  BY DEF FileIsCurrent, AckedIsFinished
<1> QED
  BY <1>1, <1>2, <1>3 DEF Inv

\* Payments are only ever added.
LEMMA PaidGrows ==
  ASSUME sent \subseteq sent' PROVE Paid \subseteq Paid'
  BY DEF Paid

\* A client of a new process knows what the file says.
LEMMA ReloadGives ==
  ASSUME NEW clients, NEW contents, Reload(clients, contents)
  PROVE  \A c \in Client : cache'[c] = IF c \in clients THEN contents ELSE cache[c]
  BY DEF Reload

\* The endpoint's steps keep the invariant.
LEMMA ServerInv ==
  ASSUME Inv, NEW contents \in SUBSET Job, contents \subseteq file, StartServer(contents)
  PROVE  Inv' \/ faults' \notin 0..MaxFaults
<1> USE DEF Inv, StartServer, Leave
<1>1. \A c \in Client : cache'[c] = IF c \in Server THEN contents ELSE cache[c]
  BY ReloadGives
<1>2. cache' \in [Client -> SUBSET Job]
  <2>1. cache' = [c \in Client |-> IF c \in Server THEN contents ELSE cache[c]]
    BY DEF Reload
  <2> QED
    BY <2>1 DEF TypeOK
<1>3. TypeOK' \/ faults' \notin 0..MaxFaults
  BY <1>2 DEF TypeOK
<1>4. Paid' = Paid
  BY DEF Paid
<1>5. CachesArePaid'
  BY <1>1, <1>4 DEF CachesArePaid
<1>6. FileIsCurrent' /\ AckedIsFinished'
  BY <1>1 DEF FileIsCurrent, AckedIsFinished
<1> QED
  BY <1>3, <1>5, <1>6

\* Every step keeps the invariant.
LEMMA InvStep == Inv /\ [Next]_vars => Inv'
<1> SUFFICES ASSUME Inv, [Next]_vars PROVE Inv'
  OBVIOUS
<1> USE DEF Inv
<1>1. ASSUME NEW e \in Event, Emit(e) PROVE Inv'
  <2>1. Paid \subseteq Paid'
    BY <1>1, PaidGrows DEF Emit
  <2> QED
    BY <1>1, <2>1 DEF Emit, handler, payments, TypeOK, CachesArePaid, FileIsCurrent, AckedIsFinished
<1>2. ASSUME NEW e \in Event, Deliver(e) PROVE Inv'
  <2>1. Paid' = Paid
    BY <1>2 DEF Deliver, Paid
  <2>2. TypeOK'
    BY <1>2 DEF Deliver, handler, payments, TypeOK
  <2>3. CachesArePaid' /\ FileIsCurrent'
    BY <1>2, <2>1 DEF Deliver, handler, payments, TypeOK, CachesArePaid, FileIsCurrent
  <2>4. AckedIsFinished'
    BY <1>2 DEF Deliver, handler, TypeOK, AckedIsFinished
  <2> QED
    BY <2>2, <2>3, <2>4
<1>3. ASSUME NEW e \in Event, Replay(e) PROVE Inv'
  <2>1. Paid' = Paid
    BY <1>3 DEF Replay, Paid
  <2> QED
    BY <1>3, <2>1 DEF Replay, payments, TypeOK, CachesArePaid, FileIsCurrent, AckedIsFinished
<1>4. ASSUME Apply PROVE Inv'
  <2>1. Paid' = Paid
    BY <1>4 DEF Apply, Paid
  <2>2. CASE handling \in Completed
    <3>1. Of[handling] \in Paid /\ Of[handling] \in Job /\ handling \in Event
      BY <1>4, <2>2 DEF Apply, TypeOK, CachesArePaid, Paid
    <3>2. /\ cache' = [c \in Client |-> IF c = "endpoint"
                          THEN cache["endpoint"] \cup {Of[handling]} ELSE cache[c]]
          /\ file' = cache'["endpoint"] /\ step' = "list"
      BY <1>4, <2>2 DEF Apply, Reload
    <3>3. cache' \in [Client -> SUBSET Job] /\ file' \in SUBSET Job
      BY <3>1, <3>2 DEF TypeOK
    <3>4. \A c \in Client : cache'[c] \subseteq Paid
      BY <3>1, <3>2 DEF CachesArePaid
    <3> QED
      BY <1>4, <2>1, <2>2, <3>1, <3>2, <3>3, <3>4
         DEF Apply, TypeOK, CachesArePaid, FileIsCurrent, AckedIsFinished
  <2>3. CASE handling \notin Completed
    BY <1>4, <2>1, <2>3 DEF Apply, TypeOK, CachesArePaid, FileIsCurrent, AckedIsFinished
  <2> QED
    BY <2>2, <2>3
<1>5. ASSUME ListPaid PROVE Inv'
  <2>1. Paid' = Paid
    BY <1>5 DEF ListPaid, Paid
  <2>2. listed' \subseteq Job
    BY <1>5 DEF ListPaid, TypeOK
  <2> QED
    BY <1>5, <2>1, <2>2 DEF ListPaid, TypeOK, CachesArePaid, FileIsCurrent, AckedIsFinished
<1>6. ASSUME AdvanceJob PROVE Inv'
  <2>1. Paid' = Paid
    BY <1>6 DEF AdvanceJob, Paid
  <2>2. booked' \subseteq Job /\ booked' \subseteq Paid
    BY <1>6 DEF AdvanceJob, TypeOK, CachesArePaid
  <2> QED
    BY <1>6, <2>1, <2>2 DEF AdvanceJob, TypeOK, CachesArePaid, FileIsCurrent, AckedIsFinished
<1>7. ASSUME Mark PROVE Inv'
  <2>1. Paid' = Paid
    BY <1>7 DEF Mark, Paid
  <2>2. handling \in Event /\ handling \in sent
    BY <1>7 DEF Mark, TypeOK, CachesArePaid
  <2>3. TypeOK' /\ CachesArePaid' /\ FileIsCurrent'
    BY <1>7, <2>1, <2>2 DEF Mark, Leave, payments, TypeOK, CachesArePaid, FileIsCurrent
  <2>4. AckedIsFinished'
    BY <1>7, <2>2 DEF Mark, TypeOK, AckedIsFinished
  <2> QED
    BY <2>3, <2>4
<1>8. ASSUME Fail PROVE Inv'
  <2>1. Paid' = Paid
    BY <1>8 DEF Fail, Paid
  <2>2. handling \in Event /\ handling \in sent /\ faults' \in 0..MaxFaults
    BY <1>8 DEF Fail, TypeOK, CachesArePaid
  <2> QED
    BY <1>8, <2>1, <2>2
       DEF Fail, Leave, payments, TypeOK, CachesArePaid, FileIsCurrent, AckedIsFinished
<1>9. ASSUME Crash PROVE Inv'
  <2>1. faults' \in 0..MaxFaults
    BY <1>9 DEF Crash, TypeOK
  <2>2. \E contents \in SUBSET Job : contents \subseteq file /\ StartServer(contents)
    BY <1>9 DEF Crash, TypeOK
  <2> QED
    BY <2>1, <2>2, ServerInv
<1>10. ASSUME Restart PROVE Inv'
  <2>1. faults' \in 0..MaxFaults /\ file \in SUBSET Job
    BY <1>10 DEF Restart, TypeOK
  <2> QED
    BY <1>10, <2>1, ServerInv DEF Restart
<1>11. ASSUME RestartWorker PROVE Inv'
  <2>1. cache' = [c \in Client |-> IF c = "worker" THEN file ELSE cache[c]]
    BY <1>11 DEF RestartWorker, Reload
  <2>2. cache' \in [Client -> SUBSET Job]
    BY <2>1 DEF TypeOK
  <2>3. Paid' = Paid
    BY <1>11 DEF RestartWorker, Paid
  <2> QED
    BY <1>11, <2>1, <2>2, <2>3
       DEF RestartWorker, handler, TypeOK, CachesArePaid, FileIsCurrent, AckedIsFinished
<1>12. ASSUME WorkerAdvance PROVE Inv'
  <2>1. Paid' = Paid
    BY <1>12 DEF WorkerAdvance, Paid
  <2>2. booked' \subseteq Job /\ booked' \subseteq Paid
    BY <1>12 DEF WorkerAdvance, TypeOK, CachesArePaid
  <2> QED
    BY <1>12, <2>1, <2>2
       DEF WorkerAdvance, handler, TypeOK, CachesArePaid, FileIsCurrent, AckedIsFinished
<1>13. ASSUME UNCHANGED vars PROVE Inv'
  BY <1>13 DEF vars, handler, payments, TypeOK, CachesArePaid, FileIsCurrent,
               AckedIsFinished, Paid
<1> HIDE DEF Inv
<1> QED
  BY <1>1, <1>2, <1>3, <1>4, <1>5, <1>6, <1>7, <1>8, <1>9, <1>10, <1>11, <1>12, <1>13
     DEF Next, Handle

\* Every reachable state has the shape of the log, the caches and the handler.
THEOREM DeliveryTyped == Spec => []TypeOK
<1>1. Inv => TypeOK
  BY DEF Inv
<1> QED
  BY <1>1, InvInit, InvStep, PTL DEF Spec

\* Only payments of completed sessions are ever booked.
THEOREM OnlyPaymentsAreBooked == Spec => []BookedIsPaid
<1>1. Inv => BookedIsPaid
  BY DEF Inv, CachesArePaid, BookedIsPaid
<1> QED
  BY <1>1, InvInit, InvStep, PTL DEF Spec

\* Nothing is acknowledged half way.
THEOREM AcksComeLast == Spec => []AckedIsFinished
<1>1. Inv => AckedIsFinished
  BY DEF Inv
<1> QED
  BY <1>1, InvInit, InvStep, PTL DEF Spec

\* The endpoint saves over nothing but what it knows.
THEOREM NoPaymentIsOverwritten == Spec => SavesKeepPayments
<1>1. Inv /\ [Next]_vars => [file \subseteq file' \/ faults' > faults]_vars
  <2> SUFFICES ASSUME Inv, Next PROVE file \subseteq file' \/ faults' > faults
    BY DEF vars
  <2>1. CASE Apply
    <3>1. file \subseteq cache["endpoint"]
      BY DEF Inv, FileIsCurrent
    <3> QED
      BY <2>1, <3>1 DEF Apply, Reload
  <2>2. CASE Crash
    BY <2>2 DEF Crash, Inv, TypeOK
  <2>3. CASE UNCHANGED file
    BY <2>3
  <2> QED
    BY <2>1, <2>2, <2>3
       DEF Next, Handle, Emit, Deliver, Replay, ListPaid, AdvanceJob, Mark, Fail, Restart,
           StartServer, RestartWorker, WorkerAdvance, payments
<1> QED
  BY <1>1, InvInit, InvStep, PTL DEF Spec, SavesKeepPayments
=============================================================================

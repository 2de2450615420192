--------------------------- MODULE SpendGuardProofs ---------------------------
(***************************************************************************)
(* Proofs about the spend guard, for any jobs, vendors, callers and caps.  *)
(* The caps and the reserve hold because a decision and the reservation it *)
(* allows are one step, and because settling never costs more than was     *)
(* reserved; that second fact is what the invariant adds.                  *)
(***************************************************************************)
EXTENDS SpendGuard, Sums, TLAPS

USE SpendAssumption DEF ledger

\* A request costs what was reserved for it, or less.
SettlesBelow == \A c \in Caller : step[c] # "idle" => request[c].actual <= request[c].ceiling

Inv == TypeOK /\ SettlesBelow

\* Charging accounts, or giving back, leaves accounts.
LEMMA ChargeTyped ==
  ASSUME NEW acc \in [Account -> Int], NEW j \in Job, NEW v \in Vendor,
         NEW n \in Int, NEW sign \in {1, -1}
  PROVE  Charge(acc, j, v, n, sign) \in [Account -> Int]
<1>1. \A a \in Account : Weight(a, n) \in Int
  BY DEF Weight
<1> QED
  BY <1>1 DEF Charge

\* What a charge adds to each account, and what giving it back takes away.
LEMMA AfterCharge ==
  ASSUME NEW acc \in [Account -> Int], NEW new, NEW j \in Job, NEW v \in Vendor,
         NEW n \in Int, new = Charge(acc, j, v, n, 1)
  PROVE  \A a \in Account : new[a] = IF a \in Touched(j, v) THEN acc[a] + Weight(a, n)
                                     ELSE acc[a]
<1>1. \A a \in Account : Weight(a, n) \in Int
  BY DEF Weight
<1> QED
  BY <1>1 DEF Charge

\* What a return leaves on each account.
LEMMA AfterReturn ==
  ASSUME NEW acc \in [Account -> Int], NEW new, NEW j \in Job, NEW v \in Vendor,
         NEW n \in Int, new = Charge(acc, j, v, n, -1)
  PROVE  \A a \in Account : new[a] = IF a \in Touched(j, v) THEN acc[a] - Weight(a, n)
                                     ELSE acc[a]
<1>1. \A a \in Account : Weight(a, n) \in Int
  BY DEF Weight
<1> QED
  BY <1>1 DEF Charge

\* A fresh request is a request.
LEMMA FreshRequest ==
  ASSUME NEW j \in Job, NEW v \in Vendor, NEW n \in Amounts
  PROVE  [job |-> j, vendor |-> v, ceiling |-> n, actual |-> n] \in Requests
  BY DEF Requests

\* What the fields of a request are.
LEMMA RequestFields ==
  ASSUME NEW r \in Requests
  PROVE  r.job \in Job /\ r.vendor \in Vendor /\ r.ceiling \in Amounts /\ r.actual \in Nat
         /\ r.ceiling \in Nat
  BY DEF Requests

\* The invariant holds initially.
LEMMA InvInit == Init => Inv
<1> SUFFICES ASSUME Init PROVE Inv
  OBVIOUS
<1>1. cash \in Int /\ earned \in Nat
  BY DEF Init
<1> QED
  BY <1>1 DEF Init, Inv, TypeOK, SettlesBelow

\* Every step preserves it.
LEMMA InvStep == Inv /\ [Next]_vars => Inv'
<1> SUFFICES ASSUME Inv, [Next]_vars PROVE Inv'
  OBVIOUS
<1> USE DEF Inv, TypeOK, SettlesBelow
<1>1. ASSUME NEW c \in Caller, Debit(c) PROVE Inv'
  <2>1. PICK j \in Job, v \in Vendor, n \in Amounts :
          /\ used[j] < Allowance
          /\ used' = [used EXCEPT ![j] = @ + 1]
          /\ request' = [request EXCEPT ![c] =
                          [job |-> j, vendor |-> v, ceiling |-> n, actual |-> n]]
    BY <1>1 DEF Debit
  <2>2. used' \in [Job -> 0..Allowance]
    BY <2>1
  <2>3. request' \in [Caller -> Requests \cup {NoRequest}] /\ request'[c] \in Requests
        /\ request'[c].actual <= request'[c].ceiling
    BY <2>1, FreshRequest
  <2>4. step' \in [Caller -> {"idle", "allowed", "reserved", "answered"}]
    BY <1>1 DEF Debit
  <2>5. \A d \in Caller \ {c} : step'[d] = step[d] /\ request'[d] = request[d]
    BY <1>1, <2>1 DEF Debit
  <2> QED
    BY <1>1, <2>2, <2>3, <2>4, <2>5 DEF Debit
<1>2. ASSUME NEW c \in Caller, Authorize(c) PROVE Inv'
  <2>1. request[c] \in Requests
    BY <1>2 DEF Authorize
  <2>2. held' \in [Account -> Int]
    <3>1. Charge(held, request[c].job, request[c].vendor, request[c].ceiling, 1)
            \in [Account -> Int]
      <4>1. /\ request[c].job \in Job /\ request[c].vendor \in Vendor
            /\ request[c].ceiling \in Int
        BY <2>1, RequestFields
      <4> QED
        BY <4>1, ChargeTyped
    <3> QED
      BY <1>2, <3>1 DEF Authorize
  <2>3. step' \in [Caller -> {"idle", "allowed", "reserved", "answered"}]
    BY <1>2 DEF Authorize
  <2>4. request' \in [Caller -> Requests \cup {NoRequest}]
    BY <1>2 DEF Authorize
  <2>5. \A d \in Caller : step'[d] # "idle" => step[d] # "idle" /\ request'[d] = request[d]
    BY <1>2 DEF Authorize
  <2> QED
    BY <1>2, <2>2, <2>3, <2>4, <2>5 DEF Authorize
<1>3. ASSUME NEW c \in Caller, Provider(c) PROVE Inv'
  <2> DEFINE r == request[c]
  <2>1. r \in Requests /\ r.ceiling \in Nat
    BY <1>3, RequestFields DEF Provider
  <2>2. PICK bill \in 0..r.ceiling, actual \in Nat :
          /\ actual <= r.ceiling
          /\ billed' = [billed EXCEPT ![r.job] = @ + bill]
          /\ request' = [request EXCEPT ![c].actual = actual]
    <3>1. PICK bill \in 0..r.ceiling :
            /\ billed' = [billed EXCEPT ![r.job] = @ + bill]
            /\ \E actual \in {bill, r.ceiling} :
                  request' = [request EXCEPT ![c].actual = actual]
      BY <1>3 DEF Provider
    <3>2. PICK actual \in {bill, r.ceiling} :
            request' = [request EXCEPT ![c].actual = actual]
      BY <3>1
    <3>3. actual \in Nat /\ actual <= r.ceiling
      BY <2>1, <3>2
    <3> QED
      BY <3>1, <3>2, <3>3
  <2>3. request'[c] = [r EXCEPT !.actual = actual]
    BY <2>2
  <2>4. request'[c] \in Requests /\ request'[c].actual <= request'[c].ceiling
    BY <2>1, <2>2, <2>3 DEF Requests
  <2>5. request' \in [Caller -> Requests \cup {NoRequest}]
    BY <2>2, <2>3, <2>4
  <2>6. billed' \in [Job -> Nat] /\ sent' \in [Job -> Nat]
    BY <1>3, <2>1, <2>2 DEF Provider, Requests
  <2>7. \A d \in Caller \ {c} : step'[d] = step[d] /\ request'[d] = request[d]
    BY <1>3, <2>2 DEF Provider
  <2>8. step' \in [Caller -> {"idle", "allowed", "reserved", "answered"}]
    BY <1>3 DEF Provider
  <2> QED
    BY <1>3, <2>4, <2>5, <2>6, <2>7, <2>8 DEF Provider
<1>4. ASSUME NEW c \in Caller, Settle(c) PROVE Inv'
  <2>1. request[c] \in Requests
    BY <1>4 DEF Settle
  <2>2. held' \in [Account -> Int] /\ booked' \in [Account -> Int] /\ cash' \in Int
    <3>0. /\ request[c].job \in Job /\ request[c].vendor \in Vendor
          /\ request[c].ceiling \in Int /\ request[c].actual \in Int
      BY <2>1, RequestFields
    <3>1. Charge(held, request[c].job, request[c].vendor, request[c].ceiling, -1)
            \in [Account -> Int]
      BY <3>0, ChargeTyped
    <3>2. Charge(booked, request[c].job, request[c].vendor, request[c].actual, 1)
            \in [Account -> Int]
      BY <3>0, ChargeTyped
    <3>3. cash - request[c].actual \in Int
      BY <3>0
    <3> QED
      BY <1>4, <3>1, <3>2, <3>3 DEF Settle
  <2>3. step' \in [Caller -> {"idle", "allowed", "reserved", "answered"}]
    BY <1>4 DEF Settle
  <2>4. request' \in [Caller -> Requests \cup {NoRequest}]
    BY <1>4 DEF Settle
  <2>5. \A d \in Caller : step'[d] # "idle" => step[d] # "idle" /\ request'[d] = request[d]
    BY <1>4 DEF Settle
  <2> QED
    BY <1>4, <2>2, <2>3, <2>4, <2>5 DEF Settle
<1>5. ASSUME NEW c \in Caller, Die(c) PROVE Inv'
  BY <1>5 DEF Die
<1>6. ASSUME PayRemainder PROVE Inv'
  BY <1>6, ChargeTyped DEF PayRemainder
<1>7. ASSUME Earn PROVE Inv'
  BY <1>7 DEF Earn
<1>8. ASSUME Refund PROVE Inv'
  BY <1>8 DEF Refund
<1>9. ASSUME LeaveDay PROVE Inv'
  BY <1>9 DEF LeaveDay, Account, Windows
<1>10. ASSUME LeaveHour PROVE Inv'
  BY <1>10 DEF LeaveHour, Account, Windows
<1>11. ASSUME UNCHANGED vars PROVE Inv'
  BY <1>11 DEF vars
<1> HIDE DEF Inv, TypeOK, SettlesBelow
<1> QED
  BY <1>1, <1>2, <1>3, <1>4, <1>5, <1>6, <1>7, <1>8, <1>9, <1>10, <1>11 DEF Next

\* So it holds always.
LEMMA Invariance == Spec => []Inv
  BY InvInit, InvStep, PTL DEF Spec

\* Every reachable state has the shape of the ledger, the reservations and the
\* requests in flight, and no request ever costs more than was reserved for it.
THEOREM SpendTyped == Spec => [](TypeOK /\ SettlesBelow)
<1>1. Inv => TypeOK /\ SettlesBelow
  BY DEF Inv
<1> QED
  BY Invariance, <1>1, PTL

-----------------------------------------------------------------------------
(* Caps.                                                                   *)

\* Where no account grows, every cap still holds.
LEMMA NoGrowth ==
  ASSUME Inv, Inv', WithinEveryLimit,
         \A a \in Account : Exposure(a)' <= Exposure(a)
  PROVE  WithinEveryLimit'
<1> SUFFICES ASSUME NEW a \in Account
             PROVE  IF a \in Job THEN JobBudget = 0 \/ Exposure(a)' <= JobBudget
                    ELSE Exposure(a)' <= Cap[a]
  BY DEF WithinEveryLimit
<1>1. Exposure(a) \in Int /\ Exposure(a)' \in Int
  BY DEF Inv, TypeOK, Exposure
<1>2. a \notin Job => Cap[a] \in Int
  BY DEF Account
<1> QED
  BY <1>1, <1>2 DEF WithinEveryLimit

\* What the policy permits fits under every cap it touches.
LEMMA PermittedGrowth ==
  ASSUME Inv, Inv', WithinEveryLimit,
         NEW j \in Job, NEW v \in Vendor, NEW n \in Amounts, Permits(n, v, j),
         \A a \in Account :
            Exposure(a)' = IF a \in Touched(j, v) THEN Exposure(a) + Weight(a, n)
                           ELSE Exposure(a)
  PROVE  WithinEveryLimit'
<1> SUFFICES ASSUME NEW a \in Account
             PROVE  IF a \in Job THEN JobBudget = 0 \/ Exposure(a)' <= JobBudget
                    ELSE Exposure(a)' <= Cap[a]
  BY DEF WithinEveryLimit
<1>1. CASE a \in Touched(j, v)
  <2>1. HasRoom(a, n)
    BY <1>1 DEF Permits
  <2>2. a \in Job => Weight(a, n) = n
    BY DEF Weight, Windows
  <2> QED
    BY <1>1, <2>1, <2>2 DEF HasRoom
<1>2. CASE a \notin Touched(j, v)
  BY <1>2 DEF WithinEveryLimit
<1> QED
  BY <1>1, <1>2

\* Only what the policy permits makes an account grow: settling gives back at
\* least what it books, a dead process keeps its reservation, time only forgets
\* ledger entries.
LEMMA LimitStep == Inv /\ WithinEveryLimit /\ [Next]_vars => WithinEveryLimit'
<1> SUFFICES ASSUME Inv, WithinEveryLimit, [Next]_vars PROVE WithinEveryLimit'
  OBVIOUS
<1>0. Inv'
  BY InvStep
<1>a. booked \in [Account -> Int] /\ held \in [Account -> Int]
  BY DEF Inv, TypeOK
<1>1. ASSUME NEW c \in Caller, Authorize(c) PROVE WithinEveryLimit'
  <2> DEFINE r == request[c]
  <2>1. r \in Requests /\ r.job \in Job /\ r.vendor \in Vendor /\ r.ceiling \in Amounts
        /\ r.ceiling \in Int
    BY <1>1, RequestFields DEF Authorize, Inv, TypeOK
  <2>2. CASE Permits(r.ceiling, r.vendor, r.job)
             /\ held' = Charge(held, r.job, r.vendor, r.ceiling, 1)
    <3>1. UNCHANGED booked
      BY <1>1 DEF Authorize
    <3>2. \A a \in Account :
            held'[a] = IF a \in Touched(r.job, r.vendor)
                       THEN held[a] + Weight(a, r.ceiling) ELSE held[a]
      <4> HIDE DEF r
      <4> QED
        BY <1>a, <2>1, <2>2, AfterCharge
    <3>3. \A a \in Account : Weight(a, r.ceiling) \in Int
      BY <2>1 DEF Weight
    <3>4. \A a \in Account :
            Exposure(a)' = IF a \in Touched(r.job, r.vendor)
                           THEN Exposure(a) + Weight(a, r.ceiling) ELSE Exposure(a)
      BY <1>a, <3>1, <3>2, <3>3 DEF Exposure
    <3> HIDE DEF r
    <3> QED
      BY <1>0, <2>1, <2>2, <3>4, PermittedGrowth
  <2>3. CASE UNCHANGED held
    <3>1. UNCHANGED booked
      BY <1>1 DEF Authorize
    <3> QED
      BY <1>0, <1>a, <2>3, <3>1, NoGrowth DEF Exposure
  <2> QED
    BY <1>1, <2>2, <2>3 DEF Authorize
<1>2. ASSUME NEW c \in Caller, Settle(c) PROVE WithinEveryLimit'
  <2> DEFINE r == request[c]
  <2>1. /\ r \in Requests /\ r.job \in Job /\ r.vendor \in Vendor
        /\ r.ceiling \in Nat \ {0} /\ r.actual \in Nat /\ r.actual <= r.ceiling
    BY <1>2, RequestFields DEF Settle, Inv, TypeOK, SettlesBelow
  <2>2. \A a \in Account :
          held'[a] = IF a \in Touched(r.job, r.vendor)
                     THEN held[a] - Weight(a, r.ceiling) ELSE held[a]
    <3>1. held' = Charge(held, r.job, r.vendor, r.ceiling, -1)
      BY <1>2 DEF Settle
    <3> HIDE DEF r
    <3> QED
      BY <1>a, <2>1, <3>1, AfterReturn
  <2>3. \A a \in Account :
          booked'[a] = IF a \in Touched(r.job, r.vendor) /\ r.actual # 0
                       THEN booked[a] + Weight(a, r.actual) ELSE booked[a]
    <3>1. CASE r.actual = 0
      BY <1>2, <3>1 DEF Settle
    <3>2. CASE r.actual # 0
      <4>1. booked' = Charge(booked, r.job, r.vendor, r.actual, 1)
        BY <1>2, <3>2 DEF Settle
      <4> HIDE DEF r
      <4> QED
        BY <1>a, <2>1, <3>2, <4>1, AfterCharge
    <3> QED
      BY <3>1, <3>2
  <2>4. \A a \in Account :
          /\ Weight(a, r.ceiling) \in Int /\ Weight(a, r.actual) \in Int
          /\ 0 <= Weight(a, r.ceiling)
          /\ Weight(a, r.actual) <= Weight(a, r.ceiling)
    BY <2>1 DEF Weight
  <2>5. ASSUME NEW a \in Account PROVE Exposure(a)' <= Exposure(a)
    <3>1. held[a] \in Int /\ booked[a] \in Int
      BY <1>a
    <3> QED
      BY <2>2, <2>3, <2>4, <3>1 DEF Exposure
  <2> QED
    BY <1>0, <2>5, NoGrowth
<1>3. ASSUME PayRemainder PROVE WithinEveryLimit'
  <2>1. PICK j \in Job, v \in Vendor, n \in Amounts :
          Permits(n, v, j) /\ booked' = Charge(booked, j, v, n, 1)
    BY <1>3 DEF PayRemainder
  <2>2. \A a \in Account :
          booked'[a] = IF a \in Touched(j, v) THEN booked[a] + Weight(a, n) ELSE booked[a]
    BY <1>a, <2>1, AfterCharge
  <2>3. \A a \in Account : Weight(a, n) \in Int
    BY DEF Weight
  <2>4. UNCHANGED held
    BY <1>3 DEF PayRemainder
  <2>5. \A a \in Account :
          Exposure(a)' = IF a \in Touched(j, v) THEN Exposure(a) + Weight(a, n)
                         ELSE Exposure(a)
    BY <1>a, <2>2, <2>3, <2>4 DEF Exposure
  <2> QED
    BY <1>0, <2>1, <2>5, PermittedGrowth
<1>4. ASSUME LeaveDay PROVE WithinEveryLimit'
  <2>1. PICK v \in Vendor : \E n \in 1..booked[v] :
          booked' = [booked EXCEPT ![v] = @ - n, !["day"] = @ - n]
    BY <1>4 DEF LeaveDay
  <2>2. PICK n \in 1..booked[v] :
          booked' = [booked EXCEPT ![v] = @ - n, !["day"] = @ - n]
    BY <2>1
  <2>4. \A a \in Account : booked'[a] <= booked[a]
    BY <1>a, <2>2 DEF Account, Windows
  <2>3. UNCHANGED held /\ booked' \in [Account -> Int]
    BY <1>0, <1>4 DEF LeaveDay, Inv, TypeOK
  <2> QED
    BY <1>0, <1>a, <2>3, <2>4, NoGrowth DEF Exposure
<1>5. ASSUME LeaveHour PROVE WithinEveryLimit'
  <2>1. \A a \in Account : booked'[a] <= booked[a]
    BY <1>a, <1>5 DEF LeaveHour, Account, Windows
  <2>2. UNCHANGED held /\ booked' \in [Account -> Int]
    BY <1>0, <1>5 DEF LeaveHour, Inv, TypeOK
  <2> QED
    BY <1>0, <1>a, <2>1, <2>2, NoGrowth DEF Exposure
<1>6. CASE UNCHANGED <<booked, held>>
  BY <1>0, <1>6, <1>a, NoGrowth DEF Exposure
<1> QED
  BY <1>1, <1>2, <1>3, <1>4, <1>5, <1>6
     DEF Next, Debit, Provider, Die, Earn, Refund, vars

\* The job's envelope, the vendor's and the day's budget and the hourly velocity
\* hold at every moment, for ledger and reservations together.
THEOREM Limits == Spec => []WithinEveryLimit
<1>1. Init => WithinEveryLimit
  <2> SUFFICES ASSUME Init, NEW a \in Account
               PROVE  IF a \in Job THEN JobBudget = 0 \/ Exposure(a) <= JobBudget
                      ELSE Exposure(a) <= Cap[a]
    BY DEF WithinEveryLimit
  <2>1. Exposure(a) = 0
    BY DEF Init, Exposure
  <2>2. a \notin Job => Cap[a] \in Nat
    BY DEF Account
  <2> QED
    BY <2>1, <2>2
<1> QED
  BY <1>1, LimitStep, Invariance, PTL DEF Spec

-----------------------------------------------------------------------------
(* The reserve.                                                            *)

\* Every charge counts in full against the day.
LEMMA DayAccount ==
  /\ "day" \in Account
  /\ \A j \in Job, v \in Vendor : "day" \in Touched(j, v)
  /\ \A n : Weight("day", n) = n
  BY DEF Account, Windows, Touched, Weight

\* Cash that is neither spent nor spoken for, refunds left out, shrinks only by
\* what the policy permits, and then stays above the reserve.
LEMMA ReserveStep == Inv /\ KeepsTheReserve /\ [Next]_vars => KeepsTheReserve'
<1> SUFFICES ASSUME Inv, KeepsTheReserve, [Next]_vars PROVE KeepsTheReserve'
  OBVIOUS
<1> USE DEF KeepsTheReserve, Available
<1>a. /\ booked \in [Account -> Int] /\ held \in [Account -> Int]
      /\ cash \in Int /\ earned \in Nat /\ refunded \in Nat /\ held["day"] \in Int
  BY DEF Inv, TypeOK, Account, Windows
<1>1. ASSUME NEW c \in Caller, Authorize(c) PROVE KeepsTheReserve'
  <2> DEFINE r == request[c]
  <2>1. r \in Requests /\ r.job \in Job /\ r.vendor \in Vendor /\ r.ceiling \in Int
    BY <1>1, RequestFields DEF Authorize, Inv, TypeOK
  <2>2. UNCHANGED <<cash, earned, refunded>>
    BY <1>1 DEF Authorize
  <2>3. CASE Permits(r.ceiling, r.vendor, r.job)
             /\ held' = Charge(held, r.job, r.vendor, r.ceiling, 1)
    <3>1. held'["day"] = held["day"] + r.ceiling
      <4> HIDE DEF r
      <4> QED
        BY <1>a, <2>1, <2>3, AfterCharge, DayAccount
    <3>2. cash - held["day"] - r.ceiling >= MinReserve
      BY <2>3 DEF Permits
    <3> HIDE DEF r
    <3> QED
      BY <1>a, <2>1, <2>2, <3>1, <3>2
  <2>4. CASE UNCHANGED held
    BY <1>a, <2>2, <2>4
  <2> QED
    BY <1>1, <2>3, <2>4 DEF Authorize
<1>2. ASSUME NEW c \in Caller, Settle(c) PROVE KeepsTheReserve'
  <2> DEFINE r == request[c]
  <2>1. /\ r \in Requests /\ r.job \in Job /\ r.vendor \in Vendor
        /\ r.ceiling \in Nat /\ r.actual \in Nat /\ r.actual <= r.ceiling
    BY <1>2, RequestFields DEF Settle, Inv, TypeOK, SettlesBelow
  <2>2. held'["day"] = held["day"] - r.ceiling
    <3>1. held' = Charge(held, r.job, r.vendor, r.ceiling, -1)
      BY <1>2 DEF Settle
    <3> QED
      <4> HIDE DEF r
      <4> QED
        BY <1>a, <2>1, <3>1, AfterReturn, DayAccount
  <2>3. cash' = cash - r.actual /\ UNCHANGED <<earned, refunded>>
    BY <1>2 DEF Settle
  <2> HIDE DEF r
  <2> QED
    BY <1>a, <2>1, <2>2, <2>3
<1>3. ASSUME PayRemainder PROVE KeepsTheReserve'
  <2>1. PICK j \in Job, v \in Vendor, n \in Amounts : Permits(n, v, j) /\ cash' = cash - n
    BY <1>3 DEF PayRemainder
  <2>2. cash - held["day"] - n >= MinReserve
    BY <2>1 DEF Permits
  <2> QED
    BY <1>3, <1>a, <2>1, <2>2 DEF PayRemainder
<1>4. ASSUME Earn PROVE KeepsTheReserve'
  BY <1>4, <1>a DEF Earn
<1>5. ASSUME Refund PROVE KeepsTheReserve'
  BY <1>5, <1>a DEF Refund
<1>6. CASE UNCHANGED <<cash, earned, refunded, held>>
  BY <1>6
<1> HIDE DEF KeepsTheReserve, Available
<1> QED
  BY <1>1, <1>2, <1>3, <1>4, <1>5, <1>6
     DEF Next, Debit, Provider, Die, LeaveDay, LeaveHour, vars

\* Spending alone never takes the agent below its minimum cash reserve, even if
\* every reservation turns into a charge.
THEOREM Reserve == Spec => []KeepsTheReserve
<1>1. Init => KeepsTheReserve
  <2> SUFFICES ASSUME Init PROVE KeepsTheReserve
    OBVIOUS
  <2>1. held["day"] = 0 /\ cash = earned /\ refunded = 0 /\ cash \in Int
    BY DEF Init, Account, Windows
  <2> QED
    BY <2>1 DEF KeepsTheReserve, Available
<1> QED
  BY <1>1, ReserveStep, Invariance, PTL DEF Spec

-----------------------------------------------------------------------------
(* The allowance.                                                          *)

\* Requests of a job that have been debited and not yet sent.
Waiting(j) == {c \in Caller : step[c] \in {"allowed", "reserved"} /\ request[c].job = j}

\* Each of them keeps one debit for itself, so a request that leaves finds the
\* debit that it was allowed by, whoever else has died or been denied meanwhile.
AllowanceInv ==
    \A j \in Job : IsFiniteSet(Waiting(j)) /\ sent[j] + Cardinality(Waiting(j)) <= used[j]

\* A caller that leaves the requests of a job, and one that joins them.
LEMMA WaitingLess ==
  ASSUME NEW j, NEW c, IsFiniteSet(Waiting(j)), Waiting(j)' \in {Waiting(j), Waiting(j) \ {c}}
  PROVE  /\ IsFiniteSet(Waiting(j)')
         /\ Cardinality(Waiting(j)) \in Nat /\ Cardinality(Waiting(j)') \in Nat
         /\ Cardinality(Waiting(j)') <= Cardinality(Waiting(j))
         /\ c \in Waiting(j) /\ Waiting(j)' = Waiting(j) \ {c} =>
              Cardinality(Waiting(j)') = Cardinality(Waiting(j)) - 1
<1> DEFINE W == Waiting(j)
           N == Waiting(j)'
<1> HIDE DEF W, N
<1>1. IsFiniteSet(W) /\ N \in {W, W \ {c}}
  BY DEF W, N
<1>2. /\ IsFiniteSet(W \ {c})
      /\ Cardinality(W \ {c}) = IF c \in W THEN Cardinality(W) - 1 ELSE Cardinality(W)
  BY <1>1, FS_RemoveElement
<1>3. IsFiniteSet(N)
  BY <1>1, <1>2
<1>4. Cardinality(W) \in Nat /\ Cardinality(N) \in Nat
  BY <1>1, <1>3, FS_CardinalityType
<1>5. Cardinality(N) <= Cardinality(W)
  BY <1>1, <1>2, <1>4
<1>6. c \in W /\ N = W \ {c} => Cardinality(N) = Cardinality(W) - 1
  BY <1>2
<1> QED
  BY <1>3, <1>4, <1>5, <1>6 DEF W, N

\* Steps that send nothing and debit nothing leave no more requests waiting.
LEMMA NoMoreWaiting ==
  ASSUME AllowanceInv, Inv, NEW c, UNCHANGED <<used, sent>>,
         \A j \in Job : Waiting(j)' \in {Waiting(j), Waiting(j) \ {c}}
  PROVE  AllowanceInv'
<1> SUFFICES ASSUME NEW j \in Job
             PROVE  IsFiniteSet(Waiting(j)') /\ sent[j] + Cardinality(Waiting(j)') <= used[j]
  BY DEF AllowanceInv
<1>1. IsFiniteSet(Waiting(j)) /\ sent[j] + Cardinality(Waiting(j)) <= used[j]
  BY DEF AllowanceInv
<1>2. Waiting(j)' \in {Waiting(j), Waiting(j) \ {c}}
  OBVIOUS
<1>3. sent[j] \in Nat /\ used[j] \in Nat
  BY DEF Inv, TypeOK
<1>4. /\ IsFiniteSet(Waiting(j)')
      /\ Cardinality(Waiting(j)) \in Nat /\ Cardinality(Waiting(j)') \in Nat
      /\ Cardinality(Waiting(j)') <= Cardinality(Waiting(j))
  BY <1>1, <1>2, WaitingLess
<1> QED
  BY <1>1, <1>3, <1>4

\* Every step preserves the accounting of a job's allowance.
LEMMA AllowanceStep == Inv /\ AllowanceInv /\ [Next]_vars => AllowanceInv'
<1> SUFFICES ASSUME Inv, AllowanceInv, [Next]_vars PROVE AllowanceInv'
  OBVIOUS
<1>a. /\ step \in [Caller -> {"idle", "allowed", "reserved", "answered"}]
      /\ request \in [Caller -> Requests \cup {NoRequest}]
      /\ \A d \in Caller : step[d] # "idle" => request[d] \in Requests
      /\ used \in [Job -> 0..Allowance] /\ sent \in [Job -> Nat]
  BY DEF Inv, TypeOK
<1>1. ASSUME NEW c \in Caller, Debit(c) PROVE AllowanceInv'
  <2>1. PICK k \in Job, v \in Vendor, n \in Amounts :
          /\ used' = [used EXCEPT ![k] = @ + 1]
          /\ request' = [request EXCEPT ![c] =
                            [job |-> k, vendor |-> v, ceiling |-> n, actual |-> n]]
    BY <1>1 DEF Debit
  <2>2. step[c] = "idle" /\ step' = [step EXCEPT ![c] = "allowed"] /\ sent' = sent
    BY <1>1 DEF Debit
  <2> SUFFICES ASSUME NEW j \in Job
               PROVE  IsFiniteSet(Waiting(j)') /\ sent'[j] + Cardinality(Waiting(j)') <= used'[j]
    BY DEF AllowanceInv
  <2>3. /\ IsFiniteSet(Waiting(j)) /\ sent[j] + Cardinality(Waiting(j)) <= used[j]
        /\ sent[j] \in Nat /\ used[j] \in Nat
    BY <1>a DEF AllowanceInv
  <2>4. c \notin Waiting(j)
    BY <2>2 DEF Waiting
  <2>5. step'[c] = "allowed" /\ request'[c].job = k
    BY <1>a, <2>1, <2>2
  <2>6. \A d \in Caller \ {c} : step'[d] = step[d] /\ request'[d] = request[d]
    BY <1>a, <2>1, <2>2
  <2>7. Waiting(j)' = IF j = k THEN Waiting(j) \cup {c} ELSE Waiting(j)
    BY <2>4, <2>5, <2>6 DEF Waiting
  <2>8. used'[j] = IF j = k THEN used[j] + 1 ELSE used[j]
    BY <1>a, <2>1
  <2>9. /\ IsFiniteSet(Waiting(j) \cup {c})
        /\ Cardinality(Waiting(j) \cup {c}) = Cardinality(Waiting(j)) + 1
    BY <2>3, <2>4, FS_AddElement
  <2>10. Cardinality(Waiting(j)) \in Nat
    BY <2>3, FS_CardinalityType
  <2> HIDE DEF Waiting
  <2> QED
    BY <2>2, <2>3, <2>7, <2>8, <2>9, <2>10
<1>2. ASSUME NEW c \in Caller, Authorize(c) \/ Settle(c) \/ Die(c) PROVE AllowanceInv'
  <2>1. UNCHANGED <<used, sent>>
    BY <1>2 DEF Authorize, Settle, Die
  <2>2. \A d \in Caller \ {c} : step'[d] = step[d] /\ request'[d] = request[d]
    BY <1>2, <1>a DEF Authorize, Settle, Die
  <2>3. step'[c] = "idle" \/ (step[c] = "allowed" /\ step'[c] = "reserved" /\ request' = request)
    BY <1>2, <1>a DEF Authorize, Settle, Die
  <2>4. ASSUME NEW j \in Job PROVE Waiting(j)' \in {Waiting(j), Waiting(j) \ {c}}
    <3>1. CASE step'[c] = "idle"
      <4>1. Waiting(j)' = Waiting(j) \ {c}
        BY <2>2, <3>1 DEF Waiting
      <4> QED
        BY <4>1
    <3>2. CASE step[c] = "allowed" /\ step'[c] = "reserved" /\ request' = request
      <4>1. Waiting(j)' = Waiting(j)
        BY <2>2, <3>2 DEF Waiting
      <4> QED
        BY <4>1
    <3> QED
      BY <2>3, <3>1, <3>2
  <2> QED
    BY <2>1, <2>4, NoMoreWaiting
<1>3. ASSUME NEW c \in Caller, Provider(c) PROVE AllowanceInv'
  <2> DEFINE k == request[c].job
  <2>1. /\ step[c] = "reserved" /\ step'[c] = "answered" /\ k \in Job
        /\ used' = used /\ sent' = [sent EXCEPT ![k] = @ + 1]
    BY <1>3, <1>a DEF Provider, Requests
  <2>2. \A d \in Caller \ {c} : step'[d] = step[d] /\ request'[d] = request[d]
    BY <1>3, <1>a DEF Provider
  <2> SUFFICES ASSUME NEW j \in Job
               PROVE  IsFiniteSet(Waiting(j)') /\ sent'[j] + Cardinality(Waiting(j)') <= used'[j]
    BY DEF AllowanceInv
  <2>3. /\ IsFiniteSet(Waiting(j)) /\ sent[j] + Cardinality(Waiting(j)) <= used[j]
        /\ sent[j] \in Nat /\ used[j] \in Nat
    BY <1>a DEF AllowanceInv
  <2>4. Waiting(j)' = Waiting(j) \ {c}
    BY <2>1, <2>2 DEF Waiting
  <2>5. j = k => c \in Waiting(j)
    BY <2>1 DEF Waiting
  <2>6. sent'[j] = IF j = k THEN sent[j] + 1 ELSE sent[j]
    BY <1>a, <2>1
  <2>7. /\ IsFiniteSet(Waiting(j)')
        /\ Cardinality(Waiting(j)) \in Nat /\ Cardinality(Waiting(j)') \in Nat
        /\ Cardinality(Waiting(j)') <= Cardinality(Waiting(j))
        /\ c \in Waiting(j) /\ Waiting(j)' = Waiting(j) \ {c} =>
             Cardinality(Waiting(j)') = Cardinality(Waiting(j)) - 1
    BY <2>3, <2>4, WaitingLess
  <2> HIDE DEF k
  <2> QED
    BY <2>1, <2>3, <2>4, <2>5, <2>6, <2>7
<1>4. CASE UNCHANGED <<step, request, used, sent>>
  BY <1>4 DEF AllowanceInv, Waiting
<1> QED
  BY <1>1, <1>2, <1>3, <1>4
     DEF Next, PayRemainder, Earn, Refund, LeaveDay, LeaveHour, vars

\* However many jobs and processes ask at once, and wherever they die, providers
\* see no more requests for a job than its quote has paid for.
THEOREM AllowanceIsKept == Spec => []AllowanceHolds
<1>1. Init => AllowanceInv
  <2> SUFFICES ASSUME Init, NEW j \in Job
               PROVE  IsFiniteSet(Waiting(j)) /\ sent[j] + Cardinality(Waiting(j)) <= used[j]
    BY DEF AllowanceInv
  <2>1. Waiting(j) = {} /\ sent[j] = 0 /\ used[j] = 0
    BY DEF Init, Waiting
  <2> QED
    BY <2>1, FS_EmptySet
<1>2. Inv /\ AllowanceInv => AllowanceHolds
  <2> SUFFICES ASSUME Inv, AllowanceInv, NEW j \in Job
               PROVE  sent[j] <= used[j] /\ used[j] <= Allowance
    BY DEF AllowanceHolds
  <2>1. IsFiniteSet(Waiting(j)) /\ sent[j] + Cardinality(Waiting(j)) <= used[j]
    BY DEF AllowanceInv
  <2>2. Cardinality(Waiting(j)) \in Nat
    BY <2>1, FS_CardinalityType
  <2>3. sent[j] \in Nat /\ used[j] \in 0..Allowance
    BY DEF Inv, TypeOK
  <2> QED
    BY <2>1, <2>2, <2>3
<1> QED
  BY <1>1, <1>2, AllowanceStep, Invariance, PTL DEF Spec

-----------------------------------------------------------------------------
(* The bills.                                                              *)

InFlight == {c \in Caller : step[c] # "idle"}

\* What each request of a job may still add to its bills beyond what its
\* provider has charged: all of the ceiling until it is sent, then what the
\* reservation exceeds the settlement by.
Slack(j) ==
    [c \in Caller |->
        IF step[c] \in {"idle", "allowed"} \/ request[c].job # j THEN 0
        ELSE IF step[c] = "reserved" THEN request[c].ceiling
        ELSE request[c].ceiling - request[c].actual]

Open(j) == SumFunctionOnSet(Slack(j), InFlight)

\* Bills and open claims together are on the ledger or reserved.
CoverInv ==
    /\ IsFiniteSet(InFlight)
    /\ \A j \in Job : billed[j] + Open(j) <= Exposure(j)

\* A charge counts in full against its own job and against no other.
LEMMA JobAccount ==
  ASSUME NEW j \in Job
  PROVE  /\ j \in Account
         /\ \A k \in Job, v \in Vendor : j \in Touched(k, v) <=> j = k
         /\ \A n : Weight(j, n) = n
  BY DEF Account, Windows, Touched, Weight

\* No claim is negative.
LEMMA SlackType == Inv => \A j \in Job : \A c \in Caller : Slack(j)[c] \in Nat
<1> SUFFICES ASSUME Inv, NEW j \in Job, NEW c \in Caller PROVE Slack(j)[c] \in Nat
  OBVIOUS
<1>1. step[c] # "idle" =>
        request[c].ceiling \in Nat /\ request[c].actual \in Nat
        /\ request[c].actual <= request[c].ceiling
  BY RequestFields DEF Inv, TypeOK, SettlesBelow
<1> QED
  BY <1>1 DEF Slack

\* After a step, too, what a request may still cost is a natural number.
LEMMA SlackTypeNext == Inv' => \A j \in Job : \A c \in Caller : Slack(j)'[c] \in Nat
<1> SUFFICES ASSUME Inv', NEW j \in Job, NEW c \in Caller PROVE Slack(j)'[c] \in Nat
  OBVIOUS
<1>1. step'[c] # "idle" =>
        request'[c].ceiling \in Nat /\ request'[c].actual \in Nat
        /\ request'[c].actual <= request'[c].ceiling
  BY RequestFields DEF Inv, TypeOK, SettlesBelow
<1> QED
  BY <1>1 DEF Slack

\* A step of one caller changes the open claims by what it changes its own.
LEMMA OneClaim ==
  ASSUME Inv, Inv', IsFiniteSet(InFlight), NEW c \in Caller, NEW j \in Job,
         \A d \in Caller \ {c} : step'[d] = step[d] /\ request'[d] = request[d]
  PROVE  /\ IsFiniteSet(InFlight') /\ Open(j) \in Int
         /\ Open(j)' = Open(j) + Slack(j)'[c] - Slack(j)[c]
<1> DEFINE B == InFlight
           N == InFlight'
           T == InFlight \ {c}
           f == Slack(j)
           g == Slack(j)'
<1>1. IsFiniteSet(B) /\ IsFiniteSet(T)
  BY FS_RemoveElement
<1>2. N \in {T, T \cup {c}} /\ N \ {c} = T
  BY DEF InFlight
<1>3. IsFiniteSet(N)
  <2> HIDE DEF T, N
  <2>1. IsFiniteSet(T \cup {c})
    BY <1>1, FS_AddElement
  <2> QED
    BY <1>1, <1>2, <2>1
<1>4. /\ \A d \in Caller : f[d] \in Int /\ g[d] \in Int
      /\ \A d \in T : f[d] = g[d]
      /\ c \notin B => f[c] = 0
      /\ c \notin N => g[c] = 0
  <2>1. \A d \in Caller : f[d] \in Nat
    BY SlackType
  <2>2. \A d \in Caller : g[d] \in Nat
    BY SlackTypeNext
  <2>3. \A d \in T : f[d] = g[d]
    BY DEF Slack, InFlight
  <2>4. /\ c \notin B => f[c] = 0
        /\ c \notin N => g[c] = 0
    BY DEF Slack, InFlight
  <2> QED
    BY <2>1, <2>2, <2>3, <2>4
<1>5. B \subseteq Caller /\ N \subseteq Caller /\ c \notin T
  BY DEF InFlight
<1>6. SumFunctionOnSet(f, T) = SumFunctionOnSet(g, T) /\ SumFunctionOnSet(f, T) \in Int
  <2> HIDE DEF f, g, T, B, N
  <2>1. \A x \in T : f[x] \in Int /\ f[x] = g[x]
    BY <1>4, <1>5 DEF B, T
  <2> QED
    BY <1>1, <2>1, SumEqual, SumType
<1>7. SumFunctionOnSet(f, B) = f[c] + SumFunctionOnSet(f, T)
  <2>1. CASE c \in B
    <3>1. \A x \in B : f[x] \in Int
      BY <1>4, <1>5
    <3> HIDE DEF f, B
    <3>2. T = B \ {c}
      BY DEF B
    <3> HIDE DEF T
    <3> QED
      BY <1>1, <2>1, <3>1, <3>2, SumTakeOut
  <2>2. CASE c \notin B
    <3>1. B = T /\ f[c] = 0
      BY <1>4, <2>2
    <3> HIDE DEF f, B, T
    <3> QED
      BY <1>6, <3>1
  <2> QED
    BY <2>1, <2>2
<1>8. SumFunctionOnSet(g, N) = g[c] + SumFunctionOnSet(g, T)
  <2>1. CASE c \in N
    <3>1. \A x \in N : g[x] \in Int
      BY <1>4, <1>5
    <3> HIDE DEF g, N, T
    <3> QED
      BY <1>2, <1>3, <2>1, <3>1, SumTakeOut
  <2>2. CASE c \notin N
    <3>1. N = T /\ g[c] = 0
      BY <1>2, <1>4, <2>2
    <3> HIDE DEF g, N, T
    <3> QED
      BY <1>6, <3>1
  <2> QED
    BY <2>1, <2>2
<1>9. f[c] \in Int /\ g[c] \in Int
  BY <1>4
<1>10. Open(j) = SumFunctionOnSet(f, B) /\ Open(j)' = SumFunctionOnSet(g, N)
  BY DEF Open
<1> HIDE DEF f, g, T, B, N
<1>11. Open(j)' = Open(j) + g[c] - f[c] /\ Open(j) \in Int
  BY <1>6, <1>7, <1>8, <1>9, <1>10
<1> QED
  BY <1>3, <1>11 DEF f, g, N

\* A step of one caller keeps the bills covered if it does so for its own job's.
LEMMA CoverOne ==
  ASSUME Inv, Inv', CoverInv, NEW c \in Caller,
         \A d \in Caller \ {c} : step'[d] = step[d] /\ request'[d] = request[d],
         \A j \in Job : billed'[j] - billed[j] + Slack(j)'[c] - Slack(j)[c]
                            <= Exposure(j)' - Exposure(j)
  PROVE  CoverInv'
<1>1. IsFiniteSet(InFlight)
  BY DEF CoverInv
<1>2. ASSUME NEW j \in Job
      PROVE  billed'[j] + Open(j)' <= Exposure(j)'
  <2>1. /\ Open(j) \in Int
        /\ Open(j)' = Open(j) + Slack(j)'[c] - Slack(j)[c]
    BY <1>1, OneClaim
  <2>2. Slack(j)[c] \in Nat
    BY SlackType
  <2>4. Slack(j)'[c] \in Nat
    BY SlackTypeNext
  <2>5. /\ billed[j] \in Int /\ billed'[j] \in Int
        /\ Exposure(j) \in Int /\ Exposure(j)' \in Int
    BY JobAccount DEF Inv, TypeOK, Exposure
  <2>6. billed[j] + Open(j) <= Exposure(j)
    BY DEF CoverInv
  <2>7. billed'[j] - billed[j] + Slack(j)'[c] - Slack(j)[c] <= Exposure(j)' - Exposure(j)
    OBVIOUS
  <2> QED
    BY <2>1, <2>2, <2>4, <2>5, <2>6, <2>7
<1>3. IsFiniteSet(InFlight')
  <2>1. InFlight' \subseteq InFlight \cup {c}
    BY DEF InFlight
  <2>2. IsFiniteSet(InFlight \cup {c})
    BY <1>1, FS_AddElement
  <2> QED
    BY <2>1, <2>2, FS_Subset
<1> QED
  BY <1>2, <1>3 DEF CoverInv

\* Every step keeps the bills covered.
LEMMA CoverStep == Inv /\ CoverInv /\ [Next]_vars => CoverInv'
<1> SUFFICES ASSUME Inv, CoverInv, [Next]_vars PROVE CoverInv'
  OBVIOUS
<1>0. Inv'
  BY InvStep
<1>a. /\ step \in [Caller -> {"idle", "allowed", "reserved", "answered"}]
      /\ request \in [Caller -> Requests \cup {NoRequest}]
      /\ booked \in [Account -> Int] /\ held \in [Account -> Int] /\ billed \in [Job -> Nat]
      /\ \A j \in Job : billed[j] \in Int /\ Exposure(j) \in Int
  BY JobAccount DEF Inv, TypeOK, Exposure
<1>1. ASSUME NEW c \in Caller, Debit(c) PROVE CoverInv'
  <2>1. UNCHANGED <<booked, held, billed>>
    BY <1>1 DEF Debit
  <2>2. \A d \in Caller \ {c} : step'[d] = step[d] /\ request'[d] = request[d]
    BY <1>1, <1>a DEF Debit
  <2>3. \A j \in Job : Slack(j)[c] = 0 /\ Slack(j)'[c] = 0
    BY <1>1, <1>a DEF Debit, Slack
  <2>4. \A j \in Job : Exposure(j)' = Exposure(j)
    BY <2>1 DEF Exposure
  <2> QED
    BY <1>0, <1>a, <2>1, <2>2, <2>3, <2>4, CoverOne
<1>2. ASSUME NEW c \in Caller, Authorize(c) PROVE CoverInv'
  <2> DEFINE r == request[c]
  <2>1. r \in Requests /\ r.job \in Job /\ r.vendor \in Vendor /\ r.ceiling \in Int
    BY <1>2, RequestFields DEF Authorize, Inv, TypeOK
  <2>2. UNCHANGED <<booked, billed>> /\ step[c] = "allowed"
    BY <1>2 DEF Authorize
  <2>3. \A d \in Caller \ {c} : step'[d] = step[d] /\ request'[d] = request[d]
    BY <1>2, <1>a DEF Authorize
  <2>4. \A j \in Job : Slack(j)[c] = 0
    BY <2>2 DEF Slack
  <2>5. CASE /\ held' = Charge(held, r.job, r.vendor, r.ceiling, 1)
             /\ step' = [step EXCEPT ![c] = "reserved"] /\ request' = request
    <3>1. ASSUME NEW j \in Job
          PROVE  held'[j] = IF j = r.job THEN held[j] + r.ceiling ELSE held[j]
      <4> HIDE DEF r
      <4> QED
        BY <1>a, <2>1, <2>5, AfterCharge, JobAccount
    <3>2. \A j \in Job : Slack(j)'[c] = IF j = r.job THEN r.ceiling ELSE 0
      BY <1>a, <2>5 DEF Slack
    <3>3. \A j \in Job : held[j] \in Int /\ booked[j] \in Int
      BY <1>a, JobAccount
    <3>4. \A j \in Job : Exposure(j)' - Exposure(j) = IF j = r.job THEN r.ceiling ELSE 0
      BY <2>1, <2>2, <3>1, <3>3 DEF Exposure
    <3> HIDE DEF r
    <3>5. \A j \in Job : billed'[j] - billed[j] + Slack(j)'[c] - Slack(j)[c]
                             <= Exposure(j)' - Exposure(j)
      BY <1>a, <2>1, <2>2, <2>4, <3>2, <3>4
    <3> QED
      BY <1>0, <2>3, <3>5, CoverOne
  <2>6. CASE step' = [step EXCEPT ![c] = "idle"] /\ UNCHANGED held
    <3>1. \A j \in Job : Slack(j)'[c] = 0
      BY <1>a, <2>6 DEF Slack
    <3>2. \A j \in Job : Exposure(j)' = Exposure(j)
      BY <2>2, <2>6 DEF Exposure
    <3> QED
      BY <1>0, <1>a, <2>2, <2>3, <2>4, <3>1, <3>2, CoverOne
  <2> QED
    BY <1>2, <2>5, <2>6 DEF Authorize
<1>3. ASSUME NEW c \in Caller, Provider(c) PROVE CoverInv'
  <2> DEFINE r == request[c]
  <2>1. r \in Requests /\ r.job \in Job /\ r.ceiling \in Nat
    BY <1>3, RequestFields DEF Provider, Inv, TypeOK
  <2>2. /\ UNCHANGED <<booked, held>>
        /\ step[c] = "reserved" /\ step' = [step EXCEPT ![c] = "answered"]
    BY <1>3 DEF Provider
  <2>3. PICK bill \in 0..r.ceiling, actual \in Nat :
          /\ bill <= actual /\ actual <= r.ceiling
          /\ billed' = [billed EXCEPT ![r.job] = @ + bill]
          /\ request' = [request EXCEPT ![c].actual = actual]
    <3>1. PICK bill \in 0..r.ceiling :
            /\ billed' = [billed EXCEPT ![r.job] = @ + bill]
            /\ \E actual \in {bill, r.ceiling} :
                  request' = [request EXCEPT ![c].actual = actual]
      BY <1>3 DEF Provider
    <3>2. PICK actual \in {bill, r.ceiling} :
            request' = [request EXCEPT ![c].actual = actual]
      BY <3>1
    <3>3. actual \in Nat /\ bill <= actual /\ actual <= r.ceiling
      BY <2>1, <3>2
    <3> QED
      BY <3>1, <3>2, <3>3
  <2>4. \A d \in Caller \ {c} : step'[d] = step[d] /\ request'[d] = request[d]
    BY <1>a, <2>2, <2>3
  <2>5. request'[c] = [r EXCEPT !.actual = actual]
    BY <1>a, <2>3
  <2>6. request'[c].job = r.job /\ request'[c].ceiling = r.ceiling /\ request'[c].actual = actual
    BY <2>1, <2>5 DEF Requests
  <2>7. \A j \in Job : /\ Slack(j)[c] = IF j = r.job THEN r.ceiling ELSE 0
                       /\ Slack(j)'[c] = IF j = r.job THEN r.ceiling - actual ELSE 0
    BY <1>a, <2>2, <2>6 DEF Slack
  <2>8. \A j \in Job : Exposure(j)' = Exposure(j)
    BY <2>2 DEF Exposure
  <2>9. \A j \in Job : billed'[j] = IF j = r.job THEN billed[j] + bill ELSE billed[j]
    BY <1>a, <2>3
  <2> HIDE DEF r
  <2>10. \A j \in Job : billed'[j] - billed[j] + Slack(j)'[c] - Slack(j)[c]
                            <= Exposure(j)' - Exposure(j)
    BY <1>a, <2>1, <2>3, <2>7, <2>8, <2>9
  <2> QED
    BY <1>0, <2>4, <2>10, CoverOne
<1>4. ASSUME NEW c \in Caller, Settle(c) PROVE CoverInv'
  <2> DEFINE r == request[c]
  <2>1. /\ r \in Requests /\ r.job \in Job /\ r.vendor \in Vendor
        /\ r.ceiling \in Int /\ r.actual \in Int
    BY <1>4, RequestFields DEF Settle, Inv, TypeOK
  <2>2. /\ billed' = billed /\ step[c] = "answered" /\ step' = [step EXCEPT ![c] = "idle"]
    BY <1>4 DEF Settle
  <2>3. \A d \in Caller \ {c} : step'[d] = step[d] /\ request'[d] = request[d]
    BY <1>4, <1>a DEF Settle
  <2>4. ASSUME NEW j \in Job
        PROVE  held'[j] = IF j = r.job THEN held[j] - r.ceiling ELSE held[j]
    <3>1. held' = Charge(held, r.job, r.vendor, r.ceiling, -1)
      BY <1>4 DEF Settle
    <3> HIDE DEF r
    <3> QED
      BY <1>a, <2>1, <3>1, AfterReturn, JobAccount
  <2>5. ASSUME NEW j \in Job
        PROVE  booked'[j] = IF j = r.job THEN booked[j] + r.actual ELSE booked[j]
    <3>1. CASE r.actual = 0
      <4>1. booked' = booked
        BY <1>4, <3>1 DEF Settle
      <4> QED
        BY <1>a, <3>1, <4>1, JobAccount
    <3>2. CASE r.actual # 0
      <4>1. booked' = Charge(booked, r.job, r.vendor, r.actual, 1)
        BY <1>4, <3>2 DEF Settle
      <4> HIDE DEF r
      <4> QED
        BY <1>a, <2>1, <4>1, AfterCharge, JobAccount
    <3> QED
      BY <3>1, <3>2
  <2>6. \A j \in Job : /\ Slack(j)[c] = IF j = r.job THEN r.ceiling - r.actual ELSE 0
                       /\ Slack(j)'[c] = 0
    BY <1>a, <2>2 DEF Slack
  <2>7. \A j \in Job : held[j] \in Int /\ booked[j] \in Int
    BY <1>a, JobAccount
  <2>8. \A j \in Job :
          Exposure(j)' - Exposure(j) = IF j = r.job THEN r.actual - r.ceiling ELSE 0
    BY <2>1, <2>4, <2>5, <2>7 DEF Exposure
  <2> HIDE DEF r
  <2>9. \A j \in Job : billed'[j] - billed[j] + Slack(j)'[c] - Slack(j)[c]
                           <= Exposure(j)' - Exposure(j)
    BY <1>a, <2>1, <2>2, <2>6, <2>8
  <2> QED
    BY <1>0, <2>3, <2>9, CoverOne
<1>5. ASSUME NEW c \in Caller, Die(c) PROVE CoverInv'
  <2>1. UNCHANGED <<booked, held, billed>>
    BY <1>5 DEF Die
  <2>2. \A d \in Caller \ {c} : step'[d] = step[d] /\ request'[d] = request[d]
    BY <1>5, <1>a DEF Die
  <2>3. \A j \in Job : Slack(j)[c] \in Nat /\ Slack(j)'[c] = 0
    BY <1>5, <1>a, SlackType DEF Die, Slack
  <2>4. \A j \in Job : Exposure(j)' = Exposure(j)
    BY <2>1 DEF Exposure
  <2>5. \A j \in Job : billed'[j] - billed[j] + Slack(j)'[c] - Slack(j)[c]
                           <= Exposure(j)' - Exposure(j)
    BY <1>a, <2>1, <2>3, <2>4
  <2> QED
    BY <1>0, <2>2, <2>5, CoverOne
<1>6. ASSUME UNCHANGED <<step, request, billed>>, \A j \in Job : Exposure(j) <= Exposure(j)'
      PROVE  CoverInv'
  <2>1. IsFiniteSet(InFlight')
    BY <1>6 DEF CoverInv, InFlight
  <2>2. ASSUME NEW j \in Job PROVE billed'[j] + Open(j)' <= Exposure(j)'
    <3>1. Open(j)' = Open(j) /\ Open(j) \in Int
      <4>1. Open(j)' = Open(j)
        BY <1>6 DEF Open, Slack, InFlight
      <4>2. \A c \in InFlight : Slack(j)[c] \in Int
        BY SlackType DEF InFlight
      <4>3. Open(j) \in Int
        BY <4>2, SumType DEF Open, CoverInv
      <4> QED
        BY <4>1, <4>3
    <3>2. billed[j] + Open(j) <= Exposure(j)
      BY DEF CoverInv
    <3>3. Exposure(j)' \in Int
      BY <1>0, JobAccount DEF Inv, TypeOK, Exposure
    <3> QED
      BY <1>6, <1>a, <3>1, <3>2, <3>3
  <2> QED
    BY <2>1, <2>2 DEF CoverInv
<1>7. ASSUME PayRemainder PROVE CoverInv'
  <2>1. PICK k \in Job, v \in Vendor, n \in Amounts : booked' = Charge(booked, k, v, n, 1)
    BY <1>7 DEF PayRemainder
  <2>2. UNCHANGED <<step, request, billed, held>>
    BY <1>7 DEF PayRemainder
  <2>3. ASSUME NEW j \in Job
        PROVE  booked'[j] = IF j = k THEN booked[j] + n ELSE booked[j]
    BY <1>a, <2>1, AfterCharge, JobAccount
  <2>4. ASSUME NEW j \in Job PROVE Exposure(j) <= Exposure(j)'
    <3>1. booked[j] \in Int /\ held[j] \in Int /\ n \in Nat
      BY <1>a, JobAccount
    <3> QED
      BY <2>2, <2>3, <3>1 DEF Exposure
  <2> QED
    BY <1>6, <2>2, <2>4
<1>8. ASSUME LeaveDay \/ LeaveHour PROVE CoverInv'
  <2>1. UNCHANGED <<step, request, billed, held>>
    BY <1>8 DEF LeaveDay, LeaveHour
  <2>2. ASSUME NEW j \in Job PROVE booked'[j] = booked[j]
    BY <1>8, <1>a DEF LeaveDay, LeaveHour, Account, Windows
  <2>3. \A j \in Job : Exposure(j) <= Exposure(j)'
    BY <1>a, <2>1, <2>2 DEF Exposure
  <2> QED
    BY <1>6, <2>1, <2>3
<1>9. ASSUME UNCHANGED <<step, request, billed, booked, held>> PROVE CoverInv'
  <2>1. \A j \in Job : Exposure(j) <= Exposure(j)'
    BY <1>9, <1>a DEF Exposure
  <2> QED
    BY <1>6, <1>9, <2>1
<1> QED
  BY <1>1, <1>2, <1>3, <1>4, <1>5, <1>7, <1>8, <1>9 DEF Next, Earn, Refund, vars

\* Whatever providers charge for a job's requests is on the ledger or still
\* reserved, also when the answer was lost or the process died waiting for it.
THEOREM BillsCovered == Spec => []BillsAreCovered
<1>1. Init => CoverInv
  <2> SUFFICES ASSUME Init PROVE CoverInv
    OBVIOUS
  <2>1. InFlight = {}
    BY DEF Init, InFlight
  <2>2. ASSUME NEW j \in Job PROVE billed[j] = 0 /\ Exposure(j) = 0
    <3>1. j \in Account
      BY JobAccount
    <3> QED
      BY <3>1 DEF Init, Exposure
  <2>3. \A j \in Job : Open(j) = 0
    BY <2>1, SumEmpty DEF Open
  <2> QED
    BY <2>1, <2>2, <2>3, FS_EmptySet DEF CoverInv
<1>2. Inv /\ CoverInv => BillsAreCovered
  <2> SUFFICES ASSUME Inv, CoverInv, NEW j \in Job PROVE billed[j] <= Exposure(j)
    BY DEF BillsAreCovered
  <2>1. \A c \in InFlight : Slack(j)[c] \in Nat
    BY SlackType DEF InFlight
  <2>2. Open(j) \in Nat
    BY <2>1, SumNat DEF Open, CoverInv
  <2>3. billed[j] \in Nat /\ Exposure(j) \in Int /\ billed[j] + Open(j) <= Exposure(j)
    BY JobAccount DEF Inv, TypeOK, Exposure, CoverInv
  <2> QED
    BY <2>2, <2>3
<1> QED
  BY <1>1, <1>2, CoverStep, Invariance, PTL DEF Spec
=============================================================================

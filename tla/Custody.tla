-------------------------------- MODULE Custody --------------------------------
(***************************************************************************)
(* The sweeps of solvent/nano_custody.py: what the shop has earned in Nano *)
(* is sent on to a cold address, under a rolling daily cap.  A run of      *)
(* `solvent custody sweep` reads its file of sweeps, plans, has the plan   *)
(* approved, has an external signer send, and writes the file.  Nothing    *)
(* locks it.  simulated and live sweeps have files of their own.           *)
(***************************************************************************)
EXTENDS Integers, FiniteSets, FiniteSetsExt

CONSTANTS Sweeper,     \* runs that may overlap
          Income,      \* amounts of booked payments
          Environments,\* the settings that occur, see Settings
          SweepMin, DailyCap,
          CapWindow,   \* the rolling 24 hours, in clock steps
          CustodyTime, MaxPayments, MaxFaults  \* bounds

Modes == {"sim", "live"}
Torn  == {[id |-> 0, raw |-> 0, ts |-> -1]}   \* a file that is no JSON
Idle  == [at |-> "idle"]

\* flag and rail are off, sim or live; key and cold say what those settings hold.
Settings == [flag : {"off"} \cup Modes, rail : {"off"} \cup Modes,
             key : {"unset", "reference", "material"},
             cold : {"unset", "sim", "nano", "hot"}]

ASSUME CustodyAssumption ==
    /\ Environments \subseteq Settings /\ Income \subseteq Nat \ {0} /\ SweepMin \in Nat /\ DailyCap \in Nat /\ CapWindow \in Nat
    /\ CustodyTime \in Nat /\ MaxPayments \in Nat /\ MaxFaults \in Nat

VARIABLES custodyClock,
          custodyEnv, \* the operator's settings
          payments,   \* the Nano journal: entries [id, live, raw]
          files,      \* sweeps on record per mode, or Torn
          sweeper,    \* each run: where it is, its mode, what it has loaded
          sent,       \* sweeps the signer has published: [id, raw, ts, mode]
          faults      \* runs that overlapped, died or were misinformed after sending

custodyVars == <<custodyClock, custodyEnv, payments, files, sweeper, sent, faults>>

\* The mode from_env arrives at, by its checks.
ModeOf(e) ==
    CASE e.flag = "off" /\ e.key = "unset" /\ e.cold = "unset" -> "off"
      [] e.flag = "sim" /\ e.rail = "sim" /\ e.key = "unset" /\ e.cold \in {"unset", "sim"} -> "sim"
      [] e.flag = "live" /\ e.rail = "live" /\ e.key = "reference" /\ e.cold = "nano" -> "live"
      [] OTHER -> "misconfigured"

CustodyTypeOK ==
    /\ custodyClock \in 0..CustodyTime /\ custodyEnv \in Settings
    /\ \A p \in payments : p.id \in 1..MaxPayments /\ p.raw \in Income /\ p.live \in BOOLEAN
    /\ \A m \in Modes : files[m] = Torn \/ \A s \in files[m] : s.raw \in Nat /\ s.ts \in 0..custodyClock
    /\ \A w \in Sweeper : sweeper[w].at \in {"idle", "loaded", "sent", "writing"}
    /\ \A s \in sent : s.mode \in Modes
    /\ faults \in 0..MaxFaults

CustodyInit ==
    /\ custodyClock = 0 /\ payments = {} /\ sent = {} /\ faults = 0
    /\ custodyEnv = [flag |-> "off", rail |-> "off", key |-> "unset", cold |-> "unset"]
    /\ files = [m \in Modes |-> {}] /\ sweeper = [w \in Sweeper |-> Idle]

-----------------------------------------------------------------------------
(* Accounting.                                                             *)

Raw(records) == MapThenSumSet(LAMBDA s : s.raw, records)
\* Mutant: simulated proofs are swept with the live ones.
EarnedInAll(mode) == Raw(payments)

\* Simulated proofs never count as live ones, nor the reverse.
Earned(mode) == Raw({p \in payments : p.live = (mode = "live")})
Recent(records) == {s \in records : s.ts >= custodyClock - CapWindow}
Minimum(a, b) == IF a <= b THEN a ELSE b
Positive(n) == IF n > 0 THEN n ELSE 0

\* plan_sweep: what may be sent, or 0.
PlanSweep(mode, records) ==
    LET balance == Positive(Earned(mode) - Raw(records))
        amount  == Minimum(balance, Positive(DailyCap - Raw(Recent(records))))
    IN  IF balance < SweepMin \/ amount < SweepMin THEN 0 ELSE amount

-----------------------------------------------------------------------------
(* Actions.                                                                *)

\* The operator sets the environment of the next runs.
Configure(e) ==
    /\ custodyEnv # e /\ custodyEnv' = e
    /\ UNCHANGED <<custodyClock, payments, files, sweeper, sent, faults>>

\* A verified payment is booked (NanoSettlement has how).
Earn ==
    /\ Cardinality(payments) < MaxPayments
    /\ \E raw \in Income, live \in BOOLEAN :
         payments' = payments \cup {[id |-> Cardinality(payments) + 1, live |-> live, raw |-> raw]}
    /\ UNCHANGED <<custodyClock, custodyEnv, files, sweeper, sent, faults>>

Busy(mode) == \E w \in Sweeper : sweeper[w] # Idle /\ sweeper[w].mode = mode

\* from_env and _load: a file that cannot be read is an empty one.
Load(w) ==
    LET mode == ModeOf(custodyEnv)
    IN  /\ sweeper[w] = Idle /\ mode \in Modes
        /\ sweeper' = [sweeper EXCEPT ![w] =
              [at |-> "loaded", mode |-> mode, sweeps |-> IF files[mode] = Torn THEN {} ELSE files[mode]]]
        /\ faults' = faults + (IF Busy(mode) THEN 1 ELSE 0)
        /\ faults' <= MaxFaults
        /\ UNCHANGED <<custodyClock, custodyEnv, payments, files, sent>>

\* execute_sweep up to the block: planned, approved, and (live) sent.  The
\* record is the run's own until it is written.
SendSweep(w) ==
    /\ sweeper[w].at = "loaded"
    /\ LET run == sweeper[w]
           rec == [id |-> Cardinality(sent) + 1, raw |-> PlanSweep(run.mode, run.sweeps),
                   ts |-> custodyClock, mode |-> run.mode]
       IN  /\ rec.raw > 0
           /\ sent' = sent \cup {rec}
           /\ sweeper' = [sweeper EXCEPT ![w] = [run EXCEPT !.at = "sent", !.sweeps = run.sweeps \cup {rec}]]
    /\ UNCHANGED <<custodyClock, custodyEnv, payments, files, faults>>

\* Refused: nothing to sweep, not approved, no signer, or no key behind its
\* reference.
Refuse(w) ==
    /\ sweeper[w].at = "loaded" /\ sweeper' = [sweeper EXCEPT ![w] = Idle]
    /\ UNCHANGED <<custodyClock, custodyEnv, payments, files, sent, faults>>

\* _save: the file is opened for writing, which empties it, and written.
OpenFile(w) ==
    /\ sweeper[w].at = "sent"
    /\ files' = [files EXCEPT ![sweeper[w].mode] = Torn]
    /\ sweeper' = [sweeper EXCEPT ![w].at = "writing"]
    /\ UNCHANGED <<custodyClock, custodyEnv, payments, sent, faults>>

WriteFile(w) ==
    /\ sweeper[w].at = "writing"
    /\ files' = [files EXCEPT ![sweeper[w].mode] = sweeper[w].sweeps]
    /\ sweeper' = [sweeper EXCEPT ![w] = Idle]
    /\ UNCHANGED <<custodyClock, custodyEnv, payments, sent, faults>>

\* The run dies once it has sent, or the signer has sent and answers with no
\* block hash, which the run takes for a failure.
LoseSweep(w) ==
    /\ sweeper[w].at \in {"sent", "writing"} /\ faults < MaxFaults
    /\ sweeper' = [sweeper EXCEPT ![w] = Idle] /\ faults' = faults + 1
    /\ UNCHANGED <<custodyClock, custodyEnv, payments, files, sent>>

CustodyTick ==
    /\ custodyClock < CustodyTime /\ custodyClock' = custodyClock + 1
    /\ UNCHANGED <<custodyEnv, payments, files, sweeper, sent, faults>>

CustodyNext ==
    \/ CustodyTick \/ Earn
    \/ \E e \in Environments : Configure(e)
    \/ \E w \in Sweeper : \/ Load(w) \/ SendSweep(w) \/ Refuse(w) \/ OpenFile(w)
                          \/ WriteFile(w) \/ LoseSweep(w)

CustodySpec == CustodyInit /\ [][CustodyNext]_custodyVars

-----------------------------------------------------------------------------
(* Properties.                                                             *)

\* What the file of a mode shows is what was sent, within what was earned in
\* that mode and within the cap on any day; and what was really sent exceeds
\* either by no more than another cap, or another balance, for each run that
\* overlapped, died or was misinformed once the signer had sent (nano_custody,
\* "never mix sim proofs into live custody"; "rolling 24h sweep cap").
CustodyHolds ==
    CustodyTypeOK /\ \A m \in Modes :
        LET out == {s \in sent : s.mode = m}
            proofs == Raw({p \in payments : p.live = (m = "live")})
        IN  /\ files[m] # Torn =>
                 /\ files[m] \subseteq out
                 /\ Raw(files[m]) <= proofs /\ Raw(Recent(files[m])) <= DailyCap
            /\ Raw(out) <= proofs * (1 + faults)
            /\ Raw(Recent(out)) <= DailyCap * (1 + faults)
=============================================================================

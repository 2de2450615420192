------------------------------- MODULE Policies -------------------------------
(***************************************************************************)
(* The operator's policy files, as the loaders of guardrails.py,           *)
(* checkout.py and intake.py read them.  A broken spend policy stops every *)
(* spend; broken checkout and intake policies give way to the defaults;    *)
(* the environment may tighten the spend policy but not loosen it.         *)
(***************************************************************************)
EXTENDS Integers

CONSTANTS Amount,    \* whole numbers an operator may write, 0 among them
          Standing   \* the built-in default of each setting

Unset    == -1   \* the key, the variable or the limit is not there
Wrong    == -2   \* text, a Boolean, a negative number
Half     == -3   \* a fraction, below one
Infinite == -4   \* Infinity, or a literal that overflows to it

SpendKeys    == {"txn", "job_budget", "threshold"}
CheckoutKeys == {"remind_after", "reminders", "expire_after"}
IntakeKeys   == {"window", "per_hour"}
Keys == SpendKeys \cup CheckoutKeys \cup IntakeKeys
EnvKeys == {"job_budget", "threshold"}
Writable == Amount \cup {Unset, Wrong, Half, Infinite}

ASSUME PoliciesAssumption ==
    /\ Amount \subseteq Nat /\ 0 \in Amount
    /\ Standing \in [Keys -> Nat \cup {Unset}]
    /\ \A k \in Keys : Standing[k] = Unset <=> k = "threshold"
    /\ Standing["job_budget"] > 0 /\ Standing["expire_after"] > 0

VARIABLES says,      \* what the file has under each key
          wholeness, \* the file is "absent", "object", "broken" (no JSON object) or
                     \* "foreign" (not in UTF-8)
          env        \* SOLVENT_JOB_BUDGET_CENTS, SOLVENT_APPROVAL_THRESHOLD_CENTS

policyVars == <<says, wholeness, env>>

PoliciesTypeOK ==
    /\ says \in [Keys -> Writable] /\ wholeness \in {"absent", "object", "broken", "foreign"}
    /\ env \in [EnvKeys -> Amount \cup {Unset, Wrong}]

-----------------------------------------------------------------------------
(* guardrails.load_spend_policy.                                           *)

Stated(k) == wholeness = "object" /\ says[k] # Unset

IsWholeCents(value) == value \in Nat

\* _env_cents: what is no whole number counts as not set.
EnvCents(k) == IF env[k] \in Nat THEN env[k] ELSE Unset

\* _apply_policy_file: one bad value spoils the policy.
Spoilt ==
    \/ wholeness \in {"broken", "foreign"}
    \/ \E k \in SpendKeys : Stated(k) /\ ~IsWholeCents(says[k])

FromFile(k) == IF Stated(k) /\ IsWholeCents(says[k]) THEN says[k] ELSE Standing[k]

\* Mutant: a budget of 0, which is none, counts as the tightest.
TightensToNothing(budget, current) == current = 0 \/ budget <= current

\* A job budget of 0 is no budget at all.
Tightens(budget, current) == budget > 0 /\ (current = 0 \/ budget <= current)

\* load_spend_policy; warned is TRUE when the policy comes with a warning.
SpendPolicy ==
    LET budget == FromFile("job_budget")
        threshold == FromFile("threshold")
        takesBudget == EnvCents("job_budget") # Unset /\ Tightens(EnvCents("job_budget"), budget)
        takesThreshold == /\ EnvCents("threshold") # Unset
                          /\ threshold = Unset \/ EnvCents("threshold") <= threshold
    IN  [invalid |-> Spoilt,
         txn |-> FromFile("txn"),
         job_budget |-> IF takesBudget THEN EnvCents("job_budget") ELSE budget,
         threshold |-> IF takesThreshold THEN EnvCents("threshold") ELSE threshold,
         warned |-> \/ budget = 0 \/ budget > Standing["job_budget"]
                    \/ EnvCents("job_budget") # Unset /\ ~takesBudget
                    \/ EnvCents("threshold") # Unset /\ ~takesThreshold]

-----------------------------------------------------------------------------
(* checkout.load_policy and intake.load_policy.                            *)

\* A fraction is a number to both; int() makes it 0, float() keeps it.
Cut(k, value) == IF value = Half /\ k \in {"reminders", "per_hour"} THEN 0 ELSE value

\* Finite and not negative, or the default.
CheckoutField(k) ==
    IF Stated(k) /\ says[k] \in Nat \cup {Half} THEN Cut(k, says[k]) ELSE Standing[k]

CheckoutPolicy ==
    LET read == [k \in CheckoutKeys |-> CheckoutField(k)]
        valid == read["expire_after"] # 0
    IN  [k \in CheckoutKeys |-> IF valid THEN read[k] ELSE Standing[k]]

\* Infinity is not asked for here: an hourly limit of it makes int() raise, as
\* reading raises UnicodeDecodeError, which is no JSONDecodeError.
IntakeRaises == wholeness = "foreign" \/ (Stated("per_hour") /\ says["per_hour"] = Infinite)

IntakePolicy ==
    [k \in IntakeKeys |->
        IF Stated(k) /\ says[k] \in Nat \cup {Half, Infinite} THEN Cut(k, says[k]) ELSE Standing[k]]

-----------------------------------------------------------------------------
(* The operator.                                                           *)

PoliciesInit ==
    /\ says = [k \in Keys |-> Unset] /\ wholeness = "absent"
    /\ env = [k \in EnvKeys |-> Unset]

\* The three files are edited alike, one of them (for the spend policy with the
\* environment) in a behaviour.
WriteKey(keys, k, value) ==
    /\ wholeness \in {"absent", "object"} /\ says[k] # value
    /\ \A other \in Keys \ keys : says[other] = Unset
    /\ keys # SpendKeys => \A v \in EnvKeys : env[v] = Unset
    /\ says' = [says EXCEPT ![k] = value] /\ wholeness' = "object"
    /\ UNCHANGED env

Break ==
    /\ wholeness = "object" /\ wholeness' \in {"broken", "foreign"} /\ UNCHANGED <<says, env>>

Export(k, value) ==
    /\ env[k] # value /\ \A other \in Keys \ SpendKeys : says[other] = Unset
    /\ env' = [env EXCEPT ![k] = value] /\ UNCHANGED <<says, wholeness>>

PoliciesNext ==
    \/ Break
    \/ \E keys \in {SpendKeys, CheckoutKeys, IntakeKeys} : \E k \in keys, value \in Writable :
         WriteKey(keys, k, value)
    \/ \E k \in EnvKeys, value \in Amount \cup {Unset, Wrong} : Export(k, value)

-----------------------------------------------------------------------------
(* Properties.                                                             *)

\* What a limit lets through: cents, or everything (job budget 0, no threshold).
Lets(budget, cents) == budget = 0 \/ cents <= budget
LetsAlone(threshold, cents) == threshold = Unset \/ cents <= threshold
Probe == Amount \cup {a + 1 : a \in Amount}

\* "A policy file that exists but cannot be read ... fail closed"; "env values
\* may only tighten"; what loosens the built-in envelope "is warned about too"
\* (load_spend_policy).  Of a policy in force: no key of the file has a value
\* that was bent; no amount passes the job budget or the approval threshold
\* that the file, or a stated variable, would have stopped; no amount passes
\* that the defaults stop unless the operator is warned; and a variable that
\* is not followed is warned about.
SpendPolicyHolds ==
    LET p == SpendPolicy
        said(k) == IF Stated(k) THEN says[k] ELSE Standing[k]
    IN  ~p.invalid =>
          /\ wholeness \in {"absent", "object"}
          /\ p.txn = said("txn")
          /\ \A cents \in Probe :
               /\ Lets(p.job_budget, cents) =>
                    /\ Lets(said("job_budget"), cents)
                    /\ Lets(Standing["job_budget"], cents) \/ p.warned
               /\ LetsAlone(p.threshold, cents) =>
                    /\ LetsAlone(said("threshold"), cents)
                    /\ EnvCents("threshold") = Unset \/ LetsAlone(EnvCents("threshold"), cents)
          /\ \/ p.warned \/ EnvCents("job_budget") = Unset
             \/ \A cents \in Probe : Lets(p.job_budget, cents) => Lets(EnvCents("job_budget"), cents)

\* "Falling back to defaults on anything unreadable" (checkout.load_policy): a
\* link lives for some time, and every setting is a default or as written; an
\* hourly limit without a value and a file of another encoding are all that the
\* intake loader cannot read.
OtherPoliciesHold ==
    /\ CheckoutPolicy["expire_after"] # 0 /\ CheckoutPolicy["expire_after"] # Infinite
    /\ \A k \in CheckoutKeys :
         \/ CheckoutPolicy[k] = Standing[k]
         \/ Stated(k) /\ CheckoutPolicy[k] = says[k]
         \/ k = "reminders" /\ says[k] = Half /\ CheckoutPolicy[k] = 0
    /\ ~IntakeRaises => \A k \in IntakeKeys :
         \/ IntakePolicy[k] = Standing[k]
         \/ Stated(k) /\ IntakePolicy[k] = says[k]
         \/ k = "per_hour" /\ says[k] = Half /\ IntakePolicy[k] = 0
    /\ wholeness \in {"broken", "foreign"} => \A k \in CheckoutKeys : CheckoutPolicy[k] = Standing[k]

PoliciesHold == PoliciesTypeOK /\ SpendPolicyHolds /\ OtherPoliciesHold
=============================================================================

------------------------------- MODULE PaperDay -------------------------------
(***************************************************************************)
(* The policy search of solvent/optimize.py over the simulated trading     *)
(* days of solvent/simulate.py: each candidate policy trades through a day *)
(* of its own, on a paper ledger, with a generator seeded alike.           *)
(***************************************************************************)
EXTENDS Pricing, Sequences, FiniteSets, FiniteSetsExt

CONSTANTS Cell,        \* candidate policies: [floor, minimum]
          Draw,        \* what the generator yields: [budget, asked, factor]
          PaperJobs,   \* jobs a day
          PaperSeed, PaperBudget, PaperReserve, PaperMaxTxn

\* A draw serves as a job or, in its turn, as the factor its cost comes out at
\* (in thousandths), whichever the generator is asked for.
ASSUME PaperAssumption ==
    /\ IsFiniteSet(Cell) /\ \A c \in Cell : c.floor \in Nat /\ c.minimum \in Nat
    /\ \A d \in Draw : d.budget \in Nat /\ d.asked \in [Dials -> Nat] /\ d.factor \in Nat
    /\ PaperJobs \in Nat /\ PaperSeed \in Nat /\ PaperBudget \in Nat
    /\ PaperReserve \in Nat /\ PaperMaxTxn \in Nat

VARIABLES stream,  \* what the seeded generator yields, as far as it was asked
          day      \* each policy's trial

paperVars == <<stream, day>>

Trials == [drawn : Nat, jobs : 0..PaperJobs, cash : Int, spent : Nat, revenue : Nat, cogs : Nat,
           refunded : Nat, accepted : Int, declined : Nat, blocked : Nat, heard : Seq(Draw)]

PaperTypeOK ==
    /\ stream \in Seq(Draw)
    /\ day \in [Cell -> Trials]

PaperInit ==
    /\ stream = <<>>
    /\ day = [c \in Cell |-> [drawn |-> 0, jobs |-> 0, cash |-> PaperSeed, spent |-> 0,
                              revenue |-> 0, cogs |-> 0, refunded |-> 0,
                              accepted |-> 0, declined |-> 0, blocked |-> 0, heard |-> <<>>]]

\* quote, under a candidate policy, and the reserve pre-flight (which does not
\* look at the daily budget, as the stage machine's does).
Takes(c, job, cash) ==
    LET cost == Total(Breakdown(ScopeFor(job.asked)))
    IN  /\ job.budget >= c.minimum /\ job.budget >= cost
        /\ MarginPct(job.budget, cost) >= c.floor
        /\ cash + job.budget - cost >= PaperReserve

PaperLines == <<"tokens", "data", "search", "pdf", "email">>

\* Guardrails.evaluate on the paper ledger, where everything is of today and
\* refunds are no spend.  Other rules may stop a spend too (see PaperStep).
PaperPermits(s, cents) ==
    /\ cents <= PaperMaxTxn /\ s.spent + cents <= PaperBudget
    /\ s.cash - cents >= PaperReserve

\* The lines of one job, up to the one that is not allowed.
PayLine(s, cents, stopped) ==
    IF s.over \/ cents = 0 THEN s
    ELSE IF stopped \/ ~PaperPermits(s, cents) THEN [s EXCEPT !.over = TRUE]
    ELSE [s EXCEPT !.cash = @ - cents, !.spent = @ + cents, !.cogs = @ + cents]

PayLines(s, costs, stop) ==
    LET paid[i \in 0..Len(PaperLines)] ==
          IF i = 0 THEN s ELSE PayLine(paid[i - 1], costs[PaperLines[i]], i = stop)
    IN  paid[Len(PaperLines)]

\* The body of run_trial's loop for an accepted job: revenue first; a blocked
\* spend refunds the job and leaves what it has paid spent.
Trade(t, job, factor, stop) ==
    LET costs == [l \in Lines |-> Round(Breakdown(ScopeFor(job.asked))[l] * factor, 1000)]
        begun == [cash |-> t.cash + job.budget, spent |-> t.spent, cogs |-> t.cogs, over |-> FALSE]
        done  == PayLines(begun, costs, stop)
    IN  [t EXCEPT !.cash = done.cash - IF done.over THEN job.budget ELSE 0,
                  !.spent = done.spent, !.cogs = done.cogs, !.revenue = @ + job.budget,
                  !.refunded = @ + IF done.over THEN job.budget ELSE 0,
                  !.accepted = @ + IF done.over THEN 0 ELSE 1,
                  !.blocked  = @ + IF done.over THEN 1 ELSE 0]

\* Mutant: the factor is drawn when it is needed.
DrawsLazily(t, takes) == [t EXCEPT !.drawn = @ + IF takes THEN 2 ELSE 1]

\* What a trial asks of the generator for one job: the job, then its factor,
\* wanted or not.
Draws(t, takes) == [t EXCEPT !.drawn = @ + 2]

\* One offered job.  stop is the line at which some other rule of the policy
\* (vendor cap, velocity, margin, approval) stops the job, if one does.
PaperStep(c) ==
    /\ day[c].jobs < PaperJobs
    /\ \E more \in UNION {[1..n -> Draw] : n \in {Larger(0, day[c].drawn + 2 - Len(stream))}},
          stop \in {0, 2} :
         LET s == stream \o more
             job == s[day[c].drawn + 1]
             factor == s[day[c].drawn + 2]
             takes == Takes(c, job, day[c].cash)
             next == Draws([day[c] EXCEPT !.jobs = @ + 1, !.heard = Append(@, job)], takes)
         IN  /\ stream' = s
             /\ ~takes => stop = 0
             /\ day' = [day EXCEPT ![c] =
                   IF takes THEN Trade(next, job, factor.factor, stop)
                   ELSE [next EXCEPT !.declined = @ + 1]]

PaperNext == \E c \in Cell : PaperStep(c)

PaperSpec == PaperInit /\ [][PaperNext]_paperVars

-----------------------------------------------------------------------------
(* What the operator is told of the days (one trial to a cell).            *)

\* simulate's summary, as far as optimize.sweep keeps it for recommend.
Row(c) == [net |-> day[c].revenue - day[c].cogs - day[c].refunded,
           below |-> day[c].cash < PaperReserve, floor |-> c.floor, minimum |-> c.minimum]

\* The order in which recommend looks at the rows: what pays, then what is cautious.
Beats(r, s) ==
    \/ r.net > s.net
    \/ r.net = s.net /\ r.floor > s.floor
    \/ r.net = s.net /\ r.floor = s.floor /\ r.minimum <= s.minimum

\* recommend: the best row within the risk budget or, flagged, the safest one.
Advice ==
    LET rows == {Row(c) : c \in Cell}
        safe == {r \in rows : ~r.below}
        Pays(r) == \A s \in rows : r.net >= s.net
    IN  IF safe # {} THEN [row |-> CHOOSE r \in safe : \A s \in safe : Beats(r, s), within |-> TRUE]
        ELSE [row |-> CHOOSE r \in rows : Pays(r), within |-> FALSE]

-----------------------------------------------------------------------------
(* Properties.                                                             *)

\* A trial's figures tie out: the cash is the seed and the net, every job is
\* accepted, declined or blocked, and a day ends below the reserve only if work
\* that was begun had to be refunded ("below_reserve_pct" is the risk that
\* optimize.recommend limits).
DayTiesOut ==
    \A c \in Cell :
        LET t == day[c]
        IN  /\ t.cash = PaperSeed + t.revenue - t.cogs - t.refunded
            /\ t.accepted + t.declined + t.blocked = t.jobs
            /\ t.cash < Smaller(PaperSeed, PaperReserve) => t.blocked > 0 /\ t.refunded > 0
            /\ t.spent <= PaperBudget

\* Policies are compared on the same jobs: what a policy accepts does not move
\* the generator for the jobs after it ("same-seed policy comparisons",
\* simulate.run_trial; "identical demand", optimize.sweep).
SameDemand ==
    \A c, d \in Cell : day[c].jobs = day[d].jobs => day[c].heard = day[d].heard

\* "Anything above this is not a business, it is a gamble" (optimize.py): once
\* all days are over, advice outside the risk budget means that every policy
\* had to give money back, and advice inside it ends no lower than the reserve
\* and gives up no more of the best net than a policy below the reserve made.
AdviceIsSound ==
    (\A c \in Cell : day[c].jobs = PaperJobs) =>
        /\ ~Advice.within /\ PaperSeed >= PaperReserve => \A c \in Cell : day[c].refunded > 0
        /\ Advice.within => /\ PaperSeed + Advice.row.net >= PaperReserve
                            /\ \A c \in Cell : day[c].blocked = 0 /\ PaperSeed >= PaperReserve
                                               => Row(c).net <= Advice.row.net

PaperHolds == PaperTypeOK /\ DayTiesOut /\ SameDemand /\ AdviceIsSound
=============================================================================

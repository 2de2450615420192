------------------------------- MODULE Research -------------------------------
(***************************************************************************)
(* The work of one paid order (solvent/service.py): the model drafts a     *)
(* brief in rounds of tool calls (nemotron.research_brief, tools.dispatch),*)
(* the draft is scored (quality.py), a bad one is drafted once more, and   *)
(* the better of the two ships with a bill for what both have used.  What  *)
(* is used is debited from the quote's allowance first (resource_budget),  *)
(* which the treasury keeps when the process dies and the order is taken   *)
(* up again.                                                               *)
(***************************************************************************)
EXTENDS Integers, Sequences

CONSTANTS Draft,      \* what a model may write, see Drafts
          Asked,      \* what a message of the model may ask for: sequences of Tool
          Allowed,    \* limits of the contract: attempts, tokens, search, tool_calls
          MaxRounds, MaxCalls,  \* MAX_TOOL_ROUNDS, MAX_TOOL_CALLS
          Keywords,   \* topic_keywords of the order, counted
          Runs        \* bound on the times the order is taken up

\* search stands for market data too; bogus is a tool that is not allowlisted.
Tool  == {"search", "summarize", "bogus"}
Meter == {"attempts", "tokens", "search", "tool_calls"}
\* Sections found, characters (in hundreds), figures, no scaffolding, keywords found.
Drafts == [sections : 0..4, length : Nat, figures : Nat, clean : BOOLEAN, hits : 0..Keywords]

ASSUME ResearchAssumption ==
    /\ Draft \subseteq Drafts /\ Asked \subseteq Seq(Tool) \ {<<>>}
    /\ Allowed \in [Meter -> Nat] /\ MaxRounds \in Nat \ {0} /\ MaxCalls \in Nat
    /\ Keywords \in Nat /\ Runs \in Nat

VARIABLES at,        \* where the handler is
          used,      \* the resource_budget stage of the order
          attempt,   \* drafts begun by this handler
          rounds,    \* rounds of the draft in hand
          context,   \* its ToolContext: calls and searches recorded, exhausted
          kept,      \* the first draft and its context, once scored
          shipped,   \* the deliverable
          runs

researchVars == <<at, used, attempt, rounds, context, kept, shipped, runs>>

NoDraft   == [draft |-> "none"]
NoContext == [calls |-> 0, search |-> 0, exhausted |-> FALSE]
Contexts  == [calls : Nat, search : Nat, exhausted : BOOLEAN]

ResearchTypeOK ==
    /\ at \in {"idle", "drafting", "closing", "shipped", "failed"}
    /\ used \in [Meter -> Nat] /\ attempt \in 0..2 /\ rounds \in 0..MaxRounds
    /\ context \in Contexts /\ runs \in 0..Runs
    /\ kept \in [draft : Draft, context : Contexts] \cup {NoDraft}
    /\ shipped \in [draft : Draft, attempts : 1..2, search : Nat, calls : Nat, tokens : Nat,
                    exhausted : BOOLEAN] \cup {NoDraft}

ResearchInit ==
    /\ at = "idle" /\ used = [m \in Meter |-> 0] /\ attempt = 0 /\ rounds = 0
    /\ context = NoContext /\ kept = NoDraft /\ shipped = NoDraft /\ runs = 0

-----------------------------------------------------------------------------
(* The quality gate, in sixtieths of a point.                              *)

Least(a, b) == IF a <= b THEN a ELSE b

Points(d) ==
    [sections |-> 450 * d.sections, length |-> 300 * Least(d.length, 4),
     evidence |-> 400 * Least(d.figures, 3), clean |-> IF d.clean THEN 900 ELSE 0,
     \* half the keywords are enough, and at least one
     topic |-> IF Keywords = 0 \/ 2 * d.hits >= Keywords THEN 900
               ELSE (900 * 2 * d.hits) \div Keywords]

ScoreOf(d) ==
    LET p == Points(d)
    IN  p.sections + p.length + p.evidence + p.clean + p.topic

Blocking(d) == ~d.clean \/ Points(d).topic = 0

Grade(d) ==
    CASE ScoreOf(d) >= 60 * 80 /\ ~Blocking(d) -> "pass"
      [] ScoreOf(d) >= 60 * 80 /\ Blocking(d)  -> "warn"
      [] ScoreOf(d) \in (60 * 60)..(60 * 80 - 1) -> "warn"
      [] OTHER -> "fail"

ShouldRetry(d) == Grade(d) = "fail" \/ Blocking(d)

\* Mutant: the second draft ships.
BetterLate(a, b) == b

Better(a, b) == IF ScoreOf(b) > ScoreOf(a) THEN b ELSE a

-----------------------------------------------------------------------------
(* The allowance: all of a request's meters are debited, or none.          *)

Covers(u, meters) == \A m \in meters : u[m] + 1 <= Allowed[m]
Debited(u, meters) == [m \in Meter |-> IF m \in meters THEN u[m] + 1 ELSE u[m]]

\* dispatch.  An unknown tool, an exhausted allowance and a summary the tokens
\* do not cover are skipped (they are ValueErrors and RuntimeErrors); the last
\* has been debited by then.
Dispatch(s, tool) ==
    LET meters == {"tool_calls"} \cup (IF tool = "search" THEN {"search"} ELSE {})
        after  == Debited(s.used, meters)
        Done(u) == [used |-> u, exhausted |-> s.exhausted, calls |-> s.calls + 1,
                    search |-> s.search + IF tool = "search" THEN 1 ELSE 0]
    IN  CASE s.calls >= MaxCalls -> [s EXCEPT !.exhausted = TRUE]
          [] s.calls < MaxCalls /\ tool = "bogus" -> s
          [] s.calls < MaxCalls /\ tool # "bogus" /\ ~Covers(s.used, meters) ->
                [s EXCEPT !.exhausted = TRUE]
          [] OTHER -> IF tool = "search" THEN Done(after)
                      ELSE IF Covers(after, {"tokens"}) THEN Done(Debited(after, {"tokens"}))
                      ELSE [s EXCEPT !.used = after]

\* The calls of one message are handled in turn.
DispatchAll(begun, tools) ==
    LET done[i \in 0..Len(tools)] == IF i = 0 THEN begun ELSE Dispatch(done[i - 1], tools[i])
    IN  done[Len(tools)]

-----------------------------------------------------------------------------
(* The handler.                                                            *)

\* fulfill: an attempt is debited before its first request.  An order that has
\* none left fails, and its customer is refunded.
TakeOrder ==
    /\ at = "idle" /\ runs < Runs /\ runs' = runs + 1
    /\ IF Covers(used, {"attempts"})
       THEN at' = "drafting" /\ used' = Debited(used, {"attempts"}) /\ attempt' = 1
       ELSE at' = "failed" /\ UNCHANGED <<used, attempt>>
    /\ rounds' = 0 /\ context' = NoContext /\ kept' = NoDraft
    /\ UNCHANGED shipped

\* What the shop sends and bills: the better draft; both drafts' tools; and
\* anything else the allowance says has been used.
Ship(d, attempts, ctx, u) ==
    /\ at' = "shipped"
    /\ shipped' = [draft |-> d, attempts |-> attempts, calls |-> ctx.calls,
                   search |-> IF ctx.search >= u["search"] THEN ctx.search ELSE u["search"],
                   tokens |-> u["tokens"], exhausted |-> ctx.exhausted]

Both(c, d) == [calls |-> c.calls + d.calls, search |-> c.search + d.search,
               exhausted |-> c.exhausted \/ d.exhausted]

\* The draft is written: scored, and shipped or begun again with what was wrong.
Finish(d, u, ctx) ==
    IF attempt = 2
    THEN /\ Ship(Better(kept.draft, d), 2, Both(kept.context, ctx), u)
         /\ used' = u /\ context' = ctx /\ UNCHANGED <<attempt, rounds, kept>>
    ELSE IF ShouldRetry(d) /\ Covers(u, {"attempts"})
    THEN /\ at' = "drafting" /\ attempt' = 2 /\ rounds' = 0 /\ context' = NoContext
         /\ used' = Debited(u, {"attempts"})
         /\ kept' = [draft |-> d, context |-> ctx] /\ UNCHANGED shipped
    ELSE /\ Ship(d, 1, [ctx EXCEPT !.exhausted = @ \/ ShouldRetry(d)], u)
         /\ used' = u /\ context' = ctx /\ UNCHANGED <<attempt, rounds, kept>>

\* A request to the model that the tokens do not cover: the first draft fails
\* with the order, a second is given up for the first.
NoTokens ==
    /\ at \in {"drafting", "closing"} /\ ~Covers(used, {"tokens"})
    /\ IF attempt = 1 THEN at' = "failed" /\ UNCHANGED shipped
       ELSE Ship(kept.draft, 2, [kept.context EXCEPT !.exhausted = TRUE], used)
    /\ UNCHANGED <<used, attempt, rounds, context, kept, runs>>

\* One round of the loop: the model asks for tools, chats, or writes the brief.
AskTools(tools) ==
    /\ at = "drafting" /\ Covers(used, {"tokens"})
    /\ LET begun == [used |-> Debited(used, {"tokens"}), calls |-> context.calls,
                     search |-> context.search, exhausted |-> context.exhausted]
           done  == DispatchAll(begun, tools)
       IN  /\ used' = done.used
           /\ context' = [calls |-> done.calls, search |-> done.search, exhausted |-> done.exhausted]
           /\ at' = IF done.exhausted \/ rounds + 1 = MaxRounds THEN "closing" ELSE "drafting"
    /\ rounds' = rounds + 1
    /\ UNCHANGED <<attempt, kept, shipped, runs>>

Chat ==
    /\ at = "drafting" /\ Covers(used, {"tokens"})
    /\ used' = Debited(used, {"tokens"}) /\ rounds' = rounds + 1
    /\ at' = IF rounds + 1 = MaxRounds THEN "closing" ELSE "drafting"
    /\ UNCHANGED <<attempt, context, kept, shipped, runs>>

\* In a round, or in the last request, with tools closed.
Write(d) ==
    /\ at \in {"drafting", "closing"} /\ Covers(used, {"tokens"})
    /\ Finish(d, Debited(used, {"tokens"}), context)
    /\ UNCHANGED runs

\* The process dies, or a guardrail stops a live request (GuardrailError is no
\* RuntimeError: it fails the order in either attempt).
Die ==
    /\ at \in {"drafting", "closing"} /\ at' = "idle"
    /\ attempt' = 0 /\ rounds' = 0 /\ context' = NoContext /\ kept' = NoDraft
    /\ UNCHANGED <<used, shipped, runs>>
Forbid ==
    /\ at \in {"drafting", "closing"} /\ at' = "failed"
    /\ UNCHANGED <<used, attempt, rounds, context, kept, shipped, runs>>

ResearchNext ==
    \/ TakeOrder \/ NoTokens \/ Chat \/ Die \/ Forbid
    \/ \E tools \in Asked : AskTools(tools)
    \/ \E d \in Draft : Write(d)

ResearchSpec == ResearchInit /\ [][ResearchNext]_researchVars

-----------------------------------------------------------------------------
(* Properties.                                                             *)

\* However often the process dies and the order is taken up again, nothing is
\* used beyond what the quote allowed, and a deliverable bills all of it: the
\* draft that was dropped, the one a dead process had begun, and the calls whose
\* outcome nobody knows ("a retry never gets a fresh allowance"; "Bill both
\* drafts' tools, irrespective of which draft ships", service._fulfill).
BriefBillsItsUse ==
    /\ \A m \in Meter : used[m] <= Allowed[m]
    /\ shipped # NoDraft =>
         /\ shipped.search = used["search"] /\ shipped.tokens = used["tokens"]
         /\ shipped.calls <= used["tool_calls"]
         /\ shipped.attempts <= used["attempts"]

\* The customer gets the better draft, the first on a tie, and one that is not
\* worth a pass ships only when there was nothing left to redo it with or the
\* second was no better: then the bill says so.
BetterDraftShips ==
    shipped # NoDraft =>
        /\ kept # NoDraft => /\ ScoreOf(shipped.draft) >= ScoreOf(kept.draft)
                             /\ ShouldRetry(kept.draft)
        /\ ShouldRetry(shipped.draft) => shipped.attempts = 2 \/ shipped.exhausted
        /\ shipped.attempts = 2 => kept # NoDraft

ResearchHolds == ResearchTypeOK /\ BriefBillsItsUse /\ BetterDraftShips
=============================================================================

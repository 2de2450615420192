------------------------------ MODULE MCCommerce ------------------------------
(***************************************************************************)
(* What the agent sells and what it earns by it, the components side by    *)
(* side: scene says which of them moves in a behaviour, the others stay as *)
(* they start.  They share no state, so what holds of each in its scene    *)
(* holds of all together.                                                  *)
(***************************************************************************)
EXTENDS OperatorFiles, Intake, Outlook, Research, PaperDay, TLC

CONSTANT MaxDetours

VARIABLES scene,
          detours \* how far the shop is off its plain course

Scenes == {"products", "policies", "intake", "shop", "research", "paper"}

Init ==
    /\ scene \in Scenes /\ detours = 0
    /\ ProductsInit /\ PoliciesInit /\ IntakeInit /\ ShopInit /\ ResearchInit /\ PaperInit

\* One order at most is waved through or comes back to life.
OneWaved == Cardinality(waved') + Cardinality(revived') <= 1

Settled == {"none", "completed", "failed", "expired", "cancelled"}

\* In the shop things take their plain course but for MaxDetours: the clock moves,
\* the agent is restarted with another factor, a vendor charges a second time, a
\* customer pays more than the price; an order is turned down, cancelled, expired
\* or given up, comes past the gate, or is completed with its event lost.  While two
\* orders are under way of which neither has its brief out, one detour at most.
FewDetours ==
    /\ detours' = detours
         + (shopClock' - shopClock) + (IF factor' # factor THEN 1 ELSE 0)
         + Cardinality({e \in ledger' \ ledger :
               e.nth > 0 \/ (e.kind = "revenue" /\ e.cents > shelf[e.job].order.budget)})
         + Cardinality({j \in Job :
               /\ shelf'[j].status # shelf[j].status
               /\ \/ shelf'[j].status \in {"failed", "cancelled", "expired"}
                  \/ shelf'[j].status = "awaiting_payment" /\ shelf'[j].cleared = Never
                  \/ shelf'[j].status = "completed" /\ delivered[j] = Never})
    /\ detours' <= MaxDetours
    /\ detours' > 1 /\ detours' # detours
         => \E j \in Job : Status(j) \in Settled \/ j \in published

Next ==
    /\ UNCHANGED scene
    /\ IF scene = "products" THEN ProductsNext ELSE UNCHANGED productsVars
    /\ IF scene = "policies" THEN PoliciesNext ELSE UNCHANGED policyVars
    /\ IF scene = "intake" THEN IntakeNext /\ OneWaved ELSE UNCHANGED intakeVars
    /\ IF scene = "shop" THEN ShopNext /\ FewDetours ELSE UNCHANGED <<shopVars, detours>>
    /\ IF scene = "research" THEN ResearchNext ELSE UNCHANGED researchVars
    /\ IF scene = "paper" THEN PaperNext ELSE UNCHANGED paperVars

vars == <<scene, detours, productsVars, policyVars, intakeVars, shopVars, researchVars, paperVars>>
Spec == Init /\ [][Next]_vars

-----------------------------------------------------------------------------
TestBuiltin == {"deep"}
TestSlug    == {"deep", "new"}
TestPrice   == "deep" :> 9
TestListScope == "deep" :> 4
TestWritten == {5} \* two and a half
TestStanding == [k \in Keys |-> IF k = "threshold" THEN Unset ELSE 2]

TestBriefs == {[customer |-> "ann", topic |-> "x", plain |-> TRUE],
               [customer |-> "ann", topic |-> "y", plain |-> FALSE]}

Asks(t, d, s) == [x \in Dials |-> CASE x = "tokens" -> t [] x = "data" -> d [] OTHER -> s]
TestRates == [l \in Lines |-> CASE l = "tokens" -> 3 [] l = "data" -> 1 [] l = "search" -> 1 [] OTHER -> 0]
TestScope == Asks(1, 0, 0)
TestOrders == {[who |-> "ann", budget |-> 8, asked |-> Asks(1, 1, 1)],
               [who |-> "bob", budget |-> 8, asked |-> Asks(2, 0, 1)]}
TestTips == {0, 5}
TestBills == {2}
TestCaps == [v \in Vendor |-> 8]

TestDrafts == {[sections |-> s, length |-> 4, figures |-> f, clean |-> c, hits |-> h] :
                 s \in {0, 4}, f \in {0, 3}, c \in BOOLEAN, h \in {0, 2}}
TestAsked == {<<"search">>, <<"search", "summarize">>, <<"search", "search">>, <<"bogus">>}
TestAllowed == "attempts" :> 2 @@ "tokens" :> 6 @@ "search" :> 3 @@ "tool_calls" :> 4

TestCells == {[floor |-> 100, minimum |-> 3], [floor |-> 500, minimum |-> 3], [floor |-> 100, minimum |-> 8]}
TestDraws == {[budget |-> b, asked |-> Asks(1, 1, 0), factor |-> 300 * b] : b \in {2, 7, 12}}

Symmetric == Permutations(Job) \cup Permutations(Submission) \cup Permutations(Screener)
=============================================================================

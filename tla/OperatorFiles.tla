----------------------------- MODULE OperatorFiles -----------------------------
(***************************************************************************)
(* The files an operator writes: the price list (Products) and the policy  *)
(* files (Policies), which the loaders read anew at every use.             *)
(***************************************************************************)
EXTENDS Products, Policies

filesVars == <<productsVars, policyVars>>

FilesNext ==
    \/ ProductsNext /\ UNCHANGED policyVars
    \/ PoliciesNext /\ UNCHANGED productsVars

FilesSpec == ProductsInit /\ PoliciesInit /\ [][FilesNext]_filesVars

-----------------------------------------------------------------------------
(* Properties.                                                             *)

\* Everything an operator writes is read as the loaders promise: the price list
\* sells what is stated, a broken policy fails closed or gives way to the
\* defaults (products.load_catalog, guardrails.load_spend_policy,
\* checkout.load_policy, intake.load_policy).
FilesHold == CatalogueIsTheFile /\ PoliciesHold
=============================================================================

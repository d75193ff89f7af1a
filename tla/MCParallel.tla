----------------------------- MODULE MCParallel -----------------------------
(***************************************************************************)
(* Two branches of a parallel pipeline.  A budget names how many frames of *)
(* each kind arrive; they arrive in every order.                           *)
(***************************************************************************)
EXTENDS Parallel, TLC

None == [k \in Kinds |-> 0]

\* A run from its start to its end, with data, a system frame or both in it.
DataBudget == "start" :> 1 @@ "data" :> 1 @@ "end" :> 1 @@ None
SystemBudget == "start" :> 1 @@ "system" :> 1 @@ "end" :> 1 @@ None
EndBudget == "system" :> 1 @@ DataBudget

\* A cancel beside an end, with or without data ahead of it.
CancelBudget == "start" :> 1 @@ "end" :> 1 @@ "cancel" :> 1 @@ None
CutBudget == "data" :> 1 @@ CancelBudget

\* The smaller budgets leave an id for a frame raised in a branch.
EndAndCancel == {DataBudget, SystemBudget, EndBudget, CancelBudget, CutBudget}
=============================================================================

--------------------------- MODULE MCAdminConsole ---------------------------
(* The seeded CEO, one browser tab with the application, and two cycles of *)
(* successive weeks; CLOSED is the third status of the page's type.        *)
EXTENDS AdminConsole, TLC

CONSTANTS ceo, emp, tab, week1, week2

MCNewest == week1 :> 1 @@ week2 :> 2
\* Bound: the tokens handed out play no part in anything else.
NobodyImpersonated == granted = {}

SlotSymmetry == Permutations(Slots)
=============================================================================

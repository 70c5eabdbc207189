--------------------------- MODULE ReportLifecycle ---------------------------
(***************************************************************************)
(* What the product means a report to be: created once as a draft, and     *)
(* from then on every stored row is a legal edit of the row it replaces.   *)
(* The handlers implement it as long as no two requests for the same       *)
(* report overlap.                                                         *)
(***************************************************************************)
EXTENDS ReportRows

VARIABLE rows

Init == rows = [r \in Reports |-> NoRow]

Create(r) == /\ rows[r] = NoRow
             /\ \E fields \in [Fields -> Text] :
                  rows' = [rows EXCEPT ![r] = NewDraft(fields)]

Change(r) == /\ rows[r] # NoRow
             /\ \E new \in Row : /\ LegalStep(rows[r], new)
                                 /\ rows' = [rows EXCEPT ![r] = new]

Next == \E r \in Reports : Create(r) \/ Change(r)

Spec == Init /\ [][Next]_rows
=============================================================================

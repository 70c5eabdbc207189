--------------------------- MODULE ReportVersions ---------------------------
(***************************************************************************)
(* What the report handlers promise when requests overlap.  A report is    *)
(* created once, as a draft.  Every row stored later is a legal edit of    *)
(* SOME row stored before it, not necessarily of the latest one: handlers  *)
(* read a row, change the copy and write the whole copy back, so a write   *)
(* may be based on a version that was replaced meanwhile.                  *)
(***************************************************************************)
EXTENDS ReportRows

VARIABLES rows,      \* rows[r]: the row in the table, or NoRow
          versions   \* versions[r]: every row stored under r so far

vars == <<rows, versions>>

Init == /\ rows = [r \in Reports |-> NoRow]
        /\ versions = [r \in Reports |-> {}]

Store(r, new) == /\ rows' = [rows EXCEPT ![r] = new]
                 /\ versions' = [versions EXCEPT ![r] = @ \cup {new}]

Create(r) == /\ versions[r] = {}
             /\ \E fields \in [Fields -> Text] : Store(r, NewDraft(fields))

Write(r) == \E old \in versions[r], new \in Row :
              LegalStep(old, new) /\ Store(r, new)

Next == \E r \in Reports : Create(r) \/ Write(r)

Spec == Init /\ [][Next]_vars
=============================================================================

----------------------------- MODULE ReportRows -----------------------------
(***************************************************************************)
(* The row of the reports table and the edits the product allows on it.    *)
(* The modules of the report workflow share these definitions; nothing in  *)
(* this module says when a row is read or written.                         *)
(***************************************************************************)

CONSTANTS Reports,   \* one element per (user, cycle): idx_reports_user_cycle
          Fields,    \* the four text columns, completed_content, ...
          Texts,     \* the non-empty strings an author can write
          NoText,    \* the empty string
          NoRow      \* no row with this key in the table

Text == Texts \cup {NoText}

Statuses == {"DRAFT", "SUBMITTED", "APPROVED", "REVISION_REQUESTED"}

(* submitted abstracts submitted_at: is the timestamp set? *)
Row == [status : Statuses, fields : [Fields -> Text],
        comments : Text, submitted : BOOLEAN]

ASSUME NoTextAssumption == NoText \notin Texts
ASSUME NoRowAssumption  == NoRow \notin Row

(***************************************************************************)
(* The life cycle, stated as a relation between an old and a new row.      *)
(***************************************************************************)
KeptOrFilled(old, new) == new = old \/ new \in Texts

(* An edit fills or replaces texts and never blanks one. *)
Edits(old, new) ==
  /\ old.status # "APPROVED"
  /\ new.status = old.status
  /\ new.submitted = old.submitted
  /\ \A f \in Fields : KeptOrFilled(old.fields[f], new.fields[f])
  /\ KeptOrFilled(old.comments, new.comments)

Submits(old, new) ==
  /\ old.status \in {"DRAFT", "REVISION_REQUESTED"}
  /\ new = [old EXCEPT !.status = "SUBMITTED", !.submitted = TRUE]

Approves(old, new) ==
  /\ old.status = "SUBMITTED"
  /\ new = [old EXCEPT !.status = "APPROVED"]

(* A report is sent back with the reviewer's remarks, never without. *)
SendsBack(old, new) ==
  /\ old.status = "SUBMITTED"
  /\ new.comments \in Texts
  /\ new = [old EXCEPT !.status = "REVISION_REQUESTED",
                       !.comments = new.comments]

LegalStep(old, new) ==
  Edits(old, new) \/ Submits(old, new) \/ Approves(old, new) \/ SendsBack(old, new)

NewDraft(fields) ==
  [status |-> "DRAFT", fields |-> fields, comments |-> NoText, submitted |-> FALSE]
=============================================================================

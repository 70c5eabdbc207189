--------------------------- MODULE ReportWorkflow ---------------------------
(***************************************************************************)
(* The report handlers of the API server (internal/report/handler.go).     *)
(* gin runs every request in a goroutine of its own.  A handler that       *)
(* changes a report reads the whole row, checks the caller and the status, *)
(* changes its copy and writes the whole copy back with db.Save: no        *)
(* transaction, no lock and no version column orders two requests for the  *)
(* same report.  Each SQL statement is one atomic step here; a slot is one *)
(* request in flight together with the mail goroutine it leaves behind.    *)
(***************************************************************************)
EXTENDS ReportRows, Naturals, FiniteSets

CONSTANTS Users, NoUser,
          Role,      \* Role[u]: the role claim of u's token
          Manager,   \* Manager[u]: users.manager_id of u, or NoUser
          Owner,     \* Owner[r]: the author of report r
          Slots,     \* requests that can be in flight together
          MaxVersions \* bound for TLC: rows stored under one report

Roles == {"CEO", "ADMIN", "DIRECTOR", "MANAGER", "EMPLOYEE"}

ASSUME BoundAssumption == MaxVersions \in Nat
ASSUME PeopleAssumption == /\ Role \in [Users -> Roles]
                           /\ Manager \in [Users -> Users \cup {NoUser}]
                           /\ Owner \in [Reports -> Users]

VARIABLES rows,      \* rows[r]: the row in the reports table, or NoRow
          req,       \* req[s]: where the request in slot s is
          sent,      \* mails handed to the SMTP server
          versions   \* history: every row ever stored under r

vars == <<rows, req, sent, versions>>

Ops == {"update", "submit", "approve", "revise"}

(* Where a request stands: after a failed insert; between the read and the  *)
(* write, with the row as it was read and the copy to write back; or        *)
(* answered, with the mail goroutine still to run.                          *)
Idle    == [pc |-> "idle"]
Lookups == [pc : {"lookup"}, report : Reports]
Changes == [pc : {"save"}, op : Ops, report : Reports, base : Row, new : Row]
Mails   == [op : Ops \ {"update"}, report : Reports, comments : Text]
Mailing == [pc : {"mail"}, mail : Mails]

MailOf(q) == [op |-> q.op, report |-> q.report,
              comments |-> IF q.op = "revise" THEN q.new.comments ELSE NoText]

-----------------------------------------------------------------------------
(* Who may do what: the role switches of the handlers. *)
MayEdit(u, r) == u = Owner[r] \/ Role[u] \in {"CEO", "ADMIN", "MANAGER"}

MayReview(u, r) ==
  \/ Role[u] \in {"CEO", "ADMIN", "DIRECTOR"}
  \/ Role[u] = "MANAGER" /\ Manager[Owner[r]] = u

(* What a PATCH body asks for: a text that is empty or missing in the body *)
(* leaves the column alone.                                                *)
Patches == [fields : [Fields -> Text], comments : Text]

\* Faulty variant: an empty text in the body blanks the column.
OverwriteAlways(old, new) == new

Overwrite(old, new) == IF new = NoText THEN old ELSE new

Patched(row, patch) ==
  [row EXCEPT
    !.fields = [f \in Fields |-> Overwrite(row.fields[f], patch.fields[f])],
    !.comments = Overwrite(row.comments, patch.comments)]

\* Faulty variant: submitted_at is forgotten.
SubmittedWithoutTime(row) == [row EXCEPT !.status = "SUBMITTED"]

Submitted(row)           == [row EXCEPT !.status = "SUBMITTED", !.submitted = TRUE]
Approved(row)            == [row EXCEPT !.status = "APPROVED"]
SentBack(row, remarks)   == [row EXCEPT !.status = "REVISION_REQUESTED",
                                        !.comments = remarks]

-----------------------------------------------------------------------------
Init == /\ rows = [r \in Reports |-> NoRow]
        /\ req = [s \in Slots |-> Idle]
        /\ sent = {}
        /\ versions = [r \in Reports |-> {}]

Store(r, row) == /\ rows' = [rows EXCEPT ![r] = row]
                 /\ versions' = [versions EXCEPT ![r] = @ \cup {row}]

Become(s, q) == req' = [req EXCEPT ![s] = q]

Reply(s) == Become(s, Idle)

\* Faulty variant: the insert becomes an upsert.
InsertUpserts(s, r, fields) ==
  /\ req[s] = Idle
  /\ Store(r, NewDraft(fields))
  /\ UNCHANGED <<req, sent>>

(* POST /reports by the author; the unique index admits one row per key. *)
Insert(s, r, fields) ==
  /\ req[s] = Idle
  /\ rows[r] = NoRow
  /\ Store(r, NewDraft(fields))
  /\ UNCHANGED <<req, sent>>

(* The insert returns an error, because the key is taken or because the    *)
(* database failed, perhaps after it applied the statement; the handler    *)
(* then looks for the row it may have collided with.                       *)
InsertFails(s, r, fields) ==
  /\ req[s] = Idle
  /\ Become(s, [pc |-> "lookup", report |-> r])
  /\ \/ UNCHANGED <<rows, versions>>
     \/ rows[r] = NoRow /\ Store(r, NewDraft(fields))
  /\ UNCHANGED sent

(* 200 with the existing row or 500; either way the request is over. *)
LookUpExisting(s) ==
  /\ req[s].pc = "lookup"
  /\ Reply(s)
  /\ UNCHANGED <<rows, sent, versions>>

(* First(&report), the checks of the handler and its changes to the copy. *)
Read(s, op, r, new) ==
  /\ req[s] = Idle
  /\ Cardinality(versions[r]) < MaxVersions
  /\ Become(s, [pc |-> "save", op |-> op, report |-> r,
                base |-> rows[r], new |-> new])
  /\ UNCHANGED <<rows, sent, versions>>

\* Faulty variant: the check for APPROVED is missing.
ReadForUpdateOfApproved(s, u, r, patch) ==
  /\ rows[r] # NoRow
  /\ MayEdit(u, r)
  /\ Read(s, "update", r, Patched(rows[r], patch))

ReadForUpdate(s, u, r, patch) ==
  /\ rows[r] # NoRow
  /\ MayEdit(u, r)
  /\ rows[r].status # "APPROVED"
  /\ Read(s, "update", r, Patched(rows[r], patch))

ReadForSubmit(s, u, r) ==
  /\ rows[r] # NoRow
  /\ u = Owner[r]
  /\ rows[r].status \in {"DRAFT", "REVISION_REQUESTED"}
  /\ Read(s, "submit", r, Submitted(rows[r]))

\* Faulty variant: anything that is not approved yet can be approved.
ReadForApproveOfDraft(s, u, r) ==
  /\ rows[r] # NoRow
  /\ MayReview(u, r)
  /\ rows[r].status # "APPROVED"
  /\ Read(s, "approve", r, Approved(rows[r]))

ReadForApprove(s, u, r) ==
  /\ rows[r] # NoRow
  /\ MayReview(u, r)
  /\ rows[r].status = "SUBMITTED"
  /\ Read(s, "approve", r, Approved(rows[r]))

(* The comments are bound with binding:"required": never empty. *)
ReadForRevision(s, u, r, remarks) ==
  /\ rows[r] # NoRow
  /\ MayReview(u, r)
  /\ rows[r].status = "SUBMITTED"
  /\ Read(s, "revise", r, SentBack(rows[r], remarks))

\* Faulty variant: the goroutine is started by Update too.
SaveAndMailAlways(s) ==
  /\ req[s].pc = "save"
  /\ Store(req[s].report, req[s].new)
  /\ Become(s, [pc |-> "mail", mail |-> MailOf(req[s])])
  /\ UNCHANGED sent

(* db.Save writes every column of the copy, whatever the row holds by now. *)
(* Update is then over; the other three leave a goroutine that mails.      *)
Save(s) ==
  /\ req[s].pc = "save"
  /\ Store(req[s].report, req[s].new)
  /\ IF req[s].op = "update"
     THEN Reply(s)
     ELSE Become(s, [pc |-> "mail", mail |-> MailOf(req[s])])
  /\ UNCHANGED sent

\* Faulty variant: the error is not looked at and the mail is sent.
SaveFailsAndMails(s) ==
  /\ req[s].pc = "save"
  /\ Become(s, [pc |-> "mail", mail |-> MailOf(req[s])])
  /\ UNCHANGED <<rows, versions, sent>>

(* db.Save returns an error: 500 and no mail.  The statement may have been *)
(* applied all the same when the connection broke before its answer.       *)
SaveFails(s) ==
  /\ req[s].pc = "save"
  /\ \/ UNCHANGED <<rows, versions>>
     \/ Store(req[s].report, req[s].new)
  /\ Reply(s)
  /\ UNCHANGED sent

(* The goroutine reads the addressee and the cycle and calls SMTP once. *)
SendMail(s) ==
  /\ req[s].pc = "mail"
  /\ sent' = sent \cup {req[s].mail}
  /\ Reply(s)
  /\ UNCHANGED <<rows, versions>>

(* A failed lookup or SMTP error ends the goroutine; nothing retries. *)
MailFails(s) ==
  /\ req[s].pc = "mail"
  /\ Reply(s)
  /\ UNCHANGED <<rows, sent, versions>>

(* The server process stops and starts again: the database is kept, the    *)
(* requests and the mail goroutines are gone.                              *)
Crash ==
  /\ req' = [s \in Slots |-> Idle]
  /\ UNCHANGED <<rows, sent, versions>>

ReadForChange(s) == \E u \in Users, r \in Reports :
  \/ \E patch \in Patches : ReadForUpdate(s, u, r, patch)
  \/ ReadForSubmit(s, u, r)
  \/ ReadForApprove(s, u, r)
  \/ \E remarks \in Texts : ReadForRevision(s, u, r, remarks)

Next == \/ \E s \in Slots, r \in Reports, fields \in [Fields -> Text] :
             Insert(s, r, fields) \/ InsertFails(s, r, fields)
        \/ \E s \in Slots : ReadForChange(s)
        \/ \E s \in Slots : \/ LookUpExisting(s)
                            \/ Save(s)
                            \/ SaveFails(s)
                            \/ SendMail(s)
                            \/ MailFails(s)
        \/ Crash

Spec == Init /\ [][Next]_vars

(* Nobody happens to work on the same report at the same time: between a    *)
(* read and its save, no other request has read that report.               *)
NoOverlap == \A s, t \in Slots :
  s # t /\ req[s].pc = "save" /\ req[t].pc = "save" => req[s].report # req[t].report

SerialSpec == Init /\ [][Next /\ NoOverlap']_vars

-----------------------------------------------------------------------------
TypeOK ==
  /\ rows \in [Reports -> Row \cup {NoRow}]
  /\ req \in [Slots -> {Idle} \cup Lookups \cup Changes \cup Mailing]
  /\ sent \subseteq Mails
  /\ versions \in [Reports -> SUBSET Row]

(* However requests overlap, a report that left DRAFT carries the time of  *)
(* its submission, a draft carries none, and a report waiting for revision *)
(* carries the reviewer's remarks.                                         *)
Consistent(row) == /\ row.submitted <=> row.status # "DRAFT"
                   /\ row.status = "REVISION_REQUESTED" => row.comments # NoText
RowConsistent == \A r \in Reports : rows[r] # NoRow => Consistent(rows[r])

(* What gets approved is, text for text, something that stood as SUBMITTED *)
(* before: edits racing with the approval never slip into it.              *)
ApprovedWasSubmitted == \A r \in Reports : \A v \in versions[r] :
  v.status = "APPROVED" => [v EXCEPT !.status = "SUBMITTED"] \in versions[r]

(* A mail announces a decision that was stored: no mail for a submission,  *)
(* an approval or a revision whose save failed or never ran.               *)
Announces(op, status) ==
  \/ op = "submit"  /\ status = "SUBMITTED"
  \/ op = "approve" /\ status = "APPROVED"
  \/ op = "revise"  /\ status = "REVISION_REQUESTED"
Backed(m) == \E v \in versions[m.report] :
  /\ Announces(m.op, v.status)
  /\ m.op = "revise" => v.comments = m.comments
MailsJustified == \A m \in sent : Backed(m)

(* A write that is not a legal edit of the row it replaces comes from a    *)
(* request that read an older row: overlap is the only way out of the life *)
(* cycle.                                                                  *)
OnlyStaleSavesAreIllegal ==
  [][\A r \in Reports :
       rows[r] # NoRow /\ rows'[r] # rows[r] =>
         \/ rows'[r] # NoRow /\ LegalStep(rows[r], rows'[r])
         \/ \E s \in Slots : /\ req[s].pc = "save"
                             /\ req[s].report = r
                             /\ req[s].base # rows[r]]_vars

(* The inductive invariant: what the table and the requests in flight hold. *)
RowsStored == \A r \in Reports :
  IF rows[r] = NoRow THEN versions[r] = {} ELSE rows[r] \in versions[r]
VersionsConsistent == \A r \in Reports : \A v \in versions[r] : Consistent(v)

Means(op, old, new) == \/ op = "update"  /\ Edits(old, new)
                       \/ op = "submit"  /\ Submits(old, new)
                       \/ op = "approve" /\ Approves(old, new)
                       \/ op = "revise"  /\ SendsBack(old, new)
SavesGrounded == \A s \in Slots : req[s].pc = "save" =>
  /\ req[s].base \in versions[req[s].report]
  /\ Means(req[s].op, req[s].base, req[s].new)
MailsGrounded == \A s \in Slots : req[s].pc = "mail" => Backed(req[s].mail)

IInv == /\ TypeOK
        /\ RowsStored
        /\ VersionsConsistent
        /\ ApprovedWasSubmitted
        /\ SavesGrounded
        /\ MailsGrounded
        /\ MailsJustified

(* Requests that overlap implement the life cycle on versions. *)
V == INSTANCE ReportVersions WITH rows <- rows, versions <- versions
ImplementsVersions == V!Spec

(* Requests that overlap for different reports only implement the life      *)
(* cycle on the row itself.                                                 *)
L == INSTANCE ReportLifecycle WITH rows <- rows
ImplementsLifecycle == L!Spec

(* "cannot edit an approved report" (handler.go:170), "Your changes are now *)
(* locked" (EmployeeDashboard.tsx:207): an approved row stays as it is.     *)
ApprovedIsFinal ==
  [][\A r \in Reports :
       rows[r] # NoRow /\ rows[r].status = "APPROVED" => rows'[r] = rows[r]]_vars

(* The part of it that holds whatever overlaps: an approval is undone only  *)
(* by a request that read the report before it was approved.                *)
OnlyOldCopiesUndoApprovals ==
  [][\A r \in Reports :
       rows[r] # NoRow /\ rows[r].status = "APPROVED" /\ rows'[r] # rows[r] =>
         \E s \in Slots : /\ req[s].pc = "save"
                         /\ req[s].report = r
                         /\ req[s].base.status # "APPROVED"]_vars

(* "Your weekly report has been successfully submitted" (service.go:57): a *)
(* report never falls back to a draft.                                     *)
SubmissionSticks ==
  [][\A r \in Reports :
       rows[r] # NoRow /\ rows[r].status # "DRAFT" => rows'[r].status # "DRAFT"]_vars
=============================================================================

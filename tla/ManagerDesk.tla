----------------------------- MODULE ManagerDesk -----------------------------
(***************************************************************************)
(* A reviewer's browser (ManagerDashboard.tsx and the review callbacks of  *)
(* App.tsx) on top of the report handlers.  The page holds the reports it  *)
(* listed when the view was opened and marks decisions in its own copy     *)
(* when their answers come; lists and decisions overlap.  Slots without a  *)
(* call of the page carry the requests of everybody else.                  *)
(***************************************************************************)
EXTENDS ReportWorkflow

CONSTANTS Boss,    \* the reviewer at the page
          None, Error

ASSUME DeskAssumption == Boss \in Users /\ Role[Boss] \in {"CEO", "MANAGER"}

VARIABLES queue,     \* App's managerReports: the row held for r, or NoRow
          selected,  \* the report in the reviewer pane, or None
          form,      \* is the revision form open?
          remarks,   \* the text in the revision form
          notes,     \* the decisions announced as successful
          calls      \* calls[s]: the page's call that slot s serves, or None

pane     == <<selected, form, remarks>>
desk     == <<queue, pane, notes>>
deskVars == <<vars, desk, calls>>

Listing   == [Reports -> Row \cup {NoRow}]
Decisions == [op : {"approve", "revise"}, report : Reports, comments : Text]
Request   == Decisions \cup {[op |-> "list"]}
Call      == [ask : Request, phase : {"sent", "served", "answered"},
              answer : Listing \cup {None, Error}]

ASSUME DeskNoValueAssumption == None \notin Call \cup {Error} /\ Error \notin Listing

DeskInit == /\ Init
            /\ queue = [r \in Reports |-> NoRow]
            /\ selected = None
            /\ form = FALSE
            /\ remarks = NoText
            /\ notes = {}
            /\ calls = [s \in Slots |-> None]

Send(s, ask) ==
  /\ req[s] = Idle
  /\ calls[s] = None
  /\ calls' = [calls EXCEPT ![s] = [ask |-> ask, phase |-> "sent", answer |-> None]]

Decision(op, r, comments) == [op |-> op, report |-> r, comments |-> comments]

-----------------------------------------------------------------------------
(* Opening the view mounts a new dashboard; App lists the reports again    *)
(* and meanwhile passes the ones it holds from before.                     *)
OpenView(s) ==
  /\ Send(s, [op |-> "list"])
  /\ selected' = None
  /\ form' = FALSE
  /\ remarks' = NoText
  /\ UNCHANGED <<vars, queue, notes>>

(* The reports that get a row in the page's table. *)
Team == {r \in Reports : /\ queue[r] # NoRow
                         /\ Role[Owner[r]] \in {"EMPLOYEE", "MANAGER"}}

(* The buttons of a row and of the pane.  Another selection leaves the     *)
(* form and its text as they are.                                          *)
Select(r) ==
  /\ r \in Team
  /\ selected' = r
  /\ UNCHANGED <<vars, queue, form, remarks, notes, calls>>

Close ==
  /\ selected # None
  /\ selected' = None
  /\ UNCHANGED <<vars, queue, form, remarks, notes, calls>>

(* Any other status reads "Report approved and compiled." *)
Reviewable == /\ selected \in Team
              /\ queue[selected].status \in {"SUBMITTED", "REVISION_REQUESTED"}

ToggleForm ==
  /\ Reviewable
  /\ form' = ~ form
  /\ UNCHANGED <<vars, queue, selected, remarks, notes, calls>>

TypeRemarks(text) ==
  /\ Reviewable
  /\ form
  /\ remarks' = text
  /\ UNCHANGED <<vars, queue, selected, form, notes, calls>>

Decide(s, decision) ==
  /\ Reviewable
  /\ Send(s, decision)
  /\ form' = FALSE
  /\ remarks' = NoText
  /\ UNCHANGED <<vars, queue, selected, notes>>

ApproveClick(s) == ~ form /\ Decide(s, Decision("approve", selected, NoText))
RejectClick(s)  == /\ form
                   /\ remarks # NoText
                   /\ Decide(s, Decision("revise", selected, remarks))

-----------------------------------------------------------------------------
Answered(s, answer) ==
  calls' = [calls EXCEPT ![s] = [@ EXCEPT !.phase = "answered", !.answer = answer]]

\* Faulty variant: every manager gets every report.
ListsAll(u, r) == Role[u] \in {"CEO", "ADMIN", "DIRECTOR", "MANAGER"}

(* Whose reports GET /reports gives to u. *)
Lists(u, r) == \/ Role[u] \in {"CEO", "ADMIN", "DIRECTOR"}
               \/ Role[u] = "MANAGER" /\ Manager[Owner[r]] = u

ServeList(s) ==
  /\ calls[s].ask.op = "list"
  /\ Answered(s, [r \in Reports |-> IF Lists(Boss, r) THEN rows[r] ELSE NoRow])
  /\ UNCHANGED vars

(* Approve and RequestRevision, up to the read; the status may be refused. *)
ServeDecision(s) ==
  /\ calls[s].ask.op # "list"
  /\ LET r == calls[s].ask.report IN
       \/ /\ \/ calls[s].ask.op = "approve" /\ ReadForApprove(s, Boss, r)
             \/ calls[s].ask.op = "revise"  /\ ReadForRevision(s, Boss, r, calls[s].ask.comments)
          /\ calls' = [calls EXCEPT ![s].phase = "served"]
       \/ /\ rows[r].status # "SUBMITTED"
          /\ Answered(s, Error)
          /\ UNCHANGED vars

ServeCall(s) ==
  /\ calls[s] # None
  /\ calls[s].phase = "sent"
  /\ ServeList(s) \/ ServeDecision(s)
  /\ UNCHANGED desk

LoseCall(s) ==
  /\ calls[s] # None
  /\ calls[s].phase = "sent"
  /\ Answered(s, Error)
  /\ UNCHANGED <<vars, desk>>

\* Faulty variant: the error of the save is not looked at.
FinishCallUnchecked(s) ==
  /\ calls[s] # None
  /\ calls[s].phase = "served"
  /\ Save(s) \/ SaveFails(s)
  /\ Answered(s, None)
  /\ UNCHANGED desk

(* The page looks at whether there is an answer, not at what it says. *)
FinishCall(s) ==
  /\ calls[s] # None
  /\ calls[s].phase = "served"
  /\ \/ Save(s) /\ (Answered(s, None) \/ Answered(s, Error))
     \/ SaveFails(s) /\ Answered(s, Error)
  /\ UNCHANGED desk

(* Everybody else's requests, and the mail goroutines of all of them. *)
Others(s) ==
  /\ calls[s] = None
  /\ \/ \E r \in Reports, fields \in [Fields -> Text] :
          Insert(s, r, fields) \/ InsertFails(s, r, fields)
     \/ LookUpExisting(s)
     \/ ReadForChange(s)
     \/ Save(s)
     \/ SaveFails(s)
  /\ UNCHANGED <<desk, calls>>

FinishMail(s) == (SendMail(s) \/ MailFails(s)) /\ UNCHANGED <<desk, calls>>

\* Faulty variant: the rest of the row is not spread into the new object.
MarkBare(row, decision) ==
  IF row = NoRow THEN NoRow
  ELSE [status |-> IF decision.op = "approve" THEN "APPROVED" ELSE "REVISION_REQUESTED",
        comments |-> decision.comments]

(* The mark in the page's own copy of the row. *)
Mark(row, decision) ==
  IF row = NoRow THEN NoRow
  ELSE IF decision.op = "approve" THEN [row EXCEPT !.status = "APPROVED"]
  ELSE [row EXCEPT !.status = "REVISION_REQUESTED", !.comments = decision.comments]

\* Faulty variant: the mark is set without looking at the answer.
DeliverDecisionAnyway(s) ==
  /\ calls[s].ask.op # "list"
  /\ LET d == calls[s].ask IN
       /\ queue' = [queue EXCEPT ![d.report] = Mark(@, d)]
       /\ notes' = notes \cup {d}

DeliverDecision(s) ==
  /\ calls[s].ask.op # "list"
  /\ \/ calls[s].answer = Error /\ UNCHANGED <<queue, notes>>
     \/ /\ calls[s].answer # Error
        /\ LET d == calls[s].ask IN
             /\ queue' = [queue EXCEPT ![d.report] = Mark(@, d)]
             /\ notes' = notes \cup {d}

DeliverList(s) ==
  /\ calls[s].ask.op = "list"
  /\ queue' = IF calls[s].answer = Error THEN queue ELSE calls[s].answer
  /\ UNCHANGED notes

Deliver(s) ==
  /\ calls[s] # None
  /\ calls[s].phase = "answered"
  /\ DeliverDecision(s) \/ DeliverList(s)
  /\ calls' = [calls EXCEPT ![s] = None]
  /\ UNCHANGED <<vars, pane>>

ServerCrash ==
  /\ Crash
  /\ calls' = [s \in Slots |-> IF calls[s] # None /\ calls[s].phase = "served"
                              THEN [calls[s] EXCEPT !.phase = "answered", !.answer = Error]
                              ELSE calls[s]]
  /\ UNCHANGED desk

DeskNext ==
  \/ \E s \in Slots : \/ OpenView(s) \/ ApproveClick(s) \/ RejectClick(s)
                      \/ ServeCall(s) \/ LoseCall(s) \/ FinishCall(s) \/ Deliver(s)
                      \/ Others(s) \/ FinishMail(s)
  \/ \E r \in Reports : Select(r)
  \/ Close
  \/ ToggleForm
  \/ \E text \in Text : TypeRemarks(text)
  \/ ServerCrash

DeskSpec == DeskInit /\ [][DeskNext]_deskVars
-----------------------------------------------------------------------------
DeskTypeOK ==
  /\ TypeOK
  /\ queue \in Listing
  /\ selected \in Reports \cup {None}
  /\ form \in BOOLEAN
  /\ remarks \in Text
  /\ notes \subseteq Decisions
  /\ calls \in [Slots -> Call \cup {None}]

(* Whatever overlaps, fails or comes late, the status that the page shows   *)
(* for a report, with the remarks of a revision, was a row of the table,    *)
(* and so was every decision announced as made.                             *)
Stood(r, status, comments) == \E v \in versions[r] :
  /\ v.status = status
  /\ status = "REVISION_REQUESTED" => v.comments = comments
ShownWasStored == \A r \in Reports :
  queue[r] # NoRow => Stood(r, queue[r].status, queue[r].comments)
Made(d) == IF d.op = "approve" THEN Stood(d.report, "APPROVED", NoText)
           ELSE Stood(d.report, "REVISION_REQUESTED", d.comments)
NotesWereStored == \A d \in notes : Made(d)

(* What GET /reports lists for the reviewer, Approve and RequestRevision    *)
(* let the same reviewer decide.                                            *)
QueueIsReviewable == \A r \in Reports : queue[r] # NoRow => MayReview(Boss, r)

(* What makes these inductive: a decision that is being served is in its    *)
(* slot's copy, and what an answer says was stored.                         *)
Carries(s, d) ==
  /\ req[s].pc = "save"
  /\ req[s].report = d.report
  /\ req[s].new.status = IF d.op = "approve" THEN "APPROVED" ELSE "REVISION_REQUESTED"
  /\ d.op = "revise" => req[s].new.comments = d.comments
CallsInStep == \A s \in Slots : calls[s] # None =>
  /\ calls[s].ask.op = "revise" => calls[s].ask.comments \in Texts
  /\ calls[s].phase = "served" => calls[s].ask.op # "list" /\ Carries(s, calls[s].ask)
  /\ calls[s].phase = "answered" /\ calls[s].answer # Error =>
       IF calls[s].ask.op # "list" THEN Made(calls[s].ask)
       ELSE /\ calls[s].answer \in Listing
            /\ \A r \in Reports : calls[s].answer[r] # NoRow =>
                 calls[s].answer[r] \in versions[r] /\ MayReview(Boss, r)

DeskInv == /\ IInv
           /\ DeskTypeOK
           /\ ShownWasStored
           /\ NotesWereStored
           /\ QueueIsReviewable
           /\ CallsInStep

(* "Report approved and compiled." (ManagerDashboard.tsx:295): the pane     *)
(* says so only of a report that was approved.                              *)
CompiledMeansApproved ==
  selected \in Team /\ ~ Reviewable
    => Stood(selected, "APPROVED", NoText)
=============================================================================

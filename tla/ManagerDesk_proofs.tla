------------------------- MODULE ManagerDesk_proofs -------------------------
(***************************************************************************)
(* Proofs about ManagerDesk: the page and everybody else together refine   *)
(* the report handlers, and what the page shows and announces was stored.  *)
(***************************************************************************)
EXTENDS ManagerDesk, ReportWorkflow_proofs

(* What was said of a report stays true of its history. *)
LEMMA StoodForever ==
  ASSUME Grows, NEW r \in Reports, NEW status, NEW comments, Stood(r, status, comments)
  PROVE  Stood(r, status, comments)'
BY DEF Grows, Stood

LEMMA MadeForever ==
  ASSUME Grows, NEW d \in Decisions, Made(d)
  PROVE  Made(d)'
BY StoodForever DEF Made, Decisions

(* Only decisions have a report; the list has none. *)
LEMMA AskIsDecision ==
  ASSUME NEW ask \in Request, ask.op # "list"
  PROVE  ask \in Decisions
BY DEF Request

-----------------------------------------------------------------------------
(* The parts of the invariant: the page, what it says, and one call.       *)
PageTypeOK ==
  /\ queue \in Listing
  /\ selected \in Reports \cup {None}
  /\ form \in BOOLEAN
  /\ remarks \in Text
  /\ notes \subseteq Decisions

Truthful == ShownWasStored /\ NotesWereStored /\ QueueIsReviewable

ListFits(list) == \A r \in Reports : list[r] # NoRow =>
  list[r] \in versions[r] /\ MayReview(Boss, r)

CallFits(s) == calls[s] # None =>
  /\ calls[s] \in Call
  /\ calls[s].ask.op = "revise" => calls[s].ask.comments \in Texts
  /\ calls[s].phase = "served" => calls[s].ask.op # "list" /\ Carries(s, calls[s].ask)
  /\ calls[s].phase = "answered" /\ calls[s].answer # Error =>
       IF calls[s].ask.op # "list" THEN Made(calls[s].ask)
       ELSE calls[s].answer \in Listing /\ ListFits(calls[s].answer)

CallsFit == /\ calls = [s \in Slots |-> calls[s]]
            /\ \A s \in Slots : CallFits(s)

Parts == IInv /\ PageTypeOK /\ Truthful /\ CallsFit

LEMMA InvHasParts == DeskInv => Parts
BY DEF DeskInv, Parts, DeskTypeOK, PageTypeOK, Truthful, CallsFit, CallFits, CallsInStep, ListFits

LEMMA PartsMakeInv == Parts => DeskInv
BY DEF DeskInv, Parts, IInv, DeskTypeOK, PageTypeOK, Truthful, CallsFit, CallFits, CallsInStep, ListFits

-----------------------------------------------------------------------------
(* Every step of the composition is a step of the server or none.          *)
LEMMA ServeIsServerStep ==
  ASSUME Parts, NEW s \in Slots, ServeCall(s)
  PROVE  [Next]_vars
<1>1. CASE UNCHANGED vars
  BY <1>1
<1>2. CASE ServeDecision(s) /\ ~ UNCHANGED vars
  <2>1. calls[s] \in Call /\ (calls[s].ask.op = "revise" => calls[s].ask.comments \in Texts)
    BY DEF ServeCall, Parts, CallsFit, CallFits
  <2>2. calls[s].ask.report \in Reports
    BY <1>2, <2>1, AskIsDecision DEF ServeDecision, Call, Decisions
  <2> QED BY <1>2, <2>1, <2>2, DeskAssumption DEF ServeDecision, ReadForChange, Next
<1> QED BY <1>1, <1>2 DEF ServeCall, ServeList

LEMMA ServerStep ==
  ASSUME Parts, [DeskNext]_deskVars
  PROVE  [Next]_vars
<1>1. ASSUME \/ \E s \in Slots : OpenView(s) \/ ApproveClick(s) \/ RejectClick(s) \/ LoseCall(s) \/ Deliver(s)
             \/ \E r \in Reports : Select(r)
             \/ \E text \in Text : TypeRemarks(text)
             \/ Close \/ ToggleForm \/ UNCHANGED deskVars
      PROVE  UNCHANGED vars
  BY <1>1 DEF OpenView, ApproveClick, RejectClick, Decide, LoseCall, Deliver, Select,
     TypeRemarks, Close, ToggleForm, deskVars
<1>2. ASSUME NEW s \in Slots, FinishCall(s) \/ FinishMail(s)
      PROVE  Next
  BY <1>2 DEF FinishCall, FinishMail, Next
<1>3. ASSUME NEW s \in Slots, Others(s)
      PROVE  Next
  BY <1>3 DEF Others, Next
<1>4. CASE ServerCrash
  BY <1>4 DEF ServerCrash, Next
<1> QED BY <1>1, <1>2, <1>3, <1>4, ServeIsServerStep DEF DeskNext

-----------------------------------------------------------------------------
(* What steps leave alone stays as it should be. *)
LEMMA TruthfulForever ==
  ASSUME Parts, Grows, UNCHANGED <<queue, notes>>
  PROVE  Truthful'
<1>1. ShownWasStored'
  BY StoodForever DEF Parts, Truthful, ShownWasStored
<1>2. NotesWereStored'
  BY MadeForever DEF Parts, Truthful, NotesWereStored, PageTypeOK
<1> QED BY <1>1, <1>2 DEF Parts, Truthful, QueueIsReviewable

LEMMA ListFitsForever ==
  ASSUME Grows, NEW list, ListFits(list)
  PROVE  ListFits(list)'
BY DEF Grows, ListFits

LEMMA CallFitsForever ==
  ASSUME Parts, Grows, NEW s \in Slots, calls'[s] = calls[s],
         calls[s] # None /\ calls[s].phase = "served" => req'[s] = req[s]
  PROVE  CallFits(s)'
<1> SUFFICES ASSUME calls[s] # None PROVE CallFits(s)'
  BY DEF CallFits
<1>1. CallFits(s) /\ calls[s] \in Call
  BY DEF Parts, CallsFit, CallFits
<1>2. calls[s].ask.op # "list" => calls[s].ask \in Decisions
  BY <1>1, AskIsDecision DEF Call
<1>3. calls[s].phase = "served" => Carries(s, calls[s].ask)'
  BY <1>1 DEF CallFits, Carries
<1>4. calls[s].ask.op # "list" /\ Made(calls[s].ask) => Made(calls[s].ask)'
  BY <1>2, MadeForever DEF Made
<1>5. ListFits(calls[s].answer) => ListFits(calls[s].answer)'
  BY ListFitsForever DEF ListFits
<1> QED BY <1>1, <1>3, <1>4, <1>5 DEF CallFits

LEMMA OneCallStep ==
  ASSUME Parts, Grows, NEW s \in Slots, NEW call,
         calls' = [calls EXCEPT ![s] = call],
         \A t \in Slots \ {s} : req'[t] = req[t],
         CallFits(s)'
  PROVE  CallsFit'
<1>1. DOMAIN calls = Slots
  BY DEF Parts, CallsFit
<1>2. \A t \in Slots \ {s} : CallFits(t)'
  BY <1>1, CallFitsForever
<1> QED BY <1>1, <1>2 DEF CallsFit

LEMMA CallsUntouched ==
  ASSUME Parts, Grows, UNCHANGED calls,
         \A t \in Slots : calls[t] # None /\ calls[t].phase = "served" => req'[t] = req[t]
  PROVE  CallsFit'
BY CallFitsForever DEF Parts, CallsFit

-----------------------------------------------------------------------------
(* One lemma per group of actions.  Each assumes what every step has: the   *)
(* invariant before it, the server's after it, and a history that grows.    *)
LEMMA PaneStep ==
  ASSUME Parts, IInv', Grows,
         \/ \E r \in Reports : Select(r)
         \/ \E text \in Text : TypeRemarks(text)
         \/ Close \/ ToggleForm \/ UNCHANGED deskVars
  PROVE  Parts'
<1>1. UNCHANGED <<vars, queue, notes, calls>>
  BY DEF Select, TypeRemarks, Close, ToggleForm, deskVars, desk
<1>2. selected' \in Reports \cup {None} /\ form' \in BOOLEAN /\ remarks' \in Text
  BY DEF Select, TypeRemarks, Close, ToggleForm, deskVars, desk, pane, Parts, PageTypeOK
<1>3. PageTypeOK'
  BY <1>1, <1>2 DEF Parts, PageTypeOK
<1>4. CallsFit'
  BY <1>1, CallsUntouched DEF vars
<1> QED BY <1>1, <1>3, <1>4, TruthfulForever DEF Parts

(* A call that was just sent fits. *)
LEMMA SendStep ==
  ASSUME Parts, Grows, UNCHANGED vars, NEW s \in Slots, NEW ask \in Request,
         ask.op = "revise" => ask.comments \in Texts, Send(s, ask)
  PROVE  CallsFit'
<1> DEFINE call == [ask |-> ask, phase |-> "sent", answer |-> None]
<1>1. calls' = [calls EXCEPT ![s] = call]
  BY DEF Send
<1>2. call \in Call /\ call.ask = ask /\ call.phase = "sent"
  BY DEF Call
<1> HIDE DEF call
<1>3. calls'[s] = call
  BY <1>1 DEF Parts, CallsFit
<1>4. CallFits(s)'
  BY <1>2, <1>3 DEF CallFits
<1> QED BY <1>1, <1>4, OneCallStep DEF vars

LEMMA OpenViewStep ==
  ASSUME Parts, IInv', Grows, NEW s \in Slots, OpenView(s)
  PROVE  Parts'
<1>1. UNCHANGED <<vars, queue, notes>>
  BY DEF OpenView
<1>2. [op |-> "list"] \in Request
  BY DEF Request
<1>3. CallsFit'
  BY <1>1, <1>2, SendStep DEF OpenView
<1>4. PageTypeOK'
  BY <1>1 DEF OpenView, Parts, PageTypeOK, Text
<1> QED BY <1>1, <1>3, <1>4, TruthfulForever DEF Parts

LEMMA DecideStep ==
  ASSUME Parts, IInv', Grows, NEW s \in Slots, ApproveClick(s) \/ RejectClick(s)
  PROVE  Parts'
<1>1. PICK d \in Decisions : Decide(s, d) /\ (d.op = "revise" => d.comments \in Texts)
  <2>1. selected \in Reports
    BY DEF ApproveClick, RejectClick, Decide, Reviewable, Team
  <2>2. CASE ApproveClick(s)
    BY <2>1, <2>2 DEF ApproveClick, Decision, Decisions, Text
  <2>3. CASE RejectClick(s)
    BY <2>1, <2>3 DEF RejectClick, Decision, Decisions, Parts, PageTypeOK, Text
  <2> QED BY <2>2, <2>3
<1>2. UNCHANGED <<vars, queue, selected, notes>>
  BY <1>1 DEF Decide
<1>3. CallsFit'
  BY <1>1, <1>2, SendStep DEF Decide, Request
<1>4. PageTypeOK'
  BY <1>1, <1>2 DEF Decide, Parts, PageTypeOK, Text
<1> QED BY <1>2, <1>3, <1>4, TruthfulForever DEF Parts

(* A call that has its answer, if what the answer says was stored. *)
LEMMA AnswerComes ==
  ASSUME Parts, IInv', Grows, NEW s \in Slots, calls[s] # None, UNCHANGED desk,
         NEW answer \in Listing \cup {None, Error}, Answered(s, answer),
         NEW ask, ask = calls[s].ask,
         answer # Error => IF ask.op # "list" THEN Made(ask)'
                           ELSE answer \in Listing /\ ListFits(answer)',
         \A t \in Slots \ {s} : req'[t] = req[t]
  PROVE  Parts'
<1> DEFINE new == [calls[s] EXCEPT !.phase = "answered", !.answer = answer]
<1>1. calls' = [calls EXCEPT ![s] = new]
  BY DEF Answered
<1>2. calls[s] \in Call /\ (calls[s].ask.op = "revise" => calls[s].ask.comments \in Texts)
  BY DEF Parts, CallsFit, CallFits
<1>3. /\ new \in Call /\ new.ask = calls[s].ask
      /\ new.phase = "answered" /\ new.answer = answer
  BY <1>2 DEF Call
<1> HIDE DEF new
<1>4. calls'[s] = new
  BY <1>1 DEF Parts, CallsFit
<1>5. answer # Error /\ ask.op # "list" => Made(calls[s].ask)'
  BY <1>3, <1>4 DEF Made
<1>6. answer # Error /\ ask.op = "list" => ListFits(calls[s].answer)'
  BY <1>3, <1>4 DEF ListFits
<1>7. CallFits(s)'
  BY <1>2, <1>3, <1>4, <1>5, <1>6 DEF CallFits
<1>8. CallsFit'
  BY <1>1, <1>7, OneCallStep
<1> QED BY <1>8, TruthfulForever DEF Parts, PageTypeOK, desk, pane

LEMMA LoseStep ==
  ASSUME Parts, IInv', Grows, NEW s \in Slots, LoseCall(s)
  PROVE  Parts'
BY AnswerComes DEF LoseCall, vars

(* The list holds rows of the table, and only such that Boss may review. *)
LEMMA ServeListStep ==
  ASSUME Parts, IInv', Grows, NEW s \in Slots, ServeCall(s), ServeList(s)
  PROVE  Parts'
<1>1. PICK list \in Listing :
        /\ list = [r \in Reports |-> IF Lists(Boss, r) THEN rows[r] ELSE NoRow]
        /\ Answered(s, list)
  BY DEF ServeList, Parts, IInv, TypeOK, Listing
<1>2. ASSUME NEW r \in Reports, list[r] # NoRow
      PROVE  list[r] \in versions[r] /\ MayReview(Boss, r)
  <2>1. Lists(Boss, r) /\ list[r] = rows[r]
    BY <1>1, <1>2
  <2> QED BY <1>2, <2>1 DEF Lists, MayReview, Parts, IInv, RowsStored
<1>3. UNCHANGED <<vars, desk>> /\ calls[s] # None /\ calls[s].ask.op = "list"
  BY DEF ServeCall, ServeList
<1>4. ListFits(list)'
  BY <1>2, <1>3 DEF ListFits, vars
<1> QED BY <1>1, <1>3, <1>4, AnswerComes DEF vars

(* A decision that is taken up is in the copy that its slot will save. *)
LEMMA ReadTakesSlot ==
  ASSUME Parts, NEW s \in Slots, NEW op, NEW r, NEW new, Read(s, op, r, new)
  PROVE  /\ req'[s].pc = "save" /\ req'[s].report = r /\ req'[s].new = new
         /\ \A t \in Slots \ {s} : req'[t] = req[t]
BY DEF Read, Become, Parts, IInv, TypeOK

LEMMA ServeDecisionStep ==
  ASSUME Parts, IInv', Grows, NEW s \in Slots, ServeCall(s), ServeDecision(s)
  PROVE  Parts'
<1>1. calls[s] # None /\ calls[s].phase = "sent" /\ UNCHANGED desk /\ calls[s].ask.op # "list"
  BY DEF ServeCall, ServeDecision
<1>2. CASE Answered(s, Error) /\ UNCHANGED vars
  BY <1>1, <1>2, AnswerComes DEF vars
<1>3. CASE ~ (Answered(s, Error) /\ UNCHANGED vars)
  <2> DEFINE new == [calls[s] EXCEPT !.phase = "served"]
  <2>1. /\ calls[s] \in Call /\ calls[s].ask \in Decisions
        /\ calls[s].ask.op = "revise" => calls[s].ask.comments \in Texts
    BY <1>1, AskIsDecision DEF Parts, CallsFit, CallFits, Call
  <2>2. PICK d \in Decisions : d = calls[s].ask
    BY <2>1
  <2>3. /\ calls' = [calls EXCEPT ![s] = new]
        /\ \/ d.op = "approve" /\ ReadForApprove(s, Boss, d.report)
           \/ d.op = "revise" /\ ReadForRevision(s, Boss, d.report, d.comments)
    BY <1>3, <2>2 DEF ServeDecision
  <2>4. /\ new \in Call /\ new.ask = d /\ new.phase = "served"
    BY <2>1, <2>2 DEF Call
  <2> HIDE DEF new
  <2>5. calls'[s] = new
    BY <2>3 DEF Parts, CallsFit
  <2>6. rows[d.report] \in Row
    BY <2>3 DEF ReadForApprove, ReadForRevision, Decisions, Parts, IInv, TypeOK
  <2>7. /\ \A t \in Slots \ {s} : req'[t] = req[t]
        /\ req'[s].pc = "save" /\ req'[s].report = d.report
        /\ req'[s].new.status = IF d.op = "approve" THEN "APPROVED" ELSE "REVISION_REQUESTED"
        /\ d.op = "revise" => req'[s].new.comments = d.comments
    <3>1. CASE d.op = "approve" /\ ReadForApprove(s, Boss, d.report)
      BY <2>6, <3>1, ReadTakesSlot DEF ReadForApprove, Approved, Row
    <3>2. CASE d.op = "revise" /\ ReadForRevision(s, Boss, d.report, d.comments)
      <4> DEFINE copy == SentBack(rows[d.report], d.comments)
      <4>1. copy.status = "REVISION_REQUESTED" /\ copy.comments = d.comments
        BY <2>6 DEF SentBack, Row
      <4>2. Read(s, "revise", d.report, copy)
        BY <3>2 DEF ReadForRevision
      <4> HIDE DEF copy
      <4>3. /\ req'[s].pc = "save" /\ req'[s].report = d.report /\ req'[s].new = copy
            /\ \A t \in Slots \ {s} : req'[t] = req[t]
        BY <4>2, ReadTakesSlot
      <4> QED BY <3>2, <4>1, <4>3
    <3> QED BY <2>3, <3>1, <3>2
  <2>8. CallFits(s)'
    BY <1>1, <2>1, <2>2, <2>4, <2>5, <2>7 DEF CallFits, Carries
  <2>9. CallsFit'
    BY <2>3, <2>7, <2>8, OneCallStep
  <2> QED BY <1>1, <2>9, TruthfulForever DEF Parts, PageTypeOK, desk, pane
<1> QED BY <1>2, <1>3

LEMMA SlotIsFreed ==
  ASSUME Parts, NEW s \in Slots,
         \/ Save(s) \/ SaveFails(s) \/ SendMail(s) \/ MailFails(s) \/ LookUpExisting(s)
         \/ \E r \in Reports, fields \in [Fields -> Text] : Insert(s, r, fields) \/ InsertFails(s, r, fields)
         \/ ReadForChange(s)
  PROVE  \A t \in Slots \ {s} : req'[t] = req[t]
BY DEF Save, SaveFails, SendMail, MailFails, LookUpExisting, Insert, InsertFails, ReadForChange,
   ReadForUpdate, ReadForSubmit, ReadForApprove, ReadForRevision, Read, Reply, Become, Parts, IInv, TypeOK

(* The copy that was saved makes the decision true of the history. *)
LEMMA FinishStep ==
  ASSUME Parts, IInv', Grows, NEW s \in Slots, FinishCall(s)
  PROVE  Parts'
<1>1. calls[s] # None /\ calls[s].phase = "served" /\ UNCHANGED desk
  BY DEF FinishCall
<1>2. \A t \in Slots \ {s} : req'[t] = req[t]
  BY SlotIsFreed DEF FinishCall
<1>3. CASE Answered(s, Error)
  BY <1>1, <1>2, <1>3, AnswerComes
<1>4. CASE Save(s) /\ Answered(s, None)
  <2>1. calls[s].ask \in Decisions
    BY <1>1, AskIsDecision DEF Parts, CallsFit, CallFits, Call
  <2>2. PICK d \in Decisions : d = calls[s].ask
    BY <2>1
  <2>3. /\ req[s].pc = "save" /\ req[s].report = d.report
        /\ req[s].new.status = IF d.op = "approve" THEN "APPROVED" ELSE "REVISION_REQUESTED"
        /\ d.op = "revise" => req[s].new.comments = d.comments
        /\ d.op # "list"
    BY <1>1, <2>2 DEF Parts, CallsFit, CallFits, Carries
  <2>4. PICK v \in versions'[d.report] : v = req[s].new
    BY <1>4, <2>3, SaveStores DEF Save, Parts
  <2>5. d.op \in {"approve", "revise"}
    BY DEF Decisions
  <2>6. Made(d)'
    BY <2>3, <2>4, <2>5 DEF Made, Stood
  <2> QED BY <1>1, <1>2, <1>4, <2>2, <2>3, <2>6, AnswerComes
<1> QED BY <1>3, <1>4 DEF FinishCall

(* Steps in a slot that serves no call of the page. *)
LEMMA OtherSlotStep ==
  ASSUME Parts, IInv', Grows, NEW s \in Slots, Others(s) \/ FinishMail(s)
  PROVE  Parts'
<1>1. UNCHANGED <<desk, calls>>
  BY DEF Others, FinishMail
<1>2. \A t \in Slots \ {s} : req'[t] = req[t]
  BY SlotIsFreed DEF Others, FinishMail
<1>3. ~ (calls[s] # None /\ calls[s].phase = "served")
  BY DEF Others, FinishMail, SendMail, MailFails, Carries, Parts, CallsFit, CallFits
<1>4. CallsFit'
  BY <1>1, <1>2, <1>3, CallsUntouched
<1> QED BY <1>1, <1>4, TruthfulForever DEF Parts, PageTypeOK, desk, pane

(* The mark says of a row what the decision made true. *)
LEMMA MarkIsTrue ==
  ASSUME NEW d \in Decisions, Made(d), NEW row \in Row
  PROVE  /\ Mark(row, d) \in Row
         /\ Stood(d.report, Mark(row, d).status, Mark(row, d).comments)
<1>1. CASE d.op = "approve"
  <2>1. /\ Mark(row, d) = IF row = NoRow THEN NoRow ELSE [row EXCEPT !.status = "APPROVED"]
        /\ row # NoRow
    BY <1>1, NoRowAssumption DEF Mark
  <2>2. Mark(row, d) \in Row /\ Mark(row, d).status = "APPROVED"
    BY <2>1 DEF Row, Statuses
  <2> QED BY <1>1, <2>2 DEF Made, Stood
<1>2. CASE d.op # "approve"
  <2>1. /\ Mark(row, d) = [row EXCEPT !.status = "REVISION_REQUESTED", !.comments = d.comments]
        /\ d.comments \in Text
    BY <1>2, NoRowAssumption DEF Mark, Decisions
  <2>2. /\ Mark(row, d) \in Row
        /\ Mark(row, d).status = "REVISION_REQUESTED" /\ Mark(row, d).comments = d.comments
    BY <2>1 DEF Row, Statuses
  <2> QED BY <1>2, <2>2 DEF Made, Stood
<1> QED BY <1>1, <1>2

LEMMA DeliverDecisionStep ==
  ASSUME Parts, IInv', Grows, NEW s \in Slots, Deliver(s), DeliverDecision(s)
  PROVE  PageTypeOK' /\ Truthful'
<1>1. /\ calls[s] # None /\ calls[s].phase = "answered" /\ calls[s].ask.op # "list"
      /\ UNCHANGED <<vars, pane>>
  BY DEF Deliver, DeliverDecision
<1>2. CASE UNCHANGED <<queue, notes>>
  BY <1>1, <1>2, TruthfulForever DEF Parts, PageTypeOK, pane
<1>3. CASE calls[s].answer # Error
  <2>1. calls[s].ask \in Decisions /\ Made(calls[s].ask)
    BY <1>1, <1>3, AskIsDecision DEF Parts, CallsFit, CallFits, Call
  <2>2. PICK d \in Decisions : d = calls[s].ask
    BY <2>1
  <2>3. Made(d) /\ d.report \in Reports
    BY <2>1, <2>2 DEF Decisions
  <2>4. queue' = [queue EXCEPT ![d.report] = Mark(@, d)] /\ notes' = notes \cup {d}
    BY <1>3, <2>2 DEF DeliverDecision
  <2>5. /\ queue'[d.report] = Mark(queue[d.report], d)
        /\ \A r \in Reports \ {d.report} : queue'[r] = queue[r]
    BY <2>3, <2>4 DEF Parts, PageTypeOK, Listing
  <2>6. queue[d.report] = NoRow => queue'[d.report] = NoRow
    BY <2>5 DEF Mark
  <2>7. queue[d.report] # NoRow =>
          /\ queue'[d.report] \in Row
          /\ Stood(d.report, queue'[d.report].status, queue'[d.report].comments)
    <3>1. queue[d.report] # NoRow => queue[d.report] \in Row
      BY <2>3 DEF Parts, PageTypeOK, Listing
    <3> QED BY <2>3, <2>5, <3>1, MarkIsTrue
  <2>8. queue' \in Listing
    BY <2>4, <2>5, <2>6, <2>7 DEF Parts, PageTypeOK, Listing
  <2>9. \A r \in Reports : queue'[r] # NoRow =>
          Stood(r, queue'[r].status, queue'[r].comments) /\ MayReview(Boss, r)
    BY <2>5, <2>6, <2>7 DEF Parts, Truthful, ShownWasStored, QueueIsReviewable
  <2>10. ShownWasStored' /\ QueueIsReviewable'
    BY <1>1, <2>9 DEF ShownWasStored, QueueIsReviewable, Stood, vars
  <2>11. \A e \in notes' : Made(e)
    BY <2>3, <2>4 DEF Parts, Truthful, NotesWereStored
  <2>12. NotesWereStored'
    BY <1>1, <2>11 DEF NotesWereStored, Made, Stood, vars
  <2> QED BY <1>1, <2>4, <2>8, <2>10, <2>12 DEF Parts, PageTypeOK, Truthful, pane
<1> QED BY <1>2, <1>3 DEF DeliverDecision

LEMMA DeliverListStep ==
  ASSUME Parts, IInv', Grows, NEW s \in Slots, Deliver(s), DeliverList(s)
  PROVE  PageTypeOK' /\ Truthful'
<1>1. /\ calls[s] # None /\ calls[s].phase = "answered" /\ calls[s].ask.op = "list"
      /\ UNCHANGED <<vars, pane, notes>>
  BY DEF Deliver, DeliverList
<1>2. CASE calls[s].answer = Error
  BY <1>1, <1>2, TruthfulForever DEF DeliverList, Parts, PageTypeOK, pane
<1>3. CASE calls[s].answer # Error
  <2>1. queue' = calls[s].answer /\ queue' \in Listing /\ ListFits(queue')
    BY <1>1, <1>3 DEF DeliverList, Parts, CallsFit, CallFits, ListFits
  <2>2. ShownWasStored'
    BY <1>1, <2>1 DEF ListFits, ShownWasStored, Stood, vars
  <2>3. QueueIsReviewable'
    BY <2>1 DEF ListFits, QueueIsReviewable
  <2>4. NotesWereStored'
    BY <1>1 DEF Parts, Truthful, NotesWereStored, Made, Stood, vars
  <2> QED BY <1>1, <2>1, <2>2, <2>3, <2>4 DEF Parts, PageTypeOK, Truthful, pane
<1> QED BY <1>2, <1>3

LEMMA DeliverStep ==
  ASSUME Parts, IInv', Grows, NEW s \in Slots, Deliver(s)
  PROVE  Parts'
<1>1. calls' = [calls EXCEPT ![s] = None] /\ UNCHANGED vars
  BY DEF Deliver
<1>2. calls'[s] = None
  BY <1>1 DEF Parts, CallsFit
<1>3. CallsFit'
  BY <1>1, <1>2, OneCallStep DEF CallFits, vars
<1> QED BY <1>3, DeliverDecisionStep, DeliverListStep DEF Deliver, Parts

(* A crash answers every call that was being served with an error. *)
LEMMA CrashStep ==
  ASSUME Parts, IInv', Grows, ServerCrash
  PROVE  Parts'
<1>1. UNCHANGED desk
  BY DEF ServerCrash
<1>2. ASSUME NEW s \in Slots
      PROVE  CallFits(s)'
  <2>1. CASE ~ (calls[s] # None /\ calls[s].phase = "served")
    <3>1. calls'[s] = calls[s]
      BY <2>1 DEF ServerCrash
    <3> QED BY <2>1, <3>1, CallFitsForever
  <2>2. CASE calls[s] # None /\ calls[s].phase = "served"
    <3> DEFINE new == [calls[s] EXCEPT !.phase = "answered", !.answer = Error]
    <3>1. calls'[s] = new
      BY <2>2 DEF ServerCrash
    <3>2. calls[s] \in Call /\ (calls[s].ask.op = "revise" => calls[s].ask.comments \in Texts)
      BY <2>2 DEF Parts, CallsFit, CallFits
    <3>3. new \in Call /\ new.ask = calls[s].ask /\ new.phase = "answered" /\ new.answer = Error
      BY <3>2 DEF Call
    <3> HIDE DEF new
    <3> QED BY <3>1, <3>2, <3>3 DEF CallFits
  <2> QED BY <2>1, <2>2
<1>3. CallsFit'
  BY <1>2 DEF CallsFit, ServerCrash
<1> QED BY <1>1, <1>3, TruthfulForever DEF Parts, PageTypeOK, desk, pane

-----------------------------------------------------------------------------
LEMMA DeskInitInv == DeskInit => DeskInv
<1> SUFFICES ASSUME DeskInit PROVE Parts
  BY PartsMakeInv
<1>1. IInv
  BY InitInvariant DEF DeskInit
<1>2. PageTypeOK
  BY DEF DeskInit, PageTypeOK, Listing, Text
<1>3. Truthful
  BY DEF DeskInit, Truthful, ShownWasStored, NotesWereStored, QueueIsReviewable
<1>4. CallsFit
  BY DEF DeskInit, CallsFit, CallFits
<1> QED BY <1>1, <1>2, <1>3, <1>4 DEF Parts

LEMMA DeskNextInv == DeskInv /\ [DeskNext]_deskVars => DeskInv'
<1> SUFFICES ASSUME Parts, DeskInv, [DeskNext]_deskVars PROVE Parts'
  BY InvHasParts, PartsMakeInv, PTL
<1>1. IInv' /\ Grows
  BY ServerStep, NextInvariant, StepGrows DEF DeskInv
<1>2. ASSUME NEW s \in Slots,
             \/ OpenView(s) \/ ApproveClick(s) \/ RejectClick(s)
             \/ ServeCall(s) \/ LoseCall(s) \/ FinishCall(s) \/ Deliver(s)
             \/ Others(s) \/ FinishMail(s)
      PROVE  Parts'
  <2>1. CASE OpenView(s) \/ ApproveClick(s) \/ RejectClick(s) \/ LoseCall(s) \/ FinishCall(s)
    BY <1>1, <2>1, OpenViewStep, DecideStep, LoseStep, FinishStep
  <2>2. CASE ServeCall(s)
    BY <1>1, <2>2, ServeListStep, ServeDecisionStep DEF ServeCall
  <2>3. CASE Deliver(s) \/ Others(s) \/ FinishMail(s)
    BY <1>1, <2>3, DeliverStep, OtherSlotStep
  <2> QED BY <1>2, <2>1, <2>2, <2>3
<1> QED BY <1>1, <1>2, PaneStep, CrashStep DEF DeskNext

(* The pages, the calls and the handlers stay in step, whatever the order.  *)
THEOREM DeskInvariance == DeskSpec => []DeskInv
BY DeskInitInv, DeskNextInv, PTL DEF DeskSpec

(* Every variable of the page and of the server stays in its type. *)
THEOREM DeskTypeCorrect == DeskSpec => []DeskTypeOK
BY DeskInvariance, PTL DEF DeskInv

(* Whatever the page shows as a report's status and remarks stood in the *)
(* table at some time.                                                   *)
THEOREM DeskShowsStored == DeskSpec => []ShownWasStored
BY DeskInvariance, PTL DEF DeskInv

(* A decision that the page announces as made was stored. *)
THEOREM DeskAnnouncesStored == DeskSpec => []NotesWereStored
BY DeskInvariance, PTL DEF DeskInv

(* The reviewer is never shown a report that the handlers would not let the *)
(* same reviewer decide.                                                    *)
THEOREM DeskShowsReviewable == DeskSpec => []QueueIsReviewable
BY DeskInvariance, PTL DEF DeskInv

(* The page together with everybody else's requests implements the report  *)
(* handlers: what is proved of them holds under the page.                  *)
THEOREM DeskRefinesServer == DeskSpec => Spec
<1>1. DeskInit => Init
  BY DEF DeskInit
<1>2. DeskInv /\ [DeskNext]_deskVars => [Next]_vars
  BY InvHasParts, ServerStep
<1> QED BY <1>1, <1>2, DeskInvariance, PTL DEF DeskSpec, Spec

(* So what is proved of the handlers holds behind the page: whatever the     *)
(* reviewer clicks, the table implements the life cycle on versions, and     *)
(* only a copy from before an approval undoes it.                            *)
THEOREM DeskInheritsServer ==
  DeskSpec => ImplementsVersions /\ OnlyStaleSavesAreIllegal /\ OnlyOldCopiesUndoApprovals
BY DeskRefinesServer, VersionsRefined, OverlapIsTheOnlyWayOut, ApprovalsOutliveNewCopies, PTL
=============================================================================

------------------------ MODULE ReportEditor_proofs ------------------------
(***************************************************************************)
(* Proofs about ReportEditor: every step of the editor is a step of the    *)
(* report handlers or leaves them alone, so their invariant holds in the   *)
(* composition; on top of it, the invariants of the page.                  *)
(***************************************************************************)
EXTENDS ReportEditor, ReportWorkflow_proofs

LEMMA AuthorIsUser == Author \in Users /\ Mine \in Reports
BY EditorAssumption, PeopleAssumption DEF Author

-----------------------------------------------------------------------------
(* The composition and the server.                                         *)
LEMMA EditorInitServer == EditorInit => IInv
<1> SUFFICES ASSUME EditorInit PROVE IInv
  OBVIOUS
<1> DEFINE draft == NewDraft([f \in Fields |-> NoText])
<1>1. draft \in Row /\ draft.status = "DRAFT" /\ Consistent(draft)
  BY NewDraftIsRow DEF Text
<1> HIDE DEF draft
<1>2. /\ rows = [r \in Reports |-> IF r = Mine THEN draft ELSE NoRow]
      /\ versions = [r \in Reports |-> {rows[r]} \ {NoRow}]
  BY DEF EditorInit, draft
<1>3. \A r \in Reports : versions[r] = IF r = Mine THEN {draft} ELSE {}
  BY <1>1, <1>2, NoRowAssumption
<1>4. TypeOK
  BY <1>1, <1>2, <1>3 DEF EditorInit, TypeOK
<1>5. RowsStored /\ VersionsConsistent /\ ApprovedWasSubmitted
  BY <1>1, <1>2, <1>3, NoRowAssumption DEF RowsStored, VersionsConsistent, ApprovedWasSubmitted
<1>6. SavesGrounded /\ MailsGrounded /\ MailsJustified
  BY DEF EditorInit, SavesGrounded, MailsGrounded, MailsJustified, Idle
<1> QED BY <1>4, <1>5, <1>6 DEF IInv

LEMMA ServeIsServerStep ==
  ASSUME EditorTypeOK, CallsInStep, NEW s \in Slots, ServeCall(s)
  PROVE  [Next]_vars
<1>1. CASE UNCHANGED vars
  BY <1>1
<1>2. CASE calls[s].kind = "update" /\ ReadForUpdate(s, Author, Mine, Body(calls[s].content))
  <2>1. Body(calls[s].content) \in Patches
    BY <1>2 DEF CallsInStep, ServeCall, Body, Patches, Content, Text
  <2> QED BY <1>2, <2>1, AuthorIsUser DEF ReadForChange, Next
<1>3. CASE ReadForSubmit(s, Author, Mine)
  BY <1>3, AuthorIsUser DEF ReadForChange, Next
<1> QED BY <1>1, <1>2, <1>3 DEF ServeCall

LEMMA ServerStep ==
  ASSUME EditorTypeOK, CallsInStep, [EditorNext]_editorVars
  PROVE  [Next]_vars
<1>1. ASSUME \/ \E content \in Content : Type(content)
             \/ AddJira \/ RemoveJira \/ DebounceFires \/ TimerFires
             \/ SaveClick \/ SubmitClick \/ AppRenders \/ UNCHANGED editorVars
             \/ \E s \in Slots : LoseCall(s) \/ Deliver(s) \/ Noted(s)
      PROVE  UNCHANGED vars
  BY <1>1 DEF Type, AddJira, RemoveJira, Link, DebounceFires, TimerFires, SaveClick,
     SaveReport, SubmitClick, AppRenders, editorVars, LoseCall, Deliver, Noted
<1>2. ASSUME NEW s \in Slots, FinishCall(s) \/ FinishMail(s) \/ FinishReview(s)
      PROVE  Next
  BY <1>2 DEF FinishCall, FinishMail, FinishReview, Next
<1>3. ASSUME NEW s \in Slots, Review(s)
      PROVE  Next
  BY <1>3, AuthorIsUser DEF Review, ReadForChange, Next
<1>4. CASE ServerCrash
  BY <1>4 DEF ServerCrash, Next
<1> QED BY <1>1, <1>2, <1>3, <1>4, ServeIsServerStep DEF EditorNext, Serve

-----------------------------------------------------------------------------
(* The page: its types, the tracking of texts, its copy and one call.      *)
PageTypeOK ==
  /\ copy \in Row
  /\ typed \in Content
  /\ linked \in BOOLEAN
  /\ wanted \in Content
  /\ debounce \in Content \cup {None}
  /\ timer \in Content \cup {None}
  /\ banner \in {"Saving", "Synced", "Failed", "Submitted"}
  /\ keys \in 0 .. MaxKeys

Tracked == TypedIsTracked /\ SavesAnnounced

CallFits(s) == calls[s] # None =>
  /\ calls[s] \in Call
  /\ calls[s].kind = "update" => calls[s].content \in Content
  /\ calls[s].phase \in {"sent", "served"} => calls[s].answer = None
  /\ calls[s].phase = "served" => req[s].pc = "save" /\ req[s].report = Mine
  /\ calls[s].phase \in {"answered", "noted"} => calls[s].answer \in versions[Mine] \cup {Error}

CallsFit == /\ calls = [s \in Slots |-> calls[s]]
            /\ \A s \in Slots : CallFits(s)

Parts == /\ IInv
         /\ PageTypeOK
         /\ Tracked
         /\ copy \in versions[Mine]
         /\ CallsFit

LEMMA InvHasParts == EditorInv => Parts
BY DEF EditorInv, Parts, EditorTypeOK, PageTypeOK, Tracked, CopyWasStored, CallsFit, CallFits, CallsInStep

LEMMA PartsMakeInv == Parts => EditorInv
<1> SUFFICES ASSUME Parts PROVE EditorInv
  OBVIOUS
<1>1. EditorTypeOK /\ CallsInStep
  BY DEF Parts, IInv, EditorTypeOK, PageTypeOK, CallsFit, CallFits, CallsInStep
<1>2. ASSUME NEW s \in Slots, calls[s] # None, calls[s].answer \in Row
      PROVE  calls[s].answer \in versions[Mine]
  <2>1. calls[s].phase \in {"answered", "noted"}
    BY <1>1, <1>2, NoValueAssumption DEF EditorTypeOK, CallsInStep, Call
  <2> QED BY <1>1, <1>2, <2>1, NoValueAssumption DEF CallsInStep
<1> QED BY <1>1, <1>2 DEF Parts, Tracked, EditorInv, CopyWasStored

(* A row that was stored stays in the history. *)
LEMMA StoredForever ==
  ASSUME Grows
  PROVE  versions[Mine] \subseteq versions'[Mine]
BY EditorAssumption DEF Grows

(* A call that a step leaves alone keeps fitting. *)
LEMMA CallFitsForever ==
  ASSUME Parts, Grows, NEW s \in Slots, calls'[s] = calls[s],
         calls[s] # None /\ calls[s].phase = "served" => req'[s] = req[s]
  PROVE  CallFits(s)'
BY StoredForever DEF Parts, CallsFit, CallFits

(* A step of one slot. *)
LEMMA OneCallStep ==
  ASSUME Parts, Grows, NEW s \in Slots, NEW call,
         calls' = [calls EXCEPT ![s] = call],
         \A t \in Slots \ {s} : req'[t] = req[t],
         CallFits(s)'
  PROVE  CallsFit'
<1>1. DOMAIN calls = Slots
  BY DEF Parts, CallsFit
<1>2. \A t \in Slots \ {s} : calls'[t] = calls[t]
  BY <1>1
<1>3. \A t \in Slots \ {s} : CallFits(t)'
  BY <1>2, CallFitsForever
<1> QED BY <1>1, <1>3 DEF CallsFit

LEMMA CallsUntouched ==
  ASSUME Parts, Grows, UNCHANGED calls,
         \A t \in Slots : calls[t] # None => req'[t] = req[t]
  PROVE  CallsFit'
BY CallFitsForever DEF Parts, CallsFit

(* The page is as it was and no call with a text is gone. *)
CallsCarryOn == \A s \in Slots : calls[s] # None /\ calls[s].kind = "update" =>
  calls'[s] # None /\ calls'[s].kind = "update" /\ calls'[s].content = calls[s].content

LEMMA PageUntouched ==
  ASSUME Parts, Grows, UNCHANGED page, CallsCarryOn
  PROVE  PageTypeOK' /\ Tracked' /\ copy' \in versions'[Mine]
<1>1. PageTypeOK' /\ SavesAnnounced'
  BY DEF Parts, PageTypeOK, Tracked, SavesAnnounced, page
<1>2. TypedIsTracked'
  BY DEF Parts, Tracked, TypedIsTracked, page, CallsCarryOn
<1>3. copy' \in versions'[Mine]
  BY StoredForever DEF Parts, page
<1> QED BY <1>1, <1>2, <1>3 DEF Tracked

(* What a render and a banner leave. *)
LEMMA RenderedPage ==
  ASSUME NEW new \in Row, Render(new)
  PROVE  /\ copy' = new /\ typed' \in Content /\ linked' \in BOOLEAN
         /\ debounce' \in Content \cup {None}
         /\ Tracked'
BY DEF Render, Row, Content, Tracked, TypedIsTracked, SavesAnnounced

LEMMA BannerPage ==
  ASSUME Parts, NEW text, SetBanner(text)
  PROVE  /\ banner' = text
         /\ copy' = copy /\ typed' \in Content /\ linked' \in BOOLEAN
         /\ debounce' \in Content \cup {None}
         /\ \/ typed' = copy'.fields
            \/ UNCHANGED <<banner, copy, typed, debounce>>
<1>1. CASE banner = text
  BY <1>1 DEF SetBanner, Parts, PageTypeOK
<1>2. CASE banner # text
  BY <1>2, RenderedPage DEF SetBanner, Render, Parts, PageTypeOK
<1> QED BY <1>1, <1>2

-----------------------------------------------------------------------------
(* One lemma per group of actions.  Each assumes what every step has: the   *)
(* invariant before it, the server's after it, and a history that grows.    *)
LEMMA TypingStep ==
  ASSUME Parts, IInv', Grows,
         (\E content \in Content : Type(content)) \/ AddJira \/ RemoveJira
  PROVE  Parts'
<1>1. UNCHANGED <<vars, calls, copy, timer, banner>>
  BY DEF Type, AddJira, RemoveJira, Link
<1>2. PageTypeOK'
  <2>1. keys' \in 0 .. MaxKeys
    BY EditorAssumption DEF Type, AddJira, RemoveJira, Link, Parts, PageTypeOK
  <2>2. linked' \in BOOLEAN
    BY DEF Type, AddJira, RemoveJira, Link, Parts, PageTypeOK
  <2>3. {typed', wanted', debounce'} \subseteq Content
    BY DEF Type, AddJira, RemoveJira, Link, Parts, PageTypeOK
  <2> QED BY <1>1, <2>1, <2>2, <2>3 DEF Parts, PageTypeOK
<1>3. Tracked'
  BY <1>1 DEF Type, AddJira, RemoveJira, Link, Tracked, TypedIsTracked, SavesAnnounced
<1>4. CallsFit' /\ copy' \in versions'[Mine]
  BY <1>1, CallsUntouched, StoredForever DEF Parts, vars
<1> QED BY <1>2, <1>3, <1>4 DEF Parts

LEMMA DebounceStep ==
  ASSUME Parts, IInv', Grows, DebounceFires
  PROVE  Parts'
<1>1. UNCHANGED <<vars, calls, copy, typed, linked, banner, wanted, keys>>
  BY DEF DebounceFires
<1>2. PageTypeOK'
  BY <1>1 DEF DebounceFires, Parts, PageTypeOK
<1>3. Tracked'
  <2>1. CASE debounce = typed
    BY <1>1, <2>1 DEF DebounceFires, Tracked, TypedIsTracked, SavesAnnounced
  <2>2. CASE debounce # typed
    <3>1. timer # typed
      BY NoValueAssumption DEF DebounceFires, Parts, PageTypeOK
    <3> QED BY <1>1, <2>2, <3>1 DEF Parts, Tracked, TypedIsTracked, SavesAnnounced
  <2> QED BY <2>1, <2>2
<1>4. CallsFit' /\ copy' \in versions'[Mine]
  BY <1>1, CallsUntouched, StoredForever DEF Parts, vars
<1> QED BY <1>2, <1>3, <1>4 DEF Parts

LEMMA AppRendersStep ==
  ASSUME Parts, IInv', Grows, AppRenders
  PROVE  Parts'
<1>1. UNCHANGED <<vars, timer, banner, calls, wanted, keys>> /\ Render(copy)
  BY DEF AppRenders
<1>2. PageTypeOK' /\ Tracked'
  BY <1>1, RenderedPage DEF Parts, PageTypeOK
<1>3. CallsFit' /\ copy' \in versions'[Mine]
  BY <1>1, CallsUntouched, StoredForever DEF Parts, vars, Render
<1> QED BY <1>2, <1>3 DEF Parts

(* Sending a call adds one that fits and carries its text. *)
LEMMA SendStep ==
  ASSUME Parts, Grows, UNCHANGED vars,
         NEW kind \in {"update", "submit"}, NEW content \in Content \cup {None},
         kind = "update" => content \in Content, Send(kind, content)
  PROVE  /\ CallsFit'
         /\ CallsCarryOn
         /\ \E s \in Slots : /\ calls'[s] # None
                            /\ calls'[s].kind = kind
                            /\ calls'[s].content = content
<1> DEFINE call == [kind |-> kind, content |-> content, phase |-> "sent", answer |-> None]
<1>1. PICK s \in Slots : calls[s] = None /\ calls' = [calls EXCEPT ![s] = call]
  BY DEF Send
<1>2. call \in Call /\ call # None
  BY NoValueAssumption DEF Call
<1>3. calls'[s] = call /\ \A t \in Slots \ {s} : calls'[t] = calls[t]
  BY <1>1 DEF Parts, CallsFit
<1>4. CallFits(s)'
  BY <1>2, <1>3 DEF CallFits
<1>5. CallsFit'
  BY <1>1, <1>4, OneCallStep DEF vars
<1>6. CallsCarryOn
  BY <1>1, <1>3 DEF CallsCarryOn
<1> QED BY <1>2, <1>3, <1>5, <1>6

LEMMA SaveReportStep ==
  ASSUME Parts, IInv', Grows, NEW content \in Content, SaveReport(content),
         \/ UNCHANGED timer
         \/ timer = content /\ timer' = None
  PROVE  Parts'
<1>1. UNCHANGED <<vars, wanted, keys>>
  BY DEF SaveReport
<1>2. /\ CallsFit' /\ CallsCarryOn
      /\ \E s \in Slots : /\ calls'[s] # None
                         /\ calls'[s].kind = "update"
                         /\ calls'[s].content = content
  BY <1>1, SendStep DEF SaveReport
<1>3. /\ banner' = "Saving" /\ copy' = copy /\ typed' \in Content /\ linked' \in BOOLEAN
      /\ debounce' \in Content \cup {None}
      /\ typed' = copy'.fields \/ UNCHANGED <<banner, copy, typed, debounce>>
  BY BannerPage DEF SaveReport
<1>4. PageTypeOK'
  BY <1>1, <1>3 DEF Parts, PageTypeOK
<1>5. SavesAnnounced'
  BY <1>3 DEF SavesAnnounced
<1>6. TypedIsTracked'
  <2>1. CASE typed' = copy'.fields
    BY <2>1 DEF TypedIsTracked
  <2>2. CASE typed' # copy'.fields
    <3>1. UNCHANGED <<copy, typed, debounce>>
      BY <1>3, <2>2
    <3>2. CASE timer' = timer \/ timer # typed
      BY <1>2, <3>1, <3>2 DEF Parts, Tracked, TypedIsTracked, CallsCarryOn
    <3>3. CASE timer = typed /\ timer' # timer
      BY <1>2, <3>1, <3>3 DEF TypedIsTracked
    <3> QED BY <3>2, <3>3
  <2> QED BY <2>1, <2>2
<1>7. copy' \in versions'[Mine]
  BY <1>3, StoredForever DEF Parts
<1> QED BY <1>2, <1>4, <1>5, <1>6, <1>7 DEF Parts, Tracked

LEMMA ClickStep ==
  ASSUME Parts, IInv', Grows, TimerFires \/ SaveClick \/ SubmitClick
  PROVE  Parts'
<1>1. CASE TimerFires
  BY <1>1, SaveReportStep DEF TimerFires, Parts, PageTypeOK
<1>2. CASE SaveClick
  BY <1>2, SaveReportStep DEF SaveClick, Parts, PageTypeOK
<1>3. CASE SubmitClick
  <2>1. CallsFit' /\ CallsCarryOn
    BY <1>3, SendStep DEF SubmitClick
  <2> QED BY <1>3, <2>1, PageUntouched DEF SubmitClick, Parts
<1> QED BY <1>1, <1>2, <1>3

(* A call that goes on to another phase keeps its kind and its text. *)
GoesOn(s, new) ==
  /\ calls[s] # None
  /\ new \in Call
  /\ new.kind = calls[s].kind
  /\ new.content = calls[s].content
  /\ calls' = [calls EXCEPT ![s] = new]

LEMMA GoneOn ==
  ASSUME Parts, NEW s \in Slots, NEW new, GoesOn(s, new)
  PROVE  calls'[s] = new /\ CallsCarryOn
BY NoValueAssumption DEF Parts, CallsFit, GoesOn, CallsCarryOn

LEMMA AnsweredGoesOn ==
  ASSUME Parts, NEW s \in Slots, calls[s] # None,
         NEW answer \in versions[Mine] \cup versions'[Mine] \cup {Error},
         versions'[Mine] \subseteq Row, Answered(s, answer)
  PROVE  \E new : /\ GoesOn(s, new)
                  /\ new.phase = "answered"
                  /\ new.answer = answer
<1> DEFINE new == [calls[s] EXCEPT !.phase = "answered", !.answer = answer]
<1>1. calls[s] \in Call
  BY DEF Parts, CallsFit, CallFits
<1>2. answer \in Row \cup {Error}
  BY EditorAssumption DEF Parts, IInv, TypeOK
<1>3. /\ new \in Call
      /\ new.kind = calls[s].kind /\ new.content = calls[s].content
      /\ new.phase = "answered" /\ new.answer = answer
  BY <1>1, <1>2 DEF Call
<1> QED BY <1>3 DEF Answered, GoesOn

(* The page waits while the server works on one of its calls. *)
LEMMA AnswerComes ==
  ASSUME Parts, IInv', Grows, NEW s \in Slots, calls[s] # None, UNCHANGED page,
         NEW answer \in versions'[Mine] \cup {Error}, Answered(s, answer),
         \A t \in Slots \ {s} : req'[t] = req[t]
  PROVE  Parts'
<1>1. versions'[Mine] \subseteq Row
  BY EditorAssumption DEF IInv, TypeOK
<1>2. PICK new : GoesOn(s, new) /\ new.phase = "answered" /\ new.answer = answer
  BY <1>1, AnsweredGoesOn
<1>3. calls'[s] = new /\ CallsCarryOn
  BY <1>2, GoneOn
<1>4. calls[s].kind = "update" => calls[s].content \in Content
  BY <1>2 DEF GoesOn, Parts, CallsFit, CallFits
<1>5. CallFits(s)'
  BY <1>2, <1>3, <1>4 DEF CallFits, GoesOn
<1>6. CallsFit'
  BY <1>2, <1>5, OneCallStep DEF GoesOn
<1> QED BY <1>3, <1>6, PageUntouched DEF Parts

LEMMA ReadTakesSlot ==
  ASSUME Parts, NEW s \in Slots, NEW op, NEW r, NEW new, Read(s, op, r, new)
  PROVE  /\ req'[s].pc = "save" /\ req'[s].report = r
         /\ \A t \in Slots \ {s} : req'[t] = req[t]
BY DEF Read, Become, Parts, IInv, TypeOK

LEMMA ServeStep ==
  ASSUME Parts, IInv', Grows, NEW s \in Slots, ServeCall(s)
  PROVE  Parts'
<1>1. calls[s] # None /\ calls[s].phase = "sent" /\ UNCHANGED page
  BY DEF ServeCall
<1>2. CASE Answered(s, Error) /\ UNCHANGED vars
  BY <1>1, <1>2, AnswerComes DEF vars
<1>3. CASE /\ ReadForUpdate(s, Author, Mine, Body(calls[s].content)) \/ ReadForSubmit(s, Author, Mine)
           /\ calls' = [calls EXCEPT ![s].phase = "served"]
  <2> DEFINE new == [calls[s] EXCEPT !.phase = "served"]
  <2>1. /\ req'[s].pc = "save" /\ req'[s].report = Mine
        /\ \A t \in Slots \ {s} : req'[t] = req[t]
    BY <1>3, ReadTakesSlot DEF ReadForUpdate, ReadForSubmit
  <2>2. calls[s] \in Call /\ calls[s].answer = None
    BY <1>1 DEF Parts, CallsFit, CallFits
  <2>3. calls' = [calls EXCEPT ![s] = new]
    BY <1>3
  <2>4. /\ new \in Call /\ new.kind = calls[s].kind /\ new.content = calls[s].content
        /\ new.answer = None /\ new.phase = "served"
    BY <2>2 DEF Call
  <2> HIDE DEF new
  <2>5. calls'[s] = new /\ CallsCarryOn
    BY <1>1, <2>3, <2>4, GoneOn DEF GoesOn
  <2>6. calls[s].kind = "update" => calls[s].content \in Content
    BY <1>1 DEF Parts, CallsFit, CallFits
  <2>7. CallFits(s)'
    BY <2>1, <2>4, <2>5, <2>6 DEF CallFits
  <2>8. CallsFit'
    BY <2>1, <2>3, <2>7, OneCallStep
  <2> QED BY <1>1, <2>5, <2>8, PageUntouched DEF Parts
<1> QED BY <1>2, <1>3 DEF ServeCall

LEMMA LoseStep ==
  ASSUME Parts, IInv', Grows, NEW s \in Slots, LoseCall(s)
  PROVE  Parts'
BY AnswerComes DEF LoseCall, vars

LEMMA SlotIsFreed ==
  ASSUME Parts, NEW s \in Slots, Save(s) \/ SaveFails(s) \/ SendMail(s) \/ MailFails(s)
  PROVE  \A t \in Slots \ {s} : req'[t] = req[t]
BY DEF Save, SaveFails, SendMail, MailFails, Reply, Become, Parts, IInv, TypeOK

LEMMA FinishStep ==
  ASSUME Parts, IInv', Grows, NEW s \in Slots, FinishCall(s)
  PROVE  Parts'
<1>1. calls[s] # None /\ calls[s].phase = "served" /\ UNCHANGED page
  BY DEF FinishCall
<1>2. \A t \in Slots \ {s} : req'[t] = req[t]
  BY SlotIsFreed DEF FinishCall
<1>3. CASE Answered(s, Error)
  BY <1>1, <1>2, <1>3, AnswerComes
<1>4. CASE Save(s) /\ Answered(s, req[s].new)
  <2>1. req[s].report = Mine
    BY <1>1 DEF Parts, CallsFit, CallFits
  <2>2. req[s].new \in versions'[Mine]
    BY <1>4, <2>1, SaveStores DEF Save, Parts
  <2> QED BY <1>1, <1>2, <1>4, <2>2, AnswerComes
<1> QED BY <1>3, <1>4 DEF FinishCall

(* Steps in a slot whose call is not being served: reviewers and mails. *)
LEMMA OtherSlotStep ==
  ASSUME Parts, IInv', Grows, NEW s \in Slots, Review(s) \/ FinishReview(s) \/ FinishMail(s)
  PROVE  Parts'
<1>1. UNCHANGED <<page, calls>>
  BY DEF Review, FinishReview, FinishMail
<1>2. \A t \in Slots \ {s} : req'[t] = req[t]
  BY ReadTakesSlot, SlotIsFreed DEF Review, ReadForApprove, ReadForRevision, FinishReview, FinishMail
<1>3. ~ (calls[s] # None /\ calls[s].phase = "served")
  BY DEF Review, FinishReview, FinishMail, SendMail, MailFails, Parts, CallsFit, CallFits
<1>4. \A t \in Slots : CallFits(t)'
  BY <1>1, <1>2, <1>3, CallFitsForever
<1>5. CallsFit'
  BY <1>1, <1>4 DEF Parts, CallsFit
<1>6. CallsCarryOn
  BY <1>1 DEF CallsCarryOn
<1> QED BY <1>1, <1>5, <1>6, PageUntouched DEF Parts

(* The call is over: its slot is empty. *)
LEMMA CallEnds ==
  ASSUME Parts, Grows, UNCHANGED vars, NEW s \in Slots, calls' = [calls EXCEPT ![s] = None]
  PROVE  CallsFit'
<1>1. calls'[s] = None
  BY DEF Parts, CallsFit
<1>2. CallFits(s)'
  BY <1>1 DEF CallFits
<1> QED BY <1>2, OneCallStep DEF vars

LEMMA DeliverUpdateStep ==
  ASSUME Parts, IInv', Grows, NEW s \in Slots, Deliver(s), DeliverUpdate(s)
  PROVE  Parts'
<1>1. /\ calls[s] # None /\ calls[s].phase = "answered"
      /\ UNCHANGED <<vars, timer, wanted, keys>>
  BY DEF Deliver
<1>2. CallsFit'
  BY <1>1, CallEnds DEF DeliverUpdate
<1>3. calls[s].answer \in versions[Mine] \cup {Error} /\ versions[Mine] \subseteq Row
  BY <1>1, EditorAssumption DEF Parts, CallsFit, CallFits, IInv, TypeOK
<1>4. CASE calls[s].answer # Error /\ Render(calls[s].answer) /\ banner' = "Synced"
  <2>1. copy' = calls[s].answer /\ PageTypeOK' /\ Tracked'
    BY <1>1, <1>3, <1>4, RenderedPage DEF Parts, PageTypeOK
  <2> QED BY <1>1, <1>2, <1>3, <1>4, <2>1 DEF Parts, vars
<1>5. CASE SetBanner("Failed")
  <2>1. /\ banner' = "Failed" /\ copy' = copy /\ typed' \in Content /\ linked' \in BOOLEAN
        /\ debounce' \in Content \cup {None}
        /\ typed' = copy'.fields \/ UNCHANGED <<banner, copy, typed, debounce>>
    BY <1>5, BannerPage
  <2>2. PageTypeOK'
    BY <1>1, <2>1 DEF Parts, PageTypeOK
  <2>3. Tracked'
    BY <1>1, <2>1 DEF Parts, Tracked, TypedIsTracked, SavesAnnounced
  <2>4. copy' \in versions'[Mine]
    BY <2>1, StoredForever DEF Parts
  <2> QED BY <1>2, <2>2, <2>3, <2>4 DEF Parts
<1> QED BY <1>4, <1>5 DEF DeliverUpdate

(* A submission's call goes on until App posted its notification. *)
LEMMA DeliverSubmitStep ==
  ASSUME Parts, IInv', Grows, NEW s \in Slots, Deliver(s), DeliverSubmit(s)
  PROVE  Parts'
<1>1. /\ calls[s] # None /\ calls[s].phase = "answered" /\ calls[s].kind = "submit"
      /\ calls' = [calls EXCEPT ![s].phase = "noted"]
      /\ UNCHANGED <<vars, timer, banner, wanted, keys>>
  BY DEF Deliver, DeliverSubmit
<1>2. /\ calls[s].answer \in versions[Mine] \cup {Error} /\ versions[Mine] \subseteq Row
      /\ calls[s] \in Call
  BY <1>1, EditorAssumption DEF Parts, CallsFit, CallFits, IInv, TypeOK
<1> DEFINE new == [calls[s] EXCEPT !.phase = "noted"]
<1>3. /\ new \in Call /\ new.kind = "submit" /\ new.content = calls[s].content
      /\ new.phase = "noted" /\ new.answer = calls[s].answer
  BY <1>1, <1>2 DEF Call
<1>4. calls' = [calls EXCEPT ![s] = new]
  BY <1>1
<1> HIDE DEF new
<1>5. calls'[s] = new /\ CallsCarryOn
  <2>1. GoesOn(s, new)
    BY <1>1, <1>3, <1>4 DEF GoesOn
  <2> QED BY <2>1, GoneOn
<1>6. CallFits(s)'
  BY <1>1, <1>2, <1>3, <1>5 DEF CallFits, vars
<1>7. CallsFit'
  BY <1>1, <1>4, <1>6, OneCallStep DEF vars
<1>8. CASE calls[s].answer # Error /\ Render(calls[s].answer)
  <2>1. copy' = calls[s].answer /\ PageTypeOK' /\ Tracked'
    BY <1>1, <1>2, <1>8, RenderedPage DEF Parts, PageTypeOK
  <2> QED BY <1>1, <1>2, <1>7, <1>8, <2>1 DEF Parts, vars
<1>9. CASE UNCHANGED <<copy, typed, linked, debounce>>
  BY <1>1, <1>5, <1>7, <1>9, PageUntouched DEF Parts, page
<1> QED BY <1>8, <1>9 DEF DeliverSubmit

LEMMA NotedStep ==
  ASSUME Parts, IInv', Grows, NEW s \in Slots, Noted(s)
  PROVE  Parts'
<1>1. UNCHANGED <<vars, timer, wanted, keys>> /\ Render(copy)
      /\ banner' \in {banner, "Submitted"}
  BY DEF Noted
<1>2. CallsFit'
  BY <1>1, CallEnds DEF Noted
<1>3. copy' = copy /\ PageTypeOK' /\ Tracked'
  BY <1>1, RenderedPage DEF Parts, PageTypeOK
<1> QED BY <1>2, <1>3, StoredForever DEF Parts

(* A crash answers every call that was being served with an error. *)
LEMMA CrashStep ==
  ASSUME Parts, IInv', Grows, ServerCrash
  PROVE  Parts'
<1>1. UNCHANGED page
  BY DEF ServerCrash
<1>2. calls' = [s \in Slots |-> calls'[s]]
  BY DEF ServerCrash
<1>3. ASSUME NEW s \in Slots
      PROVE  /\ CallFits(s)'
             /\ calls[s] # None => /\ calls'[s] # None
                                   /\ calls'[s].kind = calls[s].kind
                                   /\ calls'[s].content = calls[s].content
  <2>1. CASE ~ (calls[s] # None /\ calls[s].phase = "served")
    <3>1. calls'[s] = calls[s]
      BY <2>1 DEF ServerCrash
    <3> QED BY <2>1, <3>1, CallFitsForever
  <2>2. CASE calls[s] # None /\ calls[s].phase = "served"
    <3> DEFINE new == [calls[s] EXCEPT !.phase = "answered", !.answer = Error]
    <3>1. calls'[s] = new
      BY <2>2 DEF ServerCrash
    <3>2. calls[s] \in Call /\ (calls[s].kind = "update" => calls[s].content \in Content)
      BY <2>2 DEF Parts, CallsFit, CallFits
    <3>3. /\ new \in Call /\ new.kind = calls[s].kind /\ new.content = calls[s].content
          /\ new.phase = "answered" /\ new.answer = Error
      BY <3>2 DEF Call
    <3> HIDE DEF new
    <3> QED BY <3>1, <3>2, <3>3, NoValueAssumption DEF CallFits
  <2> QED BY <2>1, <2>2
<1>4. CallsFit' /\ CallsCarryOn
  BY <1>2, <1>3 DEF CallsFit, CallsCarryOn
<1> QED BY <1>1, <1>4, PageUntouched DEF Parts

LEMMA StutterStep ==
  ASSUME Parts, IInv', Grows, UNCHANGED editorVars
  PROVE  Parts'
<1>1. UNCHANGED <<vars, page, calls>>
  BY DEF editorVars
<1>2. CallsCarryOn
  BY <1>1 DEF CallsCarryOn
<1>3. CallsFit'
  BY <1>1, CallsUntouched DEF vars
<1> QED BY <1>1, <1>2, <1>3, PageUntouched DEF Parts

-----------------------------------------------------------------------------
LEMMA EditorInitInv == EditorInit => EditorInv
<1> SUFFICES ASSUME EditorInit PROVE Parts
  BY PartsMakeInv
<1> DEFINE draft == NewDraft([f \in Fields |-> NoText])
<1>1. draft \in Row
  BY NewDraftIsRow DEF Text
<1> HIDE DEF draft
<1>2. copy = draft /\ versions[Mine] = {draft}
  BY <1>1, NoRowAssumption, EditorAssumption DEF EditorInit, draft
<1>3. PageTypeOK /\ Tracked
  <2>1. /\ typed = copy.fields /\ wanted = copy.fields /\ linked = FALSE
        /\ debounce = None /\ timer = None /\ banner = "Synced" /\ keys = 0
    BY DEF EditorInit
  <2>2. copy \in Row /\ copy.fields \in Content
    BY <1>1, <1>2 DEF Row, Content
  <2>3. Tracked
    BY <2>1 DEF Tracked, TypedIsTracked, SavesAnnounced
  <2>4. keys \in 0 .. MaxKeys
    BY <2>1, EditorAssumption
  <2> QED BY <2>1, <2>2, <2>3, <2>4 DEF PageTypeOK
<1>4. CallsFit
  BY DEF EditorInit, CallsFit, CallFits
<1> QED BY <1>2, <1>3, <1>4, EditorInitServer DEF Parts

LEMMA EditorNextInv == EditorInv /\ [EditorNext]_editorVars => EditorInv'
<1> SUFFICES ASSUME Parts, EditorInv, [EditorNext]_editorVars PROVE Parts'
  BY InvHasParts, PartsMakeInv, PTL
<1>1. [Next]_vars
  BY ServerStep DEF EditorInv
<1>2. IInv' /\ Grows
  BY <1>1, NextInvariant, StepGrows DEF EditorInv
<1>3. ASSUME NEW s \in Slots, Serve(s) \/ LoseCall(s) \/ Review(s) \/ Deliver(s) \/ Noted(s)
      PROVE  Parts'
  <2>1. CASE Serve(s) \/ LoseCall(s) \/ Review(s)
    BY <1>2, <2>1, ServeStep, FinishStep, LoseStep, OtherSlotStep DEF Serve
  <2>2. CASE Deliver(s) \/ Noted(s)
    BY <1>2, <2>2, DeliverUpdateStep, DeliverSubmitStep, NotedStep DEF Deliver
  <2> QED BY <1>3, <2>1, <2>2
<1> QED BY <1>2, <1>3, TypingStep, DebounceStep, ClickStep, AppRendersStep, CrashStep, StutterStep
        DEF EditorNext

(* Typed text, timers, calls and banner stay in step (EmployeeDashboard.tsx  *)
(* :44-90, App.tsx:176-200).                                                *)
THEOREM EditorInvariance == EditorSpec => []EditorInv
BY EditorInitInv, EditorNextInv, PTL DEF EditorSpec

(* Every variable of the page and of the server stays in its type. *)
THEOREM EditorTypeCorrect == EditorSpec => []EditorTypeOK
BY EditorInvariance, PTL DEF EditorInv

(* Whatever renders, fails or overlaps: text in the fields that is not in the *)
(* page's copy is in a timer or in a call that will store it.                 *)
THEOREM TypedTextIsTracked == EditorSpec => []TypedIsTracked
BY EditorInvariance, PTL DEF EditorInv

(* The page never shows as its report, and no answer on its way holds, what *)
(* the table did not hold at some time.                                     *)
THEOREM CopiesWereStored == EditorSpec => []CopyWasStored
BY EditorInvariance, PTL DEF EditorInv

(* The editor and its reviewers do to the table only what the handlers do:  *)
(* the server's invariant, with everything it implies, holds under them.    *)
THEOREM EditorObeysServer == EditorSpec => [][Next]_vars /\ []IInv
<1>1. EditorInv /\ [EditorNext]_editorVars => [Next]_vars
  BY ServerStep DEF EditorInv
<1>2. EditorInv => IInv
  BY DEF EditorInv
<1> QED BY <1>1, <1>2, EditorInvariance, PTL DEF EditorSpec

(* The page starts with a report that exists, so only the steps are those of *)
(* the life cycle on versions: what an autosave, a save or a submission of   *)
(* the page writes is a legal edit of a row that was stored before.          *)
THEOREM EditorStepsAreVersions == EditorSpec => [][V!Next]_V!vars
BY EditorObeysServer, VersionsStep, PTL
=============================================================================

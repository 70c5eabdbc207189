---------------------------- MODULE ReportEditor ----------------------------
(***************************************************************************)
(* The author's browser (useReport.ts, EmployeeDashboard.tsx and the       *)
(* report callbacks of App.tsx) on top of the report handlers.  The page   *)
(* holds a copy of the report and the typed text; typing arms a debounce   *)
(* timer, which arms a second timer that nothing cancels, which saves.     *)
(* Calls to the server overlap and their answers arrive in any order.      *)
(* The other slots carry the reviewers' requests.                          *)
(***************************************************************************)
EXTENDS ReportWorkflow

CONSTANTS Mine,     \* the author's report, which the page has loaded
          None, Error,
          MaxKeys   \* bound: how often the author changes a text

ASSUME EditorAssumption == Mine \in Reports /\ MaxKeys \in Nat

VARIABLES copy,      \* useReport's report, the last answer of the server
          typed,     \* the texts in the input fields
          linked,    \* are there Jira references in the page?
          debounce,  \* the 2.5 s timer: the texts it was armed with, or None
          timer,     \* the 0.8 s timer: the texts it will save, or None
          banner,    \* App's saveStatus
          calls,     \* calls[s]: the page's call that slot s serves, or None
          wanted,    \* history: the texts as the author last left them
          keys       \* number of changes so far

page       == <<copy, typed, linked, debounce, timer, banner, wanted, keys>>
editorVars == <<vars, page, calls>>

Content == [Fields -> Text]
Author  == Owner[Mine]
Locked  == copy.status \in {"APPROVED", "SUBMITTED"}  \* inputs and buttons disabled

(* A call waits for the server, is being served, has its answer on the way, *)
(* or is over but for the notification that App posts after a submission.   *)
Call == [kind : {"update", "submit"}, content : Content \cup {None},
         phase : {"sent", "served", "answered", "noted"},
         answer : Row \cup {None, Error}]

ASSUME NoValueAssumption == /\ None \notin Content \cup Row \cup Call \cup {Error}
                            /\ Error \notin Row

EditorInit ==
  /\ rows = [r \in Reports |-> IF r = Mine THEN NewDraft([f \in Fields |-> NoText]) ELSE NoRow]
  /\ versions = [r \in Reports |-> {rows[r]} \ {NoRow}]
  /\ req = [s \in Slots |-> Idle]
  /\ sent = {}
  /\ copy = rows[Mine]
  /\ typed = copy.fields
  /\ linked = FALSE
  /\ wanted = typed
  /\ debounce = None
  /\ timer = None
  /\ banner = "Synced"
  /\ calls = [s \in Slots |-> None]
  /\ keys = 0

-----------------------------------------------------------------------------
(* App renders again with the given copy.  getFrontendReport builds a new   *)
(* object each time, so the dashboard's effect puts the texts of the copy   *)
(* into the fields and a new empty array into jiraRefs; the debounce timer, *)
(* which depends on them, starts anew with nothing to save.                 *)
Render(new) ==
  /\ copy' = new
  /\ typed' = new.fields
  /\ linked' = FALSE
  /\ debounce' = None

(* setSaveStatus renders App only when the banner changes. *)
SetBanner(text) ==
  /\ banner' = text
  /\ IF banner = text THEN UNCHANGED <<copy, typed, linked, debounce>> ELSE Render(copy)

Send(kind, content) == \E s \in Slots :
  /\ req[s] = Idle
  /\ calls[s] = None
  /\ calls' = [calls EXCEPT ![s] = [kind |-> kind, content |-> content,
                                    phase |-> "sent", answer |-> None]]

Type(content) ==
  /\ ~ Locked
  /\ keys < MaxKeys
  /\ content # typed
  /\ typed' = content
  /\ wanted' = content
  /\ debounce' = content
  /\ keys' = keys + 1
  /\ UNCHANGED <<vars, copy, linked, timer, banner, calls>>

(* Adding or removing a Jira reference replaces jiraRefs, on which the      *)
(* timer depends as well; no request carries the references.                *)
Link(any) ==
  /\ ~ Locked
  /\ keys < MaxKeys
  /\ linked' = any
  /\ debounce' = typed
  /\ keys' = keys + 1
  /\ UNCHANGED <<vars, copy, typed, timer, banner, calls, wanted>>

AddJira    == Link(TRUE)
RemoveJira == linked /\ \E any \in BOOLEAN : Link(any)

\* Faulty variant: nothing is saved while another save is under way.
DebounceFiresUnlessSaving ==
  /\ debounce # None
  /\ timer = None
  /\ timer' = IF (debounce # copy.fields \/ linked) /\ banner # "Saving"
              THEN debounce ELSE None
  /\ debounce' = None
  /\ UNCHANGED <<vars, copy, typed, linked, banner, calls, wanted, keys>>

(* Texts that differ from the copy arm the second timer.  An earlier one   *)
(* has run out: 0.8 s is less than 2.5 s.                                  *)
DebounceFires ==
  /\ debounce # None
  /\ timer = None
  /\ timer' = IF debounce # copy.fields \/ linked THEN debounce ELSE None
  /\ debounce' = None
  /\ UNCHANGED <<vars, copy, typed, linked, banner, calls, wanted, keys>>

(* handleSaveReport: the banner first, then the PATCH. *)
SaveReport(content) ==
  /\ SetBanner("Saving")
  /\ Send("update", content)
  /\ UNCHANGED <<vars, wanted, keys>>

TimerFires == timer # None /\ SaveReport(timer) /\ timer' = None

SaveClick == ~ Locked /\ SaveReport(typed) /\ UNCHANGED timer

(* handleSubmitReport: nothing typed is saved first, nothing is disabled *)
(* until the answer is there.                                            *)
SubmitClick ==
  /\ ~ Locked
  /\ Send("submit", None)
  /\ UNCHANGED <<vars, page>>

(* Any other state of App changes: notifications, the cycle, the users. *)
AppRenders ==
  /\ Render(copy)
  /\ UNCHANGED <<vars, timer, banner, calls, wanted, keys>>

Answered(s, answer) ==
  calls' = [calls EXCEPT ![s] = [@ EXCEPT !.phase = "answered", !.answer = answer]]

(* The server takes up a call of the page; other slots are the reviewers'. *)
Body(content) == [fields |-> content, comments |-> NoText]
Accepts(call) == IF call.kind = "update"
                 THEN rows[Mine].status # "APPROVED"
                 ELSE rows[Mine].status \in {"DRAFT", "REVISION_REQUESTED"}
ServeCall(s) ==
  /\ calls[s] # None
  /\ calls[s].phase = "sent"
  /\ \/ /\ \/ calls[s].kind = "update" /\ ReadForUpdate(s, Author, Mine, Body(calls[s].content))
           \/ calls[s].kind = "submit" /\ ReadForSubmit(s, Author, Mine)
        /\ calls' = [calls EXCEPT ![s].phase = "served"]
     \/ /\ ~ Accepts(calls[s])
        /\ Answered(s, Error)
        /\ UNCHANGED vars
  /\ UNCHANGED page

\* Faulty variant: nobody tells the page that its request is lost.
LoseCallSilently(s) ==
  /\ calls[s] # None
  /\ calls[s].phase = "sent"
  /\ calls' = [calls EXCEPT ![s].phase = "served"]
  /\ UNCHANGED <<vars, page>>

(* The request is lost on its way: fetch rejects. *)
LoseCall(s) ==
  /\ calls[s] # None
  /\ calls[s].phase = "sent"
  /\ Answered(s, Error)
  /\ UNCHANGED <<vars, page>>

\* Faulty variant: the error of the save is not looked at.
FinishCallUnchecked(s) ==
  /\ calls[s] # None
  /\ calls[s].phase = "served"
  /\ \/ Save(s) /\ Answered(s, req[s].new)
     \/ SaveFails(s) /\ Answered(s, req[s].new)
  /\ UNCHANGED page

\* Faulty variant: the handler answers with the body it got, not the row.
FinishCallEchoing(s) ==
  /\ calls[s] # None
  /\ calls[s].phase = "served"
  /\ \/ Save(s) /\ Answered(s, calls[s].content)
     \/ SaveFails(s) /\ Answered(s, Error)
  /\ UNCHANGED page

(* The handler saves and answers with its copy; the answer may be lost. *)
FinishCall(s) ==
  /\ calls[s] # None
  /\ calls[s].phase = "served"
  /\ \/ Save(s) /\ (Answered(s, req[s].new) \/ Answered(s, Error))
     \/ SaveFails(s) /\ Answered(s, Error)
  /\ UNCHANGED page

Review(s) ==
  /\ calls[s] = None
  /\ \E u \in Users \ {Author} : \/ ReadForApprove(s, u, Mine)
                                 \/ \E remarks \in Texts : ReadForRevision(s, u, Mine, remarks)
  /\ UNCHANGED <<page, calls>>

FinishReview(s) ==
  /\ calls[s] = None
  /\ Save(s) \/ SaveFails(s)
  /\ UNCHANGED <<page, calls>>

FinishMail(s) == (SendMail(s) \/ MailFails(s)) /\ UNCHANGED <<page, calls>>

(* The page gets its answer.  A submission, successful or not, is followed *)
(* by the POST of a notification.                                          *)
DeliverUpdate(s) ==
  /\ calls[s].kind = "update"
  /\ calls' = [calls EXCEPT ![s] = None]
  /\ \/ /\ calls[s].answer # Error
        /\ Render(calls[s].answer)
        /\ banner' = "Synced"
     \/ /\ calls[s].answer = Error
        /\ SetBanner("Failed")

DeliverSubmit(s) ==
  /\ calls[s].kind = "submit"
  /\ calls' = [calls EXCEPT ![s].phase = "noted"]
  /\ \/ calls[s].answer # Error /\ Render(calls[s].answer)
     \/ calls[s].answer = Error /\ UNCHANGED <<copy, typed, linked, debounce>>
  /\ UNCHANGED banner

Deliver(s) ==
  /\ calls[s] # None
  /\ calls[s].phase = "answered"
  /\ DeliverUpdate(s) \/ DeliverSubmit(s)
  /\ UNCHANGED <<vars, timer, wanted, keys>>

(* addNotification, posted or local, renders App; then the banner is set. *)
Noted(s) ==
  /\ calls[s] # None
  /\ calls[s].phase = "noted"
  /\ calls' = [calls EXCEPT ![s] = None]
  /\ Render(copy)
  /\ banner' = IF calls[s].answer = Error THEN banner ELSE "Submitted"
  /\ UNCHANGED <<vars, timer, wanted, keys>>

ServerCrash ==
  /\ Crash
  /\ calls' = [s \in Slots |-> IF calls[s] # None /\ calls[s].phase = "served"
                              THEN [calls[s] EXCEPT !.phase = "answered", !.answer = Error]
                              ELSE calls[s]]
  /\ UNCHANGED page

Serve(s) == ServeCall(s) \/ FinishCall(s) \/ FinishMail(s) \/ FinishReview(s)

EditorNext ==
  \/ \E content \in Content : Type(content)
  \/ AddJira
  \/ RemoveJira
  \/ DebounceFires
  \/ TimerFires
  \/ SaveClick
  \/ SubmitClick
  \/ AppRenders
  \/ \E s \in Slots : Serve(s) \/ LoseCall(s) \/ Review(s) \/ Deliver(s) \/ Noted(s)
  \/ ServerCrash

(* The author stops typing after MaxKeys changes; then the timers run out,  *)
(* handlers go on and answers, or the news that there is none, arrive.      *)
(* Fairness is strong where a step needs a free slot: the number of slots   *)
(* is the model's bound, the server takes every request.                    *)
EditorFairness ==
  /\ WF_editorVars(DebounceFires)
  /\ SF_editorVars(TimerFires)
  /\ \A s \in Slots : /\ WF_editorVars(Serve(s) \/ LoseCall(s))
                      /\ WF_editorVars(Deliver(s) \/ Noted(s))

EditorSpec == EditorInit /\ [][EditorNext]_editorVars /\ EditorFairness
-----------------------------------------------------------------------------
EditorTypeOK ==
  /\ TypeOK
  /\ copy \in Row
  /\ typed \in Content
  /\ linked \in BOOLEAN
  /\ wanted \in Content
  /\ debounce \in Content \cup {None}
  /\ timer \in Content \cup {None}
  /\ banner \in {"Saving", "Synced", "Failed", "Submitted"}
  /\ calls \in [Slots -> Call \cup {None}]
  /\ keys \in 0 .. MaxKeys

(* Text in the fields that is not in the page's copy is on its way to be    *)
(* saved: a timer is armed with exactly that text, or a call carries it.    *)
TypedIsTracked ==
  typed # copy.fields =>
    \/ debounce = typed
    \/ timer = typed
    \/ \E s \in Slots : /\ calls[s] # None
                       /\ calls[s].kind = "update"
                       /\ calls[s].content = typed

(* What the page shows as the report, and every answer on its way to it,    *)
(* was a row of the table, however late it arrives.                         *)
CopyWasStored ==
  /\ copy \in versions[Mine]
  /\ \A s \in Slots : calls[s] # None /\ calls[s].answer \in Row =>
       calls[s].answer \in versions[Mine]

(* What makes these inductive: a call's slot, its content and its answer    *)
(* fit its phase, and text that only a call carries has "Saving" above it.  *)
CallsInStep == \A s \in Slots : calls[s] # None =>
  /\ calls[s].kind = "update" => calls[s].content \in Content
  /\ calls[s].phase \in {"sent", "served"} => calls[s].answer = None
  /\ calls[s].phase = "served" => req[s].pc = "save" /\ req[s].report = Mine
  /\ calls[s].phase \in {"answered", "noted"} => calls[s].answer \in versions[Mine] \cup {Error}

SavesAnnounced == typed # copy.fields => debounce = typed \/ timer = typed \/ banner = "Saving"

EditorInv == /\ IInv
             /\ EditorTypeOK
             /\ TypedIsTracked
             /\ CopyWasStored
             /\ CallsInStep
             /\ SavesAnnounced

(* When the author stops typing, the fields and the page's copy agree. *)
TypingSettles == typed # copy.fields ~> typed = copy.fields

(* "All changes synced" (App.tsx:187): with no timer armed and no call under *)
(* way, the table holds the texts as the author left them.                   *)
SyncedMeansStored ==
  banner = "Synced" /\ debounce = None /\ timer = None /\ (\A s \in Slots : calls[s] = None)
    => rows[Mine].fields = wanted
=============================================================================

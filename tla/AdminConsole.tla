---------------------------- MODULE AdminConsole ----------------------------
(***************************************************************************)
(* What CEO and ADMIN tokens do: open, change, lock and unlock reporting   *)
(* cycles (internal/cycle/handler.go), view the application as somebody    *)
(* else (user/handler.go, Impersonate), with an insert into the audit log  *)
(* after each (internal/auditlog/handler.go); and the executive page whose *)
(* button locks and unlocks the window (App.tsx).  As everywhere in this   *)
(* server a change is a read, a change of the copy and a save of the whole *)
(* copy; other tokens are turned away before anything happens.             *)
(***************************************************************************)
EXTENDS Naturals, FiniteSets

CONSTANTS Cycles,
          Newest,       \* Newest[c]: position of c by year and week
          Deadlines,
          OtherStatuses, \* what else a PATCH may put into the status column
          JsonTexts,    \* the states that a jsonb column accepts
          NoRow, None, Error,
          Admins,       \* CEO and ADMIN accounts
          Pages,        \* browser tabs with the application
          People,       \* the users table
          Slots         \* requests that can be in flight together

Statuses == {"OPEN", "LOCKED"} \cup OtherStatuses
Row      == [status : Statuses, deadline : Deadlines]
States   == Statuses \cup {""}          \* old_state and new_state

ASSUME CycleAssumption == /\ Newest \in [Cycles -> Nat]
                          /\ \A c, d \in Cycles : Newest[c] = Newest[d] => c = d
                          /\ JsonTexts \subseteq States
                          /\ "" \notin Statuses
ASSUME NoneAssumption == /\ NoRow \notin Row /\ Error \notin Row
                         /\ None \notin Cycles \cup Deadlines \cup Statuses \cup Pages
                         /\ Error \notin Statuses

VARIABLES cycles,   \* the report_cycles table
          req,      \* req[s]: where the request in slot s is
          log,      \* the audit_logs table
          granted,  \* history: the impersonation tokens handed out
          page,     \* page[p]: the state of App in tab p
          stored    \* history: the statuses each cycle has had

vars == <<cycles, req, log, granted, page, stored>>

Idle    == [pc |-> "idle"]
Bodies  == [status : Statuses \cup {None}, deadline : Deadlines \cup {None}]
Ops     == {"update", "lock", "unlock"}
Entries == [actor : Admins, action : Ops \cup {"create"}, entity : Cycles,
            old : States, new : States]
           \cup [actor : Admins, action : {"impersonate"}, entity : People,
                 old : {""}, new : {""}]
Saves   == [pc : {"save"}, op : Ops, by : Admins, cycle : Cycles,
            base : Row, body : Bodies, new : Row, to : Pages \cup {None}]
Audits  == [pc : {"audit"}, entry : Entries, to : Pages \cup {None}]
Loads   == [pc : {"load"}, to : Pages]
Answers == [pc : {"answer"}, call : {"current", "change"}, cycle : Cycles \cup {None},
            status : Statuses \cup {Error}, to : Pages]

(* isAuthenticated; currentCycleId, which the button acts on; currentCycle, *)
(* which the page shows, as its id (None: nothing yet, or the fallback) and *)
(* isLocked.  logins is history: sign-ins since the page was loaded, 2 for  *)
(* more.                                                                    *)
Page == [signed : BOOLEAN, cycleId : Cycles \cup {None},
         shown : Cycles \cup {None}, locked : BOOLEAN, logins : 0 .. 2]
NewPage == [signed |-> FALSE, cycleId |-> None, shown |-> None, locked |-> FALSE,
            logins |-> 0]

Become(s, q) == req' = [req EXCEPT ![s] = q]

Write(c, row) == /\ cycles' = [cycles EXCEPT ![c] = row]
                 /\ stored' = [stored EXCEPT ![c] = @ \cup {row.status}]

Init == /\ cycles = [c \in Cycles |-> NoRow]
        /\ req = [s \in Slots |-> Idle]
        /\ log = {}
        /\ granted = {}
        /\ page = [p \in Pages |-> NewPage]
        /\ stored = [c \in Cycles |-> {}]

-----------------------------------------------------------------------------
Record(s, u, action, entity, old, new, to) ==
  Become(s, [pc |-> "audit", to |-> to,
             entry |-> [actor |-> u, action |-> action, entity |-> entity,
                        old |-> old, new |-> new]])

(* POST /cycles: a new cycle is OPEN; several cycles may be. *)
Create(s, u, c, deadline) ==
  /\ req[s] = Idle
  /\ cycles[c] = NoRow
  /\ Write(c, [status |-> "OPEN", deadline |-> deadline])
  /\ Record(s, u, "create", c, "", "OPEN", None)
  /\ UNCHANGED <<log, granted, page>>

CreateFails(s, u, c, deadline) ==      \* 500, the insert applied: no audit entry
  /\ req[s] = Idle
  /\ cycles[c] = NoRow
  /\ Write(c, [status |-> "OPEN", deadline |-> deadline])
  /\ UNCHANGED <<req, log, granted, page>>

(* The copy after the changes of Update, Lock or Unlock. *)
Unless(none, old, new) == IF new = none THEN old ELSE new

\* Faulty variant: an update without a status falls back to the default.
ChangedToDefault(op, row, body) ==
  [status   |-> IF op = "lock" THEN "LOCKED" ELSE Unless(None, "OPEN", body.status),
   deadline |-> Unless(None, row.deadline, body.deadline)]

\* Faulty variant: whatever the body says is stored, or that it says nothing.
ChangedUnchecked(op, row, body) ==
  [status   |-> IF op = "lock" THEN "LOCKED"
                ELSE IF op = "unlock" THEN "OPEN" ELSE body.status,
   deadline |-> Unless(None, row.deadline, body.deadline)]

Changed(op, row, body) ==
  [status   |-> IF op = "lock" THEN "LOCKED"
                ELSE IF op = "unlock" THEN "OPEN"
                ELSE Unless(None, row.status, body.status),
   deadline |-> Unless(None, row.deadline, body.deadline)]

NoBody == [status |-> None, deadline |-> None]   \* lock and unlock ignore the body

Read(s, op, u, c, body, to) ==
  /\ req[s] = Idle
  /\ cycles[c] # NoRow
  /\ Become(s, [pc |-> "save", op |-> op, by |-> u, cycle |-> c, base |-> cycles[c],
                body |-> body, new |-> Changed(op, cycles[c], body), to |-> to])
  /\ UNCHANGED <<cycles, log, granted, page, stored>>

ReadForUpdate(s, u, c, body) == Read(s, "update", u, c, body, None)
ReadForLock(s, u, c)         == Read(s, "lock", u, c, NoBody, None)
ReadForUnlock(s, u, c)       == Read(s, "unlock", u, c, NoBody, None)

Save(s) ==
  /\ req[s].pc = "save"
  /\ Write(req[s].cycle, req[s].new)
  /\ Record(s, req[s].by, req[s].op, req[s].cycle,
            req[s].base.status, req[s].new.status, req[s].to)
  /\ UNCHANGED <<log, granted, page>>

(* Only a page waits for its answer, the row that was saved or an error;   *)
(* other callers are not modelled.                                         *)
Told(to, call, c, status) ==
  IF to = None THEN Idle
  ELSE [pc |-> "answer", call |-> call, cycle |-> c, status |-> status, to |-> to]
Answer(s, to, call, c, status) == Become(s, Told(to, call, c, status))

\* Faulty variant: the error of the save is not looked at.
SaveFailsUnnoticed(s) ==
  /\ req[s].pc = "save"
  /\ Record(s, req[s].by, req[s].op, req[s].cycle,
            req[s].base.status, req[s].new.status, req[s].to)
  /\ UNCHANGED <<cycles, stored, log, granted, page>>

(* 500; the statement may have been applied all the same. *)
SaveFails(s) ==
  /\ req[s].pc = "save"
  /\ \/ UNCHANGED <<cycles, stored>>
     \/ Write(req[s].cycle, req[s].new)
  /\ Answer(s, req[s].to, "change", None, Error)
  /\ UNCHANGED <<log, granted, page>>

(* POST /users/:id/impersonate reads the user and signs a token; its audit *)
(* entry has "" for both states.                                           *)
Impersonate(s, u, target) ==
  /\ req[s] = Idle
  /\ Record(s, u, "impersonate", target, "", "", None)
  /\ UNCHANGED <<cycles, log, granted, page, stored>>

(* auditlog.Log: one insert whose error nobody looks at.  It may fail, and  *)
(* the column type refuses what is no JSON text.  Then the handler answers. *)
Accepted(e) == e.old \in JsonTexts /\ e.new \in JsonTexts

Audit(s) ==
  /\ req[s].pc = "audit"
  /\ LET e == req[s].entry IN
       /\ log' \in {log, log \cup {entry \in {e} : Accepted(entry)}}
       /\ granted' = IF e.action = "impersonate"
                     THEN granted \cup {<<e.actor, e.entity>>} ELSE granted
       /\ Answer(s, req[s].to, "change", e.entity, e.new)
  /\ UNCHANGED <<cycles, page, stored>>

-----------------------------------------------------------------------------
(* The browser loads the page anew: promises of the page before are lost. *)
Forget(p) == req' = [s \in Slots |->
  IF req[s].pc \in {"load", "answer"} /\ req[s].to = p THEN Idle
  ELSE IF req[s].pc \in {"save", "audit"} /\ req[s].to = p
       THEN [req[s] EXCEPT !.to = None]
       ELSE req[s]]

Reload(p) ==
  /\ page' = [page EXCEPT ![p] = NewPage]
  /\ Forget(p)
  /\ UNCHANGED <<cycles, log, granted, stored>>

(* isAuthenticated becomes true, because a token is stored or somebody has  *)
(* signed in, and the effect asks for the current cycle.                    *)
Signed(view) == [view EXCEPT !.signed = TRUE,
                             !.logins = IF @ = 0 THEN 1 ELSE 2]

\* Faulty variant: the effect also depends on the view.
SignInOrView(p, s) ==
  /\ req[s] = Idle
  /\ Become(s, [pc |-> "load", to |-> p])
  /\ page' = [page EXCEPT ![p] = IF @.signed THEN @ ELSE Signed(@)]
  /\ UNCHANGED <<cycles, log, granted, stored>>

SignIn(p, s) ==
  /\ req[s] = Idle
  /\ ~ page[p].signed
  /\ Become(s, [pc |-> "load", to |-> p])
  /\ page' = [page EXCEPT ![p] = Signed(@)]
  /\ UNCHANGED <<cycles, log, granted, stored>>

(* Nothing else goes: neither what the page shows nor its calls. *)
SignOut(p) ==
  /\ page[p].signed
  /\ page' = [page EXCEPT ![p].signed = FALSE]
  /\ UNCHANGED <<cycles, req, log, granted, stored>>

(* GET /cycles/current gives the newest OPEN cycle; or there is none, or    *)
(* the call fails.                                                          *)
OpenCycles == {c \in Cycles : cycles[c] # NoRow /\ cycles[c].status = "OPEN"}

GetCurrent(s) ==
  /\ req[s].pc = "load"
  /\ \E c \in OpenCycles :
       /\ \A d \in OpenCycles : Newest[d] <= Newest[c]
       /\ Answer(s, req[s].to, "current", c, "OPEN")
  /\ UNCHANGED <<cycles, log, granted, page, stored>>

GetCurrentFails(s) ==
  /\ req[s].pc = "load"
  /\ Answer(s, req[s].to, "current", None, Error)
  /\ UNCHANGED <<cycles, log, granted, page, stored>>

(* A click on the button asks for the opposite of what the page shows, in   *)
(* the name of whoever's token is stored; without an id it does nothing.    *)
(* Clicks do not wait for answers.                                          *)
Click(p, s, u) ==
  /\ page[p].signed
  /\ page[p].cycleId # None
  /\ Read(s, IF page[p].locked THEN "unlock" ELSE "lock", u, page[p].cycleId, NoBody, p)

(* An answer arrives at the page, signed in or not.  The cycle in it is     *)
(* shown; the button acts on it only if it is the current one.  A failed    *)
(* load shows an open window that is no cycle's.                            *)
After(view, answer) ==
  IF answer.status # Error
  THEN [view EXCEPT !.shown = answer.cycle,
                    !.locked = answer.status = "LOCKED",
                    !.cycleId = IF answer.call = "current" THEN answer.cycle ELSE @]
  ELSE IF answer.call = "current" THEN [view EXCEPT !.shown = None, !.locked = FALSE]
  ELSE view

Deliver(s) ==
  /\ req[s].pc = "answer"
  /\ page' = [page EXCEPT ![req[s].to] = After(@, req[s])]
  /\ Become(s, Idle)
  /\ UNCHANGED <<cycles, log, granted, stored>>

LoseAnswer(s) ==
  /\ req[s].pc = "answer"
  /\ Answer(s, req[s].to, req[s].call, None, Error)
  /\ UNCHANGED <<cycles, log, granted, page, stored>>

(* The server dies and starts again: what it was serving fails. *)
Crash ==
  /\ req' = [s \in Slots |->
       IF req[s].pc = "load" THEN Told(req[s].to, "current", None, Error)
       ELSE IF req[s].pc \in {"save", "audit"} THEN Told(req[s].to, "change", None, Error)
       ELSE req[s]]
  /\ UNCHANGED <<cycles, log, granted, page, stored>>

Next ==
  \/ \E s \in Slots, u \in Admins, c \in Cycles :
       \/ \E deadline \in Deadlines : Create(s, u, c, deadline) \/ CreateFails(s, u, c, deadline)
       \/ \E body \in Bodies : ReadForUpdate(s, u, c, body)
       \/ ReadForLock(s, u, c)
       \/ ReadForUnlock(s, u, c)
  \/ \E s \in Slots, u \in Admins, target \in People : Impersonate(s, u, target)
  \/ \E s \in Slots : \/ Save(s) \/ SaveFails(s) \/ Audit(s)
                     \/ GetCurrent(s) \/ GetCurrentFails(s)
                     \/ Deliver(s) \/ LoseAnswer(s)
  \/ \E p \in Pages : \/ Reload(p) \/ SignOut(p)
                     \/ \E s \in Slots : SignIn(p, s) \/ \E u \in Admins : Click(p, s, u)
  \/ Crash

Spec == Init /\ [][Next]_vars
-----------------------------------------------------------------------------
TypeOK ==
  /\ cycles \in [Cycles -> Row \cup {NoRow}]
  /\ req \in [Slots -> {Idle} \cup Saves \cup Audits \cup Loads \cup Answers]
  /\ log \subseteq Entries
  /\ granted \subseteq Admins \X People
  /\ page \in [Pages -> Page]
  /\ stored \in [Cycles -> SUBSET Statuses]

(* A locked window is reopened only by somebody who asks for it, or by a   *)
(* save of a copy that was read before the window was locked.              *)
LocksHold ==
  [][\A c \in Cycles :
       cycles[c] # NoRow /\ cycles[c].status = "LOCKED" /\ cycles'[c].status # "LOCKED" =>
         \E s \in Slots :
           /\ req[s].pc = "save"
           /\ req[s].cycle = c
           /\ \/ req[s].op = "unlock"
              \/ req[s].op = "update" /\ req[s].body.status # None
              \/ req[s].base.status # "LOCKED"]_vars

(* Nobody happens to change the same cycle at the same time. *)
NoOverlap == \A s, t \in Slots :
  s # t /\ req[s].pc = "save" /\ req[t].pc = "save" => req[s].cycle # req[t].cycle

SerialSpec == Init /\ [][Next /\ NoOverlap']_vars

(* Then a locked window is reopened by nobody but those who ask for it,     *)
(* whatever fails: no save, failed or not, takes an older copy back.        *)
LocksHoldOnRequest ==
  [][\A c \in Cycles :
       cycles[c] # NoRow /\ cycles[c].status = "LOCKED" /\ cycles'[c].status # "LOCKED" =>
         \E s \in Slots :
           /\ req[s].pc = "save"
           /\ req[s].cycle = c
           /\ req[s].op = "unlock" \/ (req[s].op = "update" /\ req[s].body.status # None)]_vars

(* What a page shows of a cycle, locked or not, has been stored of that     *)
(* very cycle, whatever fails or comes late, and whoever signs in meanwhile *)
(* (App.tsx:106-111, 221-236).                                              *)
ShownWasStored == \A p \in Pages :
  /\ page[p].locked => page[p].shown # None /\ "LOCKED" \in stored[page[p].shown]
  /\ page[p].shown # None /\ ~ page[p].locked => stored[page[p].shown] \ {"LOCKED"} # {}

(* The button changes the cycle that the page shows, in whatever order      *)
(* loads, clicks and answers come, unless somebody signed in a second time  *)
(* on the same page: then the load of one and the answer of another meet.   *)
ButtonActsOnShown == \A p \in Pages :
  page[p].logins < 2 => page[p].cycleId = page[p].shown

(* The inductive invariants: what a request is about to write, and what it  *)
(* will tell the page it came from ...                                      *)
SavesGrounded == \A s \in Slots : req[s].pc = "save" =>
  req[s].new = Changed(req[s].op, req[s].base, req[s].body)

AnswersGrounded == \A s \in Slots :
  /\ req[s].pc = "audit" /\ req[s].to # None =>
       /\ req[s].entry.entity \in Cycles
       /\ req[s].entry.new \in stored[req[s].entry.entity]
  /\ req[s].pc = "answer" /\ req[s].status # Error =>
       /\ req[s].cycle \in Cycles
       /\ req[s].status \in stored[req[s].cycle]

RowsStored == \A c \in Cycles : cycles[c] # NoRow => cycles[c].status \in stored[c]

IInv == TypeOK /\ RowsStored /\ SavesGrounded /\ AnswersGrounded /\ ShownWasStored

(* ... and that up to the second sign-in a page waits for at most one load, *)
(* before it has a cycle, and every click of it was about that cycle.       *)
Loading(q, p) == \/ q.pc = "load" /\ q.to = p
                 \/ q.pc = "answer" /\ q.call = "current" /\ q.to = p
About(q, p, c) ==
  /\ q.pc = "save" /\ q.to = p => q.cycle = c
  /\ q.pc = "audit" /\ q.to = p => q.entry.entity = c
  /\ q.pc = "answer" /\ q.call = "change" /\ q.to = p /\ q.status # Error => q.cycle = c

OneLoad == \A p \in Pages : page[p].logins < 2 =>
  /\ page[p].logins = 0 => page[p].cycleId = None /\ ~ page[p].signed
  /\ \A s \in Slots :
       /\ About(req[s], p, page[p].cycleId)
       /\ Loading(req[s], p) =>
            /\ page[p].logins = 1
            /\ page[p].cycleId = None
            /\ \A t \in Slots \ {s} : ~ Loading(req[t], p)

(* An entry of the audit log about a cycle tells of a status that was       *)
(* stored, and of one that had been stored before it: no entry for a change *)
(* that failed, and none that made up where the change started.             *)
Tells(e) == e.action # "impersonate" =>
  /\ e.new \in stored[e.entity]
  /\ e.action # "create" => e.old \in stored[e.entity]
AuditIsTruthful == \A e \in log : Tells(e)

EntriesGrounded ==
  /\ \A s \in Slots :
       /\ req[s].pc = "save" => req[s].base.status \in stored[req[s].cycle]
       /\ req[s].pc = "audit" => Tells(req[s].entry)
  /\ AuditIsTruthful

(* "Every use is written to the immutable audit log" (user/handler.go:145). *)
ImpersonationsAudited == \A g \in granted : \E e \in log :
  /\ e.actor = g[1]
  /\ e.action = "impersonate"
  /\ e.entity = g[2]

(* ExecutiveDashboard.tsx:106 shows ACCEPTING SUBMISSIONS whenever the page *)
(* is not locked: a page that has just been answered shows it only if some  *)
(* cycle is open.                                                           *)
AcceptingMeansOpen ==
  [][\A s \in Slots, p \in Pages :
       Deliver(s) /\ req[s].to = p /\ ~ page'[p].locked => OpenCycles # {}]_vars

(* The button acts on the cycle whose state the page shows.                 *)
ButtonAlwaysActsOnShown == \A p \in Pages : page[p].cycleId = page[p].shown
=============================================================================

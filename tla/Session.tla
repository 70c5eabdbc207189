------------------------------- MODULE Session -------------------------------
(***************************************************************************)
(* The shell of the browser application: signing in and out, viewing as    *)
(* somebody else, the tabs of the sidebar and the hook that loads one's    *)
(* own report (App.tsx, Sidebar.tsx, LoginPage.tsx, useReport.ts,          *)
(* api/client.ts, api/auth.ts).  Browser tabs share the local storage with *)
(* the two tokens; each has a page of its own, whose calls are answered in *)
(* any order.  Data is reduced to whose it is: a token, a persona and a    *)
(* report are the user they belong to.                                     *)
(***************************************************************************)

CONSTANTS Users,    \* the active accounts
          NoUser,
          Role,     \* Role[u], also the role claim of u's tokens
          Manager,  \* Manager[u]: u's manager if active, or NoUser
          Tabs,     \* browser tabs with the application open
          Views,    \* the views of App that are looked at
          Slots,    \* calls that can be under way together
          None

Roles == {"CEO", "ADMIN", "DIRECTOR", "MANAGER", "EMPLOYEE"}

ASSUME UsersAssumption == /\ NoUser \notin Users
                          /\ Role \in [Users -> Roles]
                          /\ Manager \in [Users -> Users \cup {NoUser}]

(* The view that a persona's page opens with; other roles keep theirs. *)
HomeView(u, view) == IF Role[u] = "EMPLOYEE" THEN "employee"
                     ELSE IF Role[u] = "MANAGER" THEN "manager"
                     ELSE IF Role[u] = "CEO" THEN "executive" ELSE view

ASSUME ViewsAssumption ==
  /\ "employee" \in Views
  /\ Views \subseteq {"employee", "manager", "executive", "audit", "history"}
  /\ \A u \in Users, view \in Views : HomeView(u, view) \in Views

Person == Users \cup {NoUser}
Admins == {u \in Users : Role[u] \in {"CEO", "ADMIN"}}

VARIABLES token,     \* local storage: flowreport_token
          stash,     \* local storage: flowreport_admin_token
          page,      \* page[t]: the state of App and useReport in tab t
          calls,     \* calls[s]: a call under way, or None
          origin,    \* history: who last signed in with a password
          clobbered  \* history: the stash may be another's than origin's

vars == <<token, stash, page, calls, origin, clobbered>>

(* hook is the user for whom the effect of useReport last ran; missing is  *)
(* what a page lacked that went blank.  Two fields are history: stale, the *)
(* page was loaded under another token; failed, loading the report failed. *)
Page == [authed : BOOLEAN, viewAs : BOOLEAN, persona : Person,
         view : Views, hook : Person, report : Person, loading : BOOLEAN,
         missing : {"nothing", "title", "report", "manager"}, stale : BOOLEAN, failed : BOOLEAN]

(* A call carries the token of the moment it is sent. *)
Call == [tab : Tabs, kind : {"users", "list", "create", "impersonate"},
         as : Person, for : Person]

ASSUME NoneAssumption == None \notin Call

-----------------------------------------------------------------------------
\* Faulty variant: useState(false) for loading.
FreshNotLoading == [authed |-> FALSE, viewAs |-> FALSE,
          persona |-> NoUser, view |-> "employee", hook |-> NoUser,
          report |-> NoUser, loading |-> FALSE,
          missing |-> "nothing", stale |-> FALSE, failed |-> FALSE]

Fresh == [authed |-> FALSE, viewAs |-> FALSE,
          persona |-> NoUser, view |-> "employee", hook |-> NoUser,
          report |-> NoUser, loading |-> TRUE,
          missing |-> "nothing", stale |-> FALSE, failed |-> FALSE]

(* What rendering runs into.  The header reads a title, which getViewTitle *)
(* knows for three views; the dashboard reads its report, which is null    *)
(* before one was loaded, and the name of a manager, who may be missing.   *)
Titled == {"employee", "manager", "executive"}
Renders(p) == p.authed /\ p.persona # NoUser
Missing(p) ==
  IF ~ Renders(p) THEN "nothing"
  ELSE IF p.view \notin Titled THEN "title"
  ELSE IF p.view # "employee" \/ p.loading THEN "nothing"
  ELSE IF p.report = NoUser THEN "report"
  ELSE IF Manager[p.persona] = NoUser THEN "manager" ELSE "nothing"

(* React renders the new state.  If that throws, it drops the whole tree:  *)
(* a blank page without state, which later updates do not change.          *)
Blank(p) == p.missing # "nothing"
Committed(t, new) ==
  IF Blank(page[t]) THEN page[t]
  ELSE IF Missing(new) # "nothing"
       THEN [Fresh EXCEPT !.missing = Missing(new), !.failed = new.failed]
       ELSE new
Commit(t, new) == page' = [page EXCEPT ![t] = Committed(t, new)]

(* The same when tab t changed the token, which other pages do not notice. *)
CommitToken(t, new) ==
  page' = [x \in Tabs |-> IF x = t THEN Committed(t, new)
                          ELSE [page[x] EXCEPT !.stale = @ \/ page[x].authed]]

Sent(t, kind, as, for) == [tab |-> t, kind |-> kind, as |-> as, for |-> for]
Send(s, call) == calls[s] = None /\ calls' = [calls EXCEPT ![s] = call]
Done(s)       == calls' = [calls EXCEPT ![s] = None]
Storage       == <<token, stash, origin, clobbered>>

Init == /\ token = NoUser
        /\ stash = NoUser
        /\ page = [t \in Tabs |-> Fresh]
        /\ calls = [s \in Slots |-> None]
        /\ origin = NoUser
        /\ clobbered = FALSE

-----------------------------------------------------------------------------
(* The page is opened or loaded anew: its calls are forgotten.  A token    *)
(* that has not expired counts as signed in, and the users are fetched.    *)
Load(t) == \E valid \in BOOLEAN, s \in Slots :
  /\ valid => token # NoUser
  /\ calls[s] # None => calls[s].tab = t
  /\ page' = [page EXCEPT ![t] = [Fresh EXCEPT !.authed = valid,
                                               !.viewAs = (stash # NoUser)]]
  /\ calls' = [x \in Slots |->
       IF x = s /\ valid THEN Sent(t, "users", token, NoUser)
       ELSE IF calls[x] # None /\ calls[x].tab = t THEN None ELSE calls[x]]
  /\ UNCHANGED Storage

(* authApi.login stores the token; the users are fetched once more.  What  *)
(* the page holds from before is kept.  A failed attempt changes nothing.  *)
SignIn(t, s, u) ==
  /\ ~ page[t].authed /\ ~ Blank(page[t])
  /\ token' = u
  /\ origin' = u
  /\ clobbered' = (stash # NoUser)
  /\ Send(s, Sent(t, "users", u, NoUser))
  /\ CommitToken(t, [page[t] EXCEPT !.authed = TRUE])
  /\ UNCHANGED stash

(* handleLogout removes one token and resets one flag; nothing else. *)
SignOut(t) ==
  /\ Renders(page[t])
  /\ token' = NoUser
  /\ CommitToken(t, [page[t] EXCEPT !.authed = FALSE, !.stale = TRUE])
  /\ UNCHANGED <<stash, calls, origin, clobbered>>

Offered(role) == CASE role = "EMPLOYEE" -> {"employee"}
                   [] role = "MANAGER"  -> {"employee", "manager", "executive"}
                   [] role = "CEO"      -> {"employee", "manager", "executive", "audit", "history"}
                   [] role = "ADMIN"    -> {"audit", "history"}
                   [] role = "DIRECTOR" -> {}

OpenView(t, view) ==
  /\ Renders(page[t])
  /\ view \in Offered(Role[page[t].persona])
  /\ Commit(t, [page[t] EXCEPT !.view = view])
  /\ UNCHANGED <<calls, Storage>>

(* The effect of useReport, after a render that changed its user. *)
HookUser(p) == IF p.view = "employee" THEN p.persona ELSE NoUser

LoadReport(t, s) ==
  /\ page[t].hook # HookUser(page[t])
  /\ LET u == HookUser(page[t]) IN
       IF u = NoUser
       THEN /\ Commit(t, [page[t] EXCEPT !.hook = u])
            /\ UNCHANGED calls
       ELSE /\ Commit(t, [page[t] EXCEPT !.hook = u, !.loading = TRUE])
            /\ Send(s, Sent(t, "list", token, u))
  /\ UNCHANGED Storage

(* "View As": offered for every other user the page knows. *)
Impersonate(t, s, u) ==
  /\ Renders(page[t])
  /\ ~ page[t].viewAs
  /\ page[t].persona \in Admins
  /\ u # page[t].persona
  /\ Send(s, Sent(t, "impersonate", token, u))
  /\ UNCHANGED <<page, Storage>>

(* endImpersonation; location.reload() is a Load, until which the page goes on. *)
ReturnToSelf(t) ==
  /\ Renders(page[t])
  /\ page[t].viewAs
  /\ token' = IF stash = NoUser THEN token ELSE stash
  /\ stash' = NoUser
  /\ CommitToken(t, [page[t] EXCEPT !.stale = TRUE])
  /\ UNCHANGED <<calls, origin, clobbered>>

-----------------------------------------------------------------------------
(* Answers.                                                                *)
\* Faulty variant: a user that the list does not hold becomes the persona.
AnswerUsersUnguarded(s) ==
  /\ calls[s].kind = "users"
  /\ calls[s].as # NoUser
  /\ LET t == calls[s].tab IN
       Commit(t, [page[t] EXCEPT !.persona = IF token = NoUser THEN None ELSE token])
  /\ Done(s)
  /\ UNCHANGED Storage

(* The persona is named by the token as it is now; without one it is the   *)
(* first user of the list.                                                 *)
AnswerUsers(s) ==
  /\ calls[s].kind = "users"
  /\ calls[s].as # NoUser
  /\ LET t == calls[s].tab IN
       \E u \in IF token = NoUser THEN Users ELSE {token} :
         Commit(t, [page[t] EXCEPT !.persona = u,
                                   !.view = HomeView(u, @)])
  /\ Done(s)
  /\ UNCHANGED Storage

(* Whose reports GET /reports returns to the bearer of u's token. *)
Sees(u, v) == \/ Role[u] \in {"CEO", "ADMIN", "DIRECTOR"}
              \/ Role[u] = "MANAGER" /\ Manager[v] = u
              \/ Role[u] = "EMPLOYEE" /\ u = v

\* Faulty variant: the first report of the list instead of one's own.
AnswerListFirst(s) ==
  /\ calls[s].kind = "list"
  /\ calls[s].as # NoUser
  /\ \E u \in {v \in Users : Sees(calls[s].as, v)} :
       Commit(calls[s].tab, [page[calls[s].tab] EXCEPT !.report = u, !.loading = FALSE])
  /\ Done(s)
  /\ UNCHANGED Storage

AnswerList(s) ==
  /\ calls[s].kind = "list"
  /\ calls[s].as # NoUser
  /\ LET t == calls[s].tab  u == calls[s].for IN
       \/ /\ Sees(calls[s].as, u)
          /\ Commit(t, [page[t] EXCEPT !.report = u, !.loading = FALSE])
          /\ Done(s)
       \/ /\ calls' = [calls EXCEPT ![s] = Sent(t, "create", token, u)]
          /\ UNCHANGED page
  /\ UNCHANGED Storage

(* POST /reports answers with the report of the token's user, new or not. *)
AnswerCreate(s) ==
  /\ calls[s].kind = "create"
  /\ calls[s].as # NoUser
  /\ LET t == calls[s].tab IN
       Commit(t, [page[t] EXCEPT !.report = calls[s].as, !.loading = FALSE])
  /\ Done(s)
  /\ UNCHANGED Storage

\* Faulty variant: the new token is stored before the old one is read.
AnswerImpersonateSwapped(s) ==
  /\ calls[s].kind = "impersonate"
  /\ calls[s].as \in Admins
  /\ token' = calls[s].for
  /\ stash' = calls[s].for
  /\ clobbered' = (clobbered \/ stash # NoUser \/ token # calls[s].as)
  /\ LET t == calls[s].tab IN
       CommitToken(t, [page[t] EXCEPT !.stale = TRUE])
  /\ Done(s)
  /\ UNCHANGED origin

(* startImpersonation stashes whatever token is there when the answer      *)
(* comes; then the page loads anew, which is a Load.                       *)
AnswerImpersonate(s) ==
  /\ calls[s].kind = "impersonate"
  /\ calls[s].as \in Admins
  /\ token' = calls[s].for
  /\ stash' = IF token = NoUser THEN stash ELSE token
  /\ clobbered' = (clobbered \/ stash # NoUser \/ token # calls[s].as)
  /\ LET t == calls[s].tab IN
       CommitToken(t, [page[t] EXCEPT !.stale = TRUE])
  /\ Done(s)
  /\ UNCHANGED origin

\* Faulty variant: then instead of finally.
AnswerErrorStillLoading(s) ==
  /\ calls[s] # None
  /\ LET t == calls[s].tab IN
       IF calls[s].kind \in {"list", "create"}
       THEN Commit(t, [page[t] EXCEPT !.failed = TRUE])
       ELSE UNCHANGED page
  /\ Done(s)
  /\ UNCHANGED Storage

(* Any call may fail: lost, refused for its token, or the server's error.  *)
AnswerError(s) ==
  /\ calls[s] # None
  /\ LET t == calls[s].tab IN
       IF calls[s].kind \in {"list", "create"}
       THEN Commit(t, [page[t] EXCEPT !.loading = FALSE, !.failed = TRUE])
       ELSE UNCHANGED page
  /\ Done(s)
  /\ UNCHANGED Storage

Answer(s) == /\ calls[s] # None
             /\ \/ AnswerUsers(s)
                \/ AnswerList(s)
                \/ AnswerCreate(s)
                \/ AnswerImpersonate(s)
                \/ AnswerError(s)

Click(t) == \/ SignOut(t)
            \/ \E view \in Views : OpenView(t, view)
            \/ ReturnToSelf(t)
            \/ \E s \in Slots, u \in Users : SignIn(t, s, u) \/ Impersonate(t, s, u)

Next == \/ \E t \in Tabs : \/ Load(t)
                           \/ Click(t)
                           \/ \E s \in Slots : LoadReport(t, s)
        \/ \E s \in Slots : Answer(s)

(* Every call is answered or fails, and React runs the effects of what it  *)
(* rendered.  The effect's fairness is strong because of Slots, which is a *)
(* bound of the model: a browser sends every call.                         *)
Fairness == /\ \A s \in Slots : WF_vars(Answer(s))
            /\ \A t \in Tabs : SF_vars(\E s \in Slots : LoadReport(t, s))

Spec == Init /\ [][Next]_vars /\ Fairness
-----------------------------------------------------------------------------
TypeOK == /\ token \in Person
          /\ stash \in Person
          /\ page \in [Tabs -> Page]
          /\ calls \in [Slots -> Call \cup {None}]
          /\ origin \in Person
          /\ clobbered \in BOOLEAN

(* A page whose token nobody changed since it was loaded shows its own      *)
(* user's name and its own user's report: answers of list and create never  *)
(* bring anybody else's, in whatever order they come.                       *)
Settled(t) == page[t].authed /\ ~ page[t].stale
OwnPage == \A t \in Tabs : Settled(t) =>
  /\ token # NoUser
  /\ page[t].persona \in {token, NoUser}
  /\ page[t].report \in {token, NoUser}

(* The stashed token leads back to who signed in, unless an impersonation   *)
(* was answered on top of another one or under another token, or somebody   *)
(* signed in while a stash was left behind.                                 *)
ReturnGoesHome == clobbered \/ stash \in {origin, NoUser}

(* The dashboard is not rendered without a report unless loading one failed:*)
(* no order of renders, effects and answers gets there otherwise.           *)
NoReportMeansFailed == \A t \in Tabs : page[t].missing = "report" => page[t].failed

(* What makes these inductive, for one page and for one call. *)
PageOK(p) ==
  /\ p.missing = "report" => p.failed
  /\ ~ p.loading /\ p.report = NoUser => p.failed
  /\ ~ p.stale => {p.persona, p.report, p.hook} \subseteq (IF p.authed THEN {token, NoUser} ELSE {NoUser})
  /\ ~ p.stale /\ p.authed => token # NoUser
  /\ Blank(p) => ~ p.authed /\ ~ p.stale

CallOK(c) ==
  /\ c.kind = "list" => c.for # NoUser
  /\ ~ page[c.tab].stale /\ ~ Blank(page[c.tab]) =>
       /\ page[c.tab].authed
       /\ c.as = token
       /\ c.kind \in {"list", "create"} => c.for = token

WayHome == ~ clobbered => /\ stash \in {origin, NoUser}
                          /\ stash = NoUser => token \in {origin, NoUser}

IInv == /\ TypeOK
        /\ \A t \in Tabs : PageOK(page[t])
        /\ \A s \in Slots : calls[s] # None => CallOK(calls[s])
        /\ WayHome

(* "Loading report..." does not stay for ever. *)
Waiting(t) == Renders(page[t]) /\ page[t].view = "employee" /\ page[t].loading
LoadingEnds == \A t \in Tabs : Waiting(t) ~> ~ Waiting(t)

(* "Employee Dashboard", "Audit Log", "Cycle History" (Sidebar.tsx:19): the *)
(* tabs that the sidebar offers open their views.                           *)
TabsOpen == \A t \in Tabs : page[t].missing \notin {"title", "manager"}

(* "stashing the original admin token so we can return to it later"         *)
(* (client.ts:18): what is stashed belongs to who signed in.                *)
StashIsOriginal == stash \in {origin, NoUser}
=============================================================================

---------------------------- MODULE Session_proofs ----------------------------
(***************************************************************************)
(* Proofs about Session, for all users, roles and managers and any number  *)
(* of tabs and overlapping calls.                                          *)
(***************************************************************************)
EXTENDS Session, TLAPS

(* PageOK and CallOK of a page and a token that are given. *)
PageSound(p, tok) ==
  /\ p.missing = "report" => p.failed
  /\ ~ p.loading /\ p.report = NoUser => p.failed
  /\ ~ p.stale => {p.persona, p.report, p.hook} \subseteq (IF p.authed THEN {tok, NoUser} ELSE {NoUser})
  /\ ~ p.stale /\ p.authed => tok # NoUser
  /\ Blank(p) => ~ p.authed /\ ~ p.stale

CallSound(c, p, tok) ==
  /\ c.kind = "list" => c.for # NoUser
  /\ ~ p.stale /\ ~ Blank(p) =>
       /\ p.authed
       /\ c.as = tok
       /\ c.kind \in {"list", "create"} => c.for = tok

PagesSound == \A t \in Tabs : PageSound(page[t], token)
CallsSound == \A s \in Slots :
  calls[s] # None => CallSound(calls[s], page[calls[s].tab], token)

LEMMA Parts == IInv <=> TypeOK /\ PagesSound /\ CallsSound /\ WayHome
BY DEF IInv, PageOK, CallOK, PagesSound, CallsSound, PageSound, CallSound

LEMMA PartsLater == TypeOK' /\ PagesSound' /\ CallsSound' /\ WayHome' => IInv'
BY DEF IInv, PageOK, CallOK, PagesSound, CallsSound, PageSound, CallSound

LEMMA InitOK == Init => IInv
<1> SUFFICES ASSUME Init PROVE IInv
  OBVIOUS
<1>1. Fresh \in Page
  BY ViewsAssumption DEF Fresh, Page, Person
<1>2. PagesSound
  BY DEF Init, PagesSound, PageSound, Fresh, Blank
<1> QED BY <1>1, <1>2, Parts DEF Init, TypeOK, CallsSound, WayHome, Person

-----------------------------------------------------------------------------
(* What React makes of a sound state is sound. *)
LEMMA CommittedSound ==
  ASSUME NEW t \in Tabs, page[t] \in Page, NEW tok, NEW new,
         Blank(page[t]) => PageSound(page[t], tok),
         ~ Blank(page[t]) => /\ new \in Page
                             /\ PageSound(new, tok)
                             /\ ~ Blank(new)
  PROVE  /\ Committed(t, new) \in Page
         /\ PageSound(Committed(t, new), tok)
         /\ \/ Committed(t, new) = new /\ ~ Blank(page[t])
            \/ Blank(Committed(t, new))
<1>1. CASE Blank(page[t])
  BY <1>1 DEF Committed
<1>2. CASE ~ Blank(page[t]) /\ Missing(new) = "nothing"
  BY <1>2 DEF Committed
<1>3. CASE ~ Blank(page[t]) /\ Missing(new) # "nothing"
  <2> DEFINE p == [Fresh EXCEPT !.missing = Missing(new), !.failed = new.failed]
  <2>1. Committed(t, new) = p
    BY <1>3 DEF Committed
  <2>2. Missing(new) \in {"title", "report", "manager"}
    BY <1>3 DEF Missing, Titled
  <2>3. Missing(new) = "report" => ~ new.loading /\ new.report = NoUser
    BY DEF Missing, Titled
  <2>4. Missing(new) = "report" => new.failed
    BY <1>3, <2>3 DEF PageSound
  <2>5. p \in Page
    BY <1>3, <2>2, ViewsAssumption DEF Fresh, Page, Person
  <2>6. /\ p.missing = Missing(new) /\ p.failed = new.failed /\ p.loading
        /\ ~ p.authed /\ ~ p.stale
        /\ p.persona = NoUser /\ p.report = NoUser /\ p.hook = NoUser
    BY DEF Fresh
  <2> HIDE DEF p
  <2>7. PageSound(p, tok) /\ Blank(p)
    BY <2>2, <2>4, <2>6 DEF PageSound, Blank
  <2> QED BY <2>1, <2>5, <2>7
<1> QED BY <1>1, <1>2, <1>3

(* Tab t commits a state that is as signed in and as stale as before. *)
LEMMA CommitKeeps ==
  ASSUME IInv, NEW t \in Tabs, NEW new, Commit(t, new), UNCHANGED Storage,
         ~ Blank(page[t]) => /\ new \in Page
                             /\ PageSound(new, token)
                             /\ new.missing = page[t].missing
                             /\ new.authed = page[t].authed
                             /\ new.stale = page[t].stale,
         calls' \in [Slots -> Call \cup {None}],
         \A s \in Slots : calls'[s] # None =>
           CallSound(calls'[s], page[calls'[s].tab], token)
  PROVE  IInv'
<1> USE DEF Storage
<1>1. page \in [Tabs -> Page] /\ PageSound(page[t], token)
  BY Parts DEF TypeOK, PagesSound
<1>2. ~ Blank(page[t]) => ~ Blank(new)
  BY DEF Blank
<1> DEFINE p == Committed(t, new)
<1>3. /\ p \in Page /\ PageSound(p, token)
      /\ (p = new /\ ~ Blank(page[t])) \/ Blank(p)
  BY <1>1, <1>2, CommittedSound
<1>4. page' = [page EXCEPT ![t] = p]
  BY DEF Commit
<1> HIDE DEF p
<1>5. TypeOK'
  BY <1>1, <1>3, <1>4, Parts DEF TypeOK
<1>6. PagesSound'
  <2> SUFFICES ASSUME NEW x \in Tabs PROVE PageSound(page'[x], token)
    BY DEF PagesSound
  <2> QED BY <1>1, <1>3, <1>4, Parts DEF PagesSound
<1>7. CallsSound'
  <2> SUFFICES ASSUME NEW s \in Slots, calls'[s] # None
               PROVE  CallSound(calls'[s], page'[calls'[s].tab], token)
    BY DEF CallsSound
  <2>1. calls'[s].tab \in Tabs
    BY DEF Call
  <2> QED BY <1>1, <1>3, <1>4, <2>1 DEF CallSound, Blank
<1>8. WayHome'
  BY Parts DEF WayHome
<1> QED BY <1>5, <1>6, <1>7, <1>8, PartsLater

(* Tab t changes the token and commits a state; the calls of other tabs    *)
(* stay, and so do its own unless the state is sound for the new token.    *)
LEMMA TokenKeeps ==
  ASSUME IInv, NEW t \in Tabs, NEW new, CommitToken(t, new),
         token' \in Person, stash' \in Person, origin' \in Person, clobbered' \in BOOLEAN,
         WayHome',
         ~ Blank(page[t]) => new \in Page /\ PageSound(new, token') /\ ~ Blank(new),
         calls' \in [Slots -> Call \cup {None}],
         \A s \in Slots : calls'[s] # None =>
           IF calls'[s].tab = t THEN CallSound(calls'[s], new, token')
           ELSE calls[s] = calls'[s]
  PROVE  IInv'
<1>1. page \in [Tabs -> Page]
  BY Parts DEF TypeOK
<1> DEFINE p == Committed(t, new)
<1>0. Blank(page[t]) => PageSound(page[t], token')
  BY Parts DEF PagesSound, PageSound
<1>2. /\ p \in Page /\ PageSound(p, token')
      /\ p = new \/ Blank(p)
  BY <1>0, <1>1, CommittedSound
<1>3. page' = [x \in Tabs |-> IF x = t THEN p
                              ELSE [page[x] EXCEPT !.stale = @ \/ page[x].authed]]
  BY DEF CommitToken
<1> HIDE DEF p
<1>4. \A x \in Tabs \ {t} :
        /\ page'[x] \in Page
        /\ PageSound(page'[x], token')
        /\ page'[x].stale = (page[x].stale \/ page[x].authed)
        /\ Blank(page'[x]) <=> Blank(page[x])
  <2> SUFFICES ASSUME NEW x \in Tabs \ {t}
               PROVE  /\ page'[x] \in Page
                      /\ PageSound(page'[x], token')
                      /\ page'[x].stale = (page[x].stale \/ page[x].authed)
                      /\ Blank(page'[x]) <=> Blank(page[x])
    OBVIOUS
  <2>1. page[x] \in Page /\ PageSound(page[x], token)
    BY <1>1, Parts DEF PagesSound
  <2>2. page'[x] = [page[x] EXCEPT !.stale = @ \/ page[x].authed]
    BY <1>3
  <2> QED BY <2>1, <2>2 DEF Page, PageSound, Blank
<1>5. TypeOK'
  <2>1. page' \in [Tabs -> Page]
    BY <1>2, <1>3, <1>4
  <2> QED BY <2>1 DEF TypeOK
<1>6. PagesSound'
  <2> SUFFICES ASSUME NEW x \in Tabs PROVE PageSound(page'[x], token')
    BY DEF PagesSound
  <2>1. page'[t] = p
    BY <1>3
  <2> QED BY <1>2, <1>4, <2>1
<1>7. CallsSound'
  <2> SUFFICES ASSUME NEW s \in Slots, calls'[s] # None
               PROVE  CallSound(calls'[s], page'[calls'[s].tab], token')
    BY DEF CallsSound
  <2> DEFINE x == calls'[s].tab
  <2>1. x \in Tabs
    BY DEF Call
  <2>2. CASE x = t
    BY <1>2, <1>3, <2>2 DEF CallSound, Blank
  <2>3. CASE x # t
    <3>1. CallSound(calls'[s], page[x], token)
      BY <2>3, Parts DEF CallsSound
    <3> QED BY <1>4, <2>1, <2>3, <3>1 DEF CallSound
  <2> QED BY <2>2, <2>3
<1> QED BY <1>5, <1>6, <1>7, PartsLater

(* Only calls change. *)
LEMMA CallsKeep ==
  ASSUME IInv, UNCHANGED page, UNCHANGED Storage,
         calls' \in [Slots -> Call \cup {None}],
         \A s \in Slots : calls'[s] # None =>
           CallSound(calls'[s], page[calls'[s].tab], token)
  PROVE  IInv'
BY Parts, PartsLater DEF Storage, TypeOK, PagesSound, PageSound, CallsSound, CallSound, WayHome, Blank

-----------------------------------------------------------------------------
(* The calls after one was sent or is over. *)
LEMMA SendSound ==
  ASSUME IInv, NEW s \in Slots, NEW c \in Call \cup {None}, calls' = [calls EXCEPT ![s] = c],
         c # None => CallSound(c, page[c.tab], token)
  PROVE  /\ calls' \in [Slots -> Call \cup {None}]
         /\ \A x \in Slots : calls'[x] # None =>
              CallSound(calls'[x], page[calls'[x].tab], token)
BY Parts DEF TypeOK, CallsSound

LEMMA Known ==
  IInv => /\ page \in [Tabs -> Page]
          /\ \A t \in Tabs : PageSound(page[t], token)
          /\ calls \in [Slots -> Call \cup {None}]
          /\ \A s \in Slots : calls[s] # None =>
               calls[s].tab \in Tabs /\ CallSound(calls[s], page[calls[s].tab], token)
          /\ token \in Person
BY Parts DEF TypeOK, PagesSound, CallsSound, Call

LEMMA OpenViewKeeps ==
  ASSUME IInv, NEW t \in Tabs, NEW view \in Views, OpenView(t, view)
  PROVE  IInv'
<1> DEFINE new == [page[t] EXCEPT !.view = view]
<1>1. page[t] \in Page /\ PageSound(page[t], token)
  BY Known
<1>2. /\ new \in Page /\ PageSound(new, token)
      /\ new.missing = page[t].missing /\ new.authed = page[t].authed
      /\ new.stale = page[t].stale
  BY <1>1 DEF Page, PageSound, Blank
<1>3. Commit(t, new) /\ UNCHANGED calls /\ UNCHANGED Storage
  BY DEF OpenView
<1> HIDE DEF new
<1> QED BY <1>2, <1>3, Known, CommitKeeps

LEMMA LoadReportKeeps ==
  ASSUME IInv, NEW t \in Tabs, NEW s \in Slots, LoadReport(t, s)
  PROVE  IInv'
<1> DEFINE u == HookUser(page[t])
<1>1. page[t] \in Page /\ PageSound(page[t], token) /\ token \in Person
  BY Known
<1>2. u \in Person /\ u \in {page[t].persona, NoUser}
  BY <1>1 DEF HookUser, Page, Person
<1>3. ~ page[t].stale => /\ u \in (IF page[t].authed THEN {token, NoUser} ELSE {NoUser})
                         /\ ~ page[t].authed => page[t].hook = NoUser
  BY <1>1, <1>2 DEF PageSound
<1>4. page[t].hook # u
  BY DEF LoadReport
<1> HIDE DEF u
<1>5. CASE u = NoUser
  <2> DEFINE new == [page[t] EXCEPT !.hook = u]
  <2>1. /\ new \in Page /\ PageSound(new, token)
        /\ new.missing = page[t].missing /\ new.authed = page[t].authed
        /\ new.stale = page[t].stale
    BY <1>1, <1>2, <1>3 DEF Page, PageSound, Blank
  <2>2. Commit(t, new) /\ UNCHANGED calls /\ UNCHANGED Storage
    BY <1>5 DEF LoadReport, u
  <2> HIDE DEF new
  <2> QED BY <2>1, <2>2, Known, CommitKeeps
<1>6. CASE u # NoUser
  <2> DEFINE new == [page[t] EXCEPT !.hook = u, !.loading = TRUE]
             c   == Sent(t, "list", token, u)
  <2>1. /\ new \in Page /\ PageSound(new, token)
        /\ new.missing = page[t].missing /\ new.authed = page[t].authed
        /\ new.stale = page[t].stale
    BY <1>1, <1>2, <1>3 DEF Page, PageSound, Blank
  <2>2. Commit(t, new) /\ calls' = [calls EXCEPT ![s] = c] /\ UNCHANGED Storage
    BY <1>6 DEF LoadReport, Send, u
  <2>3. c \in Call /\ c.tab = t /\ c.as = token /\ c.kind = "list" /\ c.for = u
    BY <1>1, <1>2 DEF Call, Sent
  <2>4. CallSound(c, page[c.tab], token)
    BY <1>1, <1>3, <1>4, <1>6, <2>3 DEF CallSound, PageSound
  <2> HIDE DEF new, c
  <2>5. /\ calls' \in [Slots -> Call \cup {None}]
        /\ \A x \in Slots : calls'[x] # None =>
             CallSound(calls'[x], page[calls'[x].tab], token)
    BY <2>2, <2>3, <2>4, SendSound
  <2> QED BY <2>1, <2>2, <2>5, CommitKeeps
<1> QED BY <1>5, <1>6

LEMMA ImpersonateKeeps ==
  ASSUME IInv, NEW t \in Tabs, NEW s \in Slots, NEW u \in Users, Impersonate(t, s, u)
  PROVE  IInv'
<1> DEFINE c == Sent(t, "impersonate", token, u)
<1>1. page[t] \in Page /\ PageSound(page[t], token) /\ token \in Person
  BY Known
<1>2. c \in Call /\ c.tab = t /\ c.as = token /\ c.kind = "impersonate"
  BY <1>1 DEF Call, Sent, Person
<1>3. CallSound(c, page[c.tab], token)
  BY <1>1, <1>2 DEF CallSound, Impersonate, Renders
<1>4. calls' = [calls EXCEPT ![s] = c] /\ UNCHANGED page /\ UNCHANGED Storage
  BY DEF Impersonate, Send
<1> HIDE DEF c
<1> QED BY <1>2, <1>3, <1>4, SendSound, CallsKeep

-----------------------------------------------------------------------------
(* Steps that change the token. *)
LEMMA SignInKeeps ==
  ASSUME IInv, NEW t \in Tabs, NEW s \in Slots, NEW u \in Users, SignIn(t, s, u)
  PROVE  IInv'
<1> DEFINE new == [page[t] EXCEPT !.authed = TRUE]
           c   == Sent(t, "users", u, NoUser)
<1>1. page[t] \in Page /\ PageSound(page[t], token) /\ ~ page[t].authed /\ ~ Blank(page[t])
  BY Known DEF SignIn
<1>2. u # NoUser /\ token' = u /\ origin' = u /\ UNCHANGED stash /\ clobbered' = (stash # NoUser)
  BY UsersAssumption DEF SignIn
<1>3. new \in Page /\ PageSound(new, token') /\ ~ Blank(new)
  BY <1>1, <1>2 DEF Page, PageSound, Blank
<1>4. c \in Call /\ c.tab = t /\ CallSound(c, new, token')
  BY <1>1, <1>2, NoneAssumption DEF Call, Sent, Person, CallSound, Page
<1>5. calls' = [calls EXCEPT ![s] = c] /\ CommitToken(t, new)
  BY DEF SignIn, Send
<1>6. WayHome'
  BY <1>2 DEF WayHome
<1>7. stash \in Person /\ token' \in Person /\ clobbered' \in BOOLEAN
  BY <1>2, Parts DEF TypeOK, Person
<1>8. calls' \in [Slots -> Call \cup {None}]
  BY <1>4, <1>5, Known
<1> HIDE DEF c, new
<1>9. ASSUME NEW x \in Slots, calls'[x] # None
      PROVE  IF calls'[x].tab = t THEN CallSound(calls'[x], new, token')
             ELSE calls[x] = calls'[x]
  <2>1. CASE x = s
    BY <1>4, <1>5, <2>1, Known
  <2>2. CASE x # s
    <3>1. calls'[x] = calls[x]
      BY <1>5, <2>2, Known
    <3>2. calls[x].tab = t => page[t].stale
      BY <1>1, <1>9, <3>1, Known DEF CallSound
    <3>3. page[t].stale => new.stale
      BY <1>1 DEF new, Page
    <3>4. calls[x].kind = "list" => calls[x].for # NoUser
      BY <1>9, <3>1, Known DEF CallSound
    <3> QED BY <3>1, <3>2, <3>3, <3>4 DEF CallSound
  <2> QED BY <2>1, <2>2
<1> QED BY <1>2, <1>3, <1>5, <1>6, <1>7, <1>8, <1>9, TokenKeeps

(* The page of tab t becomes stale, so that nothing more is asked of it.   *)
LEMMA StaleKeeps ==
  ASSUME IInv, NEW t \in Tabs, NEW new, CommitToken(t, new),
         \/ new = [page[t] EXCEPT !.stale = TRUE]
         \/ new = [page[t] EXCEPT !.authed = FALSE, !.stale = TRUE],
         token' \in Person, stash' \in Person, origin' \in Person, clobbered' \in BOOLEAN,
         WayHome',
         calls' = calls \/ \E s \in Slots : calls' = [calls EXCEPT ![s] = None]
  PROVE  IInv'
<1>1. page[t] \in Page /\ PageSound(page[t], token)
  BY Known
<1>2. ~ Blank(page[t]) => new \in Page /\ PageSound(new, token') /\ ~ Blank(new)
  BY <1>1 DEF Page, PageSound, Blank
<1>3. new.stale
  BY <1>1 DEF Page
<1>4. calls' \in [Slots -> Call \cup {None}]
  BY Known
<1>5. \A x \in Slots : calls'[x] # None =>
        IF calls'[x].tab = t THEN CallSound(calls'[x], new, token')
        ELSE calls[x] = calls'[x]
  BY <1>3, Known DEF CallSound
<1> QED BY <1>2, <1>4, <1>5, TokenKeeps

LEMMA SignOutKeeps ==
  ASSUME IInv, NEW t \in Tabs, SignOut(t)
  PROVE  IInv'
<1>1. stash' \in Person /\ origin' \in Person /\ clobbered' \in BOOLEAN /\ token' \in Person
  BY Parts DEF SignOut, TypeOK, Person
<1>2. WayHome'
  BY Parts DEF SignOut, WayHome
<1> QED BY <1>1, <1>2, StaleKeeps DEF SignOut

LEMMA ReturnKeeps ==
  ASSUME IInv, NEW t \in Tabs, ReturnToSelf(t)
  PROVE  IInv'
<1>1. stash' \in Person /\ origin' \in Person /\ clobbered' \in BOOLEAN /\ token' \in Person
  BY Parts DEF ReturnToSelf, TypeOK, Person
<1>2. WayHome'
  BY Parts DEF ReturnToSelf, WayHome
<1> QED BY <1>1, <1>2, StaleKeeps DEF ReturnToSelf

LEMMA AnswerImpersonateKeeps ==
  ASSUME IInv, NEW s \in Slots, calls[s] # None, AnswerImpersonate(s)
  PROVE  IInv'
<1>1. calls[s] \in Call /\ calls[s].as # NoUser
  BY Parts, UsersAssumption DEF AnswerImpersonate, Admins, TypeOK
<1>2. stash' \in Person /\ origin' \in Person /\ clobbered' \in BOOLEAN /\ token' \in Person
  BY <1>1, Parts DEF AnswerImpersonate, TypeOK, Person, Call
<1>3. WayHome'
  BY <1>1, Parts DEF AnswerImpersonate, WayHome
<1>4. calls[s].tab \in Tabs
  BY <1>1 DEF Call
<1> QED BY <1>2, <1>3, <1>4, StaleKeeps DEF AnswerImpersonate, Done

-----------------------------------------------------------------------------
(* Answers. *)
LEMMA AnswerUsersKeeps ==
  ASSUME IInv, NEW s \in Slots, calls[s] # None, AnswerUsers(s)
  PROVE  IInv'
<1>1. PICK t \in Tabs : t = calls[s].tab
  BY Known
<1>2. PICK u \in IF token = NoUser THEN Users ELSE {token} :
        Commit(t, [page[t] EXCEPT !.persona = u, !.view = HomeView(u, @)])
  BY <1>1 DEF AnswerUsers
<1>3. page[t] \in Page /\ PageSound(page[t], token) /\ CallSound(calls[s], page[t], token)
      /\ u \in Users
  BY <1>1, Known DEF Person
<1>4. ~ Blank(page[t]) /\ ~ page[t].stale => page[t].authed /\ u = token
  BY <1>3 DEF CallSound, PageSound
<1>5. HomeView(u, page[t].view) \in Views
  BY <1>3, ViewsAssumption DEF Page
<1> DEFINE new == [page[t] EXCEPT !.persona = u, !.view = HomeView(u, @)]
<1>6. ~ Blank(page[t]) =>
        /\ new \in Page /\ PageSound(new, token)
        /\ new.missing = page[t].missing /\ new.authed = page[t].authed
        /\ new.stale = page[t].stale
  BY <1>3, <1>4, <1>5 DEF Page, PageSound, Blank, Person
<1>7. Commit(t, new) /\ UNCHANGED Storage /\ calls' = [calls EXCEPT ![s] = None]
  BY <1>2 DEF AnswerUsers, Done
<1>8. /\ calls' \in [Slots -> Call \cup {None}]
      /\ \A x \in Slots : calls'[x] # None =>
           CallSound(calls'[x], page[calls'[x].tab], token)
  BY <1>7, SendSound
<1> HIDE DEF new
<1> QED BY <1>6, <1>7, <1>8, CommitKeeps

(* A report of user u arrives. *)
LEMMA ReportArrives ==
  ASSUME IInv, NEW s \in Slots, calls[s] # None, NEW t \in Tabs, t = calls[s].tab,
         NEW u \in Person, u # NoUser,
         ~ Blank(page[t]) /\ ~ page[t].stale => u = token,
         Commit(t, [page[t] EXCEPT !.report = u, !.loading = FALSE]),
         UNCHANGED Storage, calls' = [calls EXCEPT ![s] = None]
  PROVE  IInv'
<1> DEFINE new == [page[t] EXCEPT !.report = u, !.loading = FALSE]
<1>1. page[t] \in Page /\ PageSound(page[t], token) /\ CallSound(calls[s], page[t], token)
  BY Known
<1>2. ~ Blank(page[t]) =>
        /\ new \in Page /\ PageSound(new, token)
        /\ new.missing = page[t].missing /\ new.authed = page[t].authed
        /\ new.stale = page[t].stale
  BY <1>1 DEF Page, PageSound, Blank, CallSound
<1>3. /\ calls' \in [Slots -> Call \cup {None}]
      /\ \A x \in Slots : calls'[x] # None =>
           CallSound(calls'[x], page[calls'[x].tab], token)
  BY SendSound
<1>4. Commit(t, new)
  OBVIOUS
<1> HIDE DEF new
<1> QED BY <1>2, <1>3, <1>4, CommitKeeps

LEMMA AnswerListKeeps ==
  ASSUME IInv, NEW s \in Slots, calls[s] # None, AnswerList(s)
  PROVE  IInv'
<1>1. PICK t \in Tabs : t = calls[s].tab
  BY Known
<1>2. PICK u : u = calls[s].for
  OBVIOUS
<1>3. calls[s] \in Call /\ calls[s].kind = "list" /\ CallSound(calls[s], page[t], token)
  BY <1>1, Known DEF AnswerList
<1>4. u \in Person /\ u # NoUser /\ (~ Blank(page[t]) /\ ~ page[t].stale => u = token)
  BY <1>2, <1>3 DEF CallSound, Call
<1>5. CASE /\ Commit(t, [page[t] EXCEPT !.report = u, !.loading = FALSE])
           /\ Done(s)
  BY <1>1, <1>4, <1>5, ReportArrives DEF AnswerList, Done
<1>6. CASE calls' = [calls EXCEPT ![s] = Sent(t, "create", token, u)] /\ UNCHANGED page
  <2> DEFINE c == Sent(t, "create", token, u)
  <2>1. c \in Call /\ c.tab = t /\ c.as = token /\ c.kind = "create" /\ c.for = u
    BY <1>4, Known DEF Call, Sent
  <2>2. CallSound(c, page[c.tab], token)
    BY <1>3, <1>4, <2>1 DEF CallSound
  <2>3. calls' = [calls EXCEPT ![s] = c] /\ UNCHANGED page /\ UNCHANGED Storage
    BY <1>6 DEF AnswerList
  <2> HIDE DEF c
  <2> QED BY <2>1, <2>2, <2>3, SendSound, CallsKeep
<1> QED BY <1>1, <1>2, <1>5, <1>6 DEF AnswerList

LEMMA AnswerCreateKeeps ==
  ASSUME IInv, NEW s \in Slots, calls[s] # None, AnswerCreate(s)
  PROVE  IInv'
<1>1. PICK t \in Tabs : t = calls[s].tab
  BY Known
<1>2. PICK u : u = calls[s].as
  OBVIOUS
<1>3. calls[s] \in Call /\ CallSound(calls[s], page[t], token)
  BY <1>1, Known
<1>4. u \in Person /\ u # NoUser /\ (~ Blank(page[t]) /\ ~ page[t].stale => u = token)
  BY <1>2, <1>3 DEF CallSound, Call, AnswerCreate
<1>5. /\ Commit(t, [page[t] EXCEPT !.report = u, !.loading = FALSE])
      /\ calls' = [calls EXCEPT ![s] = None] /\ UNCHANGED Storage
  BY <1>1, <1>2 DEF AnswerCreate, Done
<1> QED BY <1>1, <1>4, <1>5, ReportArrives

LEMMA AnswerErrorKeeps ==
  ASSUME IInv, NEW s \in Slots, AnswerError(s)
  PROVE  IInv'
<1>1. PICK t \in Tabs : t = calls[s].tab
  BY Known DEF AnswerError
<1>2. calls' = [calls EXCEPT ![s] = None] /\ UNCHANGED Storage
  BY DEF AnswerError, Done
<1>3. /\ calls' \in [Slots -> Call \cup {None}]
      /\ \A x \in Slots : calls'[x] # None =>
           CallSound(calls'[x], page[calls'[x].tab], token)
  BY <1>2, SendSound
<1>4. CASE UNCHANGED page
  BY <1>2, <1>3, <1>4, CallsKeep
<1>5. CASE Commit(t, [page[t] EXCEPT !.loading = FALSE, !.failed = TRUE])
  <2> DEFINE new == [page[t] EXCEPT !.loading = FALSE, !.failed = TRUE]
  <2>1. /\ new \in Page /\ PageSound(new, token)
        /\ new.missing = page[t].missing /\ new.authed = page[t].authed
        /\ new.stale = page[t].stale
    BY Known DEF Page, PageSound, Blank
  <2>2. Commit(t, new)
    BY <1>5
  <2> HIDE DEF new
  <2> QED BY <1>2, <1>3, <2>1, <2>2, CommitKeeps
<1> QED BY <1>1, <1>4, <1>5 DEF AnswerError

LEMMA LoadKeeps ==
  ASSUME IInv, NEW t \in Tabs, Load(t)
  PROVE  IInv'
<1>1. PICK valid \in BOOLEAN, s \in Slots :
        /\ valid => token # NoUser
        /\ calls[s] # None => calls[s].tab = t
        /\ page' = [page EXCEPT ![t] = [Fresh EXCEPT !.authed = valid,
                                                     !.viewAs = (stash # NoUser)]]
        /\ calls' = [x \in Slots |->
             IF x = s /\ valid THEN Sent(t, "users", token, NoUser)
             ELSE IF calls[x] # None /\ calls[x].tab = t THEN None ELSE calls[x]]
        /\ UNCHANGED Storage
  BY DEF Load
<1> DEFINE p == [Fresh EXCEPT !.authed = valid, !.viewAs = (stash # NoUser)]
           c == Sent(t, "users", token, NoUser)
<1>2. p \in Page
  BY ViewsAssumption DEF Fresh, Page, Person
<1>3. PageSound(p, token) /\ (valid => CallSound(c, p, token)) /\ ~ Blank(p)
  BY <1>1 DEF PageSound, CallSound, Fresh, Blank, Sent
<1>4. c \in Call /\ c.tab = t
  BY Known DEF Call, Sent, Person
<1> HIDE DEF p, c
<1>5. \A x \in Slots : calls'[x] =
        IF x = s /\ valid THEN c
        ELSE IF calls[x] # None /\ calls[x].tab = t THEN None ELSE calls[x]
  BY <1>1 DEF c
<1>6. page' = [page EXCEPT ![t] = p]
  BY <1>1 DEF p
<1>7. TypeOK'
  <2>1. calls' = [x \in Slots |-> calls'[x]]
    BY <1>1
  <2>2. \A x \in Slots : calls'[x] \in Call \cup {None}
    BY <1>4, <1>5, Known
  <2>3. calls' \in [Slots -> Call \cup {None}]
    BY <2>1, <2>2
  <2> QED BY <1>1, <1>2, <1>6, <2>3, Parts DEF TypeOK, Storage
<1>8. PagesSound'
  <2> SUFFICES ASSUME NEW x \in Tabs PROVE PageSound(page'[x], token)
    BY <1>1 DEF PagesSound, Storage
  <2> QED BY <1>3, <1>6, Known
<1>9. CallsSound'
  <2> SUFFICES ASSUME NEW x \in Slots, calls'[x] # None
               PROVE  CallSound(calls'[x], page'[calls'[x].tab], token)
    BY <1>1 DEF CallsSound, Storage
  <2>1. CASE x = s /\ valid
    BY <1>3, <1>4, <1>5, <1>6, <2>1, Known
  <2>2. CASE ~ (x = s /\ valid)
    <3>1. calls'[x] = calls[x] /\ calls[x].tab # t
      BY <1>5, <2>2
    <3> QED BY <1>6, <3>1, Known
  <2> QED BY <2>1, <2>2
<1>10. WayHome'
  BY <1>1, Parts DEF WayHome, Storage
<1> QED BY <1>7, <1>8, <1>9, <1>10, PartsLater

-----------------------------------------------------------------------------
LEMMA NextKeeps == IInv /\ [Next]_vars => IInv'
<1> SUFFICES ASSUME IInv, [Next]_vars PROVE IInv'
  OBVIOUS
<1>1. ASSUME NEW t \in Tabs, Click(t)
      PROVE  IInv'
  <2>1. ASSUME NEW s \in Slots, NEW u \in Users, SignIn(t, s, u) \/ Impersonate(t, s, u)
        PROVE  IInv'
    BY <2>1, SignInKeeps, ImpersonateKeeps
  <2>2. SignOut(t) \/ ReturnToSelf(t) => IInv'
    BY SignOutKeeps, ReturnKeeps
  <2> QED BY <1>1, <2>1, <2>2, OpenViewKeeps DEF Click
<1>2. ASSUME NEW s \in Slots, Answer(s)
      PROVE  IInv'
  BY <1>2, AnswerUsersKeeps, AnswerListKeeps, AnswerCreateKeeps,
     AnswerImpersonateKeeps, AnswerErrorKeeps DEF Answer
<1>3. CASE UNCHANGED vars
  BY <1>3, CallsKeep, Known DEF vars, Storage
<1> QED BY <1>1, <1>2, <1>3, LoadKeeps, LoadReportKeeps DEF Next

LEMMA Invariance == Spec => []IInv
BY InitOK, NextKeeps, PTL DEF Spec

(* Storage, pages and calls stay well typed. *)
THEOREM TypeCorrect == Spec => []TypeOK
<1>1. IInv => TypeOK
  BY DEF IInv
<1> QED BY <1>1, Invariance, PTL

(* In any order of answers, a page whose token nobody changed shows its own *)
(* user and that user's report (App.tsx:94-98, useReport.ts:17-29).         *)
THEOREM PagesShowTheirOwn == Spec => []OwnPage
<1>1. IInv => OwnPage
  BY Parts DEF PagesSound, PageSound, OwnPage, Settled, TypeOK
<1> QED BY <1>1, Invariance, PTL

(* Unless something overwrote it, the stash leads back to who signed in     *)
(* (client.ts:21-36).                                                       *)
THEOREM StashLeadsHome == Spec => []ReturnGoesHome
<1>1. IInv => ReturnGoesHome
  BY Parts DEF WayHome, ReturnGoesHome
<1> QED BY <1>1, Invariance, PTL

(* Only a failed call makes the dashboard render without a report           *)
(* (App.tsx:310, useReport.ts:31).                                          *)
THEOREM BlankMeansFailed == Spec => []NoReportMeansFailed
<1>1. IInv => NoReportMeansFailed
  BY Parts DEF PagesSound, PageSound, NoReportMeansFailed
<1> QED BY <1>1, Invariance, PTL
=============================================================================

# A verification model of FlowReport

FlowReport collects weekly reports: employees write, managers approve or send
back, executives look at the result.  A React page talks to a Go server (gin,
GORM) over HTTP, and the server keeps everything in PostgreSQL.  This directory
holds TLA+ modules that model the parts where it can go wrong, TLC
configurations that check them on small instances, and TLAPS proofs for
instances of every size.

    tlc -workers 2 -config Report_overlap.cfg MCReportWorkflow
    tlapm ReportWorkflow_proofs.tla

## The system

| component | state | operations | talks to |
|---|---|---|---|
| report workflow (`report/handler.go`) | `reports` table, one row per user and cycle | Create, Update, Submit, Approve, RequestRevision, List, Get | e-mail (a goroutine after the save), `users`, `report_cycles` |
| report editor (`EmployeeDashboard.tsx`, `useReport.ts`, `App.tsx`) | the page's copy of the report, typed texts, Jira references, two timers, the status line | typing, autosave, save, submit | report workflow |
| manager page (`ManagerDashboard.tsx`, `App.tsx`) | the listed reports, the one in the pane, the revision form | list, select, approve, send back | report workflow |
| organisation tree (`user/handler.go`) | `users.manager_id` | Create, Update with `wouldCreateCycle` | read by the report workflow |
| cycle administration (`cycle/handler.go`) | `report_cycles` table | Create, Update, Lock, Unlock, GetCurrent | audit log |
| audit log (`auditlog/handler.go`) | `audit_logs` table | Log, List | called by cycles and Impersonate |
| executive page (`App.tsx`, `ExecutiveDashboard.tsx`) | the id the button acts on; the cycle shown, locked or not | load after each sign-in, toggle the window | cycle administration |
| impersonation and session (`App.tsx`, `useReport.ts`, `api/client.ts`) | two tokens in local storage; persona, view and own report in each tab | sign in and out, View As and return, open a view, load the report | users, reports, audit log |
| notifications (`notification/handler.go`, `Header.tsx`, `App.tsx`) | `notifications` table, the list in each page's bell | Create, List, MarkRead, MarkAllRead, Delete | posted by `App.tsx` after what its user did |
| attachments (`attachment/handler.go`, `EmployeeDashboard.tsx`) | `attachments` table, files on disk, the panel of each page | Upload, List, Download, Delete | reports, for who may access them |
| e-mail (`email/service.go`) | none | Send | SMTP server |
| metrics, export | none | counts, a spreadsheet | read all tables |
| authentication, token cache, startup, layout | tokens, Redis keys | Register, Login, ... | |

What makes it hard:

* **No handler is atomic.** gin runs each request in a goroutine of its own; a
  handler that changes something reads a row, changes the copy and writes the
  whole copy back with `db.Save`.  There is no transaction, no row lock and no
  version column anywhere in the server.  Two requests for one row can undo one
  another.
* **Statements fail half way.** An error from the database does not say whether
  the statement was applied; many errors are not looked at.
* **Two stores, no order between them.** An attachment is a file and a row; a
  decision is a row and a mail; a change is a row and an audit entry.  A crash or
  an error falls between any two.
* **The pages are asynchronous.** Timers of which one is never cancelled,
  overlapping calls, answers in any order, effects that run after the render, and
  renders that reset the input fields.
* **Tabs share what they should not.** All tabs of a browser use one pair of
  tokens; each keeps a persona and a report of its own.

What has to be right, component by component: a report follows its life cycle,
what is approved has been submitted, a mail announces only what was stored; text
the author typed is on its way to be stored; the manager sees and announces only
what was stored; the tree has no reporting loop; a locked window stays locked;
sensitive actions leave an audit entry; a page shows its own user's report, and
returning from View As leads home; what the bell shows as read is read; file and
row of an attachment come and go together.  `PROJECT.json` lists the single
hazards at their lines.

## The modules

| module | what it is |
|---|---|
| `ReportRows` | the row of a report and the life cycle as a relation between rows (`LegalStep`) |
| `ReportLifecycle` | abstract: every stored row is a legal edit of the row it replaces |
| `ReportVersions` | abstract, weaker: every stored row is a legal edit of *some* row stored before |
| `ReportWorkflow` | the report handlers, one action per SQL statement |
| `ReportEditor` | the author's page on top of `ReportWorkflow`, which it extends |
| `ManagerDesk` | a reviewer's page on top of `ReportWorkflow`, which it extends |
| `OrgTree` | user updates and the walk that looks for a loop |
| `AdminConsole` | cycles, impersonation, audit log and the executive page |
| `Session` | tokens, tabs, views and the loading of one's own report |
| `Notifications` | the table, its handlers and the bells of one user |
| `AttachmentLife` | abstract: an attachment is new, stored, listed, broken, gone, in that order |
| `Attachments` | files, rows, handlers and panels of one report |
| `MC*` | the instances that TLC checks |
| `*_proofs` | theorems |

Three components meet at the reports: the handlers, the author's page and the
reviewer's page.  Both pages extend the same module of handlers, and in both,
slots without a call of the page carry everybody else's requests.

Definitions marked *Faulty variant* in a module are plausible mistakes.
`PROJECT.json` names, for each property, the variant that breaks it: each was
put in the place of the definition after it and TLC reported the property
violated.

### ReportWorkflow

`rows` is the table: at most one row per key, since `idx_reports_user_cycle` is
unique, and `Reports` are those keys.  A row keeps its status, its texts, its
comments and whether `submitted_at` is set.  `req[s]` is where a request stands.

| code | action |
|---|---|
| `db.Create` in Create, its error, the lookup after the error | `Insert`, `InsertFails`, `LookUpExisting` |
| `db.First`, the checks and the changes to the copy in the four other handlers | `ReadForUpdate`, `ReadForSubmit`, `ReadForApprove`, `ReadForRevision` |
| `db.Save` and the answer; `db.Save` reporting an error, applied or not | `Save`, `SaveFails` |
| the `go func()` after the save | `SendMail`, `MailFails` |
| the process stops and starts | `Crash` |

A handler that returns before its save changes nothing and is a request that
never took a slot.  The checks of Approve and RequestRevision query the author's
manager between read and save; managers are constants here, so that query is
part of the read.  `versions` and `sent` are history: every row ever stored under
a key, every mail handed over.

### ReportEditor

`copy` is `useReport`'s report, `typed` the four inputs, `banner` the status line.
`Render` is a render of `App`: `getFrontendReport` returns a new object, so the
dashboard's effect on `[report]` puts the stored texts into the inputs and a new
empty array into `jiraRefs`, which restarts the debounce timer with nothing to
save.  `Type` arms that timer (2.5 s); `DebounceFires` compares and arms the
second one (0.8 s), which nothing cancels; `TimerFires` saves.  Since 0.8 s is
less than 2.5 s, the second timer has run out before the first fires again; no
other assumption is made about time.  `AddJira` and `RemoveJira` arm the first
timer too, and `linked` makes it save texts that did not change; no request
carries the references.  `calls[s]` is a call of the page in the slot that serves
it: `LoseCall`, `FinishCall` (its answer may be lost), `Deliver` in any order, and
`Noted` for the notification after a submission.  `AppRenders` stands for every
other change of `App`'s state.

### ManagerDesk

`queue` is `App`'s `managerReports`, `selected`, `form` and `remarks` the pane and
its revision form, `notes` the decisions announced as successful.  `OpenView`
mounts a new dashboard: its own state is gone, while `App` goes on passing the
list it holds until the new one is there.  The pane offers its buttons for what
the page believes is submitted or sent back (`Reviewable`), and the handler decides
again (`ServeDecision`).  `Mark` is what an answer does to the page's copy; it does
not look at the row in the answer.  `ServerCrash` breaks the connections of what
is being served.

### OrgTree

`users` holds manager and profile of each user, `req[s]` a walking or a saving
update.  `wouldCreateCycle` is one action per turn of its loop: it meets the user
that moves, or one it has seen, or the top; it climbs; or the query fails, which
the code treats as "no loop".  `clean[s]` is history: since slot `s` read its
user, no other update moved anybody and no query of its walk failed.  No
administrator names a manager that will exist only later: `Create` draws a fresh
uuid.  A manager id that belongs to nobody (`Unknown`) is possible, for no foreign
key forbids it.

### AdminConsole

`cycles` is the table, `log` the audit table, `page[p]` what an executive page
shows.  A change is a read, a save, then `Audit`, then the answer.  `Audit` inserts
an entry only if both states are JSON texts: the columns are `jsonb`
(`models.go:91-92`) and the server passes `""`, `OPEN`, `LOCKED`; even what the
column accepts may fail to be inserted, and nobody notices.

`page[p]` is `App` in one tab, which all personas share: signing in and out does
not replace it.

| code | action |
|---|---|
| the effect on `isAuthenticated` (`App.tsx:86-112`): a token in storage, or a sign-in | `SignIn` asks for the current cycle |
| `handleLogout`, which keeps `currentCycle`, `currentCycleId` and every promise | `SignOut` |
| the browser loads the page: state and promises are gone | `Reload` |
| GET `/cycles/current` | `GetCurrent`, `GetCurrentFails` (no open cycle, or any failure) |
| `handleLockWindow` | `Click`: the opposite of what is shown, of the cycle whose id is kept; it does not wait |
| an answer, whoever is signed in by then; the `.catch` of the load | `Deliver`; a failed load shows an open window of no cycle (`shown = None`) and keeps `cycleId` |
| a lost answer | `LoseAnswer`, and `Crash` for what the server is serving |

`shown` is the cycle of the row the page got last, from the load or from a lock or
unlock; `cycleId` comes from the load alone.  `logins` is history: sign-ins since
the page was loaded.  Up to the second the two agree (`ButtonActsOnShown`).  After
it a late answer about one cycle can meet the load of another, or a load can fail
and leave the id: the page then shows one cycle, or none, and the button changes
the other.  What it shows has nevertheless been stored of the cycle it shows
(`ShownWasStored`).  Tokens of other roles are turned away before anything happens
and are no actions.

### Session

`token` and `stash` are the two entries of local storage; tabs share them.
`page[t]` is what a tab holds: signed in or not, persona, view, the user for whom
`useReport`'s effect last ran, the report, `loading`.  Tokens, personas and reports
are reduced to whose they are.

| code | action |
|---|---|
| opening or reloading the page; `isAuthenticated` and the fetch of the users | `Load`; an expired token is `valid = FALSE` |
| `LoginPage`, `handleLogout` | `SignIn`, `SignOut` |
| the tabs and View As of `Sidebar`, Return | `OpenView`, `Impersonate`, `ReturnToSelf` |
| the effect of `useReport` | `LoadReport` |
| answers of users, list, create and impersonate; any failure | `Answer...`, `AnswerError` |

`Committed` is a render: if it throws, React removes the whole tree, and the page
is blank until it is loaded again.  A render throws for want of a title (the
header knows three of the five views), of a report, or of the name of a manager.
After `startImpersonation` or `endImpersonation` the page asks for a reload but
runs on until it happens, so the reload is a `Load` of its own.  `stale` is
history: the token changed since the page was loaded.  Signing in is one step;
its failure changes nothing.  If fetching the users fails, the page stays at its
"Loading..." without a persona, and `LoadingEnds` does not speak of it: nothing
retries that.  The second run of each effect under StrictMode, which only
development builds have, is left out.

### Notifications

`inbox[n]` is the row inserted n-th: absent, unread or read.  `shown[p]` is the
bell of a page, newest first; entries that only a page knows (`local-...`) have
negative ids.  A call is sent, served in one or two statements, and answered;
`MarkRead` is `ReadForMark` and `SaveMark`, and the latter inserts the row when it
is gone, for `db.Save` is an upsert.  `Fail` answers 200 or loses the call; the
page does not tell the difference.  `cleared`, `raced`, `doubled` and `failed` are
history that the properties name as exceptions.

### Attachments

`disk[a]` and `rows` are the two places of an attachment, `shown[p]` and `busy[p]`
the panel of a page.  Upload is `CreateFile`, `CopyFile`, `InsertRow`, each of which
may fail; Delete is `FindForRemoval`, `Unlink`, `DeleteRow`, the errors of the last
two ignored.  `List` ignores the error of its query too and then answers `null`
(`ListOfNull`); the page takes it, reads its length in the next render
(`EmployeeDashboard.tsx:516`) and goes blank (`NullArrives`, `up[p]` is FALSE until
the page is loaded again).  `Crash` leaves what was done.  The server never looks
at the status of the report; the page hides the buttons by its own copy of it,
which says nothing, so the model offers them always.  The panel is a set: its order
is the order of arrival and nobody depends on it.  A list that fails empties the panel, a
late list can hide a new upload or bring back a removed entry, and the first of
two uploads to end takes "Uploading..." away: the properties are stated so that
they hold of this code.

## What is checked

| run | result | shows |
|---|---|---|
| `report_overlap` | holds | `RowConsistent`, `ApprovedWasSubmitted`, `MailsJustified`, `OnlyStaleSavesAreIllegal`; implements `ReportVersions` |
| `report_serial` | holds | where requests for one report do not overlap: implements `ReportLifecycle`, and `ApprovedIsFinal` |
| `report_approved` | **violated** | `ApprovedIsFinal`: a PATCH that read the report before its submission and approval writes the status of its copy back (DRAFT in TLC's trace) |
| `editor` | holds | `TypedIsTracked`, `CopyWasStored`, and `TypingSettles` under fairness |
| `manager_desk` | holds | `ShownWasStored`, `NotesWereStored`, `QueueIsReviewable` |
| `org_walk` | holds | `LoopsNeedInterference`, `RefusalsAreJustified`, and `WalkEnds` under fairness |
| `admin_console` | holds | `LocksHold`, `ShownWasStored`, `ButtonActsOnShown` |
| `admin_audit` | **violated** | `ImpersonationsAudited`: the insert is refused, the token handed out |
| `session_tabs` | holds | two tabs: `OwnPage`, `ReturnGoesHome` |
| `session_answers` | holds | one tab, two calls: `OwnPage`, `NoReportMeansFailed`, and `LoadingEnds` under fairness |
| `notifications` | holds | `ClearedComeBackRead`, `ReadMeansStored`, `DoublesExplained` |
| `attachments` | holds | `RowsHaveFiles`, `FilesAreListed`, `ShownWasStored`, `BusyMeansUploading`; implements `AttachmentLife` |

Each module has its type invariant in one of its runs.  The two violated
properties quote what the code says of the program; `PROJECT.json` has the
quotations under `findings`.

### What the code does not have

These definitions state what one would expect, or what a page says.  No run
checks them; put one into the module's configuration, as an INVARIANT or (those
marked P) a PROPERTY, and TLC shows a short way to break it.

| definition | how it breaks |
|---|---|
| `SyncedMeansStored` (`ReportEditor`) | typed text disappears on a render; the page says "All changes synced" |
| `SubmissionSticks` (`ReportWorkflow`, P) | Save and Submit in one go turn SUBMITTED back into DRAFT |
| `CompiledMeansApproved` (`ManagerDesk`) | the pane calls a draft "approved and compiled" (`ManagerDashboard.tsx:295`) |
| `NoReportingLoop` (`OrgTree`) | a failed query, or two moves at once |
| `AcceptingMeansOpen` (`AdminConsole`, P) | with every cycle locked, a page that loads shows an open window it cannot act on |
| `ButtonAlwaysActsOnShown` (`AdminConsole`) | somebody signs in a second time on the page: a late answer, or a failed load, makes it show another cycle than the button changes |
| `TabsOpen` (`Session`) | Audit Log and Cycle History have no title in `Header.tsx:69-90`, and the page goes blank; so does the dashboard of somebody without a manager (`EmployeeDashboard.tsx:572`) |
| `StashIsOriginal` (`Session`) | the administrator's stash is overwritten by a second impersonation, or left behind by logging out (`client.ts:17-20`) |

Some of them, and the violated `ApprovedIsFinal`, hold once requests do not get in
each other's way: `SerialSpec` in `ReportWorkflow`, `OrgTree` and `AdminConsole` is
the specification restricted to such behaviours, with failures and crashes (in
`OrgTree`, without failing queries of a walk).  Under it `ApprovedIsFinal`,
`SubmissionSticks` and `NoReportingLoop` are proved, and so is
`LocksHoldOnRequest`, which says of locks what `LocksHold` says without its
exception for stale saves.  The server has nothing that enforces it; the theorems
say which overlap is to blame.

### Bounds

* Two slots in all but `session_tabs`.  Every disagreement
  found needs two requests, one that reads early and one that writes in between;
  a third adds another stale copy, and the proofs cover any number.
* One report: reports share nothing but the slots.  `report_serial` has a second
  one, so that requests overlap there at all; at most two rows of it are ever
  stored (`SecondIsShort`).  The manager's page has two,
  one of the manager's team and one of somebody else's, which stays a draft
  (`PeerDraftOnly`): it is there to be listed wrongly.
* One or two texts besides the empty one.  The manager's page does not edit texts
  and has no `Fields`.
* `MaxVersions` stops TLC from accumulating histories: a handler starts only while
  fewer rows have been stored.  5 or 6 admits create, submit, revise, edit,
  submit, approve; the 3 of the pages admits draft, saved and submitted, or draft,
  submitted and decided.
* `MaxKeys = 2` changes by the author: one while a save of the other is on its way.
* Three users in the tree, one of them not yet created, so that a loop of two and
  of three can close; two cycles of different weeks, one administrator and one tab,
  where anybody may sign in any number of times.  `NobodyImpersonated` leaves
  impersonations, which touch neither cycles nor pages, to `admin_audit`.
* `Session`: an executive and an employee; two tabs with one call under way
  (what tabs do to each other), and one tab with two (what answers do).  Of the
  views, two that load and one without a title.
* `Notifications`: two pages, rows and local entries bounded by `MaxNotes = 2`,
  lists of `Limit = 1`, so that a list can be full while another row exists.
* `Attachments`: two pages, two files ever created, the author and a colleague who
  may not access the report.

`Slots`, `Tabs` and `Pages` are symmetric where only safety is checked.
`CHECK_DEADLOCK` is left on everywhere.

### Fairness

`ReportEditor`: a timer that is armed fires; the server goes on with a request it
has, or the request fails; an answer or the news that there is none arrives.
JavaScript timers, goroutines and `fetch` give that.  The second timer is strongly
fair, because a slot must be free when it fires and the number of slots is a bound
of the model, not of the server.  The author stops typing after `MaxKeys`
changes; without that nothing settles.  Users are never forced to act.

`OrgTree`: each query of a walk is answered or fails.

`Session`: each call is answered or fails, and React runs the effects of what it
rendered, strongly fair for the same reason as above.

The other modules state no fairness; only safety is checked of them.

## What is proved

For every value of the constants that meets the named assumptions (the sentinels
are no values of the sets they stand outside of, `Role`, `Manager` and `Owner` are
functions, the seeded tree has no loop and names existing managers, cycles have
distinct positions, the reviewer is a manager or the CEO):

* `ReportWorkflow_proofs`: `IInv` is inductive.  It joins the type invariant, that
  a row in the table is among its versions, that every version is consistent, that
  a request about to save holds a copy which means, by its operation, a legal edit
  of a base that was stored (`SavesGrounded`), and that a pending mail is backed by
  a stored version.  The base is what makes it inductive: the row itself may be
  anything by the time of the save.  From it follow `TypeOK`, `RowConsistent`,
  `ApprovedWasSubmitted`, `MailsJustified`, `OnlyStaleSavesAreIllegal`, the
  refinement of `ReportVersions`, and that a request which undoes an approval read
  the report before it (`OnlyOldCopiesUndoApprovals`).
  Where no two requests that are about to save have the same report
  (`SerialSpec`), every one of them holds the row as it is (`Fresh`); then the
  handlers implement `ReportLifecycle` (`SerialRefinement`), for any number of
  slots, and with a single slot without further ado (`SingleSlotRefinement`).
  That approvals are final and submissions stick follows through the refinement,
  by lemmas about the abstract life cycle (`LifecycleIsFinal`).
* `ReportEditor_proofs`: a step of page and server together is a step of the
  handlers or leaves them alone (`EditorObeysServer`), so `IInv` is inherited.
  `EditorInv` adds to it that a call in its slot and the slot's request are in step
  (`CallsInStep`) and that a save on its way is announced by the banner
  (`SavesAnnounced`): without the latter, nothing would say that the render which
  ends a save is also the one that drops the text.  This gives `TypedIsTracked`
  and `CopyWasStored`.  `EditorStepsAreVersions`: page and server together implement
  `ReportVersions`.
* `ManagerDesk_proofs`: the same with `DeskInv`; the conjunct that carries it says
  that a decision being served is what its slot is about to save (`Carries`), and
  that what an answer says was stored, by versions, which only grow (lemma
  `StepGrows`).  This gives `ShownWasStored`, `NotesWereStored` and
  `QueueIsReviewable`, and that the composition implements `ReportWorkflow`;
  what is proved of the handlers alone is therefore true of them with the page
  (`DeskInheritsServer`).
* `OrgTree_proofs`: while nobody interferes, the users a walk has visited form a
  chain above the new manager that leads to where the walk stands and avoids the
  user that moves.  When it ends, the chain leads to the top, so the new edge
  closes nothing (`SafeMoveClosesNoLoop`): a group of users that were all managed
  from within, cut down to the chain, would have been one before.  This gives
  `LoopsNeedInterference`.  The other half: where an undisturbed walk stands, every
  climb from the new manager comes past (`Above`), so what it refuses would have
  closed a loop (`RefusalsAreJustified`).  `WalkAdvances` bounds a walk by the
  number of users, which is why `WalkEnds` holds; and under `SerialSpec` the users
  never form a loop (`TreesStayTrees`): a save whose slot is alone is a save whose
  walk was undisturbed (`AllClean`).
* `AdminConsole_proofs`: a save holds what its operation makes of the row it read,
  and an answer on its way to a page names a cycle and a status that cycle has had
  (`AnswersGrounded`, from `RowsStored`).  This gives `LocksHold` and
  `ShownWasStored`.  `ButtonActsOnShown` needs more (`OneLoad`): up to the second
  sign-in a page waits for at most one load and has no cycle until it is answered,
  so that every click and every answer to one is about that cycle.  Where saves of
  one cycle do not overlap, a save holds the row as it is (`Fresh`), and
  `LocksHoldOnRequest` follows.
  `AuditTellsTheTruth`: whatever `JsonTexts` is, an entry in the log tells of statuses
  that were stored (`AuditIsTruthful`), because an entry is made only of a row that
  was read and a save that succeeded.  PostgreSQL accepts none of the texts, so the
  log of the code as it is holds no entry at all; the theorem is about what would
  be in it with columns that take them.
* `Session_proofs`: `IInv` says of each page and of each call under way that, as
  long as the page is not stale, both belong to the token (`PageOK`, `CallOK`), and
  of the storage that without a stash the token itself leads home (`WayHome`).
  This gives `OwnPage`, `ReturnGoesHome` and `NoReportMeansFailed` for any number
  of tabs and calls.
* `Attachments_proofs`: the id of an upload under way is its own and not in the
  table; the id of any other call has been there (`CallsSound`, `UploadsApart`).
  This gives `RowsHaveFiles`, `FilesAreListed`, `ShownWasStored`, and,
  step by step, the refinement of `AttachmentLife`, whose mapping reads the stage of
  an attachment off its file, its row and whether it was removed; that removals are
  final is inherited from it.
  `BusyMeansUploading` is inductive with the type invariant alone.
* `Notifications_proofs`: `IInv` says of each list shown or on its way
  (`EntriesOK`) that its entries were made, that what it shows as read is, and that
  an insert whose answer is still on its way is in it only if noted as doubled; of
  each call (`CallOK`) that its answer agrees with the table; and that inserts on
  their way have different rows (`InsertsApart`).  Without the clause on inserts,
  the answer that puts a row on top could not know whether the list has it.  This
  gives `ClearedComeBackRead`, `ReadMeansStored` and `DoublesExplained`.

The invariants are checked by TLC too where they are properties of a run.  Only
model-checked: liveness (`TypingSettles`, `WalkEnds`, `LoadingEnds`), for which the
provers have no rule that discharges fairness.  The violated properties are
counterexamples, which need no proof.

## What is not modelled

* Reports composed with cycles: no handler of a report looks at the cycle's
  status, so the composition would be a product without a common variable.
  Reports composed with moving managers: a reviewer's authority is checked when
  the request reads (`handler.go:253`) and may be gone when it saves; managers are
  constants in `ReportWorkflow`.
* Metrics and export: handlers that read several tables and change nothing.
* The remarks one meant for one report and sent for another (`ManagerDesk` has the
  steps; what somebody meant is nowhere in the state), and the rollup text, which
  no request carries.
* A list of reports or notifications that `App` keeps when somebody else signs in
  on the same page without loading it: `ManagerDesk` and `Notifications` have one
  person per page.  `AdminConsole` has such sign-ins, for the cycle.
* The history and audit views: they show what they are given, and the header lets
  neither be displayed.  `data.ts` is demo data that nothing imports.
* Passwords and signatures, the texts of mails, layout, startup and seeding.  The
  token cache is never written by the server.

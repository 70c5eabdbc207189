------------------------ MODULE AdminConsole_proofs ------------------------
(***************************************************************************)
(* Proofs about AdminConsole, for every set of cycles, administrators and  *)
(* pages and every number of overlapping requests.                         *)
(***************************************************************************)
EXTENDS AdminConsole, TLAPS

Requests == {Idle} \cup Saves \cup Audits \cup Loads \cup Answers

LEMMA Kinds ==
  ASSUME NEW q \in Requests
  PROVE  /\ q.pc = "save" => q \in Saves
         /\ q.pc = "audit" => q \in Audits
         /\ q.pc = "load" => q \in Loads
         /\ q.pc = "answer" => q \in Answers
         /\ q = Idle => q.pc = "idle"
         /\ q.pc \in {"idle", "save", "audit", "load", "answer"}
BY DEF Requests, Idle, Saves, Audits, Loads, Answers

(* What the invariant says of one request. *)
Sound(q) ==
  /\ q \in Requests
  /\ q.pc = "save" => q.new = Changed(q.op, q.base, q.body)
  /\ q.pc = "audit" /\ q.to # None => /\ q.entry.entity \in Cycles
                                     /\ q.entry.new \in stored[q.entry.entity]
  /\ q.pc = "answer" /\ q.status # Error => /\ q.cycle \in Cycles
                                           /\ q.status \in stored[q.cycle]

Tables == /\ cycles \in [Cycles -> Row \cup {NoRow}]
          /\ log \subseteq Entries
          /\ granted \subseteq Admins \X People
          /\ page \in [Pages -> Page]
          /\ stored \in [Cycles -> SUBSET Statuses]
          /\ RowsStored
          /\ ShownWasStored

LEMMA Parts ==
  IInv <=> Tables /\ req \in [Slots -> Requests] /\ \A s \in Slots : Sound(req[s])
BY DEF IInv, TypeOK, SavesGrounded, AnswersGrounded, Tables, Sound, Requests

(* More stored statuses: a request stays sound. *)
Grows == /\ stored \in [Cycles -> SUBSET Statuses]
         /\ \A c \in Cycles : stored[c] \subseteq stored'[c]

LEMMA SoundForever ==
  ASSUME NEW q, Sound(q), Grows
  PROVE  Sound(q)'
BY DEF Sound, Grows

(* A step of one request: its slot holds something sound afterwards, the  *)
(* tables are well typed and only grow.                                    *)
LEMMA SlotStep ==
  ASSUME IInv, NEW s \in Slots, \A t \in Slots \ {s} : req'[t] = req[t],
         req' \in [Slots -> Requests], Sound(req[s])', Grows, Tables'
  PROVE  IInv'
<1>1. \A t \in Slots : Sound(req[t])
  BY Parts
<1>2. \A t \in Slots : Sound(req[t])'
  <2> TAKE t \in Slots
  <2>1. CASE t = s
    BY <2>1
  <2>2. CASE t # s
    <3>1. ASSUME NEW r, r = req[t] PROVE Sound(r)'
      BY <1>1, <3>1, SoundForever
    <3> QED BY <2>2, <3>1
  <2> QED BY <2>1, <2>2
<1> QED BY <1>2, Parts DEF IInv, TypeOK, SavesGrounded, AnswersGrounded,
           Tables, Sound, Requests

LEMMA Nobody == None \notin Pages
BY NoneAssumption

(* The request of slot s becomes q and nothing else changes. *)
LEMMA LocalStep ==
  ASSUME IInv, NEW s \in Slots, NEW q \in Requests, Become(s, q), Sound(q),
         UNCHANGED <<cycles, page, stored>>,
         log' \subseteq Entries, granted' \subseteq Admins \X People
  PROVE  IInv'
<1>1. Tables /\ req \in [Slots -> Requests]
  BY Parts
<1>2. /\ req' \in [Slots -> Requests]
      /\ req'[s] = q
      /\ \A t \in Slots \ {s} : req'[t] = req[t]
  BY <1>1 DEF Become
<1>3. Grows /\ Tables'
  BY <1>1 DEF Grows, Tables, RowsStored, ShownWasStored
<1>4. Sound(req[s])'
  BY <1>2, <1>3, SoundForever
<1> QED BY <1>2, <1>3, <1>4, SlotStep

(* A row is written and the request of slot s becomes q. *)
LEMMA WriteStep ==
  ASSUME IInv, NEW s \in Slots, NEW c \in Cycles, NEW row \in Row, Write(c, row),
         UNCHANGED <<log, granted, page>>, NEW q \in Requests, Become(s, q), Sound(q)'
  PROVE  IInv'
<1>1. Tables /\ req \in [Slots -> Requests]
  BY Parts
<1>2. /\ req' \in [Slots -> Requests]
      /\ req'[s] = q
      /\ \A t \in Slots \ {s} : req'[t] = req[t]
  BY <1>1 DEF Become
<1>3. Grows
  BY <1>1 DEF Grows, Tables, Write
<1>4. RowsStored' /\ cycles' \in [Cycles -> Row \cup {NoRow}]
      /\ stored' \in [Cycles -> SUBSET Statuses]
  BY <1>1 DEF Tables, RowsStored, Write, Row
<1>6. ShownWasStored'
  <2> SUFFICES ASSUME NEW p \in Pages
               PROVE  /\ page[p].locked => /\ page[p].shown # None
                                           /\ "LOCKED" \in stored'[page[p].shown]
                      /\ page[p].shown # None /\ ~ page[p].locked =>
                           stored'[page[p].shown] \ {"LOCKED"} # {}
    BY DEF ShownWasStored
  <2>1. page[p].shown \in Cycles \cup {None}
    BY <1>1 DEF Tables, Page
  <2> QED BY <1>1, <1>3, <2>1 DEF Tables, ShownWasStored, Grows
<1>7. Tables'
  BY <1>1, <1>4, <1>6 DEF Tables
<1>5. Sound(req[s])'
  BY <1>2
<1> QED BY <1>2, <1>3, <1>7, <1>5, SlotStep

LEMMA CreateStep ==
  ASSUME IInv, NEW s \in Slots, NEW u \in Admins, NEW c \in Cycles,
         NEW deadline \in Deadlines, Create(s, u, c, deadline)
  PROVE  IInv'
<1> DEFINE q == [pc |-> "audit", to |-> None,
                 entry |-> [actor |-> u, action |-> "create", entity |-> c,
                            old |-> "", new |-> "OPEN"]]
<1>1. q \in Requests /\ q.pc = "audit"
  BY DEF Requests, Audits, Entries, States, Statuses
<1>2. Sound(q)'
  BY <1>1 DEF Sound
<1>3. [status |-> "OPEN", deadline |-> deadline] \in Row
  BY DEF Row, Statuses
<1> QED BY <1>1, <1>2, <1>3, WriteStep DEF Create, Record

LEMMA CreateFailsStep ==
  ASSUME IInv, NEW s \in Slots, NEW u \in Admins, NEW c \in Cycles,
         NEW deadline \in Deadlines, CreateFails(s, u, c, deadline)
  PROVE  IInv'
<1>1. [status |-> "OPEN", deadline |-> deadline] \in Row
  BY DEF Row, Statuses
<1>2. Become(s, Idle) /\ Idle \in Requests
  BY Parts DEF CreateFails, Become, Requests
<1>3. Sound(Idle)'
  BY DEF Sound, Requests, Idle
<1> QED BY <1>1, <1>2, <1>3, WriteStep DEF CreateFails

LEMMA ChangedIsRow ==
  ASSUME NEW op \in Ops, NEW row \in Row, NEW body \in Bodies
  PROVE  Changed(op, row, body) \in Row
BY NoneAssumption DEF Changed, Unless, Row, Bodies, Statuses, Ops

(* The read of Update, Lock and Unlock, by a page or by another caller. *)
LEMMA ReadStep ==
  ASSUME IInv, NEW s \in Slots, NEW op \in Ops, NEW u \in Admins, NEW c \in Cycles,
         NEW body \in Bodies, NEW to \in Pages \cup {None},
         Read(s, op, u, c, body, to)
  PROVE  IInv'
<1> DEFINE q == [pc |-> "save", op |-> op, by |-> u, cycle |-> c, base |-> cycles[c],
                 body |-> body, new |-> Changed(op, cycles[c], body), to |-> to]
<1>1. Tables /\ cycles[c] \in Row
  BY Parts DEF Tables, Read
<1>2. ASSUME NEW r, r = q PROVE r \in Requests /\ Sound(r) /\ Become(s, r)
  <2>1. Changed(op, cycles[c], body) \in Row
    BY <1>1, ChangedIsRow
  <2>2. r \in Saves
    BY <1>1, <1>2, <2>1 DEF Saves
  <2> QED BY <1>2, <2>2 DEF Sound, Requests, Read, Saves
<1> QED BY <1>1, <1>2, LocalStep DEF Read, Tables


LEMMA SaveStep ==
  ASSUME IInv, NEW s \in Slots, Save(s)
  PROVE  IInv'
<1> DEFINE q == [pc |-> "audit", to |-> req[s].to,
                 entry |-> [actor |-> req[s].by, action |-> req[s].op,
                            entity |-> req[s].cycle, old |-> req[s].base.status,
                            new |-> req[s].new.status]]
<1>1. Tables /\ req[s] \in Saves
  BY Parts, Kinds DEF Save, Sound
<1>2. ASSUME NEW r, r = q PROVE r \in Requests /\ Become(s, r)
  BY <1>1, <1>2 DEF Save, Record, Requests, Saves, Audits, Entries, States, Row
<1>3. req[s].new.status \in stored'[req[s].cycle]
  BY <1>1 DEF Save, Write, Tables, Saves, Row
<1>4. ASSUME NEW r, r = q PROVE Sound(r)'
  BY <1>1, <1>2, <1>3, <1>4 DEF Sound, Saves
<1>5. req[s].cycle \in Cycles /\ req[s].new \in Row
  BY <1>1 DEF Saves
<1> QED BY <1>2, <1>4, <1>5, WriteStep DEF Save

(* What a page is told, or nothing if no page waits. *)
LEMMA ToldIsSound ==
  ASSUME NEW to \in Pages \cup {None}, NEW call \in {"current", "change"},
         NEW c \in Cycles \cup {None}, NEW status \in Statuses \cup {Error},
         status # Error => c \in Cycles /\ status \in stored[c]
  PROVE  Told(to, call, c, status) \in Requests /\ Sound(Told(to, call, c, status))
<1>1. CASE to = None
  BY <1>1 DEF Told, Sound, Requests, Idle
<1>2. CASE to \in Pages
  <2>1. Told(to, call, c, status) =
          [pc |-> "answer", call |-> call, cycle |-> c, status |-> status, to |-> to]
    BY <1>2, Nobody DEF Told
  <2>2. Told(to, call, c, status) \in Answers
    BY <1>2, <2>1 DEF Answers
  <2> QED BY <2>1, <2>2 DEF Sound, Requests
<1> QED BY <1>1, <1>2

(* A slot that answers, and nothing else but the log changes. *)
LEMMA TellStep ==
  ASSUME IInv, NEW s \in Slots,
         NEW to \in Pages \cup {None}, NEW call \in {"current", "change"},
         NEW c \in Cycles \cup {None}, NEW status \in Statuses \cup {Error},
         status # Error => c \in Cycles /\ status \in stored[c],
         Answer(s, to, call, c, status), UNCHANGED <<cycles, page, stored>>,
         log' \subseteq Entries, granted' \subseteq Admins \X People
  PROVE  IInv'
<1> DEFINE q == Told(to, call, c, status)
<1>1. q \in Requests /\ Sound(q) /\ Become(s, q)
  BY ToldIsSound DEF Answer
<1> HIDE DEF q
<1> QED BY <1>1, LocalStep

LEMMA SaveFailsStep ==
  ASSUME IInv, NEW s \in Slots, SaveFails(s)
  PROVE  IInv'
<1>1. Tables /\ req[s] \in Saves
  BY Parts, Kinds DEF SaveFails, Sound
<1>2. req[s].to \in Pages \cup {None} /\ req[s].cycle \in Cycles /\ req[s].new \in Row
  BY <1>1 DEF Saves
<1>3. CASE UNCHANGED <<cycles, stored>>
  BY <1>1, <1>2, <1>3, TellStep DEF SaveFails, Tables
<1>4. CASE Write(req[s].cycle, req[s].new)
  <2>1. PICK q : q \in Requests /\ Sound(q) /\ Become(s, q)
    BY <1>2, ToldIsSound DEF SaveFails, Answer
  <2>2. Grows /\ UNCHANGED <<log, granted, page>>
    BY <1>1, <1>2, <1>4 DEF Grows, Tables, Write, SaveFails
  <2>3. Sound(q)'
    BY <2>1, <2>2, SoundForever
  <2> QED BY <1>2, <1>4, <2>1, <2>2, <2>3, WriteStep
<1> QED BY <1>3, <1>4 DEF SaveFails

LEMMA ImpersonateStep ==
  ASSUME IInv, NEW s \in Slots, NEW u \in Admins, NEW target \in People,
         Impersonate(s, u, target)
  PROVE  IInv'
<1> DEFINE q == [pc |-> "audit", to |-> None,
                 entry |-> [actor |-> u, action |-> "impersonate", entity |-> target,
                            old |-> "", new |-> ""]]
<1>1. q \in Requests /\ Sound(q)
  BY DEF Requests, Audits, Entries, States, Sound
<1>2. Tables
  BY Parts
<1> QED BY <1>1, <1>2, LocalStep DEF Impersonate, Record, Tables

LEMMA AuditTables ==
  ASSUME Tables, NEW s \in Slots, req[s] \in Audits, Audit(s)
  PROVE  log' \subseteq Entries /\ granted' \subseteq Admins \X People
<1> DEFINE e == req[s].entry
<1>1. e \in Entries
  BY DEF Audits
<1>2. log' \subseteq Entries
  BY <1>1 DEF Audit, Tables
<1>3. CASE e.action = "impersonate"
  <2>1. e.actor \in Admins /\ e.entity \in People
    BY <1>1, <1>3 DEF Entries, Ops
  <2>2. granted' = granted \cup {<<e.actor, e.entity>>}
    BY <1>3 DEF Audit
  <2> QED BY <1>2, <2>1, <2>2 DEF Tables
<1>4. CASE e.action # "impersonate"
  BY <1>2, <1>4 DEF Audit, Tables
<1> QED BY <1>3, <1>4

LEMMA AuditStep ==
  ASSUME IInv, NEW s \in Slots, Audit(s)
  PROVE  IInv'
<1> DEFINE e == req[s].entry
<1>1. /\ Tables
      /\ req[s] \in Audits
      /\ req[s].to # None => e.entity \in Cycles /\ e.new \in stored[e.entity]
  BY Parts, Kinds DEF Audit, Sound
<1>2. log' \subseteq Entries /\ granted' \subseteq Admins \X People
  BY <1>1, AuditTables
<1>3. CASE req[s].to = None
  <2>1. Idle \in Requests /\ Sound(Idle) /\ Become(s, Idle)
    BY <1>3 DEF Audit, Answer, Told, Requests, Sound, Idle
  <2> QED BY <1>2, <2>1, LocalStep DEF Audit
<1>4. CASE req[s].to \in Pages
  <2>1. e.entity \in Cycles /\ e.new \in Statuses /\ e.new \in stored[e.entity]
    BY <1>1, <1>4, Nobody DEF Tables
  <2> QED BY <1>2, <1>4, <2>1, TellStep DEF Audit
<1> QED BY <1>1, <1>3, <1>4 DEF Audits

(* GET /cycles/current tells of a row that is in the table. *)
LEMMA CurrentStep ==
  ASSUME IInv, NEW s \in Slots, GetCurrent(s) \/ GetCurrentFails(s)
  PROVE  IInv'
<1>1. Tables /\ req[s] \in Loads
  BY Parts, Kinds DEF GetCurrent, GetCurrentFails
<1>2. req[s].to \in Pages \cup {None} /\ log \subseteq Entries /\ granted \subseteq Admins \X People
  BY <1>1 DEF Loads, Tables
<1>3. CASE GetCurrent(s)
  <2>1. PICK c \in OpenCycles : Answer(s, req[s].to, "current", c, "OPEN")
    BY <1>3 DEF GetCurrent
  <2>2. c \in Cycles /\ "OPEN" \in Statuses /\ "OPEN" \in stored[c]
    BY <1>1 DEF OpenCycles, Statuses, Tables, RowsStored
  <2> QED BY <1>2, <1>3, <2>1, <2>2, TellStep DEF GetCurrent
<1>4. CASE GetCurrentFails(s)
  BY <1>2, <1>4, TellStep DEF GetCurrentFails
<1> QED BY <1>3, <1>4

LEMMA LoseAnswerStep ==
  ASSUME IInv, NEW s \in Slots, LoseAnswer(s)
  PROVE  IInv'
<1>1. Tables /\ req[s] \in Answers
  BY Parts, Kinds DEF LoseAnswer
<1> QED BY <1>1, TellStep DEF LoseAnswer, Answers, Tables

(* The answer reaches the page: what it shows then has been stored. *)
LEMMA DeliverStep ==
  ASSUME IInv, NEW s \in Slots, Deliver(s)
  PROVE  IInv'
<1> DEFINE p == req[s].to
           view == After(page[p], req[s])
<1>1. /\ Tables
      /\ req \in [Slots -> Requests]
      /\ req[s] \in Answers
      /\ req[s].status # Error => /\ req[s].cycle \in Cycles
                                 /\ req[s].status \in stored[req[s].cycle]
  BY Parts, Kinds DEF Deliver, Sound
<1>2. p \in Pages /\ page[p] \in Page
  BY <1>1 DEF Answers, Tables
<1>3. view \in Page
  <2>1. CASE req[s].status # Error
    BY <1>1, <1>2, <2>1 DEF After, Page, Answers
  <2>2. CASE req[s].status = Error
    BY <1>1, <1>2, <2>2 DEF After, Page, Answers
  <2> QED BY <2>1, <2>2
<1>4. /\ view.locked => view.shown # None /\ "LOCKED" \in stored[view.shown]
      /\ view.shown # None /\ ~ view.locked => stored[view.shown] \ {"LOCKED"} # {}
  <2>1. CASE req[s].status # Error
    <3>1. view.shown = req[s].cycle /\ view.locked = (req[s].status = "LOCKED")
      BY <1>2, <2>1 DEF After, Page
    <3> QED BY <1>1, <2>1, <3>1, NoneAssumption
  <2>2. CASE req[s].status = Error /\ req[s].call = "current"
    <3>1. view.shown = None /\ ~ view.locked
      BY <1>2, <2>2 DEF After, Page
    <3> QED BY <3>1
  <2>3. CASE req[s].status = Error /\ req[s].call # "current"
    BY <1>1, <1>2, <2>3 DEF After, Tables, ShownWasStored
  <2> QED BY <2>1, <2>2, <2>3
<1>5. /\ page' \in [Pages -> Page]
      /\ page'[p] = view
      /\ \A other \in Pages \ {p} : page'[other] = page[other]
  BY <1>1, <1>2, <1>3 DEF Deliver, Tables
<1> HIDE DEF view
<1>6. Tables'
  BY <1>1, <1>2, <1>4, <1>5 DEF Deliver, Tables, RowsStored, ShownWasStored
<1>7. /\ Grows
      /\ req' \in [Slots -> Requests]
      /\ \A t \in Slots \ {s} : req'[t] = req[t]
      /\ req'[s] = Idle
  BY <1>1 DEF Deliver, Become, Requests, Grows, Tables
<1>8. Sound(req[s])'
  BY <1>7 DEF Sound, Requests, Idle
<1> QED BY <1>6, <1>7, <1>8, SlotStep

(* A page that is loaded anew has no answer to wait for, and shows nothing. *)
LEMMA ReloadStep ==
  ASSUME IInv, NEW p \in Pages, Reload(p)
  PROVE  IInv'
<1>1. Tables /\ req \in [Slots -> Requests] /\ \A s \in Slots : Sound(req[s])
  BY Parts
<1>2. NewPage \in Page /\ ~ NewPage.locked /\ NewPage.shown = None
  BY DEF NewPage, Page
<1>3. /\ page' \in [Pages -> Page]
      /\ \A other \in Pages : page'[other] = IF other = p THEN NewPage ELSE page[other]
  BY <1>1, <1>2 DEF Tables, Reload
<1>4. Tables'
  BY <1>1, <1>2, <1>3 DEF Tables, Reload, RowsStored, ShownWasStored
<1>5. ASSUME NEW s \in Slots PROVE Sound(req[s])'
  <2>1. Sound(req[s]) /\ req[s] \in Requests /\ Grows
    BY <1>1 DEF Reload, Grows, Tables
  <2>2. CASE req[s].pc \in {"load", "answer"} /\ req[s].to = p
    <3>1. req'[s] = Idle
      BY <2>2 DEF Reload, Forget
    <3> QED BY <3>1 DEF Sound, Requests, Idle
  <2>3. CASE req[s].pc = "save" /\ req[s].to = p
    <3>1. req'[s] = [req[s] EXCEPT !.to = None] /\ req[s] \in Saves
      BY <2>1, <2>3, Kinds DEF Reload, Forget
    <3> QED BY <2>1, <3>1 DEF Sound, Requests, Saves
  <2>4. CASE req[s].pc = "audit" /\ req[s].to = p
    <3>1. req'[s] = [req[s] EXCEPT !.to = None] /\ req[s] \in Audits
      BY <2>1, <2>4, Kinds DEF Reload, Forget
    <3> QED BY <2>1, <3>1 DEF Sound, Requests, Audits
  <2>5. CASE ~ (req[s].pc \in {"load", "save", "audit", "answer"} /\ req[s].to = p)
    <3>1. req'[s] = req[s]
      BY <2>5 DEF Reload, Forget
    <3> QED BY <2>1, <3>1, SoundForever DEF Sound, Grows
  <2> QED BY <2>2, <2>3, <2>4, <2>5
<1>6. req' \in [Slots -> Requests]
  BY <1>5 DEF Reload, Forget, Sound
<1> QED BY <1>4, <1>5, <1>6, Parts DEF IInv, TypeOK, SavesGrounded, AnswersGrounded,
           Tables, Sound, Requests

(* Signing in and out leave alone what the page shows. *)
LEMMA SignedView ==
  ASSUME NEW view \in Page
  PROVE  /\ Signed(view) \in Page
         /\ Signed(view).shown = view.shown
         /\ Signed(view).locked = view.locked
         /\ Signed(view).cycleId = view.cycleId
         /\ Signed(view).logins = IF view.logins = 0 THEN 1 ELSE 2
<1> DEFINE n == IF view.logins = 0 THEN 1 ELSE 2
<1>1. n \in 0 .. 2
  OBVIOUS
<1>2. Signed(view) = [view EXCEPT !.signed = TRUE, !.logins = n]
  BY Zenon DEF Signed
<1> HIDE DEF n
<1>3. /\ Signed(view) \in Page
      /\ Signed(view).shown = view.shown
      /\ Signed(view).locked = view.locked
      /\ Signed(view).cycleId = view.cycleId
      /\ Signed(view).logins = n
  BY <1>1, <1>2 DEF Page
<1> QED BY <1>3 DEF n

LEMMA SignInStep ==
  ASSUME IInv, NEW p \in Pages, NEW s \in Slots, SignIn(p, s)
  PROVE  IInv'
<1>1. Tables /\ req \in [Slots -> Requests]
  BY Parts
<1>3. /\ Signed(page[p]) \in Page
      /\ Signed(page[p]).shown = page[p].shown
      /\ Signed(page[p]).locked = page[p].locked
  BY <1>1, SignedView DEF Tables
<1>4. /\ page' \in [Pages -> Page]
      /\ \A other \in Pages : /\ page'[other].shown = page[other].shown
                              /\ page'[other].locked = page[other].locked
  <2>1. \A other \in Pages : page'[other] = IF other = p THEN Signed(page[p]) ELSE page[other]
    BY <1>1 DEF SignIn, Tables
  <2> QED BY <1>1, <1>3, <2>1 DEF SignIn, Tables
<1>8. Tables'
  BY <1>1, <1>4 DEF SignIn, Tables, RowsStored, ShownWasStored
<1>5. [pc |-> "load", to |-> p] \in Requests
  BY DEF Requests, Loads
<1>6. /\ Grows
      /\ req' \in [Slots -> Requests]
      /\ \A t \in Slots \ {s} : req'[t] = req[t]
      /\ req'[s] = [pc |-> "load", to |-> p]
  BY <1>1, <1>5 DEF SignIn, Become, Grows, Tables
<1>7. Sound(req[s])'
  BY <1>5, <1>6 DEF Sound
<1> QED BY <1>6, <1>7, <1>8, SlotStep

LEMMA SignOutStep ==
  ASSUME IInv, NEW p \in Pages, SignOut(p)
  PROVE  IInv'
<1>1. Tables /\ req \in [Slots -> Requests] /\ \A s \in Slots : Sound(req[s])
  BY Parts
<1>2. page' \in [Pages -> Page]
  BY <1>1 DEF Tables, Page, SignOut
<1>3. \A other \in Pages : /\ page'[other].shown = page[other].shown
                          /\ page'[other].locked = page[other].locked
  BY <1>1 DEF Tables, Page, SignOut
<1>4. Tables'
  BY <1>1, <1>2, <1>3 DEF Tables, SignOut, RowsStored, ShownWasStored
<1>5. \A s \in Slots : Sound(req[s])'
  BY <1>1 DEF SignOut, Sound
<1> QED BY <1>1, <1>4, <1>5, Parts DEF SignOut, IInv, TypeOK, SavesGrounded, AnswersGrounded,
           Tables, Sound, Requests

LEMMA CrashStep ==
  ASSUME IInv, Crash
  PROVE  IInv'
<1>1. Tables /\ req \in [Slots -> Requests] /\ \A s \in Slots : Sound(req[s])
  BY Parts
<1>2. Tables'
  BY <1>1 DEF Crash, Tables, RowsStored, ShownWasStored
<1>3. ASSUME NEW s \in Slots PROVE Sound(req[s])'
  <2>1. Sound(req[s]) /\ req[s] \in Requests /\ Grows
    BY <1>1 DEF Crash, Grows, Tables
  <2>2. CASE req[s].pc = "load"
    <3>1. req'[s] = Told(req[s].to, "current", None, Error) /\ req[s].to \in Pages \cup {None}
      BY <2>1, <2>2, Kinds DEF Crash, Loads
    <3>2. ASSUME NEW r, r = Told(req[s].to, "current", None, Error) PROVE Sound(r)'
      BY <2>1, <3>1, <3>2, ToldIsSound, SoundForever
    <3> QED BY <3>1, <3>2
  <2>3. CASE req[s].pc \in {"save", "audit"}
    <3>1. req'[s] = Told(req[s].to, "change", None, Error) /\ req[s].to \in Pages \cup {None}
      BY <2>1, <2>3, Kinds DEF Crash, Saves, Audits
    <3>2. ASSUME NEW r, r = Told(req[s].to, "change", None, Error) PROVE Sound(r)'
      BY <2>1, <3>1, <3>2, ToldIsSound, SoundForever
    <3> QED BY <3>1, <3>2
  <2>4. CASE req[s].pc \notin {"load", "save", "audit"}
    BY <2>1, <2>4, SoundForever DEF Crash, Sound, Grows
  <2> QED BY <2>2, <2>3, <2>4
<1>4. req' \in [Slots -> Requests]
  BY <1>3 DEF Crash, Sound
<1> QED BY <1>2, <1>3, <1>4, Parts DEF IInv, TypeOK, SavesGrounded, AnswersGrounded,
           Tables, Sound, Requests

-----------------------------------------------------------------------------
LEMMA InitIInv ==
  ASSUME Init PROVE IInv
<1>1. NewPage \in Page /\ ~ NewPage.locked /\ NewPage.shown = None
  BY DEF NewPage, Page
<1> QED BY <1>1 DEF Init, IInv, TypeOK, RowsStored, SavesGrounded, AnswersGrounded,
           ShownWasStored, Idle

LEMMA NextIInv ==
  ASSUME IInv, [Next]_vars
  PROVE  IInv'
<1>1. CASE UNCHANGED vars
  BY <1>1 DEF vars, IInv, TypeOK, RowsStored, SavesGrounded, AnswersGrounded, ShownWasStored
<1>2. ASSUME NEW s \in Slots, NEW u \in Admins, NEW c \in Cycles,
             NEW deadline \in Deadlines,
             Create(s, u, c, deadline) \/ CreateFails(s, u, c, deadline)
      PROVE  IInv'
  BY <1>2, CreateStep, CreateFailsStep
<1>3. ASSUME NEW s \in Slots, NEW u \in Admins, NEW c \in Cycles, NEW body \in Bodies,
             ReadForUpdate(s, u, c, body)
      PROVE  IInv'
  BY <1>3, ReadStep DEF ReadForUpdate, Ops
<1>4. NoBody \in Bodies
  BY DEF NoBody, Bodies
<1>5. ASSUME NEW s \in Slots, NEW u \in Admins, NEW c \in Cycles,
             ReadForLock(s, u, c) \/ ReadForUnlock(s, u, c)
      PROVE  IInv'
  BY <1>4, <1>5, ReadStep DEF ReadForLock, ReadForUnlock, Ops
<1>6. ASSUME NEW s \in Slots, NEW u \in Admins, NEW target \in People,
             Impersonate(s, u, target)
      PROVE  IInv'
  BY <1>6, ImpersonateStep
<1>7. ASSUME NEW s \in Slots, \/ Save(s) \/ SaveFails(s) \/ Audit(s)
                              \/ GetCurrent(s) \/ GetCurrentFails(s)
                              \/ Deliver(s) \/ LoseAnswer(s)
      PROVE  IInv'
  BY <1>7, SaveStep, SaveFailsStep, AuditStep, CurrentStep, DeliverStep, LoseAnswerStep
<1>8. ASSUME NEW p \in Pages, Reload(p) \/ SignOut(p) \/ \E s \in Slots : SignIn(p, s)
      PROVE  IInv'
  BY <1>8, ReloadStep, SignOutStep, SignInStep
<1>9. ASSUME NEW p \in Pages, NEW s \in Slots, NEW u \in Admins, Click(p, s, u) PROVE IInv'
  <2>1. page[p].cycleId \in Cycles
    BY <1>9, Parts DEF Click, Tables, Page
  <2> QED BY <1>4, <1>9, <2>1, ReadStep DEF Click, Ops
<1> QED BY <1>1, <1>2, <1>3, <1>5, <1>6, <1>7, <1>8, <1>9, CrashStep DEF Next

(* The invariant holds in every reachable state, however many requests and *)
(* pages there are.                                                        *)
THEOREM Invariance == Spec => []IInv
BY InitIInv, NextIInv, PTL DEF Spec

(* Every variable keeps its type. *)
THEOREM TypeCorrect == Spec => []TypeOK
<1>1. IInv => TypeOK
  BY DEF IInv
<1> QED BY <1>1, Invariance, PTL

(* A page that shows a locked window shows it of a cycle that has been      *)
(* locked, and an open one of a cycle that has been open: failed saves, lost *)
(* and late answers, second clicks, reloads and sign-ins make nothing up.    *)
THEOREM PagesShowStoredLocks == Spec => []ShownWasStored
<1>1. IInv => ShownWasStored
  BY DEF IInv
<1> QED BY <1>1, Invariance, PTL

-----------------------------------------------------------------------------
(* The button.  What is to be kept of one page, and what a request may     *)
(* become without disturbing it.                                           *)
ButtonOf(p) == page[p].logins < 2 =>
  /\ page[p].cycleId = page[p].shown
  /\ page[p].logins = 0 => page[p].cycleId = None /\ ~ page[p].signed
  /\ \A s \in Slots :
       /\ About(req[s], p, page[p].cycleId)
       /\ Loading(req[s], p) =>
            /\ page[p].logins = 1
            /\ page[p].cycleId = None
            /\ \A t \in Slots \ {s} : ~ Loading(req[t], p)

LEMMA ButtonParts ==
  ButtonActsOnShown /\ OneLoad <=> \A p \in Pages : ButtonOf(p)
BY DEF ButtonActsOnShown, OneLoad, ButtonOf

LEMMA QuietStep ==
  ASSUME NEW p \in Pages, ButtonOf(p),
         page'[p].logins = page[p].logins,
         page'[p].cycleId = page[p].cycleId,
         page'[p].shown = page[p].shown,
         page'[p].signed => page[p].signed,
         \A t \in Slots : /\ Loading(req'[t], p) => Loading(req[t], p)
                          /\ \/ About(req'[t], p, page[p].cycleId)
                             \/ \A c : About(req[t], p, c) => About(req'[t], p, c)
  PROVE  ButtonOf(p)'
BY DEF ButtonOf

(* One slot changes, the pages do not. *)
LEMMA QuietSlot ==
  ASSUME IInv, NEW p \in Pages, ButtonOf(p), page'[p] = page[p],
         NEW s \in Slots, NEW q, Become(s, q),
         Loading(q, p) => Loading(req[s], p),
         \/ About(q, p, page[p].cycleId)
         \/ \A c : About(req[s], p, c) => About(q, p, c)
  PROVE  ButtonOf(p)'
<1>1. \A t \in Slots : req'[t] = IF t = s THEN q ELSE req[t]
  BY Parts DEF Become
<1> QED BY <1>1, QuietStep

(* A failure tells nothing of any cycle, and ends no load but its own. *)
LEMMA ToldFails ==
  ASSUME NEW p \in Pages, NEW to, NEW call
  PROVE  /\ \A c : About(Told(to, call, None, Error), p, c)
         /\ Loading(Told(to, call, None, Error), p) => call = "current" /\ to = p
BY DEF Told, About, Loading, Idle

LEMMA ButtonReads ==
  ASSUME IInv, NEW p \in Pages, ButtonOf(p), NEW s \in Slots, NEW op, NEW u, NEW c, NEW body,
         NEW to, to = p => c = page[p].cycleId, Read(s, op, u, c, body, to)
  PROVE  ButtonOf(p)'
BY QuietSlot DEF Read, About, Loading

LEMMA ButtonChanges ==
  ASSUME IInv, NEW p \in Pages, ButtonOf(p), NEW s \in Slots,
         Save(s) \/ SaveFails(s) \/ Audit(s)
  PROVE  ButtonOf(p)'
<1>1. CASE Save(s)
  <2>1. PICK q : /\ Become(s, q) /\ q.pc = "audit" /\ q.to = req[s].to
                 /\ q.entry.entity = req[s].cycle
    BY <1>1 DEF Save, Record
  <2>2. page' = page /\ req[s].pc = "save"
    BY <1>1 DEF Save
  <2> QED BY <2>1, <2>2, QuietSlot DEF About, Loading
<1>2. CASE SaveFails(s)
  <2>1. PICK q : Become(s, q) /\ q = Told(req[s].to, "change", None, Error)
    BY <1>2 DEF SaveFails, Answer
  <2>2. page' = page
    BY <1>2 DEF SaveFails
  <2> QED BY <2>1, <2>2, ToldFails, QuietSlot
<1>3. CASE Audit(s)
  <2> DEFINE e == req[s].entry
  <2>1. PICK q : Become(s, q) /\ q = Told(req[s].to, "change", e.entity, e.new)
    BY <1>3 DEF Audit, Answer
  <2>2. page' = page /\ req[s].pc = "audit"
    BY <1>3 DEF Audit
  <2>3. ~ Loading(q, p)
    BY <2>1 DEF Told, Loading, Idle
  <2>4. \A c : About(req[s], p, c) => About(q, p, c)
    BY <2>1, <2>2 DEF Told, About, Idle
  <2> QED BY <2>1, <2>2, <2>3, <2>4, QuietSlot
<1> QED BY <1>1, <1>2, <1>3

LEMMA ButtonLoads ==
  ASSUME IInv, NEW p \in Pages, ButtonOf(p), NEW s \in Slots,
         GetCurrent(s) \/ GetCurrentFails(s) \/ LoseAnswer(s)
  PROVE  ButtonOf(p)'
<1>1. page' = page
  BY DEF GetCurrent, GetCurrentFails, LoseAnswer
<1>2. CASE GetCurrent(s)
  <2>1. PICK q, c : Become(s, q) /\ q = Told(req[s].to, "current", c, "OPEN")
    BY <1>2 DEF GetCurrent, Answer
  <2>2. req[s].pc = "load"
    BY <1>2 DEF GetCurrent
  <2> QED BY <1>1, <2>1, <2>2, QuietSlot DEF Told, About, Loading, Idle
<1>3. ASSUME NEW call, Answer(s, req[s].to, call, None, Error),
             \/ req[s].pc = "load" /\ call = "current"
             \/ req[s].pc = "answer" /\ call = req[s].call
      PROVE  ButtonOf(p)'
  <2>1. PICK q : Become(s, q) /\ q = Told(req[s].to, call, None, Error)
    BY <1>3 DEF Answer
  <2>2. Loading(q, p) => Loading(req[s], p)
    BY <1>3, <2>1, ToldFails DEF Loading
  <2> QED BY <1>1, <2>1, <2>2, ToldFails, QuietSlot
<1>4. CASE GetCurrentFails(s)
  BY <1>3, <1>4 DEF GetCurrentFails
<1>5. CASE LoseAnswer(s)
  BY <1>3, <1>5 DEF LoseAnswer
<1> QED BY <1>2, <1>4, <1>5

(* An answer.  That to a load comes when the page has no cycle, and is the *)
(* only one to come; any other is about the page's cycle.                   *)
LEMMA ButtonDeliver ==
  ASSUME IInv, NEW p \in Pages, ButtonOf(p), NEW s \in Slots, Deliver(s)
  PROVE  ButtonOf(p)'
<1>1. /\ Tables
      /\ req[s] \in Answers
      /\ req[s].pc = "answer"
      /\ req[s].status # Error => req[s].cycle \in Cycles
      /\ \A t \in Slots : req'[t] = IF t = s THEN Idle ELSE req[t]
  BY Parts, Kinds DEF Deliver, Sound, Become
<1>2. ~ Loading(Idle, p) /\ \A c : About(Idle, p, c)
  BY DEF Loading, About, Idle
<1>3. CASE req[s].to # p
  <2>1. page'[p] = page[p]
    BY <1>1, <1>3 DEF Deliver, Tables
  <2> QED BY <1>2, <2>1, QuietSlot DEF Deliver
<1>4. CASE req[s].to = p
  <2>1. page'[p] = After(page[p], req[s]) /\ page[p] \in Page
    BY <1>1, <1>4 DEF Deliver, Tables
  <2>2. page'[p].logins = page[p].logins /\ page'[p].signed = page[p].signed
    BY <2>1 DEF After, Page
  <2>3. SUFFICES ASSUME page[p].logins < 2 PROVE ButtonOf(p)'
    BY <2>2 DEF ButtonOf
  <2>4. /\ page[p].cycleId = page[p].shown
        /\ page[p].logins = 0 => page[p].cycleId = None /\ ~ page[p].signed
        /\ \A t \in Slots :
             /\ About(req[t], p, page[p].cycleId)
             /\ Loading(req[t], p) =>
                  /\ page[p].logins = 1
                  /\ page[p].cycleId = None
                  /\ \A r \in Slots \ {t} : ~ Loading(req[r], p)
    BY <2>3 DEF ButtonOf
  <2>5. CASE req[s].call = "change"
    <3>1. page'[p].cycleId = page[p].cycleId
      BY <2>1, <2>5 DEF After, Page
    <3>2. page'[p].shown = page[p].shown
      <4>1. CASE req[s].status = Error
        BY <2>1, <2>5, <4>1 DEF After
      <4>2. CASE req[s].status # Error
        <5>1. req[s].cycle = page[p].cycleId
          BY <1>1, <1>4, <2>4, <2>5, <4>2 DEF About
        <5> QED BY <2>1, <2>4, <4>2, <5>1 DEF After, Page
      <4> QED BY <4>1, <4>2
    <3> QED BY <1>1, <1>2, <2>2, <3>1, <3>2, QuietStep
  <2>6. CASE req[s].call = "current"
    <3>1. /\ page[p].logins = 1
          /\ page[p].cycleId = None
          /\ \A t \in Slots \ {s} : ~ Loading(req[t], p)
      BY <1>1, <1>4, <2>4, <2>6 DEF Loading
    <3>2. page'[p].cycleId = page'[p].shown
      BY <2>1, <2>4, <2>6, <3>1 DEF After, Page
    <3>3. ASSUME NEW t \in Slots, NEW c, t # s
          PROVE  About(req[t], p, c)
      <4>1. About(req[t], p, None) /\ Sound(req[t]) /\ req[t] \in Requests
        BY <2>4, <3>1, Parts
      <4>2. req[t].pc = "save" /\ req[t].to = p => req[t].cycle \in Cycles
        BY <4>1, Kinds DEF Saves
      <4>3. req[t].pc = "audit" /\ req[t].to = p => req[t].entry.entity \in Cycles
        BY <4>1, Nobody DEF Sound
      <4>4. req[t].pc = "answer" /\ req[t].status # Error => req[t].cycle \in Cycles
        BY <4>1 DEF Sound
      <4>5. None \notin Cycles
        BY NoneAssumption
      <4> QED BY <4>1, <4>2, <4>3, <4>4, <4>5 DEF About
    <3>4. \A t \in Slots : ~ Loading(req'[t], p) /\ \A c : About(req'[t], p, c)
      BY <1>1, <1>2, <3>1, <3>3
    <3> QED BY <2>2, <3>1, <3>2, <3>4 DEF ButtonOf
  <2> QED BY <1>1, <2>5, <2>6 DEF Answers
<1> QED BY <1>3, <1>4

LEMMA ButtonSignIn ==
  ASSUME IInv, NEW p \in Pages, ButtonOf(p), NEW other \in Pages, NEW s \in Slots,
         SignIn(other, s)
  PROVE  ButtonOf(p)'
<1> DEFINE q == [pc |-> "load", to |-> other]
<1>1. /\ Tables /\ page[p] \in Page
      /\ \A t \in Slots : req'[t] = IF t = s THEN q ELSE req[t]
      /\ \A c : About(q, p, c)
      /\ Loading(q, p) <=> other = p
      /\ page'[p] = IF other = p THEN Signed(page[p]) ELSE page[p]
  BY Parts DEF SignIn, Become, Tables, About, Loading
<1>2. CASE other # p
  BY <1>1, <1>2, QuietStep
<1>3. CASE other = p
  <2>1. /\ page'[p].logins = IF page[p].logins = 0 THEN 1 ELSE 2
        /\ page'[p].cycleId = page[p].cycleId
        /\ page'[p].shown = page[p].shown
    BY <1>1, <1>3, SignedView
  <2>2. SUFFICES ASSUME page[p].logins = 0 PROVE ButtonOf(p)'
    BY <1>1, <2>1 DEF ButtonOf, Page
  <2>3. /\ page[p].cycleId = page[p].shown
        /\ page[p].cycleId = None
        /\ \A t \in Slots : About(req[t], p, page[p].cycleId) /\ ~ Loading(req[t], p)
    BY <2>2 DEF ButtonOf
  <2> HIDE DEF q
  <2> QED BY <1>1, <2>1, <2>2, <2>3 DEF ButtonOf
<1> QED BY <1>2, <1>3

(* A page loaded anew has nothing under way. *)
LEMMA ButtonReload ==
  ASSUME IInv, NEW p \in Pages, ButtonOf(p), NEW other \in Pages, Reload(other)
  PROVE  ButtonOf(p)'
<1>1. Tables /\ page'[p] = IF other = p THEN NewPage ELSE page[p]
  BY Parts DEF Reload, Tables
<1>2. ASSUME NEW t \in Slots
      PROVE  /\ other # p /\ Loading(req'[t], p) => Loading(req[t], p)
             /\ other # p => \A c : About(req[t], p, c) => About(req'[t], p, c)
             /\ other = p => ~ Loading(req'[t], p) /\ \A c : About(req'[t], p, c)
  <2>1. req[t] \in Requests
    BY Parts
  <2>2. CASE req[t].pc \in {"load", "answer"} /\ req[t].to = other
    <3>1. req'[t] = Idle
      BY <2>2 DEF Reload, Forget
    <3> QED BY <3>1 DEF Loading, About, Idle
  <2>3. CASE req[t].pc \in {"save", "audit"} /\ req[t].to = other
    <3>1. /\ req'[t] = [req[t] EXCEPT !.to = None]
          /\ req[t] \in Saves \/ req[t] \in Audits
      BY <2>1, <2>3, Kinds DEF Reload, Forget
    <3>2. req'[t].to = None /\ req'[t].pc \in {"save", "audit"}
      BY <2>3, <3>1 DEF Saves, Audits
    <3> QED BY <3>2, Nobody DEF Loading, About
  <2>4. CASE ~ (req[t].pc \in {"load", "answer", "save", "audit"} /\ req[t].to = other)
    <3>1. req'[t] = req[t]
      BY <2>4 DEF Reload, Forget
    <3> QED BY <2>1, <2>4, <3>1 DEF Loading, About
  <2> QED BY <2>2, <2>3, <2>4
<1>3. CASE other # p
  BY <1>1, <1>2, <1>3, QuietStep
<1>4. CASE other = p
  BY <1>1, <1>2, <1>4 DEF ButtonOf, NewPage
<1> QED BY <1>3, <1>4

LEMMA ButtonCrash ==
  ASSUME IInv, NEW p \in Pages, ButtonOf(p), Crash
  PROVE  ButtonOf(p)'
<1>1. ASSUME NEW t \in Slots
      PROVE  /\ Loading(req'[t], p) => Loading(req[t], p)
             /\ \A c : About(req[t], p, c) => About(req'[t], p, c)
  <2>1. CASE req[t].pc = "load"
    <3>1. req'[t] = Told(req[t].to, "current", None, Error)
      BY <2>1 DEF Crash
    <3> QED BY <2>1, <3>1, ToldFails DEF Loading
  <2>2. CASE req[t].pc \in {"save", "audit"}
    <3>1. req'[t] = Told(req[t].to, "change", None, Error)
      BY <2>2 DEF Crash
    <3> QED BY <3>1, ToldFails
  <2>3. CASE req[t].pc \notin {"load", "save", "audit"}
    BY <2>3 DEF Crash
  <2> QED BY <2>1, <2>2, <2>3
<1> QED BY <1>1, QuietStep DEF Crash

LEMMA ButtonStep ==
  ASSUME IInv, [Next]_vars, NEW p \in Pages, ButtonOf(p)
  PROVE  ButtonOf(p)'
<1>1. CASE UNCHANGED vars
  BY <1>1, QuietStep DEF vars
<1>2. ASSUME NEW s \in Slots, NEW u \in Admins, NEW c \in Cycles, NEW deadline \in Deadlines,
             Create(s, u, c, deadline) \/ CreateFails(s, u, c, deadline)
      PROVE  ButtonOf(p)'
  <2>1. CASE Create(s, u, c, deadline)
    BY <2>1, Nobody, QuietSlot DEF Create, Record, About, Loading
  <2>2. CASE CreateFails(s, u, c, deadline)
    BY <2>2, QuietStep DEF CreateFails
  <2> QED BY <1>2, <2>1, <2>2
<1>3. ASSUME NEW s \in Slots, NEW u \in Admins, NEW target \in People, Impersonate(s, u, target)
      PROVE  ButtonOf(p)'
  BY <1>3, Nobody, QuietSlot DEF Impersonate, Record, About, Loading
<1>4. ASSUME NEW s \in Slots, NEW u \in Admins, NEW c \in Cycles,
             \/ \E body \in Bodies : ReadForUpdate(s, u, c, body)
             \/ ReadForLock(s, u, c) \/ ReadForUnlock(s, u, c)
      PROVE  ButtonOf(p)'
  BY <1>4, Nobody, ButtonReads DEF ReadForUpdate, ReadForLock, ReadForUnlock
<1>5. ASSUME NEW other \in Pages, NEW s \in Slots, NEW u \in Admins, Click(other, s, u)
      PROVE  ButtonOf(p)'
  BY <1>5, ButtonReads DEF Click
<1>6. ASSUME NEW other \in Pages, SignOut(other)
      PROVE  ButtonOf(p)'
  <2>1. page'[p] = IF other = p THEN [page[p] EXCEPT !.signed = FALSE] ELSE page[p]
    BY <1>6, Parts DEF SignOut, Tables
  <2>2. page[p] \in Page /\ req' = req
    BY <1>6, Parts DEF SignOut, Tables
  <2>3. /\ page'[p].logins = page[p].logins /\ page'[p].cycleId = page[p].cycleId
        /\ page'[p].shown = page[p].shown
    BY <2>1, <2>2 DEF Page
  <2>4. page'[p].signed => page[p].signed
    <3>1. CASE other = p
      <4>1. page'[p].signed = FALSE
        BY <2>1, <2>2, <3>1, Zenon DEF Page
      <4> QED BY <4>1
    <3>2. CASE other # p
      BY <2>1, <3>2
    <3> QED BY <3>1, <3>2
  <2> QED BY <2>2, <2>3, <2>4, QuietStep
<1>7. ASSUME NEW s \in Slots, \/ Save(s) \/ SaveFails(s) \/ Audit(s)
                              \/ GetCurrent(s) \/ GetCurrentFails(s)
                              \/ Deliver(s) \/ LoseAnswer(s)
      PROVE  ButtonOf(p)'
  BY <1>7, ButtonChanges, ButtonLoads, ButtonDeliver
<1>8. ASSUME NEW other \in Pages, Reload(other) \/ \E s \in Slots : SignIn(other, s)
      PROVE  ButtonOf(p)'
  BY <1>8, ButtonReload, ButtonSignIn
<1> QED BY <1>1, <1>2, <1>3, <1>4, <1>5, <1>6, <1>7, <1>8, ButtonCrash DEF Next

(* Until somebody signs in a second time on the same page, the button       *)
(* changes the cycle that the page shows, however loads, clicks, answers,   *)
(* failures and reloads interleave, and whatever other pages do.            *)
THEOREM ButtonsActOnShown == Spec => []ButtonActsOnShown
<1>1. Init => OneLoad /\ ButtonActsOnShown
  <2> SUFFICES ASSUME Init, NEW p \in Pages PROVE ButtonOf(p)
    BY ButtonParts
  <2>1. page[p] = NewPage /\ \A s \in Slots : req[s] = Idle
    BY DEF Init
  <2> QED BY <2>1 DEF ButtonOf, NewPage, Idle, About, Loading
<1>2. IInv /\ (OneLoad /\ ButtonActsOnShown) /\ [Next]_vars => (OneLoad /\ ButtonActsOnShown)'
  <2> SUFFICES ASSUME IInv, OneLoad, ButtonActsOnShown, [Next]_vars
               PROVE  (OneLoad /\ ButtonActsOnShown)'
    OBVIOUS
  <2>1. \A p \in Pages : ButtonOf(p)'
    BY ButtonParts, ButtonStep
  <2> QED BY <2>1 DEF ButtonActsOnShown, OneLoad, ButtonOf
<1> QED BY <1>1, <1>2, Invariance, PTL DEF Spec

LEMMA OpenedBy ==
  ASSUME IInv, [Next]_vars, NEW c \in Cycles, cycles[c] # NoRow,
         cycles[c].status = "LOCKED", cycles'[c].status # "LOCKED"
  PROVE  \E s \in Slots : /\ req[s].pc = "save"
                          /\ req[s].cycle = c
                          /\ req[s].new.status # "LOCKED"
<1>1. cycles \in [Cycles -> Row \cup {NoRow}]
  BY Parts DEF Tables
<1>2. PICK s \in Slots : /\ req[s].pc = "save"
                         /\ cycles' = [cycles EXCEPT ![req[s].cycle] = req[s].new]
  <2>1. cycles' # cycles
    OBVIOUS
  <2>2. ASSUME NEW s \in Slots, NEW u \in Admins, NEW d \in Cycles,
               NEW deadline \in Deadlines,
               Create(s, u, d, deadline) \/ CreateFails(s, u, d, deadline)
        PROVE  FALSE
    BY <1>1, <2>2 DEF Create, CreateFails, Write
  <2>3. ASSUME NEW s \in Slots, NEW u, NEW d, NEW body, NEW op, NEW to,
               Read(s, op, u, d, body, to)
        PROVE  FALSE
    BY <2>1, <2>3 DEF Read
  <2>4. ASSUME NEW s \in Slots, NEW p, NEW u, Click(p, s, u) \/ SignIn(p, s)
        PROVE  FALSE
    BY <2>1, <2>4 DEF Click, SignIn, Read
  <2>5. ASSUME NEW s \in Slots, NEW u, NEW target,
               \/ Impersonate(s, u, target) \/ Audit(s)
               \/ GetCurrent(s) \/ GetCurrentFails(s) \/ Deliver(s) \/ LoseAnswer(s)
        PROVE  FALSE
    BY <2>1, <2>5 DEF Impersonate, Audit, GetCurrent, GetCurrentFails, Deliver, LoseAnswer
  <2>6. ASSUME NEW p, Reload(p) \/ SignOut(p) \/ Crash \/ UNCHANGED vars
        PROVE  FALSE
    BY <2>1, <2>6 DEF Reload, SignOut, Crash, vars
  <2>7. \E s \in Slots : Save(s) \/ SaveFails(s)
    BY <2>2, <2>3, <2>4, <2>5, <2>6 DEF Next, ReadForUpdate, ReadForLock, ReadForUnlock
  <2> QED BY <2>1, <2>7 DEF Save, SaveFails, Write
<1>3. req[s].cycle = c
  BY <1>1, <1>2
<1> QED BY <1>1, <1>2, <1>3

(* A locked window is reopened only on request or by a stale save.         *)
THEOREM LocksAreHeld == Spec => LocksHold
<1>1. ASSUME IInv, [Next]_vars, NEW c \in Cycles, cycles[c] # NoRow,
             cycles[c].status = "LOCKED", cycles'[c].status # "LOCKED"
      PROVE  \E s \in Slots :
               /\ req[s].pc = "save"
               /\ req[s].cycle = c
               /\ \/ req[s].op = "unlock"
                  \/ req[s].op = "update" /\ req[s].body.status # None
                  \/ req[s].base.status # "LOCKED"
  <2>1. PICK s \in Slots : /\ req[s].pc = "save"
                           /\ req[s].cycle = c
                           /\ req[s].new.status # "LOCKED"
    BY <1>1, OpenedBy
  <2>2. /\ req[s] \in Saves
        /\ req[s].new = Changed(req[s].op, req[s].base, req[s].body)
    BY <1>1, <2>1, Parts, Kinds DEF Sound
  <2>3. \/ req[s].op = "unlock"
        \/ req[s].op = "update" /\ req[s].body.status # None
        \/ req[s].base.status # "LOCKED"
    BY <2>1, <2>2 DEF Changed, Unless, Saves, Ops
  <2> QED BY <2>1, <2>3
<1>2. IInv /\ [Next]_vars =>
        [\A c \in Cycles :
           cycles[c] # NoRow /\ cycles[c].status = "LOCKED" /\ cycles'[c].status # "LOCKED" =>
             \E s \in Slots :
               /\ req[s].pc = "save"
               /\ req[s].cycle = c
               /\ \/ req[s].op = "unlock"
                  \/ req[s].op = "update" /\ req[s].body.status # None
                  \/ req[s].base.status # "LOCKED"]_vars
  BY <1>1
<1> QED BY <1>2, Invariance, PTL DEF Spec, LocksHold

-----------------------------------------------------------------------------
(* What a step does to one slot, read off the actions: a slot that is about *)
(* to save afterwards was so before, with the same copy, or has just read.  *)
SaveOf(s, q) == /\ q.pc = "save"
                /\ req[s].pc = "save"
                /\ q.cycle = req[s].cycle /\ q.base = req[s].base
JustRead(q) == /\ q.pc = "save"
               /\ cycles[q.cycle] # NoRow
               /\ q.base = cycles[q.cycle]
               /\ UNCHANGED <<cycles, stored>>

LEMMA SavesComeFrom ==
  ASSUME IInv, [Next]_vars, NEW s \in Slots, req'[s].pc = "save"
  PROVE  SaveOf(s, req'[s]) \/ JustRead(req'[s])
<1>0. /\ Tables /\ req \in [Slots -> Requests] /\ req[s] \in Requests
      /\ \A t \in Slots : \A q : Become(t, q) => req'[s] = IF s = t THEN q ELSE req[s]
  BY Parts DEF Become
<1>1. ASSUME req'[s] = req[s] PROVE SaveOf(s, req'[s])
  BY <1>1 DEF SaveOf
<1>2. ASSUME NEW t \in Slots, NEW u \in Admins, NEW c \in Cycles, NEW op, NEW body, NEW to,
             Read(t, op, u, c, body, to)
      PROVE  SaveOf(s, req'[s]) \/ JustRead(req'[s])
  BY <1>0, <1>1, <1>2 DEF Read, JustRead
<1>3. ASSUME NEW t \in Slots, NEW q, q.pc # "save", Become(t, q)
      PROVE  SaveOf(s, req'[s])
  BY <1>0, <1>3 DEF SaveOf
<1>4. Idle.pc # "save" /\ \A to, call, c, status : Told(to, call, c, status).pc # "save"
  BY DEF Idle, Told
<1>5. ASSUME NEW t \in Slots, NEW u \in Admins, NEW c \in Cycles, NEW deadline \in Deadlines,
             Create(t, u, c, deadline) \/ CreateFails(t, u, c, deadline)
      PROVE  SaveOf(s, req'[s])
  <2>1. CASE Create(t, u, c, deadline)
    BY <1>3, <2>1 DEF Create, Record
  <2>2. CASE CreateFails(t, u, c, deadline)
    BY <1>1, <2>2 DEF CreateFails
  <2> QED BY <1>5, <2>1, <2>2
<1>6. ASSUME NEW t \in Slots, NEW u \in Admins, NEW target \in People, Impersonate(t, u, target)
      PROVE  SaveOf(s, req'[s])
  BY <1>3, <1>6 DEF Impersonate, Record
<1>7. ASSUME NEW t \in Slots, \/ Save(t) \/ SaveFails(t) \/ Audit(t)
                              \/ GetCurrent(t) \/ GetCurrentFails(t)
                              \/ Deliver(t) \/ LoseAnswer(t)
      PROVE  SaveOf(s, req'[s])
  BY <1>3, <1>4, <1>7 DEF Save, SaveFails, Audit, GetCurrent, GetCurrentFails,
     Deliver, LoseAnswer, Record, Answer
<1>s. ASSUME NEW p \in Pages, SignOut(p) \/ \E t \in Slots : SignIn(p, t)
      PROVE  SaveOf(s, req'[s])
  BY <1>1, <1>3, <1>s DEF SignOut, SignIn
<1>8. ASSUME NEW p \in Pages, Reload(p)
      PROVE  SaveOf(s, req'[s])
  <2>1. \/ req'[s] = Idle
        \/ req'[s] = [req[s] EXCEPT !.to = None] /\ req[s].pc \in {"save", "audit"}
        \/ req'[s] = req[s]
    BY <1>8 DEF Reload, Forget
  <2>2. CASE req'[s] = [req[s] EXCEPT !.to = None] /\ req[s].pc \in {"save", "audit"}
    BY <1>0, <2>2, Kinds DEF SaveOf, Saves, Audits
  <2>3. CASE req'[s] = Idle
    BY <1>4, <2>3
  <2> QED BY <1>1, <2>1, <2>2, <2>3
<1>9. ASSUME NEW p \in Pages, NEW t \in Slots, NEW u \in Admins, Click(p, t, u)
      PROVE  SaveOf(s, req'[s]) \/ JustRead(req'[s])
  <2>1. page[p].cycleId \in Cycles
    BY <1>0, <1>9 DEF Click, Tables, Page
  <2> QED BY <1>2, <1>9, <2>1 DEF Click
<1>10. CASE Crash
  BY <1>1, <1>4, <1>10 DEF Crash
<1>11. CASE UNCHANGED vars
  BY <1>1, <1>11 DEF vars
<1> QED BY <1>2, <1>5, <1>6, <1>7, <1>s, <1>8, <1>9, <1>10, <1>11
        DEF Next, ReadForUpdate, ReadForLock, ReadForUnlock

(* Rows are written by inserts, where none was, and by saves. *)
LEMMA WritesComeFrom ==
  ASSUME IInv, [Next]_vars
  PROVE  \/ UNCHANGED <<cycles, stored>>
         \/ \E c \in Cycles, deadline \in Deadlines :
              cycles[c] = NoRow /\ Write(c, [status |-> "OPEN", deadline |-> deadline])
         \/ \E s \in Slots : /\ req[s].pc = "save" /\ req'[s].pc # "save"
                            /\ Write(req[s].cycle, req[s].new)
<1>0. \A t \in Slots : \A q : Become(t, q) => req'[t] = q
  BY Parts DEF Become
<1>1. ASSUME NEW s \in Slots, Save(s) \/ SaveFails(s)
      PROVE  req[s].pc = "save" /\ req'[s].pc # "save"
  BY <1>0, <1>1 DEF Save, SaveFails, Record, Answer, Told, Idle
<1>2. CASE \E s \in Slots : Save(s) \/ SaveFails(s)
  BY <1>1, <1>2 DEF Save, SaveFails
<1>3. CASE \E s \in Slots, u \in Admins, c \in Cycles, deadline \in Deadlines :
             Create(s, u, c, deadline) \/ CreateFails(s, u, c, deadline)
  BY <1>3 DEF Create, CreateFails
<1>4. ASSUME NEW s \in Slots, NEW u, NEW c, NEW body, NEW op, NEW to,
             Read(s, op, u, c, body, to)
      PROVE  UNCHANGED <<cycles, stored>>
  BY <1>4 DEF Read
<1> QED BY <1>2, <1>3, <1>4
        DEF Next, vars, ReadForUpdate, ReadForLock, ReadForUnlock, Click, Impersonate, Audit,
            GetCurrent, GetCurrentFails, Deliver, LoseAnswer, SignIn, SignOut, Reload, Crash

(* Without overlap, what a request read is in the table when it saves. *)
Fresh == \A s \in Slots : req[s].pc = "save" =>
  cycles[req[s].cycle] # NoRow /\ req[s].base = cycles[req[s].cycle]

LEMMA FreshStep == IInv /\ NoOverlap /\ Fresh /\ [Next]_vars => Fresh'
<1> SUFFICES ASSUME IInv, NoOverlap, Fresh, [Next]_vars, NEW s \in Slots, req'[s].pc = "save"
             PROVE  cycles'[req'[s].cycle] # NoRow /\ req'[s].base = cycles'[req'[s].cycle]
  BY DEF Fresh
<1>1. CASE JustRead(req'[s])
  BY <1>1 DEF JustRead
<1>2. CASE SaveOf(s, req'[s])
  <2>1. req[s].pc = "save" /\ cycles[req[s].cycle] # NoRow /\ req[s].base = cycles[req[s].cycle]
        /\ req'[s].cycle = req[s].cycle /\ req'[s].base = req[s].base
    BY <1>2 DEF SaveOf, Fresh
  <2>2. \A t \in Slots : req[t].pc = "save" /\ req'[t].pc # "save" => req[t].cycle # req[s].cycle
    BY <2>1 DEF NoOverlap
  <2>3. cycles \in [Cycles -> Row \cup {NoRow}] /\ req[s].cycle \in Cycles
    BY <2>1, Parts, Kinds DEF Tables, Saves
  <2>4. ASSUME NEW c, NEW row, c # req[s].cycle, Write(c, row)
        PROVE  cycles'[req[s].cycle] = cycles[req[s].cycle]
    BY <2>3, <2>4 DEF Write
  <2>5. cycles'[req[s].cycle] = cycles[req[s].cycle]
    BY <2>1, <2>2, <2>4, WritesComeFrom
  <2> QED BY <2>1, <2>5
<1> QED BY <1>1, <1>2, SavesComeFrom

LEMMA SerialIsSpec == SerialSpec => Spec /\ []NoOverlap
<1>1. Init => NoOverlap
  BY DEF Init, NoOverlap, Idle
<1>2. NoOverlap /\ [Next /\ NoOverlap']_vars => NoOverlap'
  BY DEF vars, NoOverlap
<1>3. [Next /\ NoOverlap']_vars => [Next]_vars
  OBVIOUS
<1> QED BY <1>1, <1>2, <1>3, PTL DEF SerialSpec, Spec

(* As long as nobody changes the same cycle at the same time, a locked       *)
(* window is reopened only by a request that asks for it: failing and lost   *)
(* calls, second clicks and reloads never do.                                *)
THEOREM LocksAreHeldWithoutOverlap == SerialSpec => LocksHoldOnRequest
<1>1. ASSUME IInv, Fresh, [Next]_vars, NEW c \in Cycles, cycles[c] # NoRow,
             cycles[c].status = "LOCKED", cycles'[c].status # "LOCKED"
      PROVE  \E s \in Slots :
               /\ req[s].pc = "save"
               /\ req[s].cycle = c
               /\ req[s].op = "unlock" \/ (req[s].op = "update" /\ req[s].body.status # None)
  <2>1. PICK s \in Slots : /\ req[s].pc = "save"
                           /\ req[s].cycle = c
                           /\ req[s].new.status # "LOCKED"
    BY <1>1, OpenedBy
  <2>2. /\ req[s] \in Saves
        /\ req[s].new = Changed(req[s].op, req[s].base, req[s].body)
        /\ req[s].base.status = "LOCKED"
    BY <1>1, <2>1, Parts, Kinds DEF Sound, Fresh
  <2>3. req[s].op = "unlock" \/ (req[s].op = "update" /\ req[s].body.status # None)
    BY <2>1, <2>2 DEF Changed, Unless, Saves, Ops
  <2> QED BY <2>1, <2>3
<1>2. IInv /\ Fresh /\ [Next]_vars =>
        [\A c \in Cycles :
           cycles[c] # NoRow /\ cycles[c].status = "LOCKED" /\ cycles'[c].status # "LOCKED" =>
             \E s \in Slots :
               /\ req[s].pc = "save"
               /\ req[s].cycle = c
               /\ req[s].op = "unlock" \/ (req[s].op = "update" /\ req[s].body.status # None)]_vars
  BY <1>1
<1>3. Init => Fresh
  BY DEF Init, Fresh, Idle
<1> QED BY <1>2, <1>3, FreshStep, SerialIsSpec, Invariance, PTL DEF Spec, LocksHoldOnRequest

-----------------------------------------------------------------------------
(* What a step does to the history and to the audit log. *)
LEMMA StoredGrows ==
  ASSUME IInv, [Next]_vars
  PROVE  \A c \in Cycles : stored[c] \subseteq stored'[c]
<1>1. ASSUME NEW c, NEW row, Write(c, row)
      PROVE  \A d \in Cycles : stored[d] \subseteq stored'[d]
  BY <1>1, Parts DEF Write, Tables
<1> QED BY <1>1, WritesComeFrom

LEMMA TellsForever ==
  ASSUME NEW e \in Entries, Tells(e), \A c \in Cycles : stored[c] \subseteq stored'[c]
  PROVE  Tells(e)'
BY DEF Tells, Entries

LEMMA AuditsTell ==
  ASSUME IInv, EntriesGrounded, [Next]_vars, NEW s \in Slots, req'[s].pc = "audit"
  PROVE  Tells(req[s].entry)'
<1>0. /\ Tables /\ req \in [Slots -> Requests] /\ req[s] \in Requests
      /\ \A t \in Slots : \A q : Become(t, q) => req'[s] = IF s = t THEN q ELSE req[s]
  BY Parts DEF Become
<1>1. ASSUME req[s].pc = "audit", req'[s].entry = req[s].entry
      PROVE  Tells(req[s].entry)'
  <2>1. PICK e \in Entries : e = req[s].entry
    BY <1>0, <1>1, Kinds DEF Audits
  <2> QED BY <1>1, <2>1, StoredGrows, TellsForever DEF EntriesGrounded
<1>2. ASSUME req'[s] = req[s] PROVE Tells(req[s].entry)'
  BY <1>1, <1>2
<1>3. ASSUME NEW t \in Slots, NEW q, q.pc # "audit", Become(t, q)
      PROVE  Tells(req[s].entry)'
  BY <1>0, <1>2, <1>3
<1>4. Idle.pc # "audit" /\ \A to, call, c, status : Told(to, call, c, status).pc # "audit"
  BY DEF Idle, Told
<1>5. ASSUME NEW t \in Slots, NEW u \in Admins, NEW c \in Cycles, NEW deadline \in Deadlines,
             Create(t, u, c, deadline)
      PROVE  Tells(req[s].entry)'
  <2> DEFINE e == [actor |-> u, action |-> "create", entity |-> c,
                   old |-> "", new |-> "OPEN"]
             q == [pc |-> "audit", to |-> None, entry |-> e]
  <2>0. Become(t, q)
    BY <1>5 DEF Create, Record
  <2>e. e.action = "create" /\ e.entity = c /\ e.new = "OPEN"
    OBVIOUS
  <2> HIDE DEF e
  <2>q. q.entry = e
    OBVIOUS
  <2> HIDE DEF q
  <2>1. CASE t # s
    BY <1>0, <1>2, <2>0, <2>1
  <2>2. CASE t = s
    <3>1. req'[s] = q
      BY <1>0, <2>0, <2>2
    <3>2. req'[s].entry = e
      BY <3>1, <2>q
    <3>3. "OPEN" \in stored'[c]
      BY <1>0, <1>5 DEF Create, Write, Tables
    <3> QED BY <2>e, <3>2, <3>3 DEF Tells
  <2> QED BY <2>1, <2>2
<1>6. ASSUME NEW t \in Slots, NEW u \in Admins, NEW target \in People, Impersonate(t, u, target)
      PROVE  Tells(req[s].entry)'
  <2> DEFINE e == [actor |-> u, action |-> "impersonate", entity |-> target,
                   old |-> "", new |-> ""]
             q == [pc |-> "audit", to |-> None, entry |-> e]
  <2>0. Become(t, q)
    BY <1>6 DEF Impersonate, Record
  <2>e. e.action = "impersonate"
    OBVIOUS
  <2> HIDE DEF e
  <2>q. q.entry = e
    OBVIOUS
  <2> HIDE DEF q
  <2>1. CASE t # s
    BY <1>0, <1>2, <2>0, <2>1
  <2>2. CASE t = s
    <3>1. req'[s] = q
      BY <1>0, <2>0, <2>2
    <3>2. req'[s].entry.action = "impersonate"
      BY <3>1, <2>e, <2>q
    <3> QED BY <3>2 DEF Tells
  <2> QED BY <2>1, <2>2
<1>7. ASSUME NEW t \in Slots, Save(t)
      PROVE  Tells(req[s].entry)'
  <2>1. CASE t # s
    BY <1>0, <1>2, <1>7, <2>1 DEF Save, Record
  <2>2. CASE t = s
    <3>1. req'[s].entry = [actor |-> req[s].by, action |-> req[s].op, entity |-> req[s].cycle,
                           old |-> req[s].base.status, new |-> req[s].new.status]
      BY <1>0, <1>7, <2>2 DEF Save, Record
    <3>2. req[s].cycle \in Cycles
      BY <1>0, <1>7, <2>2, Kinds DEF Save, Saves
    <3>3. req[s].new.status \in stored'[req[s].cycle]
      BY <1>0, <1>7, <2>2, <3>2 DEF Save, Write, Tables
    <3>4. req[s].base.status \in stored'[req[s].cycle]
      BY <1>7, <2>2, <3>2, StoredGrows DEF Save, EntriesGrounded
    <3> QED BY <3>1, <3>3, <3>4 DEF Tells
  <2> QED BY <2>1, <2>2
<1>8. ASSUME NEW t \in Slots, \/ SaveFails(t) \/ Audit(t)
                              \/ GetCurrent(t) \/ GetCurrentFails(t)
                              \/ Deliver(t) \/ LoseAnswer(t)
      PROVE  Tells(req[s].entry)'
  BY <1>3, <1>4, <1>8 DEF SaveFails, Audit, GetCurrent, GetCurrentFails,
     Deliver, LoseAnswer, Answer
<1>s. ASSUME NEW p \in Pages, SignOut(p) \/ \E t \in Slots : SignIn(p, t)
      PROVE  Tells(req[s].entry)'
  BY <1>2, <1>3, <1>s DEF SignOut, SignIn
<1>9. ASSUME NEW p \in Pages, Reload(p)
      PROVE  Tells(req[s].entry)'
  <2>1. \/ req'[s] = Idle
        \/ req'[s] = [req[s] EXCEPT !.to = None] /\ req[s].pc \in {"save", "audit"}
        \/ req'[s] = req[s]
    BY <1>9 DEF Reload, Forget
  <2>2. CASE req'[s] = [req[s] EXCEPT !.to = None] /\ req[s].pc \in {"save", "audit"}
    BY <1>0, <1>1, <2>2, Kinds DEF Saves, Audits
  <2>3. CASE req'[s] = Idle
    BY <1>4, <2>3
  <2> QED BY <1>2, <2>1, <2>2, <2>3
<1>10. ASSUME NEW t \in Slots, NEW op, NEW u, NEW c, NEW body, NEW to, Read(t, op, u, c, body, to)
       PROVE  Tells(req[s].entry)'
  BY <1>3, <1>10 DEF Read
<1>11. CASE Crash
  BY <1>2, <1>4, <1>11 DEF Crash
<1>12. CASE UNCHANGED vars \/ \E t \in Slots, u \in Admins, c \in Cycles, deadline \in Deadlines :
              CreateFails(t, u, c, deadline)
  BY <1>2, <1>12 DEF vars, CreateFails
<1> QED BY <1>5, <1>6, <1>7, <1>8, <1>s, <1>9, <1>10, <1>11, <1>12
        DEF Next, ReadForUpdate, ReadForLock, ReadForUnlock, Click

LEMMA LogTells ==
  ASSUME IInv, EntriesGrounded, [Next]_vars, NEW e \in log'
  PROVE  Tells(e)'
<1>1. e \in Entries /\ Tells(e)
  <2>1. CASE e \in log
    BY <2>1, Parts DEF Tables, EntriesGrounded, AuditIsTruthful
  <2>2. CASE e \notin log
    <3>1. PICK s \in Slots : Audit(s)
      BY <2>2 DEF Next, vars, Create, CreateFails, ReadForUpdate, ReadForLock, ReadForUnlock,
         Read, Impersonate, Save, SaveFails, GetCurrent, GetCurrentFails, Deliver, LoseAnswer,
         SignIn, SignOut, Reload, Click, Crash
    <3>2. e = req[s].entry /\ req[s].pc = "audit"
      BY <2>2, <3>1 DEF Audit
    <3> QED BY <3>2, Parts, Kinds DEF Audits, Sound, EntriesGrounded
  <2> QED BY <2>1, <2>2
<1> QED BY <1>1, StoredGrows, TellsForever

(* Whatever a jsonb column accepts, and whatever inserts fail or get lost,   *)
(* an entry that is in the audit log tells of a change that was stored.      *)
THEOREM AuditTellsTheTruth == Spec => []AuditIsTruthful
<1>1. Init => EntriesGrounded
  BY DEF Init, EntriesGrounded, AuditIsTruthful, Idle
<1>2. IInv /\ EntriesGrounded /\ [Next]_vars => EntriesGrounded'
  <2> SUFFICES ASSUME IInv, EntriesGrounded, [Next]_vars PROVE EntriesGrounded'
    OBVIOUS
  <2>2. ASSUME NEW s \in Slots, req'[s].pc = "save"
        PROVE  req'[s].base.status \in stored'[req'[s].cycle]
    <3>0. TypeOK'
      BY NextIInv DEF IInv
    <3>1. req'[s].cycle \in Cycles
      BY <2>2, <3>0 DEF TypeOK, Idle, Saves, Audits, Loads, Answers
    <3>2. CASE SaveOf(s, req'[s])
      BY <3>1, <3>2, StoredGrows DEF SaveOf, EntriesGrounded
    <3>3. CASE JustRead(req'[s])
      BY <3>1, <3>3 DEF JustRead, IInv, RowsStored
    <3> QED BY <2>2, <3>2, <3>3, SavesComeFrom
  <2>3. AuditIsTruthful'
    BY LogTells DEF AuditIsTruthful
  <2> QED BY <2>2, <2>3, AuditsTell DEF EntriesGrounded
<1>3. EntriesGrounded => AuditIsTruthful
  BY DEF EntriesGrounded
<1> QED BY <1>1, <1>2, <1>3, Invariance, PTL DEF Spec
=============================================================================

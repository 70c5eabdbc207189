----------------------- MODULE ReportWorkflow_proofs -----------------------
(***************************************************************************)
(* Proofs about ReportWorkflow, for every set of reports, people, texts    *)
(* and slots and every bound on the versions.                              *)
(***************************************************************************)
EXTENDS ReportWorkflow, TLAPS

(* Requests of different kinds are told apart by pc. *)
LEMMA RequestKinds ==
  ASSUME TypeOK, NEW s \in Slots
  PROVE  /\ req[s].pc = "save" => req[s] \in Changes
         /\ req[s].pc = "mail" => req[s] \in Mailing
         /\ req[s] = Idle => req[s].pc = "idle"
BY DEF TypeOK, Idle, Lookups, Changes, Mailing

(* The copies the handlers write back are rows, and legal edits of the row *)
(* that was read (handler.go:178-182, 211-213, 265, 322-323).              *)
LEMMA PatchedIsEdit ==
  ASSUME NEW row \in Row, NEW patch \in Patches, row.status # "APPROVED"
  PROVE  /\ Patched(row, patch) \in Row
         /\ Edits(row, Patched(row, patch))
BY NoTextAssumption DEF Patched, Patches, Row, Edits, KeptOrFilled, Overwrite, Text

LEMMA SubmittedIsSubmit ==
  ASSUME NEW row \in Row, row.status \in {"DRAFT", "REVISION_REQUESTED"}
  PROVE  Submitted(row) \in Row /\ Submits(row, Submitted(row))
BY DEF Submitted, Row, Submits, Statuses

LEMMA ApprovedIsApproval ==
  ASSUME NEW row \in Row, row.status = "SUBMITTED"
  PROVE  Approved(row) \in Row /\ Approves(row, Approved(row))
BY DEF Approved, Row, Approves, Statuses

LEMMA SentBackIsSendBack ==
  ASSUME NEW row \in Row, row.status = "SUBMITTED", NEW remarks \in Texts
  PROVE  /\ SentBack(row, remarks) \in Row
         /\ SendsBack(row, SentBack(row, remarks))
<1>1. SentBack(row, remarks) \in Row
  BY DEF SentBack, Row, Statuses, Text
<1>2. SentBack(row, remarks).comments = remarks
  BY DEF SentBack, Row
<1> QED BY <1>1, <1>2 DEF SentBack, SendsBack

LEMMA NewDraftIsRow ==
  ASSUME NEW fields \in [Fields -> Text]
  PROVE  /\ NewDraft(fields) \in Row
         /\ NewDraft(fields).status = "DRAFT"
         /\ Consistent(NewDraft(fields))
BY DEF NewDraft, Row, Statuses, Text, Consistent

(* What an operation means is a legal step of the life cycle, and keeps the *)
(* row consistent.                                                          *)
LEMMA MeansIsLegal ==
  ASSUME NEW op \in Ops, NEW old \in Row, NEW new \in Row, Means(op, old, new)
  PROVE  LegalStep(old, new)
BY DEF Ops, Means, LegalStep

LEMMA LegalKeepsConsistent ==
  ASSUME NEW old \in Row, NEW new \in Row, LegalStep(old, new), Consistent(old)
  PROVE  Consistent(new)
<1>1. CASE Edits(old, new)
  BY <1>1, NoTextAssumption DEF Edits, KeptOrFilled, Consistent
<1>2. CASE Submits(old, new)
  BY <1>2 DEF Submits, Consistent, Row
<1>3. CASE Approves(old, new)
  BY <1>3 DEF Approves, Consistent, Row
<1>4. CASE SendsBack(old, new)
  BY <1>4, NoTextAssumption DEF SendsBack, Consistent, Row
<1> QED BY <1>1, <1>2, <1>3, <1>4 DEF LegalStep

(* A row that a legal step makes APPROVED was SUBMITTED, text for text. *)
LEMMA LegalApproval ==
  ASSUME NEW old \in Row, NEW new \in Row, LegalStep(old, new),
         new.status = "APPROVED"
  PROVE  old = [new EXCEPT !.status = "SUBMITTED"]
<1>1. Approves(old, new)
  BY DEF LegalStep, Edits, Submits, Approves, SendsBack, Row
<1>2. old.status = "SUBMITTED" /\ new = [old EXCEPT !.status = "APPROVED"]
  BY <1>1 DEF Approves
<1>3. [new EXCEPT !.status = "SUBMITTED"] = [old EXCEPT !.status = "SUBMITTED"]
  BY <1>2 DEF Row
<1>4. [old EXCEPT !.status = old.status] = old
  BY DEF Row
<1> QED BY <1>2, <1>3, <1>4

(* What the mail of a request announces is true of the row it stores. *)
LEMMA MailIsTrue ==
  ASSUME NEW q \in Changes, q.op # "update", Means(q.op, q.base, q.new)
  PROVE  /\ MailOf(q) \in Mails
         /\ MailOf(q).report = q.report
         /\ Announces(MailOf(q).op, q.new.status)
         /\ MailOf(q).op = "revise" => q.new.comments = MailOf(q).comments
<1>1. q.op \in {"submit", "approve", "revise"} /\ q.base \in Row /\ q.new \in Row
  BY DEF Changes, Ops
<1>2. CASE q.op = "submit"
  BY <1>1, <1>2 DEF Means, Submits, MailOf, Mails, Ops, Announces, Row, Changes, Text
<1>3. CASE q.op = "approve"
  BY <1>1, <1>3 DEF Means, Approves, MailOf, Mails, Ops, Announces, Row, Changes, Text
<1>4. CASE q.op = "revise"
  BY <1>1, <1>4 DEF Means, SendsBack, MailOf, Mails, Ops, Announces, Row, Changes, Text
<1> QED BY <1>1, <1>2, <1>3, <1>4

-----------------------------------------------------------------------------
(* The table and its history, without the requests. *)
TableOK == /\ rows \in [Reports -> Row \cup {NoRow}]
           /\ versions \in [Reports -> SUBSET Row]
           /\ RowsStored
           /\ VersionsConsistent
           /\ ApprovedWasSubmitted

Grows == \A r \in Reports : versions[r] \subseteq versions'[r]

(* A row that may be stored: a first draft, or a legal edit of a version. *)
Storable(r, row) ==
  \/ rows[r] = NoRow /\ \E fields \in [Fields -> Text] : row = NewDraft(fields)
  \/ \E old \in versions[r] : LegalStep(old, row)

(* Storing such a row keeps the table as it should be; this is where an     *)
(* approval based on an old version is seen to approve what was submitted.  *)
LEMMA StoreKeepsTable ==
  ASSUME TableOK, NEW r \in Reports, NEW row \in Row, Storable(r, row), Store(r, row)
  PROVE  TableOK' /\ Grows /\ row \in versions'[r]
<1>1. /\ rows' \in [Reports -> Row \cup {NoRow}]
      /\ versions' \in [Reports -> SUBSET Row]
      /\ Grows
      /\ row \in versions'[r]
      /\ \A x \in Reports \ {r} : rows'[x] = rows[x] /\ versions'[x] = versions[x]
      /\ rows'[r] = row /\ versions'[r] = versions[r] \cup {row}
  BY DEF Store, TableOK, Grows
<1>2. RowsStored'
  BY <1>1, NoRowAssumption DEF TableOK, RowsStored
<1>3. Consistent(row)
  <2>1. CASE \E fields \in [Fields -> Text] : row = NewDraft(fields)
    BY <2>1, NewDraftIsRow
  <2>2. CASE \E old \in versions[r] : LegalStep(old, row)
    BY <2>2, LegalKeepsConsistent DEF TableOK, VersionsConsistent
  <2> QED BY <2>1, <2>2 DEF Storable
<1>4. VersionsConsistent'
  BY <1>1, <1>3 DEF TableOK, VersionsConsistent
<1>5. row.status = "APPROVED" => [row EXCEPT !.status = "SUBMITTED"] \in versions[r]
  <2> SUFFICES ASSUME row.status = "APPROVED"
               PROVE  [row EXCEPT !.status = "SUBMITTED"] \in versions[r]
    OBVIOUS
  <2>1. \E old \in versions[r] : LegalStep(old, row)
    BY NewDraftIsRow DEF Storable
  <2> QED BY <2>1, LegalApproval DEF TableOK
<1>6. ApprovedWasSubmitted'
  BY <1>1, <1>5 DEF TableOK, ApprovedWasSubmitted
<1> QED BY <1>1, <1>2, <1>4, <1>6 DEF TableOK

(* What a mail announces stays true of the history. *)
LEMMA BackedForever ==
  ASSUME Grows, NEW m \in Mails, Backed(m)
  PROVE  Backed(m)'
BY DEF Grows, Backed, Mails

LEMMA TableInvariant == IInv => TableOK
BY DEF IInv, TypeOK, TableOK

(* The invariant of one slot. *)
Grounded(s) ==
  /\ req[s] \in {Idle} \cup Lookups \cup Changes \cup Mailing
  /\ req[s].pc = "save" => /\ req[s].base \in versions[req[s].report]
                           /\ Means(req[s].op, req[s].base, req[s].new)
  /\ req[s].pc = "mail" => Backed(req[s].mail)

LEMMA AllGrounded == IInv => \A s \in Slots : Grounded(s)
BY DEF IInv, TypeOK, SavesGrounded, MailsGrounded, Grounded

(* A request in flight stays grounded while others store rows. *)
LEMMA GroundedForever ==
  ASSUME IInv, Grows, NEW s \in Slots, req'[s] = req[s]
  PROVE  Grounded(s)'
<1>1. Grounded(s)
  BY AllGrounded
<1>2. CASE req[s].pc = "save"
  BY <1>1, <1>2, RequestKinds DEF Grounded, Grows, IInv, Changes
<1>3. CASE req[s].pc = "mail"
  <2>1. req[s].mail \in Mails /\ Backed(req[s].mail)
    BY <1>1, <1>3, RequestKinds DEF Grounded, IInv, Mailing
  <2>2. \A m \in Mails : Backed(m) => Backed(m)'
    BY BackedForever
  <2>3. Backed(req[s].mail)'
    BY <2>1, <2>2 DEF Backed
  <2> QED BY <1>1, <1>3, <2>3 DEF Grounded
<1>4. CASE req[s].pc \notin {"save", "mail"}
  BY <1>1, <1>4 DEF Grounded
<1> QED BY <1>2, <1>3, <1>4

LEMMA IdleGrounded ==
  ASSUME NEW s \in Slots, req'[s] = Idle
  PROVE  Grounded(s)'
BY DEF Grounded, Idle

(* The invariant put together again after a step of slot s. *)
LEMMA Assemble ==
  ASSUME IInv, TableOK', Grows, NEW s \in Slots, NEW q, Become(s, q), Grounded(s)',
         sent' \subseteq Mails, \A m \in sent' \ sent : Backed(m)'
  PROVE  IInv'
<1>1. /\ req' = [req EXCEPT ![s] = q] /\ DOMAIN req = Slots
      /\ \A t \in Slots \ {s} : req'[t] = req[t]
  BY DEF Become, IInv, TypeOK
<1>2. \A t \in Slots : Grounded(t)'
  BY <1>1, GroundedForever
<1>3. req' \in [Slots -> {Idle} \cup Lookups \cup Changes \cup Mailing]
  BY <1>1, <1>2 DEF Grounded
<1>4. SavesGrounded' /\ MailsGrounded'
  BY <1>2 DEF Grounded, SavesGrounded, MailsGrounded
<1>5. \A m \in sent : m \in Mails /\ Backed(m)
  BY DEF IInv, TypeOK, MailsJustified
<1>6. \A m \in sent' : Backed(m)'
  BY <1>5, BackedForever
<1>7. MailsJustified'
  BY <1>6 DEF MailsJustified
<1> QED BY <1>3, <1>4, <1>7 DEF IInv, TypeOK, TableOK

(* The stored rows stay and the history grows by nothing. *)
LEMMA TableUntouched ==
  ASSUME IInv, UNCHANGED <<rows, versions>>
  PROVE  TableOK' /\ Grows
BY TableInvariant DEF TableOK, RowsStored, VersionsConsistent, ApprovedWasSubmitted, Grows

(* Reading a row for a legal change leaves a grounded request. *)
LEMMA ReadKeepsInvariant ==
  ASSUME IInv, NEW s \in Slots, NEW op \in Ops, NEW r \in Reports, NEW new \in Row,
         rows[r] # NoRow, Means(op, rows[r], new), Read(s, op, r, new)
  PROVE  IInv'
<1> DEFINE q == [pc |-> "save", op |-> op, report |-> r, base |-> rows[r], new |-> new]
<1>1. TableOK' /\ Grows
  BY TableUntouched DEF Read
<1>2. rows[r] \in Row /\ rows[r] \in versions[r]
  BY DEF IInv, TypeOK, RowsStored
<1>3. Become(s, q) /\ req'[s] = q
  BY DEF Read, Become, IInv, TypeOK
<1>4. q \in Changes
  BY <1>2 DEF Changes
<1>5. Grounded(s)'
  BY <1>2, <1>3, <1>4 DEF Grounded, Read
<1>6. sent' = sent /\ sent \subseteq Mails
  BY DEF Read, IInv, TypeOK
<1> QED BY <1>1, <1>3, <1>5, <1>6, Assemble

LEMMA UpdateReadKeepsInvariant ==
  ASSUME IInv, NEW s \in Slots, NEW u \in Users, NEW r \in Reports, NEW patch \in Patches,
         ReadForUpdate(s, u, r, patch)
  PROVE  IInv'
<1>1. rows[r] \in Row /\ rows[r] # NoRow /\ rows[r].status # "APPROVED"
  BY DEF ReadForUpdate, IInv, TypeOK
<1>2. Patched(rows[r], patch) \in Row /\ Means("update", rows[r], Patched(rows[r], patch))
  BY <1>1, PatchedIsEdit DEF Means
<1> QED BY <1>1, <1>2, ReadKeepsInvariant DEF ReadForUpdate, Ops

LEMMA SubmitReadKeepsInvariant ==
  ASSUME IInv, NEW s \in Slots, NEW u \in Users, NEW r \in Reports, ReadForSubmit(s, u, r)
  PROVE  IInv'
<1>1. rows[r] \in Row /\ rows[r] # NoRow /\ rows[r].status \in {"DRAFT", "REVISION_REQUESTED"}
  BY DEF ReadForSubmit, IInv, TypeOK
<1>2. Submitted(rows[r]) \in Row /\ Means("submit", rows[r], Submitted(rows[r]))
  BY <1>1, SubmittedIsSubmit DEF Means
<1> QED BY <1>1, <1>2, ReadKeepsInvariant DEF ReadForSubmit, Ops

LEMMA ApproveReadKeepsInvariant ==
  ASSUME IInv, NEW s \in Slots, NEW u \in Users, NEW r \in Reports, ReadForApprove(s, u, r)
  PROVE  IInv'
<1>1. rows[r] \in Row /\ rows[r] # NoRow /\ rows[r].status = "SUBMITTED"
  BY DEF ReadForApprove, IInv, TypeOK
<1>2. Approved(rows[r]) \in Row /\ Means("approve", rows[r], Approved(rows[r]))
  BY <1>1, ApprovedIsApproval DEF Means
<1> QED BY <1>1, <1>2, ReadKeepsInvariant DEF ReadForApprove, Ops

LEMMA RevisionReadKeepsInvariant ==
  ASSUME IInv, NEW s \in Slots, NEW u \in Users, NEW r \in Reports, NEW remarks \in Texts,
         ReadForRevision(s, u, r, remarks)
  PROVE  IInv'
<1>1. rows[r] \in Row /\ rows[r] # NoRow /\ rows[r].status = "SUBMITTED"
  BY DEF ReadForRevision, IInv, TypeOK
<1>2. /\ SentBack(rows[r], remarks) \in Row
      /\ Means("revise", rows[r], SentBack(rows[r], remarks))
  BY <1>1, SentBackIsSendBack DEF Means
<1> QED BY <1>1, <1>2, ReadKeepsInvariant DEF ReadForRevision, Ops

(* What a request in flight will store may be stored, whatever the row *)
(* holds by the time it is stored.                                     *)
LEMMA SaveStores ==
  ASSUME IInv, NEW s \in Slots, req[s].pc = "save", Store(req[s].report, req[s].new)
  PROVE  TableOK' /\ Grows /\ req[s].new \in versions'[req[s].report]
<1>1. req[s] \in Changes
  BY RequestKinds DEF IInv
<1>2. /\ req[s].op \in Ops /\ req[s].report \in Reports
      /\ req[s].base \in Row /\ req[s].new \in Row
  BY <1>1 DEF Changes
<1>3. Storable(req[s].report, req[s].new)
  BY <1>2, MeansIsLegal DEF IInv, SavesGrounded, Storable
<1> QED BY <1>2, <1>3, TableInvariant, StoreKeepsTable

LEMMA SaveKeepsInvariant ==
  ASSUME IInv, NEW s \in Slots, Save(s)
  PROVE  IInv'
<1>1. /\ req[s] \in Changes /\ Means(req[s].op, req[s].base, req[s].new)
      /\ req[s].pc = "save"
  BY RequestKinds DEF Save, IInv, SavesGrounded
<1>2. TableOK' /\ Grows /\ req[s].new \in versions'[req[s].report]
  BY SaveStores DEF Save
<1>3. sent' = sent /\ sent \subseteq Mails
  BY DEF Save, IInv, TypeOK
<1>4. CASE req[s].op = "update"
  <2>1. Become(s, Idle) /\ req'[s] = Idle
    BY <1>4 DEF Save, Reply, Become, IInv, TypeOK
  <2> QED BY <1>2, <1>3, <2>1, IdleGrounded, Assemble
<1>5. CASE req[s].op # "update"
  <2> DEFINE q == [pc |-> "mail", mail |-> MailOf(req[s])]
  <2>1. Become(s, q) /\ req'[s] = q
    BY <1>5 DEF Save, Become, IInv, TypeOK
  <2>2. /\ MailOf(req[s]) \in Mails /\ MailOf(req[s]).report = req[s].report
        /\ Announces(MailOf(req[s]).op, req[s].new.status)
        /\ MailOf(req[s]).op = "revise" => req[s].new.comments = MailOf(req[s]).comments
    BY <1>1, <1>5, MailIsTrue
  <2>3. q \in Mailing
    BY <2>2 DEF Mailing
  <2>4. Backed(req[s].mail)'
    BY <1>2, <2>1, <2>2 DEF Backed
  <2>5. Grounded(s)'
    BY <2>1, <2>3, <2>4 DEF Grounded
  <2> QED BY <1>2, <1>3, <2>1, <2>5, Assemble
<1> QED BY <1>4, <1>5

(* A step that leaves slot s idle and sends nothing. *)
LEMMA ReplyKeepsInvariant ==
  ASSUME IInv, NEW s \in Slots, Reply(s), TableOK', Grows, UNCHANGED sent
  PROVE  IInv'
<1>1. Become(s, Idle) /\ req'[s] = Idle
  BY DEF Reply, Become, IInv, TypeOK
<1>2. sent' = sent /\ sent \subseteq Mails
  BY DEF IInv, TypeOK
<1> QED BY <1>1, <1>2, IdleGrounded, Assemble

LEMMA InsertStores ==
  ASSUME IInv, NEW r \in Reports, NEW fields \in [Fields -> Text],
         rows[r] = NoRow, Store(r, NewDraft(fields))
  PROVE  TableOK' /\ Grows
BY TableInvariant, NewDraftIsRow, StoreKeepsTable DEF Storable

LEMMA InsertKeepsInvariant ==
  ASSUME IInv, NEW s \in Slots, NEW r \in Reports, NEW fields \in [Fields -> Text],
         Insert(s, r, fields)
  PROVE  IInv'
<1>1. TableOK' /\ Grows
  BY InsertStores DEF Insert
<1>2. Reply(s) /\ UNCHANGED sent
  BY DEF Insert, Reply, Become, IInv, TypeOK
<1> QED BY <1>1, <1>2, ReplyKeepsInvariant

LEMMA InsertFailsKeepsInvariant ==
  ASSUME IInv, NEW s \in Slots, NEW r \in Reports, NEW fields \in [Fields -> Text],
         InsertFails(s, r, fields)
  PROVE  IInv'
<1> DEFINE q == [pc |-> "lookup", report |-> r]
<1>1. TableOK' /\ Grows
  <2>1. CASE UNCHANGED <<rows, versions>>
    BY <2>1, TableUntouched
  <2>2. CASE rows[r] = NoRow /\ Store(r, NewDraft(fields))
    BY <2>2, InsertStores
  <2> QED BY <2>1, <2>2 DEF InsertFails
<1>2. Become(s, q) /\ req'[s] = q
  BY DEF InsertFails, Become, IInv, TypeOK
<1>3. Grounded(s)'
  BY <1>2 DEF Grounded, Lookups
<1>4. sent' = sent /\ sent \subseteq Mails
  BY DEF InsertFails, IInv, TypeOK
<1> QED BY <1>1, <1>2, <1>3, <1>4, Assemble

LEMMA SaveFailsKeepsInvariant ==
  ASSUME IInv, NEW s \in Slots, SaveFails(s)
  PROVE  IInv'
<1>1. TableOK' /\ Grows
  BY SaveStores, TableUntouched DEF SaveFails
<1> QED BY <1>1, ReplyKeepsInvariant DEF SaveFails

LEMMA SendMailKeepsInvariant ==
  ASSUME IInv, NEW s \in Slots, SendMail(s)
  PROVE  IInv'
<1>1. TableOK' /\ Grows
  BY TableUntouched DEF SendMail
<1>2. req[s].mail \in Mails /\ Backed(req[s].mail)
  BY RequestKinds DEF SendMail, IInv, MailsGrounded, Mailing
<1>3. sent' \subseteq Mails /\ \A m \in sent' \ sent : Backed(m)'
  BY <1>1, <1>2, BackedForever DEF SendMail, IInv, TypeOK
<1>4. Become(s, Idle) /\ Grounded(s)'
  BY IdleGrounded DEF SendMail, Reply, Become, IInv, TypeOK
<1> QED BY <1>1, <1>3, <1>4, Assemble

LEMMA CrashKeepsInvariant ==
  ASSUME IInv, Crash
  PROVE  IInv'
<1>1. TableOK' /\ Grows
  BY TableUntouched DEF Crash
<1>2. req' \in [Slots -> {Idle} \cup Lookups \cup Changes \cup Mailing]
  BY DEF Crash
<1>3. \A s \in Slots : Grounded(s)'
  BY IdleGrounded DEF Crash
<1>4. SavesGrounded' /\ MailsGrounded'
  BY <1>3 DEF Grounded, SavesGrounded, MailsGrounded
<1>5. sent' = sent /\ sent \subseteq Mails /\ \A m \in sent : Backed(m)'
  BY <1>1, BackedForever DEF Crash, IInv, TypeOK, MailsJustified
<1> QED BY <1>1, <1>2, <1>4, <1>5 DEF IInv, TypeOK, TableOK, MailsJustified

LEMMA StutterKeepsInvariant ==
  ASSUME IInv, UNCHANGED vars
  PROVE  IInv'
BY DEF IInv, vars, TypeOK, RowsStored, VersionsConsistent, ApprovedWasSubmitted,
       SavesGrounded, MailsGrounded, MailsJustified, Backed

-----------------------------------------------------------------------------
LEMMA InitInvariant == Init => IInv
BY DEF Init, IInv, TypeOK, RowsStored, VersionsConsistent, ApprovedWasSubmitted,
       SavesGrounded, MailsGrounded, MailsJustified, Idle

LEMMA NextInvariant == IInv /\ [Next]_vars => IInv'
<1> SUFFICES ASSUME IInv, [Next]_vars PROVE IInv'
  OBVIOUS
<1>1. ASSUME NEW s \in Slots, NEW r \in Reports, NEW fields \in [Fields -> Text],
             Insert(s, r, fields) \/ InsertFails(s, r, fields)
      PROVE  IInv'
  BY <1>1, InsertKeepsInvariant, InsertFailsKeepsInvariant
<1>2. ASSUME NEW s \in Slots, ReadForChange(s)
      PROVE  IInv'
  BY <1>2, UpdateReadKeepsInvariant, SubmitReadKeepsInvariant, ApproveReadKeepsInvariant,
     RevisionReadKeepsInvariant DEF ReadForChange
<1>3. ASSUME NEW s \in Slots, LookUpExisting(s) \/ MailFails(s)
      PROVE  IInv'
  BY <1>3, TableUntouched, ReplyKeepsInvariant DEF LookUpExisting, MailFails
<1>4. ASSUME NEW s \in Slots, Save(s) \/ SaveFails(s) \/ SendMail(s)
      PROVE  IInv'
  BY <1>4, SaveKeepsInvariant, SaveFailsKeepsInvariant, SendMailKeepsInvariant
<1>5. CASE Crash
  BY <1>5, CrashKeepsInvariant
<1>6. CASE UNCHANGED vars
  BY <1>6, StutterKeepsInvariant
<1> QED BY <1>1, <1>2, <1>3, <1>4, <1>5, <1>6 DEF Next

(* What every request holds stays grounded in the history of its report.    *)
THEOREM Invariance == Spec => []IInv
BY InitInvariant, NextInvariant, PTL DEF Spec

(* Every variable stays in its type. *)
THEOREM TypeCorrect == Spec => []TypeOK
<1>1. IInv => TypeOK
  BY DEF IInv
<1> QED BY <1>1, Invariance, PTL

(* However requests overlap, fail or are cut off by a crash, status, submitted_at *)
(* and comments of a stored row fit together.                                     *)
THEOREM RowsStayConsistent == Spec => []RowConsistent
<1>1. IInv => RowConsistent
  BY DEF IInv, RowsStored, VersionsConsistent, RowConsistent
<1> QED BY <1>1, Invariance, PTL

(* No overlap makes the server approve a text that never stood as SUBMITTED. *)
THEOREM ApprovalsAreOfSubmissions == Spec => []ApprovedWasSubmitted
<1>1. IInv => ApprovedWasSubmitted
  BY DEF IInv
<1> QED BY <1>1, Invariance, PTL

(* No mail announces a decision that was not stored. *)
THEOREM MailsAreJustified == Spec => []MailsJustified
<1>1. IInv => MailsJustified
  BY DEF IInv
<1> QED BY <1>1, Invariance, PTL

-----------------------------------------------------------------------------
(* Who stores what in one step: a first draft where no row is, the copy of a *)
(* request in flight, or nothing.                                            *)
StoresDraft == \E r \in Reports, fields \in [Fields -> Text] :
  rows[r] = NoRow /\ Store(r, NewDraft(fields))
StoresCopy  == \E s \in Slots :
  req[s].pc = "save" /\ Store(req[s].report, req[s].new)

LEMMA StepStores ==
  [Next]_vars => StoresDraft \/ StoresCopy \/ UNCHANGED <<rows, versions>>
<1> SUFFICES ASSUME [Next]_vars
             PROVE  StoresDraft \/ StoresCopy \/ UNCHANGED <<rows, versions>>
  OBVIOUS
<1>1. ASSUME NEW s \in Slots, NEW r \in Reports, NEW fields \in [Fields -> Text],
             Insert(s, r, fields) \/ InsertFails(s, r, fields)
      PROVE  StoresDraft \/ UNCHANGED <<rows, versions>>
  BY <1>1 DEF Insert, InsertFails, StoresDraft
<1>2. ASSUME NEW s \in Slots, ReadForChange(s)
      PROVE  UNCHANGED <<rows, versions>>
  BY <1>2 DEF ReadForChange, ReadForUpdate, ReadForSubmit, ReadForApprove, ReadForRevision, Read
<1>3. ASSUME NEW s \in Slots, Save(s) \/ SaveFails(s)
      PROVE  StoresCopy \/ UNCHANGED <<rows, versions>>
  BY <1>3 DEF Save, SaveFails, StoresCopy
<1>4. ASSUME NEW s \in Slots, LookUpExisting(s) \/ SendMail(s) \/ MailFails(s)
      PROVE  UNCHANGED <<rows, versions>>
  BY <1>4 DEF LookUpExisting, SendMail, MailFails
<1>5. Crash \/ UNCHANGED vars => UNCHANGED <<rows, versions>>
  BY DEF Crash, vars
<1> QED BY <1>1, <1>2, <1>3, <1>4, <1>5 DEF Next

LEMMA StepGrows ==
  ASSUME IInv, [Next]_vars
  PROVE  Grows
BY StepStores DEF StoresDraft, StoresCopy, Store, Grows, IInv, TypeOK

LEMMA InFlight ==
  ASSUME IInv, NEW s \in Slots, req[s].pc = "save"
  PROVE  /\ req[s].report \in Reports /\ req[s].base \in Row /\ req[s].new \in Row
         /\ req[s].base \in versions[req[s].report]
         /\ LegalStep(req[s].base, req[s].new)
<1>1. req[s] \in Changes
  BY RequestKinds DEF IInv
<1>2. req[s].op \in Ops /\ req[s].report \in Reports /\ req[s].base \in Row /\ req[s].new \in Row
  BY <1>1 DEF Changes
<1>3. req[s].base \in versions[req[s].report] /\ Means(req[s].op, req[s].base, req[s].new)
  BY DEF IInv, SavesGrounded
<1> QED BY <1>2, <1>3, MeansIsLegal

(* Only a request that read an older row takes a report off its life cycle. *)
LEMMA StaleStep ==
  ASSUME IInv, [Next]_vars, NEW r \in Reports, rows[r] # NoRow, rows'[r] # rows[r]
  PROVE  \/ rows'[r] # NoRow /\ LegalStep(rows[r], rows'[r])
         \/ \E s \in Slots : /\ req[s].pc = "save"
                             /\ req[s].report = r
                             /\ req[s].base # rows[r]
<1>1. ~ StoresDraft
  BY DEF StoresDraft, Store, IInv, TypeOK
<1>2. PICK s \in Slots : req[s].pc = "save" /\ Store(req[s].report, req[s].new)
  BY <1>1, StepStores DEF StoresCopy
<1>3. req[s].report = r /\ rows'[r] = req[s].new
  BY <1>2, InFlight DEF Store, IInv, TypeOK
<1>4. CASE req[s].base = rows[r]
  BY <1>2, <1>3, <1>4, InFlight, NoRowAssumption
<1>5. CASE req[s].base # rows[r]
  BY <1>2, <1>3, <1>5
<1> QED BY <1>4, <1>5

(* The property of the same name of the overlap run, for all constants. *)
THEOREM OverlapIsTheOnlyWayOut == Spec => OnlyStaleSavesAreIllegal
<1>1. IInv /\ [Next]_vars =>
        [\A r \in Reports :
           rows[r] # NoRow /\ rows'[r] # rows[r] =>
             \/ rows'[r] # NoRow /\ LegalStep(rows[r], rows'[r])
             \/ \E s \in Slots : /\ req[s].pc = "save"
                                 /\ req[s].report = r
                                 /\ req[s].base # rows[r]]_vars
  BY StaleStep
<1> QED BY <1>1, Invariance, PTL DEF Spec, OnlyStaleSavesAreIllegal

-----------------------------------------------------------------------------
(* The life cycle means the same in the abstract specification. *)
LEMMA SameRows ==
  /\ V!Row = Row
  /\ \A old, new : V!LegalStep(old, new) = LegalStep(old, new)
  /\ \A fields : V!NewDraft(fields) = NewDraft(fields)
BY DEF V!Row, Row, V!Statuses, Statuses, V!Text, Text, V!LegalStep, LegalStep,
       V!Edits, Edits, V!KeptOrFilled, KeptOrFilled, V!Submits, Submits,
       V!Approves, Approves, V!SendsBack, SendsBack, V!NewDraft, NewDraft

LEMMA VersionsStep == IInv /\ [Next]_vars => [V!Next]_V!vars
<1> SUFFICES ASSUME IInv, [Next]_vars PROVE [V!Next]_V!vars
  OBVIOUS
<1>1. CASE StoresDraft
  <2>1. PICK r \in Reports, fields \in [Fields -> Text] :
          rows[r] = NoRow /\ Store(r, NewDraft(fields))
    BY <1>1 DEF StoresDraft
  <2>2. versions[r] = {}
    BY <2>1 DEF IInv, RowsStored
  <2>3. V!Create(r)
    BY <2>1, <2>2, SameRows DEF V!Create, V!Store, Store, V!Text, Text
  <2> QED BY <2>3 DEF V!Next
<1>2. CASE StoresCopy
  <2>1. PICK s \in Slots : req[s].pc = "save" /\ Store(req[s].report, req[s].new)
    BY <1>2 DEF StoresCopy
  <2>2. V!Write(req[s].report)
    BY <2>1, InFlight, SameRows DEF V!Write, V!Store, Store
  <2> QED BY <2>1, <2>2, InFlight DEF V!Next
<1>3. CASE UNCHANGED <<rows, versions>>
  BY <1>3 DEF V!vars
<1> QED BY <1>1, <1>2, <1>3, StepStores

(* Overlapping requests implement the life cycle on versions: each stored row *)
(* is a legal edit of a row stored before, and nothing is stored otherwise.   *)
THEOREM VersionsRefined == Spec => ImplementsVersions
<1>1. Init => V!Init
  BY DEF Init, V!Init
<1> QED BY <1>1, VersionsStep, Invariance, PTL DEF Spec, ImplementsVersions, V!Spec

-----------------------------------------------------------------------------
(* Without overlap, what a request read is still in the table when it writes. *)
Fresh == \A s \in Slots : req[s].pc = "save" => req[s].base = rows[req[s].report]

(* One slot goes on; no row changes that another request has read. *)
LEMMA FreshAssembles ==
  ASSUME IInv, Fresh, NEW s \in Slots, NEW q, Become(s, q),
         q.pc = "save" => q.base = rows'[q.report],
         \A t \in Slots : t # s /\ req[t].pc = "save" =>
           rows'[req[t].report] = rows[req[t].report]
  PROVE  Fresh'
<1> SUFFICES ASSUME NEW t \in Slots, req'[t].pc = "save"
             PROVE  req'[t].base = rows'[req'[t].report]
  BY DEF Fresh
<1>1. CASE t = s
  BY <1>1 DEF Become, IInv, TypeOK
<1>2. CASE t # s
  <2>1. req'[t] = req[t]
    BY <1>2 DEF Become, IInv, TypeOK
  <2> QED BY <1>2, <2>1 DEF Fresh
<1> QED BY <1>1, <1>2

(* Inserting a first draft replaces no row that was read. *)
LEMMA DraftDisturbsNobody ==
  ASSUME IInv, NEW r \in Reports, NEW row, rows[r] = NoRow,
         rows' = [rows EXCEPT ![r] = row]
  PROVE  \A t \in Slots : req[t].pc = "save" => rows'[req[t].report] = rows[req[t].report]
<1> SUFFICES ASSUME NEW t \in Slots, req[t].pc = "save"
             PROVE  rows'[req[t].report] = rows[req[t].report]
  OBVIOUS
<1>1. req[t].report \in Reports /\ versions[req[t].report] # {}
  BY InFlight
<1>2. req[t].report # r
  BY <1>1 DEF IInv, RowsStored
<1> QED BY <1>1, <1>2 DEF IInv, TypeOK

LEMMA FreshStep == IInv /\ NoOverlap /\ Fresh /\ [Next]_vars => Fresh'
<1> SUFFICES ASSUME IInv, NoOverlap, Fresh, [Next]_vars PROVE Fresh'
  OBVIOUS
<1>1. ASSUME NEW s \in Slots, NEW r \in Reports, NEW fields \in [Fields -> Text],
             Insert(s, r, fields) \/ InsertFails(s, r, fields)
      PROVE  Fresh'
  <2>1. \A t \in Slots : req[t].pc = "save" => rows'[req[t].report] = rows[req[t].report]
    BY <1>1, DraftDisturbsNobody DEF Insert, InsertFails, Store
  <2>2. CASE Insert(s, r, fields)
    BY <2>1, <2>2 DEF Insert, Fresh
  <2>3. CASE InsertFails(s, r, fields)
    BY <2>1, <2>3, FreshAssembles DEF InsertFails
  <2> QED BY <1>1, <2>2, <2>3
<1>2. ASSUME NEW s \in Slots, ReadForChange(s)
      PROVE  Fresh'
  <2>1. ASSUME NEW op, NEW r, NEW new, Read(s, op, r, new)
        PROVE  Fresh'
    BY <2>1, FreshAssembles DEF Read
  <2> QED
    BY <1>2, <2>1 DEF ReadForChange, ReadForUpdate, ReadForSubmit, ReadForApprove, ReadForRevision
<1>3. ASSUME NEW s \in Slots, Save(s) \/ SaveFails(s)
      PROVE  Fresh'
  <2>1. req[s].pc = "save"
    BY <1>3 DEF Save, SaveFails
  <2>2. \A t \in Slots : t # s /\ req[t].pc = "save" =>
          rows'[req[t].report] = rows[req[t].report]
    <3> SUFFICES ASSUME NEW t \in Slots, t # s, req[t].pc = "save"
                 PROVE  rows'[req[t].report] = rows[req[t].report]
      OBVIOUS
    <3>1. req[t].report # req[s].report /\ req[t].report \in Reports
      BY <2>1, InFlight DEF NoOverlap
    <3> QED BY <1>3, <3>1 DEF Save, SaveFails, Store, IInv, TypeOK
  <2>3. Become(s, Idle) \/ Become(s, [pc |-> "mail", mail |-> MailOf(req[s])])
    BY <1>3 DEF Save, SaveFails, Reply
  <2> QED BY <2>2, <2>3, FreshAssembles DEF Idle
<1>4. ASSUME NEW s \in Slots, LookUpExisting(s) \/ SendMail(s) \/ MailFails(s)
      PROVE  Fresh'
  BY <1>4, FreshAssembles DEF LookUpExisting, SendMail, MailFails, Reply, Idle
<1>5. CASE Crash
  BY <1>5 DEF Crash, Fresh, Idle
<1>6. CASE UNCHANGED vars
  BY <1>6 DEF vars, Fresh
<1> QED BY <1>1, <1>2, <1>3, <1>4, <1>5, <1>6 DEF Next

LEMMA SameLifecycle ==
  /\ L!Row = Row
  /\ \A old, new : L!LegalStep(old, new) = LegalStep(old, new)
  /\ \A fields : L!NewDraft(fields) = NewDraft(fields)
BY DEF L!Row, Row, L!Statuses, Statuses, L!Text, Text, L!LegalStep, LegalStep,
       L!Edits, Edits, L!KeptOrFilled, KeptOrFilled, L!Submits, Submits,
       L!Approves, Approves, L!SendsBack, SendsBack, L!NewDraft, NewDraft

LEMMA LifecycleStep == IInv /\ Fresh /\ [Next]_vars => [L!Next]_rows
<1> SUFFICES ASSUME IInv, Fresh, [Next]_vars PROVE [L!Next]_rows
  OBVIOUS
<1>1. CASE StoresDraft
  <2>1. PICK r \in Reports, fields \in [Fields -> Text] :
          rows[r] = NoRow /\ Store(r, NewDraft(fields))
    BY <1>1 DEF StoresDraft
  <2>2. L!Create(r)
    BY <2>1, SameLifecycle DEF L!Create, Store, L!Text, Text
  <2> QED BY <2>2 DEF L!Next
<1>2. CASE StoresCopy
  <2>1. PICK s \in Slots : req[s].pc = "save" /\ Store(req[s].report, req[s].new)
    BY <1>2 DEF StoresCopy
  <2>2. rows[req[s].report] = req[s].base
    BY <2>1 DEF Fresh
  <2>3. L!Change(req[s].report)
    BY <2>1, <2>2, InFlight, SameLifecycle, NoRowAssumption DEF L!Change, Store
  <2> QED BY <2>1, <2>3, InFlight DEF L!Next
<1>3. CASE UNCHANGED <<rows, versions>>
  BY <1>3
<1> QED BY <1>1, <1>2, <1>3, StepStores

LEMMA SerialIsSpec == SerialSpec => Spec /\ []NoOverlap
<1>1. Init => NoOverlap
  BY DEF Init, NoOverlap, Idle
<1>2. NoOverlap /\ [Next /\ NoOverlap']_vars => NoOverlap'
  BY DEF NoOverlap, vars
<1>3. [Next /\ NoOverlap']_vars => [Next]_vars
  OBVIOUS
<1> QED BY <1>1, <1>2, <1>3, PTL DEF SerialSpec, Spec

(* Where requests overlap for different reports only, the handlers implement *)
(* the product's life cycle on the row itself: every disagreement needs two  *)
(* requests for one report (handler.go:178-185, 211-216, 265-267, 322-325).  *)
THEOREM SerialRefinement == SerialSpec => ImplementsLifecycle
<1>1. Init => L!Init /\ Fresh
  BY DEF Init, L!Init, Fresh, Idle
<1> QED BY <1>1, FreshStep, LifecycleStep, Invariance, SerialIsSpec, PTL
        DEF Spec, ImplementsLifecycle, L!Spec

(* With room for one request at a time nothing overlaps. *)
THEOREM SingleSlotRefinement ==
  ASSUME NEW one, Slots = {one}
  PROVE  Spec => ImplementsLifecycle
<1>1. NoOverlap'
  BY DEF NoOverlap
<1>2. [Next]_vars => [Next /\ NoOverlap']_vars
  BY <1>1
<1> QED BY <1>2, SerialRefinement, PTL DEF Spec, SerialSpec

-----------------------------------------------------------------------------
(* What a product with this life cycle promises its users, whoever           *)
(* implements it: an approval is final (handler.go:170), and what was        *)
(* submitted never becomes a draft again (service.go:57).                    *)
LEMMA LifecycleRows ==
  /\ L!Init => rows \in [Reports -> Row \cup {NoRow}]
  /\ rows \in [Reports -> Row \cup {NoRow}] /\ [L!Next]_rows
       => rows' \in [Reports -> Row \cup {NoRow}]
BY SameLifecycle, NewDraftIsRow DEF L!Init, L!Next, L!Create, L!Change, L!Text, Text

LEMMA LifecycleChanges ==
  ASSUME rows \in [Reports -> Row \cup {NoRow}], [L!Next]_rows,
         NEW r \in Reports, rows[r] # NoRow, rows'[r] # rows[r]
  PROVE  rows[r] \in Row /\ rows'[r] \in Row /\ LegalStep(rows[r], rows'[r])
BY SameLifecycle DEF L!Next, L!Create, L!Change

LEMMA LegalIsFinal ==
  ASSUME NEW old \in Row, NEW new \in Row, LegalStep(old, new)
  PROVE  /\ old.status # "APPROVED"
         /\ old.status # "DRAFT" => new.status # "DRAFT"
<1>1. CASE Edits(old, new)
  BY <1>1 DEF Edits
<1>2. CASE Submits(old, new)
  BY <1>2 DEF Submits, Row
<1>3. CASE Approves(old, new)
  BY <1>3 DEF Approves, Row
<1>4. CASE SendsBack(old, new)
  BY <1>4 DEF SendsBack, Row
<1> QED BY <1>1, <1>2, <1>3, <1>4 DEF LegalStep

(* Whatever implements the life cycle leaves approved reports as they are   *)
(* and turns nothing back into a draft.                                     *)
LEMMA LifecycleIsFinal == ImplementsLifecycle => ApprovedIsFinal /\ SubmissionSticks
<1> DEFINE Rows == rows \in [Reports -> Row \cup {NoRow}]
<1>1. L!Init => Rows
  BY LifecycleRows
<1>2. Rows /\ [L!Next]_rows => Rows'
  BY LifecycleRows
<1>3. Rows /\ [L!Next]_rows =>
        [\A r \in Reports :
           rows[r] # NoRow /\ rows[r].status = "APPROVED" => rows'[r] = rows[r]]_vars
  BY LifecycleChanges, LegalIsFinal
<1>4. Rows /\ [L!Next]_rows =>
        [\A r \in Reports :
           rows[r] # NoRow /\ rows[r].status # "DRAFT" => rows'[r].status # "DRAFT"]_vars
  BY LifecycleChanges, LegalIsFinal
<1> QED BY <1>1, <1>2, <1>3, <1>4, PTL
        DEF ImplementsLifecycle, L!Spec, ApprovedIsFinal, SubmissionSticks

(* Without overlap, an approved report stays as it is. *)
THEOREM ApprovalsAreFinal == SerialSpec => ApprovedIsFinal
BY SerialRefinement, LifecycleIsFinal, PTL

(* Without overlap, no report falls back to a draft. *)
THEOREM SubmissionsStick == SerialSpec => SubmissionSticks
BY SerialRefinement, LifecycleIsFinal, PTL

(* With any overlap, only a copy from before the approval undoes it. *)
THEOREM ApprovalsOutliveNewCopies == Spec => OnlyOldCopiesUndoApprovals
<1>1. ASSUME IInv, [Next]_vars, NEW r \in Reports, rows[r] # NoRow,
             rows[r].status = "APPROVED", rows'[r] # rows[r]
      PROVE  \E s \in Slots : /\ req[s].pc = "save"
                              /\ req[s].report = r
                              /\ req[s].base.status # "APPROVED"
  <2>1. ~ StoresDraft
    BY <1>1 DEF StoresDraft, Store, IInv, TypeOK
  <2>2. PICK s \in Slots : req[s].pc = "save" /\ Store(req[s].report, req[s].new)
    BY <1>1, <2>1, StepStores DEF StoresCopy
  <2>3. req[s].report = r
    BY <1>1, <2>2, InFlight DEF Store, IInv, TypeOK
  <2>4. req[s].base.status # "APPROVED"
    BY <1>1, <2>2, InFlight, LegalIsFinal
  <2> QED BY <2>2, <2>3, <2>4
<1>2. IInv /\ [Next]_vars =>
        [\A r \in Reports :
           rows[r] # NoRow /\ rows[r].status = "APPROVED" /\ rows'[r] # rows[r] =>
             \E s \in Slots : /\ req[s].pc = "save"
                             /\ req[s].report = r
                             /\ req[s].base.status # "APPROVED"]_vars
  BY <1>1
<1> QED BY <1>2, Invariance, PTL DEF Spec, OnlyOldCopiesUndoApprovals
=============================================================================

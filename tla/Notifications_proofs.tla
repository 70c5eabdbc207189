------------------------- MODULE Notifications_proofs -------------------------
(***************************************************************************)
(* Proofs about Notifications, for any number of pages, rows and calls     *)
(* under way together.                                                     *)
(***************************************************************************)
EXTENDS Notifications, SequenceTheorems, TLAPS

-----------------------------------------------------------------------------
(* Lists of entries. *)
LEMMA EntriesAreFunctions ==
  ASSUME NEW e \in Seq(Entry)
  PROVE  /\ Len(e) \in Nat /\ DOMAIN e = 1 .. Len(e)
         /\ \A i \in DOMAIN e : e[i] \in Entry
BY LenProperties, ElementOfSeq

LEMMA Prepended ==
  ASSUME NEW e \in Seq(Entry), NEW x \in Entry
  PROVE  /\ <<x>> \o e \in Seq(Entry)
         /\ (<<x>> \o e)[1] = x
         /\ \A i \in DOMAIN (<<x>> \o e) :
              i # 1 => i - 1 \in DOMAIN e /\ (<<x>> \o e)[i] = e[i - 1]
<1> DEFINE r == <<x>> \o e
<1>1. <<x>> \in Seq(Entry) /\ Len(<<x>>) = 1 /\ <<x>>[1] = x
  OBVIOUS
<1>2. /\ r \in Seq(Entry) /\ Len(r) = 1 + Len(e)
      /\ \A i \in 1 .. 1 + Len(e) : r[i] = IF i <= 1 THEN <<x>>[i] ELSE e[i - 1]
  BY <1>1, ConcatProperties
<1>3. Len(e) \in Nat /\ DOMAIN e = 1 .. Len(e) /\ DOMAIN r = 1 .. Len(r)
  BY <1>2, EntriesAreFunctions
<1> HIDE DEF r
<1>4. r[1] = x
  BY <1>1, <1>2, <1>3
<1>5. ASSUME NEW i \in DOMAIN r, i # 1
      PROVE  i - 1 \in DOMAIN e /\ r[i] = e[i - 1]
  <2>1. i \in 1 .. 1 + Len(e) /\ ~ (i <= 1) /\ i - 1 \in 1 .. Len(e)
    BY <1>2, <1>3, <1>5
  <2> QED BY <1>2, <1>3, <2>1
<1> QED BY <1>2, <1>4, <1>5 DEF r

LEMMA NewEntry ==
  ASSUME NEW n \in Int, -MaxNotes <= n, n <= MaxNotes
  PROVE  [id |-> n, read |-> FALSE] \in Entry
<1>1. n \in -MaxNotes .. MaxNotes
  BY NotesAssumption
<1> QED BY <1>1 DEF Entry

LEMMA WithReadReads ==
  ASSUME NEW e \in Seq(Entry), NEW ids
  PROVE  /\ WithRead(e, ids) \in Seq(Entry)
         /\ DOMAIN WithRead(e, ids) = DOMAIN e
         /\ \A i \in DOMAIN e :
              /\ WithRead(e, ids)[i].id = e[i].id
              /\ WithRead(e, ids)[i].read => e[i].read \/ e[i].id \in ids
<1>1. /\ Len(e) \in Nat /\ DOMAIN e = 1 .. Len(e)
      /\ \A i \in DOMAIN e : e[i] \in Entry
  BY EntriesAreFunctions
<1>2. \A i \in DOMAIN e : /\ [e[i] EXCEPT !.read = @ \/ e[i].id \in ids] \in Entry
                          /\ [e[i] EXCEPT !.read = @ \/ e[i].id \in ids].id = e[i].id
                          /\ [e[i] EXCEPT !.read = @ \/ e[i].id \in ids].read =
                               (e[i].read \/ e[i].id \in ids)
  BY <1>1 DEF Entry
<1>3. WithRead(e, ids) \in [1 .. Len(e) -> Entry]
  BY <1>1, <1>2 DEF WithRead
<1>4. WithRead(e, ids) \in Seq(Entry)
  BY <1>1, <1>3
<1> QED BY <1>1, <1>2, <1>4 DEF WithRead

-----------------------------------------------------------------------------
(* What a step may do to the table and to the history, and the lists and   *)
(* calls that are as good after it as before.                              *)
Bounds == created \in Nat /\ locals \in Nat /\ created' \in Nat /\ locals' \in Nat
Grows ==
  /\ Bounds
  /\ created <= created' /\ locals <= locals'
  /\ raced \subseteq raced' /\ doubled \subseteq doubled'
  /\ failed' \/ ~ failed
  /\ \A n \in 1 .. created : Seen(n) => Seen(n)'
  /\ \A n \in 1 .. created' : \/ n \in 1 .. created
                              \/ n \in raced'
                              \/ ~ Sweeping("all")

LEMMA EntriesStayOK ==
  ASSUME Grows, NEW e \in Seq(Entry), EntriesOK(e),
         \A n \in OnTheirWay' : n \in OnTheirWay \/ n \in doubled' \/ n > created
  PROVE  EntriesOK(e)'
<1>1. \A i \in DOMAIN e : e[i].id \in Int
  <2>1. \A i \in DOMAIN e : e[i] \in Entry
    BY EntriesAreFunctions
  <2> QED BY <2>1, NotesAssumption DEF Entry
<1>2. Known(e)'
  <2> SUFFICES ASSUME NEW i \in DOMAIN e
               PROVE  /\ e[i].id \in -locals' .. created'
                      /\ e[i].id \in OnTheirWay' => e[i].id \in doubled'
    BY DEF Known
  <2>1. /\ e[i].id \in Int /\ e[i].id \in -locals .. created
        /\ e[i].id \in OnTheirWay => e[i].id \in doubled
    BY <1>1 DEF EntriesOK, Known
  <2>2. e[i].id \in -locals' .. created' /\ ~ (e[i].id > created)
    BY <2>1 DEF Grows, Bounds
  <2> QED BY <2>1, <2>2 DEF Grows
<1>3. Apart(e)'
  BY DEF Grows, EntriesOK, Apart
<1>4. ASSUME ~ failed' PROVE Truthful(e)' /\ \A i \in DOMAIN e : e[i].id > 0
  <2>1. ~ failed /\ Truthful(e) /\ \A i \in DOMAIN e : e[i].id > 0
    BY <1>4 DEF Grows, EntriesOK
  <2>2. \A i \in DOMAIN e : e[i].id \in 1 .. created
    BY <1>1, <2>1 DEF EntriesOK, Known, Grows, Bounds
  <2> QED BY <2>1, <2>2 DEF Grows, Truthful
<1> QED BY <1>2, <1>3, <1>4 DEF EntriesOK

LEMMA CallStaysOK ==
  ASSUME Grows, NEW s \in Slots, NEW c \in Call, calls[s] = c, CallOK(c),
         \A n \in OnTheirWay' : n \in OnTheirWay \/ n \in doubled' \/ n > created
  PROVE  CallOK(c)'
<1>1. c.op = "list" /\ c.phase = "answered" => c.answer # None /\ EntriesOK(c.answer)'
  BY EntriesStayOK DEF Call, CallOK
<1>2. 1 .. created \subseteq 1 .. created'
  BY DEF Grows, Bounds
<1>3. c.op = "all" /\ c.phase = "answered" => Sweeping("all")
  BY NoneAssumption DEF Sweeping, Under
<1>4. ASSUME ~ failed'
      PROVE  /\ c.op = "mark" => c.id \in 1 .. created'
             /\ c.op = "mark" /\ c.phase = "answered" => Seen(c.id)'
             /\ c.op = "all" /\ c.phase = "answered" =>
                  \A n \in 1 .. created' : n \in raced' \/ Seen(n)'
  BY <1>2, <1>3, <1>4 DEF Grows, CallOK
<1> QED BY <1>1, <1>2, <1>4 DEF CallOK

(* From the calls of the other slots, which do not change, to the whole    *)
(* invariant: the call of slot s becomes c.                                *)
Becomes(s, c) == /\ c \in Call \cup {None}
                 /\ calls' = [calls EXCEPT ![s] = c]

LEMMA TypedCalls ==
  ASSUME IInv
  PROVE  /\ calls \in [Slots -> Call \cup {None}] /\ None \notin Call
         /\ \A s \in Slots : calls[s] # None => calls[s] \in Call /\ CallOK(calls[s])
         /\ \A p \in Pages : shown[p] \in Seq(Entry) /\ EntriesOK(shown[p])
         /\ created \in Nat /\ created <= MaxNotes /\ locals \in Nat /\ locals <= MaxNotes
         /\ MaxNotes \in Nat
BY NoneAssumption, NotesAssumption DEF IInv, TypeOK

(* No other insert gets on its way. *)
LEMMA NoNewInsert ==
  ASSUME IInv, NEW s \in Slots, NEW c, Becomes(s, c),
         c = None \/ (c.op = "create" /\ c.phase = "answered" => c.id > created)
  PROVE  \A n \in OnTheirWay' : n \in OnTheirWay \/ n > created
<1> SUFFICES ASSUME NEW x \in Slots, calls'[x] # None, calls'[x].op = "create",
                    calls'[x].phase = "answered"
             PROVE  calls'[x].id \in OnTheirWay \/ calls'[x].id > created
  BY DEF OnTheirWay, Announcing
<1>1. CASE x = s
  BY <1>1, TypedCalls DEF Becomes
<1>2. CASE x # s
  <2>1. calls'[x] = calls[x]
    BY <1>2, TypedCalls DEF Becomes
  <2> QED BY <2>1 DEF OnTheirWay, Announcing
<1> QED BY <1>1, <1>2

LEMMA InsertsStayApart ==
  ASSUME IInv, NEW s \in Slots, NEW c, Becomes(s, c),
         c = None \/ (c.op = "create" /\ c.phase = "answered" => c.id > created)
  PROVE  InsertsApart'
<1> SUFFICES ASSUME NEW x \in Slots, NEW y \in Slots, x # y,
                    calls'[x] # None, calls'[x].op = "create", calls'[x].phase = "answered",
                    calls'[y] # None, calls'[y].op = "create", calls'[y].phase = "answered"
             PROVE  calls'[x].id # calls'[y].id
  BY DEF InsertsApart, Announcing
<1>1. \A z \in Slots : calls'[z] = IF z = s THEN c ELSE calls[z]
  BY TypedCalls DEF Becomes
<1>2. \A z \in Slots : calls[z] # None /\ calls[z].op = "create" /\ calls[z].phase = "answered"
        => calls[z].id \in Int /\ calls[z].id <= created
  BY TypedCalls DEF CallOK
<1>3. CASE x = s \/ y = s
  BY <1>1, <1>2, <1>3, TypedCalls
<1>4. CASE x # s /\ y # s
  BY <1>1, <1>4 DEF IInv, InsertsApart, Announcing
<1> QED BY <1>3, <1>4

LEMMA OtherCallsOK ==
  ASSUME IInv, Grows, NEW s \in Slots, NEW c, Becomes(s, c),
         \A n \in OnTheirWay' : n \in OnTheirWay \/ n \in doubled' \/ n > created,
         c # None => CallOK(c)'
  PROVE  \A x \in Slots : calls'[x] # None => CallOK(calls[x])'
<1> SUFFICES ASSUME NEW x \in Slots, calls'[x] # None PROVE CallOK(calls[x])'
  OBVIOUS
<1>1. CASE x = s
  <2>1. calls'[x] = c
    BY <1>1, TypedCalls DEF Becomes
  <2> QED BY <2>1
<1>2. CASE x # s
  <2>1. calls'[x] = calls[x]
    BY <1>2, TypedCalls DEF Becomes
  <2>2. PICK d \in Call : calls[x] = d /\ CallOK(d)
    BY <2>1, TypedCalls
  <2>3. CallOK(d)'
    BY <2>2, CallStaysOK
  <2>4. calls'[x] = d
    BY <2>1, <2>2
  <2> QED BY <2>3, <2>4
<1> QED BY <1>1, <1>2

TableOK == /\ inbox \in [Ids -> {"absent", "unread", "read"}]
           /\ created \in 0 .. MaxNotes /\ locals \in 0 .. MaxNotes
           /\ cleared \subseteq 1 .. created /\ Present \subseteq 1 .. created
           /\ raced \subseteq Ids /\ doubled \subseteq Ids /\ failed \in BOOLEAN
           /\ ClearedComeBackRead

LEMMA TableIsOK == IInv => TableOK
BY DEF IInv, TypeOK, TableOK

LEMMA StepKeeps ==
  ASSUME IInv, Grows, NEW s \in Slots, NEW c \in Call \cup {None}, Becomes(s, c),
         c = None \/ (c.op = "create" /\ c.phase = "answered" => c.id > created),
         c # None => CallOK(c)',
         TableOK', shown' \in [Pages -> Seq(Entry)],
         \A p \in Pages : shown'[p] = shown[p] \/ EntriesOK(shown[p])'
  PROVE  IInv'
<1>1. \A n \in OnTheirWay' : n \in OnTheirWay \/ n \in doubled' \/ n > created
  BY NoNewInsert
<1>2. \A x \in Slots : calls'[x] # None => CallOK(calls[x])'
  BY <1>1, OtherCallsOK
<1>3. InsertsApart'
  BY InsertsStayApart
<1>4. ASSUME NEW p \in Pages, shown'[p] = shown[p]
      PROVE  EntriesOK(shown[p])'
  <2>1. PICK e \in Seq(Entry) : shown[p] = e /\ EntriesOK(e)
    BY TypedCalls
  <2>2. EntriesOK(e)'
    BY <1>1, <2>1, EntriesStayOK
  <2> QED BY <1>4, <2>1, <2>2
<1>5. \A p \in Pages : EntriesOK(shown[p])'
  BY <1>4
<1>6. calls' \in [Slots -> Call \cup {None}]
  BY TypedCalls DEF Becomes
<1>7. TypeOK' /\ cleared' \subseteq 1 .. created' /\ Present' \subseteq 1 .. created'
      /\ ClearedComeBackRead'
  <2>1. 1 .. created' \subseteq Ids
    BY NotesAssumption DEF TableOK, Ids
  <2> QED BY <1>6, <2>1 DEF TableOK, TypeOK
<1> QED BY <1>2, <1>3, <1>5, <1>7 DEF IInv

(* Steps of one call that leave the pages alone. *)
LEMMA QuietStepKeeps ==
  ASSUME IInv, Grows, NEW s \in Slots, NEW c \in Call, Becomes(s, c),
         c.op = "create" /\ c.phase = "answered" => c.id > created,
         CallOK(c)', TableOK', shown' = shown
  PROVE  IInv'
<1>1. shown \in [Pages -> Seq(Entry)]
  BY DEF IInv, TypeOK
<1> QED BY <1>1, StepKeeps

(* Steps that leave table and history alone. *)
LEMMA StillGrows ==
  ASSUME IInv, UNCHANGED <<inbox, created, locals, cleared, raced, doubled>>,
         failed' \in BOOLEAN, failed => failed'
  PROVE  Grows /\ TableOK'
<1>1. Grows
  BY TypedCalls DEF Grows, Bounds, Seen
<1>2. TableOK'
  BY TableIsOK DEF TableOK, Present, ClearedComeBackRead
<1> QED BY <1>1, <1>2

-----------------------------------------------------------------------------
(* The pages send. *)
LEMMA SendKeeps ==
  ASSUME IInv, NEW s \in Slots, NEW p \in Pages,
         NEW op \in {"list", "create", "mark", "all", "clear"},
         NEW id \in -MaxNotes .. MaxNotes, Send(s, p, op, id),
         op = "mark" => failed \/ id \in 1 .. created
  PROVE  IInv'
<1>1. PICK c \in Call : c = [op |-> op, page |-> p, id |-> id, phase |-> "sent", answer |-> None]
  BY DEF Call
<1>2. Becomes(s, c) /\ shown' = shown /\ UNCHANGED <<inbox, created, locals, history>>
  BY <1>1 DEF Send, Becomes
<1>3. Grows /\ TableOK'
  BY <1>2, TableIsOK, StillGrows DEF history, TableOK
<1>4. c.op = op /\ c.phase = "sent" /\ c.id = id
  BY <1>1
<1>5. CallOK(c)'
  BY <1>2, <1>4 DEF CallOK, history
<1> QED BY <1>2, <1>3, <1>4, <1>5, QuietStepKeeps

LEMMA ClicksKeep ==
  ASSUME IInv, NEW s \in Slots, NEW p \in Pages,
         \/ Fetch(s, p) \/ Announce(s, p)
         \/ MarkClick(s, p) \/ AllClick(s, p) \/ ClearClick(s, p)
  PROVE  IInv'
<1>1. 0 \in -MaxNotes .. MaxNotes
  BY NotesAssumption
<1>2. CASE Fetch(s, p) \/ Announce(s, p) \/ AllClick(s, p) \/ ClearClick(s, p)
  BY <1>1, <1>2, SendKeeps DEF Fetch, Announce, AllClick, ClearClick
<1>3. CASE MarkClick(s, p)
  <2>1. PICK i \in DOMAIN shown[p] : Send(s, p, "mark", shown[p][i].id)
    BY <1>3 DEF MarkClick, Unread
  <2>2. shown[p] \in Seq(Entry) /\ EntriesOK(shown[p])
    BY TypedCalls
  <2>3. shown[p][i] \in Entry
    BY <2>2, EntriesAreFunctions
  <2>4. PICK id \in -MaxNotes .. MaxNotes : id = shown[p][i].id
    BY <2>3 DEF Entry
  <2>5. failed \/ id \in 1 .. created
    <3>1. id \in -locals .. created
      BY <2>2, <2>4 DEF EntriesOK, Known
    <3>2. failed \/ id > 0
      BY <2>2, <2>4 DEF EntriesOK
    <3> QED BY <3>1, <3>2, TypedCalls
  <2> QED BY <2>1, <2>4, <2>5, SendKeeps
<1> QED BY <1>2, <1>3

-----------------------------------------------------------------------------
(* The handlers.  A list answers with rows that are there, newest first. *)
LEMMA ListKeeps ==
  ASSUME IInv, NEW s \in Slots, List(s)
  PROVE  IInv'
<1>1. PICK l \in Lists :
        /\ Newest(l)
        /\ Answered(s, [i \in DOMAIN l |-> [id |-> l[i], read |-> inbox[l[i]] = "read"]])
  BY DEF List
<1>2. PICK k \in 0 .. Limit : l \in [1 .. k -> Ids]
  BY DEF Lists
<1>3. k \in Nat /\ DOMAIN l = 1 .. k /\ Present \subseteq 1 .. created /\ created \in Nat
      /\ locals \in Nat
  BY <1>2, NotesAssumption, TypedCalls DEF IInv
<1>4. \A i \in 1 .. k : l[i] \in 1 .. created /\ l[i] \in Ids
  BY <1>1, <1>2, <1>3 DEF Newest
<1>5. \A i \in 1 .. k : [id |-> l[i], read |-> inbox[l[i]] = "read"] \in Entry
  <2>1. Ids \subseteq -MaxNotes .. MaxNotes
    BY NotesAssumption DEF Ids
  <2> QED BY <1>4, <2>1 DEF Entry
<1>6. PICK e \in Seq(Entry) :
        e = [i \in DOMAIN l |-> [id |-> l[i], read |-> inbox[l[i]] = "read"]]
  <2> DEFINE answer == [i \in DOMAIN l |-> [id |-> l[i], read |-> inbox[l[i]] = "read"]]
  <2>1. answer \in [1 .. k -> Entry]
    BY <1>3, <1>5
  <2> HIDE DEF answer
  <2>2. answer \in Seq(Entry)
    BY <1>3, <2>1
  <2> QED BY <2>2 DEF answer
<1>7. /\ DOMAIN e = 1 .. k
      /\ \A i \in 1 .. k : e[i].id = l[i] /\ e[i].read = (inbox[l[i]] = "read")
  BY <1>3, <1>6
<1>8. /\ UNCHANGED <<inbox, shown, created, locals, cleared, raced, failed>>
      /\ doubled' = doubled \cup OnTheirWay
      /\ calls[s] # None /\ calls[s].op = "list" /\ calls[s] \in Call
  BY TypedCalls DEF List, Under
<1>9. OnTheirWay \subseteq Ids
  BY TypedCalls, NotesAssumption DEF OnTheirWay, Announcing, CallOK, Ids
<1>10. PICK c \in Call : c = [calls[s] EXCEPT !.phase = "answered", !.answer = e]
  BY <1>8 DEF Call
<1>11. Becomes(s, c) /\ c.op = "list" /\ c.phase = "answered" /\ c.answer = e
  BY <1>1, <1>6, <1>8, <1>10 DEF Answered, Becomes, Call
<1>12. Grows /\ TableOK'
  <2>1. Grows
    BY <1>8, TypedCalls DEF Grows, Bounds, Seen
  <2> QED BY <1>8, <1>9, <2>1, TableIsOK DEF TableOK, Present, ClearedComeBackRead
<1>13. EntriesOK(e)'
  <2>1. OnTheirWay' \subseteq doubled'
    <3>1. \A n \in OnTheirWay' : n \in OnTheirWay
      <4> SUFFICES ASSUME NEW x \in Slots, calls'[x] # None, calls'[x].op = "create",
                          calls'[x].phase = "answered"
                   PROVE  calls'[x].id \in OnTheirWay
        BY DEF OnTheirWay, Announcing
      <4>1. x # s /\ calls'[x] = calls[x]
        BY <1>11, TypedCalls DEF Becomes
      <4> QED BY <4>1 DEF OnTheirWay, Announcing
    <3> QED BY <1>8, <3>1
  <2>2. Known(e)'
    BY <1>3, <1>4, <1>7, <1>8, <2>1 DEF Known
  <2>3. Apart(e)'
    <3> SUFFICES ASSUME NEW i \in 1 .. k, NEW j \in 1 .. k, i # j PROVE e[i].id # e[j].id
      BY <1>7 DEF Apart
    <3>1. i < j \/ j < i
      BY <1>3
    <3>2. l[i] > l[j] \/ l[j] > l[i]
      BY <1>1, <1>3, <3>1 DEF Newest
    <3> QED BY <1>4, <1>7, <3>2
  <2>4. Truthful(e)'
    <3>1. \A i \in DOMAIN e : e[i].read => inbox'[e[i].id] = "read"
      BY <1>7, <1>8
    <3> QED BY <3>1 DEF Truthful, Seen
  <2>5. \A i \in DOMAIN e : e[i].id > 0
    BY <1>3, <1>4, <1>7
  <2> QED BY <2>2, <2>3, <2>4, <2>5 DEF EntriesOK
<1>14. CallOK(c)'
  BY <1>11, <1>13, NoneAssumption DEF CallOK
<1> QED BY <1>8, <1>11, <1>12, <1>14, QuietStepKeeps

LEMMA CreateKeeps ==
  ASSUME IInv, NEW s \in Slots, Create(s)
  PROVE  IInv'
<1>1. /\ calls[s] # None /\ calls[s].op = "create" /\ calls[s] \in Call
      /\ created < MaxNotes /\ created' = created + 1
      /\ inbox' = [inbox EXCEPT ![created + 1] = "unread"]
      /\ raced' = IF Sweeping("all") THEN raced \cup {created + 1} ELSE raced
      /\ UNCHANGED <<shown, locals, cleared, doubled, failed>>
  BY TypedCalls DEF Create, Under
<1>2. /\ created \in Nat /\ MaxNotes \in Nat /\ created + 1 \in Ids
      /\ created + 1 \in -MaxNotes .. MaxNotes
      /\ inbox \in [Ids -> {"absent", "unread", "read"}]
  BY <1>1, TypedCalls DEF Ids, IInv, TypeOK
<1>3. PICK c \in Call : c = [calls[s] EXCEPT !.phase = "answered", !.id = created + 1]
  BY <1>1, <1>2 DEF Call
<1>4. Becomes(s, c) /\ c.op = "create" /\ c.phase = "answered" /\ c.id = created + 1
  BY <1>1, <1>3 DEF Create, Becomes, Call
<1>5. Grows
  <2>1. \A n \in 1 .. created : inbox'[n] = inbox[n]
    BY <1>1, <1>2 DEF Ids
  <2>2. \A n \in 1 .. created' : n \in 1 .. created \/ n \in raced' \/ ~ Sweeping("all")
    BY <1>1, <1>2
  <2> QED BY <1>1, <1>2, <2>1, <2>2, TypedCalls DEF Grows, Bounds, Seen
<1>6. TableOK'
  <2>1. cleared \subseteq 1 .. created /\ Present \subseteq 1 .. created
    BY DEF IInv
  <2>2. Present' \subseteq 1 .. created' /\ cleared' \subseteq 1 .. created'
    BY <1>1, <1>2, <2>1 DEF Present
  <2>3. ClearedComeBackRead'
    BY <1>1, <1>2, <2>1 DEF IInv, ClearedComeBackRead, Ids
  <2>4. inbox' \in [Ids -> {"absent", "unread", "read"}]
    BY <1>1, <1>2
  <2>5. created' \in 0 .. MaxNotes /\ raced' \subseteq Ids
    BY <1>1, <1>2, TableIsOK DEF TableOK
  <2> QED BY <1>1, <2>2, <2>3, <2>4, <2>5, TableIsOK DEF TableOK
<1>7. CallOK(c)'
  BY <1>1, <1>2, <1>4 DEF CallOK
<1> QED BY <1>1, <1>2, <1>4, <1>5, <1>6, <1>7, QuietStepKeeps

(* The other handlers answer with nothing, or go on to their second         *)
(* statement; rows become read or disappear.                               *)
LEMMA SweepGrows ==
  ASSUME IInv, inbox' \in [Ids -> {"absent", "unread", "read"}],
         \A n \in Ids : inbox'[n] = "unread" => inbox[n] = "unread",
         \A n \in Ids : n > created => inbox'[n] = "absent",
         cleared' \subseteq 1 .. created,
         \A n \in cleared' : inbox'[n] # "unread",
         UNCHANGED <<created, locals, raced, doubled, failed>>
  PROVE  Grows /\ TableOK'
<1>1. 1 .. created \subseteq Ids /\ created \in Nat
  BY TypedCalls DEF Ids
<1>2. Grows
  BY <1>1, TypedCalls DEF Grows, Bounds, Seen
<1>3. Present' \subseteq 1 .. created'
  BY <1>1, NotesAssumption DEF Present, Ids
<1>4. TableOK'
  BY <1>3, TableIsOK DEF TableOK, ClearedComeBackRead
<1> QED BY <1>2, <1>4


LEMMA AnswerKeeps ==
  ASSUME IInv, Grows, TableOK', NEW s \in Slots, NEW f \in {"read", "answered"},
         NEW a \in Seq(Entry) \cup {None},
         calls[s] # None, calls[s].op \in {"mark", "all", "clear"}, shown' = shown,
         calls' = [calls EXCEPT ![s] = [calls[s] EXCEPT !.phase = f, !.answer = a]],
         f = "read" => calls[s].id \in 1 .. created',
         f = "answered" =>
           failed' \/ /\ calls[s].op = "mark" => inbox'[calls[s].id] # "unread"
                      /\ calls[s].op = "all" => \A n \in 1 .. created' : Seen(n)'
  PROVE  IInv'
<1>1. calls[s] \in Call /\ CallOK(calls[s])
  BY TypedCalls
<1>2. PICK c \in Call : c = [calls[s] EXCEPT !.phase = f, !.answer = a]
  BY <1>1 DEF Call
<1>3. Becomes(s, c) /\ c.op = calls[s].op /\ c.id = calls[s].id /\ c.phase = f
  BY <1>1, <1>2 DEF Becomes, Call
<1>4. c.op = "mark" => failed' \/ c.id \in 1 .. created'
  <2>1. 1 .. created \subseteq 1 .. created' /\ (failed' \/ ~ failed)
    BY DEF Grows, Bounds
  <2> QED BY <1>1, <1>3, <2>1 DEF CallOK
<1>5. c.op \notin {"list", "create"} /\ (c.phase = "read" => c.id \in 1 .. created')
  BY <1>3
<1>6. ASSUME ~ failed', c.phase = "answered"
      PROVE  /\ c.op = "mark" => Seen(c.id)'
             /\ c.op = "all" => \A n \in 1 .. created' : Seen(n)'
  BY <1>3, <1>6 DEF Seen
<1>7. CallOK(c)'
  BY <1>4, <1>5, <1>6 DEF CallOK
<1> QED BY <1>3, <1>5, <1>7, QuietStepKeeps

LEMMA MarkKeeps ==
  ASSUME IInv, NEW s \in Slots, ReadForMark(s) \/ SaveMark(s)
  PROVE  IInv'
<1>1. /\ calls[s] # None /\ calls[s].op = "mark" /\ shown' = shown
      /\ calls[s] \in Call /\ CallOK(calls[s])
      /\ UNCHANGED <<created, locals, history>>
  BY TypedCalls DEF ReadForMark, SaveMark, Under
<1>2. CASE ReadForMark(s) /\ calls[s].id \in Present
  <2>1. Grows /\ TableOK'
    BY <1>1, <1>2, TableIsOK, StillGrows DEF ReadForMark, history, TableOK
  <2>2. PICK a \in Seq(Entry) \cup {None} : a = calls[s].answer
    BY <1>1 DEF Call
  <2>3. calls' = [calls EXCEPT ![s] = [calls[s] EXCEPT !.phase = "read", !.answer = a]]
    BY <1>1, <1>2, <2>2 DEF ReadForMark, Call
  <2>4. calls[s].id \in 1 .. created'
    BY <1>1, <1>2 DEF IInv
  <2> QED BY <1>1, <2>1, <2>3, <2>4, AnswerKeeps
<1>3. CASE ReadForMark(s) /\ calls[s].id \notin Present
  <2>1. Grows /\ TableOK'
    BY <1>1, <1>3, TableIsOK, StillGrows DEF ReadForMark, history, TableOK
  <2>2. failed' \/ inbox'[calls[s].id] # "unread"
    <3>1. failed \/ calls[s].id \in Ids
      BY <1>1, TypedCalls DEF CallOK, Ids
    <3> QED BY <1>1, <1>3, <3>1 DEF ReadForMark, history, Present
  <2>3. calls' = [calls EXCEPT ![s] = [calls[s] EXCEPT !.phase = "answered", !.answer = None]]
    BY <1>3 DEF ReadForMark, Answered
  <2> QED BY <1>1, <2>1, <2>2, <2>3, AnswerKeeps
<1>4. CASE SaveMark(s)
  <2>1. /\ calls[s].id \in 1 .. created /\ calls[s].id \in Ids
        /\ inbox' = [inbox EXCEPT ![calls[s].id] = "read"]
        /\ inbox \in [Ids -> {"absent", "unread", "read"}]
    BY <1>1, <1>4, TypedCalls DEF SaveMark, Under, CallOK, Ids, IInv, TypeOK
  <2>2. Grows /\ TableOK'
    <3>1. \A n \in Ids : n > created => inbox'[n] = "absent"
      BY <2>1, TypedCalls DEF IInv, Present, Ids
    <3> QED BY <1>1, <2>1, <3>1, SweepGrows DEF history, IInv, ClearedComeBackRead
  <2>3. inbox'[calls[s].id] # "unread"
    BY <2>1
  <2>4. calls' = [calls EXCEPT ![s] = [calls[s] EXCEPT !.phase = "answered", !.answer = None]]
    BY <1>4 DEF SaveMark, Answered
  <2> QED BY <1>1, <2>2, <2>3, <2>4, AnswerKeeps
<1> QED BY <1>2, <1>3, <1>4

LEMMA SweepKeeps ==
  ASSUME IInv, NEW s \in Slots, MarkAll(s) \/ Clear(s)
  PROVE  IInv'
<1>1. /\ calls[s] # None /\ calls[s].op \in {"all", "clear"} /\ shown' = shown
      /\ calls' = [calls EXCEPT ![s] = [calls[s] EXCEPT !.phase = "answered", !.answer = None]]
      /\ UNCHANGED <<created, locals, raced, doubled, failed>>
      /\ inbox \in [Ids -> {"absent", "unread", "read"}]
  BY DEF MarkAll, Clear, Under, Answered, history, IInv, TypeOK
<1>2. \A n \in Ids : n > created => inbox[n] = "absent"
  BY TypedCalls DEF IInv, Present, Ids
<1>3. CASE MarkAll(s)
  <2>1. inbox' = [n \in Ids |-> IF inbox[n] = "unread" THEN "read" ELSE inbox[n]]
        /\ cleared' = cleared
    BY <1>3 DEF MarkAll, history
  <2>2. /\ inbox' \in [Ids -> {"absent", "unread", "read"}]
        /\ \A n \in Ids : inbox'[n] # "unread" /\ (inbox[n] = "absent" => inbox'[n] = "absent")
    BY <1>1, <2>1
  <2>3. cleared \subseteq 1 .. created /\ 1 .. created' \subseteq Ids
    BY <1>1, TypedCalls DEF IInv, Ids
  <2>4. Grows /\ TableOK'
    BY <1>1, <1>2, <2>1, <2>2, <2>3, SweepGrows
  <2>5. \A n \in 1 .. created' : Seen(n)'
    BY <2>2, <2>3 DEF Seen
  <2>6. calls[s].op # "mark"
    BY <1>1
  <2> QED BY <1>1, <2>4, <2>5, <2>6, AnswerKeeps
<1>4. CASE Clear(s)
  <2>1. /\ inbox' = [n \in Ids |-> "absent"]
        /\ cleared' = cleared \cup Present
        /\ calls[s].op = "clear"
    BY <1>4 DEF Clear, Under
  <2>2. cleared' \subseteq 1 .. created /\ 1 .. created \subseteq Ids
    BY <2>1, TypedCalls DEF IInv, Ids
  <2>3. Grows /\ TableOK'
    BY <1>1, <2>1, <2>2, SweepGrows
  <2> QED BY <1>1, <2>1, <2>3, AnswerKeeps
<1> QED BY <1>3, <1>4

LEMMA FailKeeps ==
  ASSUME IInv, NEW s \in Slots, Fail(s)
  PROVE  IInv'
<1>1. /\ calls[s] # None /\ calls[s].op \in {"mark", "all", "clear"} /\ shown' = shown
      /\ calls' = [calls EXCEPT ![s] = [calls[s] EXCEPT !.phase = "answered", !.answer = None]]
      /\ failed' = TRUE
      /\ UNCHANGED <<inbox, created, locals, cleared, raced, doubled>>
  BY DEF Fail, Answered
<1>2. Grows /\ TableOK'
  BY <1>1, StillGrows
<1> QED BY <1>1, <1>2, AnswerKeeps

-----------------------------------------------------------------------------
(* The pages get their answers: the call is over and page p shows e. *)
LEMMA ShowKeeps ==
  ASSUME IInv, NEW s \in Slots, NEW p \in Pages, NEW e \in Seq(Entry),
         Show(p, e), Over(s), EntriesOK(e)', Grows, TableOK'
  PROVE  IInv'
<1>1. Becomes(s, None)
  BY DEF Over, Becomes
<1>2. shown' = [shown EXCEPT ![p] = e] /\ shown \in [Pages -> Seq(Entry)]
  BY DEF Show, IInv, TypeOK
<1>3. shown' \in [Pages -> Seq(Entry)] /\ \A q \in Pages : shown'[q] = IF q = p THEN e ELSE shown[q]
  BY <1>2
<1>4. ASSUME NEW q \in Pages PROVE shown'[q] = shown[q] \/ EntriesOK(shown[q])'
  <2>1. CASE q = p
    <3>1. shown'[q] = e
      BY <1>3, <2>1
    <3> QED BY <3>1
  <2>2. CASE q # p
    BY <1>3, <2>2
  <2> QED BY <2>1, <2>2
<1>5. \A q \in Pages : shown'[q] = shown[q] \/ EntriesOK(shown[q])'
  BY <1>4
<1>6. None \in Call \cup {None}
  OBVIOUS
<1> QED BY <1>1, <1>3, <1>5, <1>6, StepKeeps

LEMMA OverOnlyRemoves ==
  ASSUME IInv, NEW s \in Slots, Over(s)
  PROVE  OnTheirWay' \subseteq OnTheirWay
<1> SUFFICES ASSUME NEW x \in Slots, calls'[x] # None, calls'[x].op = "create",
                    calls'[x].phase = "answered"
             PROVE  calls'[x].id \in OnTheirWay
  BY DEF OnTheirWay, Announcing
<1>1. x # s /\ calls'[x] = calls[x]
  BY TypedCalls DEF Over
<1> QED BY <1>1 DEF OnTheirWay, Announcing

LEMMA ShowOldKeeps ==
  ASSUME IInv, NEW s \in Slots, NEW p \in Pages, NEW e \in Seq(Entry), EntriesOK(e),
         Show(p, e), Over(s), UNCHANGED <<inbox, created, locals, history>>
  PROVE  IInv'
<1>1. Grows /\ TableOK'
  BY TableIsOK, StillGrows DEF history, TableOK
<1>2. EntriesOK(e)'
  BY <1>1, OverOnlyRemoves, EntriesStayOK
<1> QED BY <1>1, <1>2, ShowKeeps

(* Marking entries read that are read, or gone, in the table. *)
LEMMA WithReadKeeps ==
  ASSUME IInv, NEW e \in Seq(Entry), EntriesOK(e), NEW ids,
         failed \/ \A i \in DOMAIN e :
           e[i].id \in ids /\ e[i].id \notin raced => Seen(e[i].id)
  PROVE  WithRead(e, ids) \in Seq(Entry) /\ EntriesOK(WithRead(e, ids))
<1>1. PICK r \in Seq(Entry) : r = WithRead(e, ids)
  BY WithReadReads
<1>2. /\ DOMAIN r = DOMAIN e
      /\ \A i \in DOMAIN e : r[i].id = e[i].id /\ (r[i].read => e[i].read \/ e[i].id \in ids)
  BY <1>1, WithReadReads
<1>3. Known(r)
  BY <1>2 DEF Known, EntriesOK
<1>4. Apart(r)
  BY <1>2 DEF Apart, EntriesOK
<1>5. ASSUME ~ failed PROVE Truthful(r) /\ \A i \in DOMAIN r : r[i].id > 0
  BY <1>2, <1>5 DEF Truthful, EntriesOK
<1> QED BY <1>1, <1>3, <1>4, <1>5 DEF EntriesOK

LEMMA DeliverOldKeeps ==
  ASSUME IInv, NEW s \in Slots,
         DeliverList(s) \/ DeliverMark(s) \/ DeliverAll(s) \/ DeliverClear(s)
  PROVE  IInv'
<1>1. /\ calls[s] # None /\ calls[s] \in Call /\ CallOK(calls[s])
      /\ Over(s) /\ UNCHANGED <<inbox, created, locals, history>>
  BY TypedCalls DEF DeliverList, DeliverMark, DeliverAll, DeliverClear, Under
<1>2. PICK p \in Pages : p = calls[s].page
  BY <1>1 DEF Call
<1>3. shown[p] \in Seq(Entry) /\ EntriesOK(shown[p])
  BY TypedCalls
<1>4. CASE DeliverList(s)
  <2>1. PICK e \in Seq(Entry) : e = calls[s].answer /\ EntriesOK(e)
    BY <1>1, <1>4 DEF DeliverList, Under, Call, CallOK
  <2>2. Show(p, e)
    BY <1>2, <1>4, <2>1 DEF DeliverList
  <2> QED BY <1>1, <2>1, <2>2, ShowOldKeeps
<1>5. CASE DeliverMark(s)
  <2>1. failed \/ \A i \in DOMAIN shown[p] :
          shown[p][i].id \in {calls[s].id} => Seen(shown[p][i].id)
    BY <1>1, <1>5 DEF DeliverMark, Under, CallOK
  <2>2. PICK e \in Seq(Entry) : e = WithRead(shown[p], {calls[s].id}) /\ EntriesOK(e)
    BY <1>3, <2>1, WithReadKeeps
  <2>3. Show(p, e)
    BY <1>2, <1>5, <2>2 DEF DeliverMark
  <2> QED BY <1>1, <2>2, <2>3, ShowOldKeeps
<1>6. CASE DeliverAll(s)
  <2>1. failed \/ \A n \in 1 .. created : n \in raced \/ Seen(n)
    BY <1>1, <1>6 DEF DeliverAll, Under, CallOK
  <2>2. failed \/ \A i \in DOMAIN shown[p] : shown[p][i].id \in 1 .. created
    <3>1. \A i \in DOMAIN shown[p] : shown[p][i].id \in -locals .. created
      BY <1>3 DEF EntriesOK, Known
    <3>2. failed \/ \A i \in DOMAIN shown[p] : shown[p][i].id > 0
      BY <1>3 DEF EntriesOK
    <3> QED BY <3>1, <3>2, TypedCalls
  <2>3. failed \/ \A i \in DOMAIN shown[p] :
          shown[p][i].id \in -MaxNotes .. MaxNotes /\ shown[p][i].id \notin raced
            => Seen(shown[p][i].id)
    BY <2>1, <2>2
  <2>4. PICK e \in Seq(Entry) : e = WithRead(shown[p], -MaxNotes .. MaxNotes) /\ EntriesOK(e)
    BY <1>3, <2>3, WithReadKeeps
  <2>5. Show(p, e)
    BY <1>2, <1>6, <2>4 DEF DeliverAll
  <2> QED BY <1>1, <2>4, <2>5, ShowOldKeeps
<1>7. CASE DeliverClear(s)
  <2>1. PICK e \in Seq(Entry) : e = <<>>
    BY EmptySeq
  <2>2. DOMAIN e = {}
    BY <2>1, EmptySeq
  <2>3. EntriesOK(e)
    BY <2>2 DEF EntriesOK, Known, Apart, Truthful
  <2>4. Show(p, e)
    BY <1>2, <1>7, <2>1 DEF DeliverClear
  <2> QED BY <1>1, <2>3, <2>4, ShowOldKeeps
<1> QED BY <1>4, <1>5, <1>6, <1>7

(* A new entry on top: what it needs is that no other has its id, except   *)
(* a doubled one.                                                          *)
LEMMA OnTopKeeps ==
  ASSUME IInv, Grows, NEW e \in Seq(Entry), NEW x \in Entry, EntriesOK(e)', ~ x.read,
         x.id \in -locals' .. created', x.id \notin OnTheirWay',
         \A i \in DOMAIN e : e[i].id = x.id => x.id \in doubled',
         failed' \/ x.id > 0
  PROVE  <<x>> \o e \in Seq(Entry) /\ EntriesOK(<<x>> \o e)'
<1>1. PICK r \in Seq(Entry) : r = <<x>> \o e
  BY Prepended
<1>2. r[1] = x /\ \A i \in DOMAIN r : i # 1 => i - 1 \in DOMAIN e /\ r[i] = e[i - 1]
  BY <1>1, Prepended
<1>3. Known(r)'
  BY <1>2 DEF Known, EntriesOK
<1>4. Apart(r)'
  <2> SUFFICES ASSUME NEW i \in DOMAIN r, NEW j \in DOMAIN r, i # j, r[i].id = r[j].id
               PROVE  r[i].id \in doubled'
    BY DEF Apart
  <2>1. CASE i = 1
    BY <1>2, <2>1
  <2>2. CASE j = 1
    BY <1>2, <2>2
  <2>3. CASE i # 1 /\ j # 1
    <3>1. /\ i - 1 \in DOMAIN e /\ j - 1 \in DOMAIN e /\ r[i] = e[i - 1] /\ r[j] = e[j - 1]
          /\ i \in Nat /\ j \in Nat
      BY <1>2, <2>3, EntriesAreFunctions
    <3>2. i - 1 # j - 1
      BY <3>1
    <3> QED BY <3>1, <3>2 DEF EntriesOK, Apart
  <2> QED BY <2>1, <2>2, <2>3
<1>5. ASSUME ~ failed' PROVE Truthful(r)' /\ \A i \in DOMAIN r : r[i].id > 0
  BY <1>2, <1>5 DEF Truthful, EntriesOK
<1>6. EntriesOK(r)'
  BY <1>3, <1>4, <1>5 DEF EntriesOK
<1> QED BY <1>1, <1>6

LEMMA DeliverCreateKeeps ==
  ASSUME IInv, NEW s \in Slots, DeliverCreate(s)
  PROVE  IInv'
<1>1. /\ calls[s] # None /\ calls[s] \in Call /\ CallOK(calls[s])
      /\ calls[s].op = "create" /\ calls[s].phase = "answered"
      /\ Over(s) /\ UNCHANGED <<inbox, created, locals, history>>
  BY TypedCalls DEF DeliverCreate, Under
<1>2. PICK p \in Pages : p = calls[s].page
  BY <1>1 DEF Call
<1>3. PICK e \in Seq(Entry) : e = shown[p] /\ EntriesOK(e)
  BY TypedCalls
<1>4. PICK n \in 1 .. created : n = calls[s].id
  BY <1>1 DEF CallOK
<1>5. n \in OnTheirWay
  BY <1>1, <1>4 DEF OnTheirWay, Announcing
<1>6. n \notin OnTheirWay'
  <2> SUFFICES ASSUME NEW x \in Slots, calls'[x] # None, calls'[x].op = "create",
                      calls'[x].phase = "answered", calls'[x].id = n
               PROVE  FALSE
    BY DEF OnTheirWay, Announcing
  <2>1. x # s /\ calls'[x] = calls[x]
    BY <1>1, TypedCalls DEF Over
  <2> QED BY <1>1, <1>4, <2>1 DEF IInv, InsertsApart, Announcing
<1>7. Grows /\ TableOK'
  BY <1>1, TableIsOK, StillGrows DEF history, TableOK
<1>8. EntriesOK(e)'
  BY <1>1, <1>3, <1>7, OverOnlyRemoves, EntriesStayOK
<1>9. \A i \in DOMAIN e : e[i].id = n => n \in doubled'
  BY <1>1, <1>3, <1>5 DEF EntriesOK, Known, history
<1>10. PICK x \in Entry : x = [id |-> n, read |-> FALSE]
  <2>1. n \in Int /\ -MaxNotes <= n /\ n <= MaxNotes
    BY TypedCalls
  <2> QED BY <2>1, NewEntry
<1>11. /\ x.id = n /\ ~ x.read /\ x.id \in -locals' .. created'
       /\ x.id > 0
  BY <1>1, <1>10, TypedCalls
<1>12. <<x>> \o e \in Seq(Entry) /\ EntriesOK(<<x>> \o e)'
  BY <1>6, <1>7, <1>8, <1>9, <1>11, OnTopKeeps
<1>13. PICK r \in Seq(Entry) : r = <<x>> \o e
  BY <1>12
<1>14. Show(p, r) /\ EntriesOK(r)'
  BY <1>2, <1>3, <1>4, <1>10, <1>12, <1>13 DEF DeliverCreate
<1> QED BY <1>1, <1>7, <1>14, ShowKeeps

LEMMA LoseKeeps ==
  ASSUME IInv, NEW s \in Slots, Lose(s)
  PROVE  IInv'
<1>1. /\ calls[s] # None /\ calls[s] \in Call
      /\ Over(s) /\ failed' = TRUE
      /\ UNCHANGED <<inbox, created, cleared, raced, doubled>>
  BY TypedCalls DEF Lose
<1>2. CASE calls[s].op = "list" /\ UNCHANGED <<shown, locals>>
  <2>1. Grows /\ TableOK'
    BY <1>1, <1>2, StillGrows
  <2>2. Becomes(s, None) /\ None \in Call \cup {None}
    BY <1>1 DEF Over, Becomes
  <2>3. shown' \in [Pages -> Seq(Entry)] /\ \A p \in Pages : shown'[p] = shown[p]
    BY <1>2 DEF IInv, TypeOK
  <2> QED BY <2>1, <2>2, <2>3, StepKeeps
<1>3. CASE /\ calls[s].op = "create"
           /\ locals < MaxNotes
           /\ locals' = locals + 1
           /\ LET p == calls[s].page IN
                Show(p, <<[id |-> -(locals + 1), read |-> FALSE]>> \o shown[p])
  <2>1. PICK p \in Pages : p = calls[s].page
    BY <1>1 DEF Call
  <2>2. PICK e \in Seq(Entry) : e = shown[p] /\ EntriesOK(e)
    BY TypedCalls
  <2>3. /\ locals \in Nat /\ created \in Nat /\ MaxNotes \in Nat
        /\ locals' = locals + 1 /\ locals' <= MaxNotes
    BY <1>3, TypedCalls
  <2>4. Grows
    BY <1>1, <2>3 DEF Grows, Bounds, Seen
  <2>5. TableOK'
    <3>1. locals' \in 0 .. MaxNotes
      BY <2>3
    <3> QED BY <1>1, <3>1, TableIsOK DEF TableOK, Present, ClearedComeBackRead
  <2>6. EntriesOK(e)'
    BY <1>1, <2>2, <2>4, OverOnlyRemoves, EntriesStayOK
  <2>7. PICK x \in Entry : x = [id |-> -(locals + 1), read |-> FALSE]
    <3>1. -(locals + 1) \in Int /\ -MaxNotes <= -(locals + 1) /\ -(locals + 1) <= MaxNotes
      BY <2>3
    <3> QED BY <3>1, NewEntry
  <2>8. x.id = -(locals + 1) /\ ~ x.read /\ x.id \in -locals' .. created' /\ x.id < 0
    BY <1>1, <2>3, <2>7
  <2>9. x.id \notin OnTheirWay'
    <3>1. \A n \in OnTheirWay : n \in 1 .. created
      BY TypedCalls DEF OnTheirWay, Announcing, CallOK
    <3> QED BY <1>1, <2>3, <2>8, <3>1, OverOnlyRemoves
  <2>10. \A i \in DOMAIN e : e[i].id # x.id
    <3>1. \A i \in DOMAIN e : e[i].id \in -locals .. created
      BY <2>2 DEF EntriesOK, Known
    <3> QED BY <2>3, <2>8, <3>1
  <2>11. <<x>> \o e \in Seq(Entry) /\ EntriesOK(<<x>> \o e)'
    BY <1>1, <2>4, <2>6, <2>8, <2>9, <2>10, OnTopKeeps
  <2>12. PICK r \in Seq(Entry) : r = <<x>> \o e
    BY <2>11
  <2>13. Show(p, r) /\ EntriesOK(r)'
    BY <1>3, <2>1, <2>2, <2>7, <2>11, <2>12
  <2> QED BY <1>1, <2>4, <2>5, <2>13, ShowKeeps
<1> QED BY <1>2, <1>3 DEF Lose

-----------------------------------------------------------------------------
(* The invariant is inductive. *)
LEMMA InitHolds == Init => IInv
<1> SUFFICES ASSUME Init PROVE IInv
  OBVIOUS
<1>1. MaxNotes \in Nat /\ created = 0 /\ locals = 0 /\ failed = FALSE
      /\ cleared = {} /\ raced = {} /\ doubled = {}
  BY NotesAssumption DEF Init
<1>2. \A s \in Slots : calls[s] = None
  BY DEF Init
<1>3. PICK e \in Seq(Entry) : e = <<>>
  BY EmptySeq
<1>4. DOMAIN e = {}
  BY <1>3, EmptySeq
<1>5. \A p \in Pages : shown[p] = e
  BY <1>3 DEF Init
<1>6. EntriesOK(e)
  BY <1>4 DEF EntriesOK, Known, Apart, Truthful
<1>7. TypeOK
  <2>1. shown \in [Pages -> Seq(Entry)]
    BY <1>3 DEF Init
  <2>2. inbox \in [Ids -> {"absent", "unread", "read"}]
    BY DEF Init
  <2>3. calls \in [Slots -> Call \cup {None}]
    BY DEF Init
  <2>4. 0 \in 0 .. MaxNotes /\ {} \subseteq Ids /\ FALSE \in BOOLEAN
    BY <1>1
  <2> QED BY <1>1, <2>1, <2>2, <2>3, <2>4 DEF TypeOK
<1>8. Present = {}
  BY DEF Init, Present
<1>9. InsertsApart
  BY <1>2 DEF InsertsApart, Announcing
<1> QED BY <1>1, <1>2, <1>5, <1>6, <1>7, <1>8, <1>9 DEF IInv, ClearedComeBackRead

LEMMA NextKeeps == IInv /\ [Next]_vars => IInv'
<1> SUFFICES ASSUME IInv, [Next]_vars PROVE IInv'
  OBVIOUS
<1>1. ASSUME NEW s \in Slots, NEW p \in Pages,
             \/ Fetch(s, p) \/ Announce(s, p)
             \/ MarkClick(s, p) \/ AllClick(s, p) \/ ClearClick(s, p)
      PROVE  IInv'
  BY <1>1, ClicksKeep
<1>2. ASSUME NEW s \in Slots, Serve(s) PROVE IInv'
  BY <1>2, ListKeeps, CreateKeeps, MarkKeeps, SweepKeeps, FailKeeps DEF Serve
<1>3. ASSUME NEW s \in Slots, Deliver(s) PROVE IInv'
  BY <1>3, DeliverOldKeeps, DeliverCreateKeeps, LoseKeeps DEF Deliver
<1>4. CASE UNCHANGED vars
  BY <1>4 DEF vars, IInv, TypeOK, Present, ClearedComeBackRead, EntriesOK, Known, Apart,
              Truthful, Seen, CallOK, InsertsApart, OnTheirWay, Announcing
<1> QED BY <1>1, <1>2, <1>3, <1>4 DEF Next

LEMMA Inductive == Spec => []IInv
BY InitHolds, NextKeeps, PTL DEF Spec

(* The table, the bells and the calls keep their types: an entry is a row  *)
(* or a local one, whatever the order of the answers.                      *)
THEOREM TypeCorrect == Spec => []TypeOK
<1>1. IInv => TypeOK
  BY DEF IInv
<1> QED BY <1>1, Inductive, PTL

(* SaveMark may insert a cleared row again (db.Save is an upsert), but the *)
(* row it saves is read: the user is not told of it a second time.         *)
THEOREM ClearedStayRead == Spec => []ClearedComeBackRead
<1>1. IInv => ClearedComeBackRead
  BY DEF IInv
<1> QED BY <1>1, Inductive, PTL

(* Unless a call failed, a bell shows as read only what is read in the     *)
(* table or gone from it, or was inserted while the answer to a read-all   *)
(* was on its way: pages mark entries read when the answer comes, not by   *)
(* what the server did.                                                    *)
THEOREM ReadIsStored == Spec => []ReadMeansStored
<1>1. IInv => ReadMeansStored
  BY DEF IInv, EntriesOK, ReadMeansStored
<1> QED BY <1>1, Inductive, PTL

(* A bell holds the same notification twice only if a list was read        *)
(* between its insert and the answer to it.                                *)
THEOREM DoublesAreExplained == Spec => []DoublesExplained
<1>1. IInv => DoublesExplained
  BY DEF IInv, EntriesOK, DoublesExplained
<1> QED BY <1>1, Inductive, PTL
=============================================================================

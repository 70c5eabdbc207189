---------------------------- MODULE Notifications ----------------------------
(***************************************************************************)
(* One user's notifications: the table and its handlers                    *)
(* (internal/notification/handler.go), and the bell of each page the user  *)
(* has open (App.tsx, Header.tsx, api/notifications.ts).  A page changes   *)
(* its own list when an answer comes, whether the call succeeded or not;   *)
(* calls overlap and their answers come in any order.                      *)
(***************************************************************************)
EXTENDS Integers, Sequences, FiniteSets

CONSTANTS Pages,    \* the pages this user has open
          Slots,    \* calls that can be under way together
          None,
          Limit,    \* how many rows a list holds (50 in the code)
          MaxNotes  \* bound for TLC: rows and local entries ever made

ASSUME NotesAssumption == Limit \in Nat \ {0} /\ MaxNotes \in Nat

VARIABLES inbox,    \* inbox[n]: the row inserted n-th, by its read_at
          created,  \* number of rows inserted so far
          shown,    \* shown[p]: the entries of the bell, newest first
          locals,   \* number of entries made without the server
          calls,    \* calls[s]: a call of a page, or None
          cleared,  \* history: rows deleted at some time
          raced,    \* history: rows inserted between read-all and its answer
          doubled,  \* history: rows listed before the answer to their insert
          failed    \* history: a call was lost or its statement failed

vars == <<inbox, created, shown, locals, calls, cleared, raced, doubled, failed>>
history == <<cleared, raced, doubled, failed>>

Ids   == 1 .. MaxNotes
Entry == [id : -MaxNotes .. MaxNotes, read : BOOLEAN]     \* "local-..." is negative

Lists == UNION {[1 .. k -> Ids] : k \in 0 .. Limit}
Call  == [op : {"list", "create", "mark", "all", "clear"}, page : Pages,
          id : -MaxNotes .. MaxNotes, phase : {"sent", "read", "answered"},
          answer : Seq(Entry) \cup {None}]

ASSUME NoneAssumption == None \notin Call \cup Seq(Entry)

Present == {n \in Ids : inbox[n] # "absent"}

Init == /\ inbox = [n \in Ids |-> "absent"]
        /\ created = 0
        /\ shown = [p \in Pages |-> <<>>]
        /\ locals = 0
        /\ calls = [s \in Slots |-> None]
        /\ cleared = {}
        /\ raced = {}
        /\ doubled = {}
        /\ failed = FALSE

-----------------------------------------------------------------------------
(* The pages send calls; what the bell offers depends on what it shows. *)
Send(s, p, op, id) ==
  /\ calls[s] = None
  /\ calls' = [calls EXCEPT ![s] = [op |-> op, page |-> p, id |-> id,
                                    phase |-> "sent", answer |-> None]]
  /\ UNCHANGED <<inbox, created, shown, locals, history>>

Unread(p) == {i \in DOMAIN shown[p] : ~ shown[p][i].read}

(* After signing in; App asks once per session. *)
Fetch(s, p) == Send(s, p, "list", 0)

(* addNotification, after whatever the page did. *)
Announcing == {s \in Slots : calls[s] # None /\ calls[s].op = "create"}
Announce(s, p) == /\ created + locals + Cardinality(Announcing) < MaxNotes
                  /\ Send(s, p, "create", 0)

MarkClick(s, p)  == \E i \in Unread(p) : Send(s, p, "mark", shown[p][i].id)
AllClick(s, p)   == Unread(p) # {} /\ Send(s, p, "all", 0)
ClearClick(s, p) == shown[p] # <<>> /\ Send(s, p, "clear", 0)

-----------------------------------------------------------------------------
(* The handlers, one SQL statement per step. *)
Under(s, op, phase) == /\ calls[s] # None
                       /\ calls[s].op = op
                       /\ calls[s].phase = phase

Answered(s, answer) ==
  calls' = [calls EXCEPT ![s] = [@ EXCEPT !.phase = "answered", !.answer = answer]]

(* The newest rows first, at most Limit of them. *)
Newest(l) == /\ \A i, j \in DOMAIN l : i < j => l[i] > l[j]
             /\ \A i \in DOMAIN l : l[i] \in Present
             /\ \A n \in Present : \/ \E i \in DOMAIN l : l[i] = n
                                   \/ Len(l) = Limit /\ \A i \in DOMAIN l : l[i] > n

OnTheirWay == {calls[s].id : s \in {x \in Announcing : calls[x].phase = "answered"}}

List(s) ==
  /\ Under(s, "list", "sent")
  /\ \E l \in Lists :
       /\ Newest(l)
       /\ Answered(s, [i \in DOMAIN l |-> [id |-> l[i], read |-> inbox[l[i]] = "read"]])
  /\ doubled' = doubled \cup OnTheirWay
  /\ UNCHANGED <<inbox, created, shown, locals, cleared, raced, failed>>

Sweeping(op) == \E s \in Slots : Under(s, op, "answered")

Create(s) ==
  /\ Under(s, "create", "sent")
  /\ created < MaxNotes
  /\ created' = created + 1
  /\ inbox' = [inbox EXCEPT ![created + 1] = "unread"]
  /\ calls' = [calls EXCEPT ![s] = [@ EXCEPT !.phase = "answered", !.id = created + 1]]
  /\ raced' = IF Sweeping("all") THEN raced \cup {created + 1} ELSE raced
  /\ UNCHANGED <<shown, locals, cleared, doubled, failed>>

(* First(&n, "id = ? AND user_id = ?"): 404, or 400 for a local entry. *)
ReadForMark(s) ==
  /\ Under(s, "mark", "sent")
  /\ IF calls[s].id \in Present
     THEN calls' = [calls EXCEPT ![s].phase = "read"]
     ELSE Answered(s, None)
  /\ UNCHANGED <<inbox, created, shown, locals, history>>

\* Faulty variant: read_at is not set in the copy that is saved.
SaveMarkUnset(s) ==
  /\ Under(s, "mark", "read")
  /\ inbox' = [inbox EXCEPT ![calls[s].id] = IF @ = "read" THEN "read" ELSE "unread"]
  /\ Answered(s, None)
  /\ UNCHANGED <<created, shown, locals, history>>

(* db.Save updates the row or, if there is none any more, inserts it. *)
SaveMark(s) ==
  /\ Under(s, "mark", "read")
  /\ inbox' = [inbox EXCEPT ![calls[s].id] = "read"]
  /\ Answered(s, None)
  /\ UNCHANGED <<created, shown, locals, history>>

\* Faulty variant: only the rows of the newest list.
MarkAllListed(s) ==
  /\ Under(s, "all", "sent")
  /\ \E l \in Lists :
       /\ Newest(l)
       /\ inbox' = [n \in Ids |-> IF \E i \in DOMAIN l : l[i] = n THEN "read" ELSE inbox[n]]
  /\ Answered(s, None)
  /\ UNCHANGED <<created, shown, locals, history>>

MarkAll(s) ==
  /\ Under(s, "all", "sent")
  /\ inbox' = [n \in Ids |-> IF inbox[n] = "unread" THEN "read" ELSE inbox[n]]
  /\ Answered(s, None)
  /\ UNCHANGED <<created, shown, locals, history>>

Clear(s) ==
  /\ Under(s, "clear", "sent")
  /\ inbox' = [n \in Ids |-> "absent"]
  /\ cleared' = cleared \cup Present
  /\ Answered(s, None)
  /\ UNCHANGED <<created, shown, locals, raced, doubled, failed>>

\* Faulty variant: a list that failed is taken for an answer as well.
FailAny(s) ==
  /\ calls[s] # None
  /\ calls[s].op # "create"
  /\ calls[s].phase # "answered"
  /\ Answered(s, None)
  /\ failed' = TRUE
  /\ UNCHANGED <<inbox, created, shown, locals, cleared, raced, doubled>>

(* The request is lost, or a statement fails: MarkRead, MarkAllRead and     *)
(* Delete do not look at the error and answer 200.                          *)
Fail(s) ==
  /\ calls[s] # None
  /\ calls[s].op \in {"mark", "all", "clear"}
  /\ calls[s].phase # "answered"
  /\ Answered(s, None)
  /\ failed' = TRUE
  /\ UNCHANGED <<inbox, created, shown, locals, cleared, raced, doubled>>

-----------------------------------------------------------------------------
(* The page gets the answer. *)
Show(p, entries) == shown' = [shown EXCEPT ![p] = entries]
Over(s)          == calls' = [calls EXCEPT ![s] = None]

\* Faulty variant: the list is added to what the bell shows.
DeliverListAppend(s) ==
  /\ Under(s, "list", "answered")
  /\ LET p == calls[s].page IN Show(p, shown[p] \o calls[s].answer)
  /\ Over(s)
  /\ UNCHANGED <<inbox, created, locals, history>>

DeliverList(s) ==
  /\ Under(s, "list", "answered")
  /\ Show(calls[s].page, calls[s].answer)
  /\ Over(s)
  /\ UNCHANGED <<inbox, created, locals, history>>

DeliverCreate(s) ==
  /\ Under(s, "create", "answered")
  /\ LET p == calls[s].page IN
       Show(p, <<[id |-> calls[s].id, read |-> FALSE]>> \o shown[p])
  /\ Over(s)
  /\ UNCHANGED <<inbox, created, locals, history>>

(* The call or its answer is lost, or the insert fails: an entry that the   *)
(* server does not know, even when the row was inserted.  A list is only    *)
(* logged.                                                                  *)
Lose(s) ==
  /\ calls[s] # None
  /\ \/ calls[s].op = "list" /\ UNCHANGED <<shown, locals>>
     \/ /\ calls[s].op = "create"
        /\ locals < MaxNotes
        /\ locals' = locals + 1
        /\ LET p == calls[s].page IN
             Show(p, <<[id |-> -(locals + 1), read |-> FALSE]>> \o shown[p])
  /\ Over(s)
  /\ failed' = TRUE
  /\ UNCHANGED <<inbox, created, cleared, raced, doubled>>

WithRead(entries, ids) ==
  [i \in DOMAIN entries |->
     [entries[i] EXCEPT !.read = @ \/ entries[i].id \in ids]]

DeliverMark(s) ==
  /\ Under(s, "mark", "answered")
  /\ LET p == calls[s].page IN Show(p, WithRead(shown[p], {calls[s].id}))
  /\ Over(s)
  /\ UNCHANGED <<inbox, created, locals, history>>

DeliverAll(s) ==
  /\ Under(s, "all", "answered")
  /\ LET p == calls[s].page IN Show(p, WithRead(shown[p], -MaxNotes .. MaxNotes))
  /\ Over(s)
  /\ UNCHANGED <<inbox, created, locals, history>>

DeliverClear(s) ==
  /\ Under(s, "clear", "answered")
  /\ Show(calls[s].page, <<>>)
  /\ Over(s)
  /\ UNCHANGED <<inbox, created, locals, history>>

Serve(s) == \/ List(s) \/ Create(s) \/ ReadForMark(s) \/ SaveMark(s)
            \/ MarkAll(s) \/ Clear(s) \/ Fail(s)

Deliver(s) == \/ DeliverList(s) \/ DeliverCreate(s) \/ DeliverMark(s)
              \/ DeliverAll(s) \/ DeliverClear(s) \/ Lose(s)

Next == \E s \in Slots :
  \/ \E p \in Pages : \/ Fetch(s, p) \/ Announce(s, p)
                      \/ MarkClick(s, p) \/ AllClick(s, p) \/ ClearClick(s, p)
  \/ Serve(s)
  \/ Deliver(s)

Spec == Init /\ [][Next]_vars
-----------------------------------------------------------------------------
TypeOK == /\ inbox \in [Ids -> {"absent", "unread", "read"}]
          /\ created \in 0 .. MaxNotes
          /\ shown \in [Pages -> Seq(Entry)]
          /\ locals \in 0 .. MaxNotes
          /\ calls \in [Slots -> Call \cup {None}]
          /\ cleared \subseteq Ids
          /\ raced \subseteq Ids
          /\ doubled \subseteq Ids
          /\ failed \in BOOLEAN

(* A cleared notification may come back when marking it read overlaps with  *)
(* clearing, but never as unread.                                           *)
ClearedComeBackRead == \A n \in cleared : inbox[n] # "unread"

(* What a page shows as read is read in the table, or gone from it.  The    *)
(* exceptions: rows inserted while the answer to read-all was on its way,   *)
(* and calls that failed without anybody looking.                           *)
Seen(n) == inbox[n] # "unread"
Truthful(entries) == \A i \in DOMAIN entries :
  entries[i].read /\ entries[i].id \notin raced => Seen(entries[i].id)
ReadMeansStored == failed \/ \A p \in Pages : Truthful(shown[p])

(* A notification is in the bell twice only if a list was read after its    *)
(* insert and before the answer to it.                                      *)
Apart(entries) == \A i, j \in DOMAIN entries :
  i # j /\ entries[i].id = entries[j].id => entries[i].id \in doubled
DoublesExplained == \A p \in Pages : Apart(shown[p])

(* What makes these inductive, of a list of entries shown or on its way,    *)
(* and of a call: what it is about was inserted, what it says is stored,    *)
(* and an insert on its way to its page is listed only if noted as doubled. *)
Known(entries) == \A i \in DOMAIN entries :
  /\ entries[i].id \in -locals .. created
  /\ entries[i].id \in OnTheirWay => entries[i].id \in doubled
EntriesOK(entries) ==
  /\ Known(entries)
  /\ Apart(entries)
  /\ failed \/ /\ Truthful(entries)
               /\ \A i \in DOMAIN entries : entries[i].id > 0

CallOK(c) ==
  /\ c.op = "list" /\ c.phase = "answered" => c.answer # None /\ EntriesOK(c.answer)
  /\ c.op = "create" /\ c.phase = "answered" => c.id \in 1 .. created
  /\ c.phase = "read" => c.id \in 1 .. created
  /\ failed \/ /\ c.op = "mark" => c.id \in 1 .. created
               /\ c.op = "mark" /\ c.phase = "answered" => Seen(c.id)
               /\ c.op = "all" /\ c.phase = "answered" =>
                    \A n \in 1 .. created : n \in raced \/ Seen(n)

InsertsApart == \A s, x \in Announcing :
  s # x /\ calls[s].phase = "answered" /\ calls[x].phase = "answered" => calls[s].id # calls[x].id

IInv == /\ TypeOK
        /\ cleared \subseteq 1 .. created
        /\ Present \subseteq 1 .. created
        /\ ClearedComeBackRead
        /\ \A p \in Pages : EntriesOK(shown[p])
        /\ \A s \in Slots : calls[s] # None => CallOK(calls[s])
        /\ InsertsApart
=============================================================================

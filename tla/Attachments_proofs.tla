------------------------- MODULE Attachments_proofs -------------------------
(***************************************************************************)
(* Proofs about Attachments, for all users, pages and files and every      *)
(* number of overlapping calls.                                            *)
(***************************************************************************)
EXTENDS Attachments, TLAPS

LEMMA InitOK == Init => IInv
BY AttachmentsAssumption DEF Init, IInv, TypeOK, RowsHaveFiles, FilesAreListed,
   ShownWasStored, CallsSound, UploadsApart, Ids, Used, Call, InUpload, At

(* Table and disk stay and handlers between two of their steps stay where  *)
(* they are: what the calls become must be sound.                          *)
Working == {"copying", "copied", "found", "unlinked"}
TableStays ==
  /\ UNCHANGED table
  /\ calls' \in [Slots -> Call \cup {None}]
  /\ shown' \in [Pages -> SUBSET Ids]
  /\ \A p \in Pages : shown'[p] \subseteq Known
  /\ busy' \in [Pages -> BOOLEAN]
  /\ up' \subseteq Pages
  /\ \A t \in Slots : calls'[t] # None => Sound(calls'[t])
  /\ \A t \in Slots :
       /\ calls'[t] # None /\ calls'[t].phase \in {"copying", "copied"} =>
            calls[t] # None /\ calls[t].phase = calls'[t].phase /\ calls[t].id = calls'[t].id
       /\ calls[t] # None /\ calls[t].phase \in Working =>
            /\ calls'[t] # None
            /\ calls'[t].op = calls[t].op
            /\ calls'[t].phase = calls[t].phase
            /\ calls'[t].id = calls[t].id

LEMMA TableStaysKeeps == IInv /\ TableStays => IInv'
<1> SUFFICES ASSUME IInv, TableStays PROVE IInv'
  OBVIOUS
<1> USE DEF TableStays, table
<1>1. TypeOK'
  BY DEF IInv, TypeOK, ShownWasStored, Known, Used
<1>2. RowsHaveFiles'
  BY DEF IInv, RowsHaveFiles, At, Working
<1>3. FilesAreListed'
  BY DEF IInv, FilesAreListed, At, Working, Used
<1>4. ShownWasStored'
  BY DEF ShownWasStored, Known
<1>5. CallsSound'
  BY DEF CallsSound, Sound, Known, Used
<1>6. UploadsApart'
  BY DEF IInv, UploadsApart, InUpload
<1> QED BY <1>1, <1>2, <1>3, <1>4, <1>5, <1>6 DEF IInv

(* The call of slot s is not in a handler, and becomes c. *)
LEMMA OneCall ==
  ASSUME IInv, NEW s \in Slots, NEW c \in Call \cup {None},
         calls[s] # None => calls[s].phase \notin Working,
         c # None => Sound(c) /\ c.phase \notin {"copying", "copied"},
         calls' = [calls EXCEPT ![s] = c],
         UNCHANGED table,
         shown' \in [Pages -> SUBSET Known], busy' \in [Pages -> BOOLEAN],
         up' \subseteq Pages
  PROVE  IInv'
<1>1. Known \subseteq Ids
  BY AttachmentsAssumption DEF IInv, TypeOK, Known, Used, Ids
<1>2. \A t \in Slots : calls'[t] = IF t = s THEN c ELSE calls[t]
  BY DEF IInv, TypeOK
<1>3. calls' \in [Slots -> Call \cup {None}]
  BY DEF IInv, TypeOK
<1>4. TableStays
  BY <1>1, <1>2, <1>3 DEF TableStays, IInv, CallsSound, Working
<1> QED BY <1>4, TableStaysKeeps

-----------------------------------------------------------------------------
(* Sending and answering. *)
LEMMA SentSound ==
  ASSUME NEW p \in Pages, NEW u \in Users, NEW op \in {"list", "upload", "remove"},
         NEW a \in Ids \cup {0}
  PROVE  LET c == Sent(p, u, op, a) IN
           /\ c \in Call
           /\ Sound(c)
           /\ c.phase = "sent"
BY AttachmentsAssumption DEF Sent, Call, Sound, Ids

LEMMA Shown == IInv => /\ shown \in [Pages -> SUBSET Known] /\ busy \in [Pages -> BOOLEAN]
                       /\ up \subseteq Pages
BY DEF IInv, TypeOK, ShownWasStored, Known

LEMMA SendKeeps ==
  ASSUME IInv, NEW p \in Pages, NEW s \in Slots, NEW u \in Users,
         FileChosen(p, s, u) \/ RemoveClick(p, s, u)
  PROVE  IInv'
<1>1. PICK op \in {"list", "upload", "remove"}, a \in Ids \cup {0} :
        calls' = [calls EXCEPT ![s] = Sent(p, u, op, a)]
  BY DEF FileChosen, RemoveClick
<1>2. UNCHANGED table /\ calls[s] = None
  BY DEF FileChosen, RemoveClick
<1>3. /\ shown' \in [Pages -> SUBSET Known] /\ busy' \in [Pages -> BOOLEAN]
      /\ up' \subseteq Pages
  BY Shown DEF FileChosen, RemoveClick, panel
<1> DEFINE c == Sent(p, u, op, a)
<1>4. c \in Call /\ Sound(c) /\ c.phase = "sent"
  BY SentSound
<1> HIDE DEF c
<1> QED BY <1>1, <1>2, <1>3, <1>4, OneCall DEF c

(* The dashboard of page p goes, or gives way to another one; slot s ends up *)
(* with call c.                                                              *)
LEMMA WipeKeeps ==
  ASSUME IInv, NEW p \in Pages, NEW s \in Slots, NEW c \in Call \cup {None},
         c # None => Sound(c) /\ c.phase = "sent",
         calls[s] # None => calls[s].phase \notin Working,
         calls' = [Cleared(p) EXCEPT ![s] = c], Wipe(p), up' \subseteq Pages, UNCHANGED table
  PROVE  IInv'
<1>2. \A t \in Slots : calls'[t] =
        IF t = s THEN c
        ELSE IF calls[t] # None /\ calls[t].page = p
             THEN [calls[t] EXCEPT !.page = None] ELSE calls[t]
  BY DEF Cleared
<1>3. \A t \in Slots : calls[t] # None =>
        /\ calls[t] \in Call
        /\ [calls[t] EXCEPT !.page = None] \in Call
        /\ Sound([calls[t] EXCEPT !.page = None])
  BY DEF IInv, TypeOK, Call, CallsSound, Sound
<1>4. calls' \in [Slots -> Call \cup {None}]
  <2>1. calls' = [t \in Slots |-> calls'[t]]
    BY DEF Cleared
  <2>2. \A t \in Slots : calls'[t] \in Call \cup {None}
    BY <1>2, <1>3 DEF IInv, TypeOK
  <2> QED BY <2>1, <2>2
<1>5. \A t \in Slots : calls'[t] # None => Sound(calls'[t])
  BY <1>2, <1>3 DEF IInv, CallsSound
<1>6. shown' \in [Pages -> SUBSET Ids] /\ (\A q \in Pages : shown'[q] \subseteq Known)
  BY AttachmentsAssumption DEF Wipe, IInv, TypeOK, ShownWasStored, Known, Used, Ids
<1>7. busy' \in [Pages -> BOOLEAN]
  BY DEF Wipe, IInv, TypeOK
<1>8. \A t \in Slots :
       /\ calls'[t] # None /\ calls'[t].phase \in {"copying", "copied"} =>
            calls[t] # None /\ calls[t].phase = calls'[t].phase /\ calls[t].id = calls'[t].id
       /\ calls[t] # None /\ calls[t].phase \in Working =>
            /\ calls'[t] # None
            /\ calls'[t].op = calls[t].op
            /\ calls'[t].phase = calls[t].phase
            /\ calls'[t].id = calls[t].id
  <2> TAKE t \in Slots
  <2>1. CASE t = s
    BY <1>2, <2>1
  <2>2. CASE t # s /\ calls[t] # None
    <3>1. calls[t] \in Call /\ [calls[t] EXCEPT !.page = None] # None
      BY <1>3, <2>2, NoneAssumption
    <3>2. calls'[t] \in {calls[t], [calls[t] EXCEPT !.page = None]}
      BY <1>2, <2>2
    <3>3. /\ calls'[t] # None
          /\ calls'[t].op = calls[t].op
          /\ calls'[t].phase = calls[t].phase
          /\ calls'[t].id = calls[t].id
      BY <2>2, <3>1, <3>2 DEF Call
    <3> QED BY <2>2, <3>3
  <2>3. CASE t # s /\ calls[t] = None
    BY <1>2, <2>3
  <2> QED BY <2>1, <2>2, <2>3
<1> QED BY <1>4, <1>5, <1>6, <1>7, <1>8, TableStaysKeeps DEF TableStays

LEMMA MountKeeps ==
  ASSUME IInv, NEW p \in Pages, NEW s \in Slots, NEW u \in Users, Mount(p, s, u)
  PROVE  IInv'
<1> DEFINE c == Sent(p, u, "list", 0)
<1>1. c \in Call /\ Sound(c) /\ c.phase = "sent"
  BY SentSound
<1>2. /\ calls[s] = None /\ calls' = [Cleared(p) EXCEPT ![s] = c]
      /\ Wipe(p) /\ up' = up \cup {p} /\ UNCHANGED table
  BY DEF Mount
<1>3. up' \subseteq Pages
  BY <1>2, Shown
<1> HIDE DEF c
<1> QED BY <1>1, <1>2, <1>3, WipeKeeps

LEMMA NullArrivesKeeps ==
  ASSUME IInv, NEW s \in Slots, NullArrives(s)
  PROVE  IInv'
<1>1. calls[s] # None /\ calls[s].phase \notin Working /\ calls[s].page \in Pages
  BY DEF NullArrives, Listens, Working, IInv, TypeOK, Call
<1>2. PICK p \in Pages : /\ calls' = [Cleared(p) EXCEPT ![s] = None]
                         /\ Wipe(p) /\ up' \subseteq Pages /\ UNCHANGED table
  BY <1>1, Shown DEF NullArrives
<1> QED BY <1>1, <1>2, WipeKeeps

(* A handler that does not touch the table, or the network, moves on. *)
LEMMA LookKeeps ==
  ASSUME IInv, NEW s \in Slots,
         List(s) \/ ListOfNull(s) \/ FindForRemoval(s) \/ Refuse(s) \/ LoseAnswer(s)
  PROVE  IInv'
<1>1. /\ calls[s] # None /\ calls[s] \in Call /\ Sound(calls[s])
      /\ calls[s].phase \notin Working
  BY DEF IInv, TypeOK, CallsSound, List, ListOfNull, FindForRemoval, Refuse, LoseAnswer, At, Working
<1>2. PICK f \in {"answered", "null", "found", "failed"}, got \in SUBSET Known :
        /\ calls' = [calls EXCEPT ![s] = [@ EXCEPT !.phase = f, !.answer = got]]
        /\ f = "answered" => calls[s].op = "list"
        /\ f = "found" => calls[s].op = "remove" /\ calls[s].id \in Known
  <2>1. CASE List(s)
    BY <2>1, <1>1 DEF List, At, Known
  <2>2. CASE FindForRemoval(s)
    BY <2>2, <1>1 DEF FindForRemoval, At, Go, Known, Sound, Call
  <2>3. CASE Refuse(s) \/ LoseAnswer(s) \/ ListOfNull(s)
    <3>1. PICK f \in {"null", "failed"} :
            calls' = [calls EXCEPT ![s] = [@ EXCEPT !.phase = f, !.answer = calls[s].answer]]
      BY <2>3, <1>1 DEF Refuse, LoseAnswer, ListOfNull, Go, Call
    <3>2. calls[s].answer \in SUBSET Known
      BY <1>1 DEF Sound
    <3> QED BY <3>1, <3>2
  <2> QED BY <2>1, <2>2, <2>3
<1> DEFINE c == [calls[s] EXCEPT !.phase = f, !.answer = got]
<1>3. calls' = [calls EXCEPT ![s] = c]
  BY <1>2
<1>4. Known \subseteq Ids
  BY AttachmentsAssumption DEF IInv, TypeOK, Known, Used, Ids
<1>5. c \in Call /\ Sound(c) /\ c.phase \notin {"copying", "copied"}
  BY <1>1, <1>2, <1>4 DEF Call, Sound
<1>6. UNCHANGED table /\ UNCHANGED panel
  BY DEF List, ListOfNull, FindForRemoval, Refuse, LoseAnswer
<1> HIDE DEF c
<1> QED BY <1>1, <1>3, <1>5, <1>6, OneCall, Shown DEF panel

LEMMA DeliverKeeps ==
  ASSUME IInv, NEW s \in Slots, Deliver(s)
  PROVE  IInv'
<1>1. CASE NullArrives(s)
  BY <1>1, NullArrivesKeeps
<1>2. CASE ListArrives(s) \/ Uploaded(s) \/ UploadFailed(s) \/ RemovalArrives(s) \/ NobodyListens(s)
  <2>1. /\ calls[s] # None /\ calls[s] \in Call /\ Sound(calls[s])
        /\ calls[s].phase \notin Working
    BY <1>2 DEF IInv, TypeOK, CallsSound, ListArrives, Uploaded, UploadFailed,
           RemovalArrives, NobodyListens, Listens, Working
  <2>2. calls' = [calls EXCEPT ![s] = None] /\ UNCHANGED <<table, up>>
    BY <1>2 DEF ListArrives, Uploaded, UploadFailed, RemovalArrives, NobodyListens, Over, panel
  <2>3. /\ shown \in [Pages -> SUBSET Known] /\ busy \in [Pages -> BOOLEAN]
        /\ up' \subseteq Pages
    BY <2>2, Shown
  <2>4. shown' \in [Pages -> SUBSET Known] /\ busy' \in [Pages -> BOOLEAN]
    <3>1. CASE ListArrives(s)
      BY <2>1, <2>3, <3>1 DEF ListArrives, Sound
    <3>2. CASE Uploaded(s)
      BY <2>1, <2>3, <3>2 DEF Uploaded, Sound, Listens
    <3>3. CASE UploadFailed(s) \/ NobodyListens(s)
      BY <2>3, <3>3 DEF UploadFailed, NobodyListens, panel
    <3>4. CASE RemovalArrives(s)
      BY <2>3, <3>4 DEF RemovalArrives
    <3> QED BY <1>2, <3>1, <3>2, <3>3, <3>4
  <2> QED BY <2>1, <2>2, <2>3, <2>4, OneCall
<1> QED BY <1>1, <1>2 DEF Deliver

-----------------------------------------------------------------------------
(* The handlers' steps on disk and table.  Slot s moves to phase f with id *)
(* a, the other slots stay.                                                *)
Moves(s, f, a) ==
  /\ calls' \in [Slots -> Call \cup {None}]
  /\ calls'[s] # None
  /\ calls'[s].op = calls[s].op
  /\ calls'[s].phase = f
  /\ calls'[s].id = a
  /\ calls'[s].answer = calls[s].answer
  /\ \A t \in Slots \ {s} : calls'[t] = calls[t]

LEMMA GoMoves ==
  ASSUME IInv, NEW s \in Slots, calls[s] # None, NEW f \in Working \cup {"answered", "failed"},
         Go(s, f)
  PROVE  Moves(s, f, calls[s].id)
<1>1. calls[s] \in Call
  BY DEF IInv, TypeOK
<1> DEFINE c == [calls[s] EXCEPT !.phase = f]
<1>2. /\ c \in Call /\ c.op = calls[s].op /\ c.phase = f
      /\ c.id = calls[s].id /\ c.answer = calls[s].answer
  BY <1>1 DEF Call, Working
<1>3. calls' = [calls EXCEPT ![s] = c]
  BY DEF Go
<1> HIDE DEF c
<1> QED BY <1>2, <1>3, NoneAssumption DEF Moves, IInv, TypeOK

LEMMA Bounds == IInv => /\ Used \subseteq Ids /\ Known \subseteq Used
                        /\ made \in Nat /\ made <= MaxFiles
BY AttachmentsAssumption DEF IInv, TypeOK, Known, Used, Ids

LEMMA CreateFileKeeps ==
  ASSUME IInv, NEW s \in Slots, CreateFile(s)
  PROVE  IInv'
<1> DEFINE a == made + 1
<1>1. /\ a \in Ids /\ a \notin Used /\ Used' = Used \cup {a}
      /\ Used \subseteq Ids /\ Known \subseteq Used /\ Known' = Known
  BY Bounds, AttachmentsAssumption DEF CreateFile, Used, Ids, Known
<1>2. calls[s] # None /\ calls[s] \in Call /\ calls[s].phase = "sent" /\ calls[s].op = "upload"
      /\ calls[s].as \in Users
  BY DEF CreateFile, At, IInv, TypeOK, Call
<1>3. Moves(s, "copying", a)
  <2> DEFINE c == [[calls[s] EXCEPT !.phase = "copying"] EXCEPT !.id = a]
  <2>1. /\ c \in Call /\ c.op = calls[s].op /\ c.phase = "copying"
        /\ c.id = a /\ c.answer = calls[s].answer
    <3>1. a \in 0 .. MaxFiles
      BY <1>1, AttachmentsAssumption, Bounds DEF Ids
    <3> HIDE DEF a
    <3> QED BY <1>2, <3>1 DEF Call
  <2>2. calls' = [calls EXCEPT ![s] = c]
    BY DEF CreateFile
  <2> HIDE DEF c
  <2> QED BY <2>1, <2>2, NoneAssumption DEF Moves, IInv, TypeOK
<1>4. /\ disk' = [disk EXCEPT ![a] = "partial"]
      /\ UNCHANGED <<rows, torn, left, removed, panel>>
      /\ made' = a
      /\ uploader' = [uploader EXCEPT ![a] = calls[s].as]
  BY DEF CreateFile
<1> HIDE DEF a
<1>5. TypeOK'
  <2>1. made' \in 0 .. MaxFiles
    BY <1>1, <1>4, AttachmentsAssumption DEF Ids
  <2> QED BY <1>1, <1>2, <1>3, <1>4, <2>1 DEF IInv, TypeOK, Moves, panel
<1>6. RowsHaveFiles'
  BY <1>1, <1>2, <1>3, <1>4 DEF IInv, TypeOK, RowsHaveFiles, Moves, At, Known
<1>7. FilesAreListed'
  <2> SUFFICES ASSUME NEW b \in Used' \ rows', disk'[b] # "none", b \notin left'
               PROVE  \E t \in Slots : /\ At(t, "upload", "copying")' \/ At(t, "upload", "copied")'
                                       /\ calls'[t].id = b
    BY DEF FilesAreListed
  <2>1. CASE b = a
    BY <1>2, <1>3, <2>1 DEF Moves, At
  <2>2. CASE b # a
    <3>1. b \in Used \ rows /\ disk[b] # "none" /\ b \notin left
      BY <1>1, <1>4, <2>2 DEF IInv, TypeOK
    <3>2. PICK t \in Slots : /\ At(t, "upload", "copying") \/ At(t, "upload", "copied")
                             /\ calls[t].id = b
      BY <3>1 DEF IInv, FilesAreListed
    <3>3. t # s
      BY <1>2, <3>2 DEF At
    <3> QED BY <1>3, <3>2, <3>3 DEF Moves, At
  <2> QED BY <2>1, <2>2
<1>8. ShownWasStored'
  BY <1>4 DEF IInv, ShownWasStored, panel
<1>9. CallsSound'
  <2> SUFFICES ASSUME NEW t \in Slots, calls'[t] # None PROVE Sound(calls[t])'
    BY DEF CallsSound
  <2>1. CASE t = s
    BY <1>1, <1>2, <1>3, <2>1 DEF Moves, Sound, IInv, CallsSound
  <2>2. CASE t # s
    <3>1. calls'[t] = calls[t] /\ Sound(calls[t]) /\ calls[t] \in Call
      BY <1>3, <2>2 DEF Moves, IInv, CallsSound, TypeOK
    <3> QED BY <1>1, <1>4, <3>1 DEF Sound, IInv, TypeOK, Known
  <2> QED BY <2>1, <2>2
<1>10. UploadsApart'
  <2>1. \A t \in Slots : InUpload(t) => calls[t].id # a
    BY <1>1 DEF IInv, CallsSound, Sound, InUpload
  <2> QED BY <1>3, <2>1 DEF UploadsApart, InUpload, Moves, IInv
<1> QED BY <1>5, <1>6, <1>7, <1>8, <1>9, <1>10 DEF IInv

(* A handler of slot s changes disk and table for its own id only. *)
Touches(s, a) ==
  /\ UNCHANGED <<made, uploader, panel>>
  /\ disk' \in [Ids -> {"none", "partial", "whole"}]
  /\ rows' \subseteq Used /\ removed' \subseteq Used
  /\ torn' \subseteq Used /\ left' \subseteq Used
  /\ Known \subseteq Known' /\ torn \subseteq torn' /\ left \subseteq left'
  /\ \A b \in Ids \ {a} : /\ disk'[b] = disk[b]
                          /\ b \in rows' <=> b \in rows
                          /\ b \in Known' <=> b \in Known

LEMMA TouchKeeps ==
  ASSUME IInv, NEW s \in Slots, calls[s] # None, NEW a, a = calls[s].id, NEW f,
         InUpload(s) \/ (calls[s].op = "remove" /\ calls[s].phase \in {"found", "unlinked"}),
         f \in {"copying", "copied"} => InUpload(s),
         Moves(s, f, a), Touches(s, a), \A c : c = calls'[s] => Sound(c)',
         ~ InUpload(s) => disk'[a] \in {disk[a], "none"},
         a \in rows' => \/ disk'[a] = "whole"
                        \/ a \in torn'
                        \/ f = "unlinked" /\ calls[s].op = "remove",
         a \notin rows' => \/ disk'[a] = "none"
                           \/ a \in left'
                           \/ f \in {"copying", "copied"} /\ calls[s].op = "upload"
  PROVE  IInv'
<1>1. a \in Used /\ Used \subseteq Ids /\ Used' = Used
  BY Bounds DEF IInv, CallsSound, Sound, InUpload, Touches, Used
<1>2. ASSUME NEW t \in Slots \ {s}, calls[t] # None, calls[t].phase \in Working,
             calls[t].id = a
      PROVE  ~ InUpload(s) /\ ~ InUpload(t)
  BY <1>2 DEF IInv, CallsSound, Sound, InUpload, UploadsApart, Working
<1>3. TypeOK'
  BY <1>1 DEF IInv, TypeOK, Touches, Moves, panel
<1>4. RowsHaveFiles'
  <2> SUFFICES ASSUME NEW b \in rows', disk'[b] # "whole", b \notin torn'
               PROVE  \E t \in Slots : At(t, "remove", "unlinked")' /\ calls'[t].id = b
    BY DEF RowsHaveFiles
  <2>1. CASE b = a
    BY <2>1 DEF Moves, At
  <2>2. CASE b # a
    <3>1. b \in rows /\ disk[b] # "whole" /\ b \notin torn
      BY <1>1, <2>2 DEF Touches
    <3>2. PICK t \in Slots : At(t, "remove", "unlinked") /\ calls[t].id = b
      BY <3>1 DEF IInv, RowsHaveFiles
    <3> QED BY <2>2, <3>2 DEF Moves, At
  <2> QED BY <2>1, <2>2
<1>5. FilesAreListed'
  <2> SUFFICES ASSUME NEW b \in Used' \ rows', disk'[b] # "none", b \notin left'
               PROVE  \E t \in Slots : /\ At(t, "upload", "copying")' \/ At(t, "upload", "copied")'
                                       /\ calls'[t].id = b
    BY DEF FilesAreListed
  <2>1. CASE b = a
    BY <2>1 DEF Moves, At
  <2>2. CASE b # a
    <3>1. b \in Used \ rows /\ disk[b] # "none" /\ b \notin left
      BY <1>1, <2>2 DEF Touches
    <3>2. PICK t \in Slots : /\ At(t, "upload", "copying") \/ At(t, "upload", "copied")
                             /\ calls[t].id = b
      BY <3>1 DEF IInv, FilesAreListed
    <3> QED BY <2>2, <3>2 DEF Moves, At
  <2> QED BY <2>1, <2>2
<1>6. ShownWasStored'
  BY DEF IInv, ShownWasStored, Touches, panel, Known
<1>7. CallsSound'
  <2> SUFFICES ASSUME NEW t \in Slots \ {s}, calls[t] # None, calls'[t] = calls[t]
               PROVE Sound(calls[t])'
    BY DEF CallsSound, Moves
  <2>1. Sound(calls[t]) /\ calls[t] \in Call
    BY DEF IInv, CallsSound, TypeOK
  <2>2. calls[t].phase \in {"copying", "copied"} =>
          /\ calls[t].op = "upload" /\ calls[t].id \in Used \ Known
          /\ calls[t].id # a
    BY <1>2, <2>1 DEF Sound, InUpload, Working
  <2>3. calls[t].phase \in {"copying", "copied"} => calls[t].id \in Used' \ Known'
    BY <1>1, <2>2 DEF Touches
  <2>4. calls[t].phase = "copied" => disk'[calls[t].id] = disk[calls[t].id]
    BY <1>1, <2>2 DEF Touches
  <2>5. calls[t].phase = "unlinked" => disk'[calls[t].id] = "none" \/ calls[t].id \in left'
    <3>1. CASE calls[t].phase = "unlinked" /\ calls[t].id = a
      BY <1>2, <2>1, <3>1 DEF Sound, Touches, Working
    <3>2. CASE calls[t].phase = "unlinked" /\ calls[t].id # a
      <4>1. calls[t].id \in Ids
        BY <2>1, <3>2, Bounds DEF Sound
      <4> QED BY <2>1, <3>2, <4>1 DEF Sound, Touches
    <3> QED BY <3>1, <3>2
  <2> QED BY <2>1, <2>2, <2>3, <2>4, <2>5 DEF Sound, Touches
<1>8. UploadsApart'
  BY <1>2 DEF UploadsApart, InUpload, Moves, IInv, Working
<1> QED BY <1>3, <1>4, <1>5, <1>6, <1>7, <1>8 DEF IInv

LEMMA UploadStep ==
  ASSUME IInv, NEW s \in Slots,
         CopyFile(s) \/ CopyFails(s) \/ InsertRow(s) \/ InsertFails(s)
  PROVE  IInv'
<1>1. /\ calls[s] # None /\ calls[s] \in Call /\ Sound(calls[s]) /\ InUpload(s)
      /\ calls[s].op = "upload"
  BY DEF IInv, TypeOK, CallsSound, CopyFile, CopyFails, InsertRow, InsertFails, At, InUpload
<1>2. PICK a : a = calls[s].id
  OBVIOUS
<1>3. a \in Used \ Known /\ a \in Ids /\ Used \subseteq Ids /\ Known \subseteq Used
  BY <1>1, <1>2, Bounds DEF Sound, InUpload
<1>4. Touches(s, a)
  BY <1>2, <1>3 DEF CopyFile, CopyFails, InsertRow, InsertFails, Touches, IInv, TypeOK, Known
<1>5. CASE CopyFile(s)
  <2>1. Moves(s, "copied", a)
    BY <1>1, <1>2, <1>5, GoMoves DEF CopyFile, Working
  <2>2. disk'[a] = "whole" /\ rows' = rows /\ a \notin rows'
    BY <1>2, <1>3, <1>5 DEF CopyFile, IInv, TypeOK, Known
  <2>3. a \in Used' \ Known'
    BY <1>3, <1>5 DEF CopyFile, Used, Known
  <2>4. \A c : c = calls'[s] => Sound(c)'
    BY <1>1, <1>4, <2>1, <2>2, <2>3 DEF Moves, Sound, Touches
  <2> QED BY <1>1, <1>2, <1>4, <2>1, <2>2, <2>4, TouchKeeps
<1>6. CASE InsertRow(s)
  <2>1. Moves(s, "answered", a)
    BY <1>1, <1>2, <1>6, GoMoves DEF InsertRow, Working
  <2>2. a \in rows' /\ disk'[a] = "whole"
    BY <1>1, <1>2, <1>6 DEF InsertRow, At, Sound
  <2>3. \A c : c = calls'[s] => Sound(c)'
    BY <1>1, <1>4, <2>1, <2>2 DEF Moves, Sound, Touches, Known
  <2> QED BY <1>1, <1>2, <1>4, <2>1, <2>2, <2>3, TouchKeeps
<1>7. CASE CopyFails(s) \/ InsertFails(s)
  <2>1. Moves(s, "failed", a)
    BY <1>1, <1>2, <1>7, GoMoves DEF CopyFails, InsertFails, Working
  <2>2. a \notin rows' /\ a \in left'
    BY <1>2, <1>3, <1>7 DEF CopyFails, InsertFails, Known
  <2>3. \A c : c = calls'[s] => Sound(c)'
    BY <1>1, <1>4, <2>1 DEF Moves, Sound, Touches
  <2> QED BY <1>1, <1>2, <1>4, <2>1, <2>2, <2>3, TouchKeeps
<1> QED BY <1>5, <1>6, <1>7

LEMMA RemovalStep ==
  ASSUME IInv, NEW s \in Slots, Unlink(s) \/ DeleteRow(s)
  PROVE  IInv'
<1>1. /\ calls[s] # None /\ calls[s] \in Call /\ Sound(calls[s])
      /\ calls[s].op = "remove" /\ calls[s].phase \in {"found", "unlinked"}
  BY DEF IInv, TypeOK, CallsSound, Unlink, DeleteRow, At
<1>0. PICK a : a = calls[s].id
  OBVIOUS
<1>2. a \in Known /\ a \in Used /\ a \in Ids /\ Used \subseteq Ids /\ Known \subseteq Used
  BY <1>0, <1>1, Bounds DEF Sound
<1>3. CASE Unlink(s)
  <2>1. Moves(s, "unlinked", a)
    BY <1>0, <1>1, <1>3, GoMoves DEF Unlink, Working
  <2>2. Touches(s, a)
    BY <1>0, <1>2, <1>3 DEF Unlink, Touches, IInv, TypeOK, Known
  <2>3. (disk'[a] = "none" \/ a \in left') /\ disk'[a] \in {disk[a], "none"} /\ rows' = rows
    BY <1>0, <1>2, <1>3 DEF Unlink, IInv, TypeOK
  <2>4. \A c : c = calls'[s] => Sound(c)'
    BY <1>0, <1>1, <1>2, <2>1, <2>2, <2>3 DEF Moves, Sound, Touches
  <2> QED BY <1>0, <1>1, <2>1, <2>2, <2>3, <2>4, TouchKeeps
<1>4. CASE DeleteRow(s)
  <2>1. Moves(s, "answered", a)
    BY <1>0, <1>1, <1>4, GoMoves DEF DeleteRow, Working
  <2>2. Touches(s, a)
    BY <1>0, <1>2, <1>4 DEF DeleteRow, Touches, IInv, TypeOK, Known
  <2>3. disk' = disk /\ (disk[a] = "none" \/ a \in left) /\ left' = left
    BY <1>0, <1>1, <1>4 DEF DeleteRow, At, Sound
  <2>4. a \in rows' => a \in torn'
    BY <1>0, <1>4 DEF DeleteRow
  <2>5. \A c : c = calls'[s] => Sound(c)'
    BY <1>0, <1>1, <1>2, <2>1, <2>2 DEF Moves, Sound, Touches
  <2> QED BY <1>0, <1>1, <2>1, <2>2, <2>3, <2>4, <2>5, TouchKeeps
<1> QED BY <1>3, <1>4

LEMMA CrashKeeps == ASSUME IInv, Crash PROVE IInv'
<1>1. /\ UNCHANGED <<disk, rows, uploader, made, removed, panel>>
      /\ Used' = Used /\ Known' = Known
  BY DEF Crash, Used, Known
<1>2. \A t \in Slots : calls'[t] =
        IF calls[t] # None /\ calls[t].phase \in Working
        THEN [calls[t] EXCEPT !.phase = "failed"] ELSE calls[t]
  BY DEF Crash, InHandler, Working
<1>3. \A t \in Slots : calls[t] # None =>
        /\ calls[t] \in Call /\ Sound(calls[t])
        /\ [calls[t] EXCEPT !.phase = "failed"] \in Call
        /\ Sound([calls[t] EXCEPT !.phase = "failed"])
  BY DEF IInv, TypeOK, Call, CallsSound, Sound
<1>4. calls' \in [Slots -> Call \cup {None}]
  <2>1. calls' = [t \in Slots |-> calls'[t]]
    BY DEF Crash
  <2>2. \A t \in Slots : calls'[t] \in Call \cup {None}
    BY <1>2, <1>3 DEF IInv, TypeOK
  <2> QED BY <2>1, <2>2
<1>5. \A t \in Slots : calls[t] # None =>
        /\ calls[t].phase \in {"copying", "copied"} => calls[t].id \in left'
        /\ calls[t].phase = "unlinked" => calls[t].id \in torn'
  BY DEF Crash, IdsOf, InHandler
<1>6. left \subseteq left' /\ torn \subseteq torn'
  BY DEF Crash
<1>7. left' \subseteq Used /\ torn' \subseteq Used
  <2>1. \A t \in InHandler("copying") \cup InHandler("copied") \cup InHandler("unlinked") :
          calls[t].id \in Used
    BY <1>3, Bounds DEF InHandler, Sound
  <2> QED BY <2>1 DEF Crash, IdsOf, IInv, TypeOK
<1>8. TypeOK'
  BY <1>1, <1>4, <1>7 DEF IInv, TypeOK, panel
<1>9. RowsHaveFiles'
  <2> SUFFICES ASSUME NEW b \in rows, disk[b] # "whole", b \notin torn'
               PROVE  FALSE
    BY <1>1 DEF RowsHaveFiles
  <2>1. PICK t \in Slots : At(t, "remove", "unlinked") /\ calls[t].id = b
    BY <1>6 DEF IInv, RowsHaveFiles
  <2> QED BY <1>5, <2>1 DEF At
<1>10. FilesAreListed'
  <2> SUFFICES ASSUME NEW b \in Used \ rows, disk[b] # "none", b \notin left'
               PROVE  FALSE
    BY <1>1 DEF FilesAreListed
  <2>1. PICK t \in Slots : /\ At(t, "upload", "copying") \/ At(t, "upload", "copied")
                           /\ calls[t].id = b
    BY <1>6 DEF IInv, FilesAreListed
  <2> QED BY <1>5, <2>1 DEF At
<1>11. ShownWasStored'
  BY <1>1 DEF IInv, ShownWasStored, panel
<1>12. CallsSound'
  <2> SUFFICES ASSUME NEW t \in Slots, calls[t] # None PROVE Sound(calls[t])'
    BY <1>2 DEF CallsSound
  <2>1. Sound(calls[t]) /\ calls[t] \in Call
    BY <1>3
  <2>2. CASE calls'[t] = calls[t]
    BY <1>1, <1>2, <1>6, <2>1, <2>2 DEF Sound, Working
  <2>3. CASE calls'[t] # calls[t]
    <3>1. calls'[t] = [calls[t] EXCEPT !.phase = "failed"]
      BY <1>2, <2>3
    <3> QED BY <1>1, <2>1, <3>1 DEF Sound, Call
  <2> QED BY <2>2, <2>3
<1>13. UploadsApart'
  <2>1. \A t \in Slots : calls[t] # None /\ calls[t].phase \in Working => calls'[t].phase = "failed"
    BY <1>2, <1>3 DEF Call
  <2>2. \A t \in Slots : ~ InUpload(t)'
    BY <1>2, <2>1 DEF InUpload, Working
  <2> QED BY <2>2 DEF UploadsApart
<1> QED BY <1>8, <1>9, <1>10, <1>11, <1>12, <1>13 DEF IInv

LEMMA NextKeeps == IInv /\ [Next]_vars => IInv'
<1> SUFFICES ASSUME IInv, [Next]_vars PROVE IInv'
  OBVIOUS
<1>1. ASSUME NEW p \in Pages, NEW s \in Slots, NEW u \in Users,
             Mount(p, s, u) \/ FileChosen(p, s, u) \/ RemoveClick(p, s, u)
      PROVE  IInv'
  BY <1>1, MountKeeps, SendKeeps
<1>2. ASSUME NEW s \in Slots, Serve(s)
      PROVE  IInv'
  BY <1>2, LookKeeps, CreateFileKeeps, UploadStep, RemovalStep DEF Serve
<1>3. ASSUME NEW s \in Slots, LoseAnswer(s) \/ Deliver(s)
      PROVE  IInv'
  BY <1>3, LookKeeps, DeliverKeeps
<1>4. CASE UNCHANGED vars
  BY <1>4 DEF vars, IInv, TypeOK, RowsHaveFiles, FilesAreListed, ShownWasStored,
     CallsSound, Sound, UploadsApart, InUpload, Known, Used, At
<1> QED BY <1>1, <1>2, <1>3, <1>4, CrashKeeps DEF Next

LEMMA Invariance == Spec => []IInv
BY InitOK, NextKeeps, PTL DEF Spec

(* Disk, table, pages and calls stay well typed. *)
THEOREM TypeCorrect == Spec => []TypeOK
<1>1. IInv => TypeOK
  BY DEF IInv
<1> QED BY <1>1, Invariance, PTL

(* Whatever fails, dies or overlaps, a row lacks its whole file only during *)
(* a removal or after one that failed half-way (handler.go:170-171).        *)
THEOREM NoRowWithoutFile == Spec => []RowsHaveFiles
<1>1. IInv => RowsHaveFiles
  BY DEF IInv
<1> QED BY <1>1, Invariance, PTL

(* A file lacks its row only during an upload or after an upload or removal *)
(* that failed half-way (handler.go:91-104, 170).                           *)
THEOREM NoFileWithoutRow == Spec => []FilesAreListed
<1>1. IInv => FilesAreListed
  BY DEF IInv
<1> QED BY <1>1, Invariance, PTL

(* Pages show only attachments that are or were in the table. *)
THEOREM NothingInvented == Spec => []ShownWasStored
<1>1. IInv => ShownWasStored
  BY DEF IInv
<1> QED BY <1>1, Invariance, PTL

-----------------------------------------------------------------------------
(* "Uploading...": the upload that a busy page waits for.                  *)
Uploads(s, p) == calls[s] # None /\ calls[s].op = "upload" /\ calls[s].page = p

LEMMA StillUploading ==
  ASSUME BusyMeansUploading,
         \A p \in Pages : busy'[p] => \/ \E s \in Slots : Uploads(s, p)'
                                      \/ busy[p] /\ \A s \in Slots : Uploads(s, p) => Uploads(s, p)'
  PROVE  BusyMeansUploading'
BY DEF BusyMeansUploading, Uploads

(* A call that moves on in one slot stays the upload that it is. *)
LEMMA MovesOn ==
  ASSUME TypeOK, BusyMeansUploading, UNCHANGED busy, NEW s \in Slots, calls[s] # None,
         NEW new \in Call, new.op = calls[s].op, new.page = calls[s].page,
         calls' = [calls EXCEPT ![s] = new]
  PROVE  BusyMeansUploading'
BY StillUploading, NoneAssumption DEF TypeOK, Uploads

Later == {"copied", "found", "unlinked", "answered", "null", "failed"}

LEMMA HandlersMoveOn ==
  ASSUME TypeOK, BusyMeansUploading, NEW s \in Slots, Serve(s) \/ LoseAnswer(s)
  PROVE  BusyMeansUploading'
<1>1. UNCHANGED busy /\ calls[s] # None
  BY DEF Serve, LoseAnswer, List, ListOfNull, CreateFile, CopyFile, CopyFails, InsertRow, InsertFails,
     FindForRemoval, Unlink, DeleteRow, Refuse, At, panel
<1>2. calls[s] \in Call
  BY <1>1 DEF TypeOK
<1>3. CASE \E phase \in Later : Go(s, phase)
  <2>1. PICK phase \in Later : Go(s, phase)
    BY <1>3
  <2> DEFINE new == [calls[s] EXCEPT !.phase = phase]
  <2>2. new \in Call /\ new.op = calls[s].op /\ new.page = calls[s].page
    BY <1>2 DEF Call, Later
  <2>3. calls' = [calls EXCEPT ![s] = new]
    BY <2>1 DEF Go
  <2> HIDE DEF new
  <2> QED BY <1>1, <2>2, <2>3, MovesOn
<1>4. CASE List(s)
  <2> DEFINE new == [calls[s] EXCEPT !.phase = "answered", !.answer = rows]
  <2>1. rows \subseteq Ids
    BY AttachmentsAssumption DEF TypeOK, Used, Ids
  <2>2. new \in Call /\ new.op = calls[s].op /\ new.page = calls[s].page
    BY <1>2, <2>1 DEF Call
  <2>3. calls' = [calls EXCEPT ![s] = new]
    BY <1>4 DEF List
  <2> HIDE DEF new
  <2> QED BY <1>1, <2>2, <2>3, MovesOn
<1>5. CASE CreateFile(s)
  <2> DEFINE new == [calls[s] EXCEPT !.phase = "copying", !.id = made + 1]
  <2>1. made + 1 \in 0 .. MaxFiles
    BY <1>5, AttachmentsAssumption DEF CreateFile, TypeOK
  <2>2. new \in Call /\ new.op = calls[s].op /\ new.page = calls[s].page
    BY <1>2, <2>1 DEF Call
  <2>3. calls' = [calls EXCEPT ![s] = new]
    BY <1>5 DEF CreateFile
  <2> HIDE DEF new
  <2> QED BY <1>1, <2>2, <2>3, MovesOn
<1>6. List(s) \/ CreateFile(s) \/ \E phase \in Later : Go(s, phase)
  BY DEF Serve, LoseAnswer, ListOfNull, CopyFile, CopyFails, InsertRow, InsertFails,
     FindForRemoval, Unlink, DeleteRow, Refuse, Later
<1> QED BY <1>3, <1>4, <1>5, <1>6

(* Answers: the upload that ends takes "Uploading..." of its page with it. *)
LEMMA AnswersClear ==
  ASSUME TypeOK, BusyMeansUploading, NEW s \in Slots, Deliver(s), ~ NullArrives(s)
  PROVE  BusyMeansUploading'
<1>1. calls[s] # None /\ calls' = [calls EXCEPT ![s] = None]
  BY DEF Deliver, ListArrives, Uploaded, UploadFailed, RemovalArrives, NobodyListens, Listens, Over
<1>2. \A t \in Slots \ {s} : calls'[t] = calls[t]
  BY <1>1 DEF TypeOK
<1>3. ASSUME NEW p \in Pages, busy'[p]
      PROVE  busy[p] /\ ~ Uploads(s, p)
  <2>1. CASE UNCHANGED busy /\ (calls[s].op # "upload" \/ calls[s].page = None)
    BY <1>3, <2>1, AttachmentsAssumption DEF Uploads
  <2>2. CASE busy' = [busy EXCEPT ![calls[s].page] = FALSE]
    BY <1>3, <2>2 DEF Uploads, TypeOK
  <2> QED BY <2>1, <2>2 DEF Deliver, ListArrives, Uploaded, UploadFailed, RemovalArrives,
             NobodyListens, Listens, panel
<1>4. ASSUME NEW p \in Pages, busy'[p], NEW t \in Slots, Uploads(t, p)
      PROVE  Uploads(t, p)'
  BY <1>2, <1>3, <1>4 DEF Uploads
<1> QED BY <1>3, <1>4, StillUploading

(* A dashboard that goes takes its "Uploading..." with it. *)
LEMMA WipesKeepBusy ==
  ASSUME TypeOK, BusyMeansUploading, NEW p \in Pages, NEW s \in Slots, NEW c,
         Wipe(p), calls' = [Cleared(p) EXCEPT ![s] = c],
         \A q \in Pages \ {p} : ~ Uploads(s, q)
  PROVE  BusyMeansUploading'
<1>1. ~ busy'[p] /\ \A q \in Pages \ {p} : busy'[q] = busy[q]
  BY DEF Wipe, TypeOK
<1>2. ASSUME NEW q \in Pages \ {p}, NEW t \in Slots, Uploads(t, q)
      PROVE  calls'[t] = calls[t]
  BY <1>2 DEF Cleared, Uploads
<1>3. ASSUME NEW q \in Pages, busy'[q], NEW t \in Slots, Uploads(t, q)
      PROVE  Uploads(t, q)'
  BY <1>1, <1>2, <1>3 DEF Uploads
<1> QED BY <1>1, <1>3, StillUploading

LEMMA NullKeepsBusy ==
  ASSUME TypeOK, BusyMeansUploading, NEW s \in Slots, NullArrives(s)
  PROVE  BusyMeansUploading'
<1>1. calls[s] # None /\ calls[s].page \in Pages /\ calls[s].op = "list"
  BY DEF NullArrives, Listens, TypeOK, Call
<1>2. PICK p \in Pages : Wipe(p) /\ calls' = [Cleared(p) EXCEPT ![s] = None]
  BY <1>1 DEF NullArrives
<1> QED BY <1>1, <1>2, WipesKeepBusy DEF Uploads

LEMMA ClicksKeepBusy ==
  ASSUME TypeOK, BusyMeansUploading, NEW p \in Pages, NEW s \in Slots, NEW u \in Users,
         Mount(p, s, u) \/ FileChosen(p, s, u) \/ RemoveClick(p, s, u)
  PROVE  BusyMeansUploading'
<1>1. CASE Mount(p, s, u)
  BY <1>1, WipesKeepBusy DEF Mount, Uploads
<1>2. CASE FileChosen(p, s, u) \/ RemoveClick(p, s, u)
  <2>1. calls[s] = None /\ \A t \in Slots \ {s} : calls'[t] = calls[t]
    BY <1>2 DEF FileChosen, RemoveClick, TypeOK
  <2>2. ASSUME NEW q \in Pages, NEW t \in Slots, Uploads(t, q)
        PROVE  Uploads(t, q)'
    BY <2>1, <2>2 DEF Uploads
  <2>3. ASSUME FileChosen(p, s, u) PROVE Uploads(s, p)'
    <3>1. Sent(p, u, "upload", 0) \in Call
      BY AttachmentsAssumption DEF Sent, Call
    <3>2. calls'[s] = Sent(p, u, "upload", 0)
      BY <2>3 DEF FileChosen, TypeOK
    <3> QED BY <3>1, <3>2, NoneAssumption DEF Uploads, Sent
  <2>4. \A q \in Pages : busy'[q] => busy[q] \/ (q = p /\ FileChosen(p, s, u))
    BY <1>2 DEF FileChosen, RemoveClick, TypeOK, panel
  <2> QED BY <2>2, <2>3, <2>4, StillUploading
<1> QED BY <1>1, <1>2

LEMMA CrashKeepsBusy ==
  ASSUME TypeOK, BusyMeansUploading, Crash
  PROVE  BusyMeansUploading'
<1>1. ASSUME NEW p \in Pages, NEW s \in Slots, Uploads(s, p)
      PROVE  Uploads(s, p)'
  <2>1. calls[s] \in Call
    BY <1>1 DEF TypeOK, Uploads
  <2>2. [calls[s] EXCEPT !.phase = "failed"] \in Call
    BY <2>1 DEF Call
  <2>3. calls'[s] \in {calls[s], [calls[s] EXCEPT !.phase = "failed"]}
    BY DEF Crash
  <2> QED BY <1>1, <2>1, <2>2, <2>3, NoneAssumption DEF Uploads, Call
<1>2. UNCHANGED busy
  BY DEF Crash, panel
<1> QED BY <1>1, <1>2, StillUploading

(* No order of uploads, failures, crashes and remounts leaves "Uploading..." *)
(* on a page that has no upload under way.                                   *)
THEOREM NoUploadNoBusy == Spec => []BusyMeansUploading
<1>1. Init => BusyMeansUploading
  BY DEF Init, BusyMeansUploading
<1>2. TypeOK /\ BusyMeansUploading /\ [Next]_vars => BusyMeansUploading'
  <2> SUFFICES ASSUME TypeOK, BusyMeansUploading, [Next]_vars PROVE BusyMeansUploading'
    OBVIOUS
  <2>1. CASE UNCHANGED vars
    BY <2>1 DEF vars, BusyMeansUploading
  <2> QED BY <2>1, ClicksKeepBusy, HandlersMoveOn, AnswersClear, NullKeepsBusy,
             CrashKeepsBusy DEF Next
<1> QED BY <1>1, <1>2, TypeCorrect, PTL DEF Spec

-----------------------------------------------------------------------------
(* The life of an attachment.  A step that touches one id changes at most    *)
(* that id's stage.                                                          *)
LEMMA SameStages ==
  ASSUME UNCHANGED <<disk, rows, removed>>
  PROVE  \A a \in Ids : Stage(a)' = Stage(a)
BY DEF Stage, Known

LEMMA OneStage ==
  ASSUME NEW a \in Ids,
         \A b \in Ids \ {a} : /\ disk'[b] = disk[b]
                              /\ b \in rows' <=> b \in rows
                              /\ b \in removed' <=> b \in removed
  PROVE  stages' = [stages EXCEPT ![a] = Stage(a)']
<1>1. \A b \in Ids \ {a} : Stage(b)' = Stage(b)
  BY DEF Stage, Known
<1> QED BY <1>1 DEF stages

(* What a step makes of one attachment, and a step of its life. *)
LEMMA LifeMove ==
  ASSUME NEW a \in Ids,
         \A b \in Ids \ {a} : /\ disk'[b] = disk[b]
                              /\ b \in rows' <=> b \in rows
                              /\ b \in removed' <=> b \in removed,
         \/ Stage(a)' = Stage(a)
         \/ Stage(a) = "new" /\ Stage(a)' = "stored"
         \/ Stage(a) = "stored" /\ Stage(a)' = "listed"
         \/ Stage(a) = "listed" /\ Stage(a)' = "broken"
         \/ Stage(a) \in {"listed", "broken"} /\ Stage(a)' = "gone"
  PROVE  [Life!Next]_stages
<1>1. stages' = [stages EXCEPT ![a] = Stage(a)'] /\ stages[a] = Stage(a)
  BY OneStage DEF stages
<1>2. CASE Stage(a)' = Stage(a)
  BY <1>1, <1>2 DEF stages
<1>3. CASE Stage(a) = "new" /\ Stage(a)' = "stored"
  BY <1>1, <1>3 DEF Life!Next, Life!Store, Life!Becomes
<1>4. CASE Stage(a) = "stored" /\ Stage(a)' = "listed"
  BY <1>1, <1>4 DEF Life!Next, Life!List, Life!Becomes
<1>5. CASE Stage(a) = "listed" /\ Stage(a)' = "broken"
  BY <1>1, <1>5 DEF Life!Next, Life!Break, Life!Becomes
<1>6. CASE Stage(a) \in {"listed", "broken"} /\ Stage(a)' = "gone"
  BY <1>1, <1>6 DEF Life!Next, Life!Remove, Life!Becomes
<1> QED BY <1>2, <1>3, <1>4, <1>5, <1>6

LEMMA UploadLives ==
  ASSUME IInv, NEW s \in Slots, CreateFile(s) \/ CopyFile(s) \/ InsertRow(s)
  PROVE  [Life!Next]_stages
<1>0. calls[s] # None /\ Sound(calls[s]) /\ Used \subseteq Ids /\ Known \subseteq Used
  BY Bounds DEF IInv, CallsSound, CreateFile, CopyFile, InsertRow, At
<1>1. CASE CreateFile(s)
  <2>0. PICK a : a = made + 1
    OBVIOUS
  <2>1. a \in Ids /\ a \notin Known
    BY <1>0, <1>1, <2>0, Bounds, AttachmentsAssumption DEF CreateFile, Used, Ids
  <2>2. disk' = [disk EXCEPT ![a] = "partial"] /\ UNCHANGED <<rows, removed>>
    BY <1>1, <2>0 DEF CreateFile
  <2>3. Stage(a) \in {"new", "stored"} /\ Stage(a)' = "stored"
    BY <2>1, <2>2 DEF Stage, Known, IInv, TypeOK
  <2> QED BY <2>1, <2>2, <2>3, LifeMove DEF IInv, TypeOK
<1>2. CASE CopyFile(s)
  <2>1. PICK a : a = calls[s].id
    OBVIOUS
  <2>2. a \in Ids /\ a \notin Known
    BY <1>0, <1>2, <2>1 DEF CopyFile, At, Sound
  <2>3. disk' = [disk EXCEPT ![a] = "whole"] /\ UNCHANGED <<rows, removed>>
    BY <1>2, <2>1 DEF CopyFile
  <2>4. Stage(a) \in {"new", "stored"} /\ Stage(a)' = "stored"
    BY <2>2, <2>3 DEF Stage, Known, IInv, TypeOK
  <2> QED BY <2>2, <2>3, <2>4, LifeMove DEF IInv, TypeOK
<1>3. CASE InsertRow(s)
  <2>1. PICK a : a = calls[s].id
    OBVIOUS
  <2>2. a \in Ids /\ a \notin Known /\ disk[a] = "whole"
    BY <1>0, <1>3, <2>1 DEF InsertRow, At, Sound
  <2>3. rows' = rows \cup {a} /\ UNCHANGED <<disk, removed>>
    BY <1>3, <2>1 DEF InsertRow
  <2>4. Stage(a) = "stored" /\ Stage(a)' = "listed"
    BY <2>2, <2>3 DEF Stage, Known
  <2> QED BY <2>2, <2>3, <2>4, LifeMove
<1> QED BY <1>1, <1>2, <1>3

LEMMA RemovalLives ==
  ASSUME IInv, NEW s \in Slots, Unlink(s) \/ DeleteRow(s)
  PROVE  [Life!Next]_stages
<1>1. PICK a : a = calls[s].id
  OBVIOUS
<1>2. a \in Ids /\ a \in Known
  BY <1>1, Bounds DEF IInv, CallsSound, Sound, Unlink, DeleteRow, At
<1>3. CASE Unlink(s)
  <2>1. disk' \in {disk, [disk EXCEPT ![a] = "none"]} /\ UNCHANGED <<rows, removed>>
    BY <1>1, <1>3 DEF Unlink
  <2>2. \/ Stage(a)' = Stage(a)
        \/ Stage(a) = "listed" /\ Stage(a)' = "broken"
    BY <1>2, <2>1 DEF Stage, Known, IInv, TypeOK
  <2> QED BY <1>2, <2>1, <2>2, LifeMove DEF IInv, TypeOK
<1>4. CASE DeleteRow(s)
  <2>1. /\ UNCHANGED disk
        /\ \/ rows' = rows \ {a} /\ removed' = removed \cup {a}
           \/ UNCHANGED <<rows, removed>>
    BY <1>1, <1>4 DEF DeleteRow
  <2>2. \/ Stage(a)' = Stage(a)
        \/ Stage(a) \in {"listed", "broken"} /\ Stage(a)' = "gone"
    BY <1>2, <2>1 DEF Stage, Known
  <2> QED BY <1>2, <2>1, <2>2, LifeMove
<1> QED BY <1>3, <1>4

LEMMA LifeStep == IInv /\ [Next]_vars => [Life!Next]_stages
<1> SUFFICES ASSUME IInv, [Next]_vars PROVE [Life!Next]_stages
  OBVIOUS
<1>1. CASE UNCHANGED <<disk, rows, removed>>
  BY <1>1, SameStages DEF stages
<1>2. UNCHANGED <<disk, rows, removed>>
      \/ \E s \in Slots : CreateFile(s) \/ CopyFile(s) \/ InsertRow(s) \/ Unlink(s) \/ DeleteRow(s)
  BY DEF Next, vars, table, Mount, FileChosen, RemoveClick, Serve, List, ListOfNull, CopyFails,
     InsertFails, FindForRemoval, Refuse, LoseAnswer, Deliver, ListArrives, NullArrives, Uploaded,
     UploadFailed, RemovalArrives, NobodyListens, Crash
<1> QED BY <1>1, <1>2, UploadLives, RemovalLives

(* Every attachment lives as AttachmentLife says, for any number of files,  *)
(* pages and overlapping calls, and however they fail or die.               *)
THEOREM AttachmentsLive == Spec => ImplementsLife
<1>1. Init => Life!Init
  BY DEF Init, Life!Init, stages, Stage
<1> QED BY <1>1, LifeStep, Invariance, PTL DEF Spec, ImplementsLife, Life!Spec

(* So nothing lists again what was removed. *)
THEOREM RemovalsAreFinal == Spec => RemovalIsFinal
<1>1. ASSUME [Life!Next]_stages, NEW a \in Ids, Stage(a) = "gone"
      PROVE  a \notin rows'
  <2>1. stages[a] = "gone" /\ stages'[a] = Stage(a)'
    BY <1>1 DEF stages
  <2>2. stages'[a] = "gone"
    BY <1>1, <2>1 DEF stages, Life!Next, Life!Store, Life!List, Life!Break, Life!Remove, Life!Becomes
  <2> QED BY <2>1, <2>2 DEF Stage
<1>2. [Life!Next]_stages =>
        [\A a \in Ids : Stage(a) = "gone" => a \notin rows']_vars
  BY <1>1
<1> QED BY <1>2, AttachmentsLive, PTL DEF ImplementsLife, Life!Spec, RemovalIsFinal
=============================================================================

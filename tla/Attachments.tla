----------------------------- MODULE Attachments -----------------------------
(***************************************************************************)
(* The attachments of one report: files on disk, their rows                *)
(* (internal/attachment/handler.go) and the panel of each page that shows  *)
(* the report (EmployeeDashboard.tsx, api/attachments.ts).  A handler      *)
(* changes the disk and the table in separate steps, any of which may fail *)
(* and between which the server may die; nothing repairs what is left.     *)
(***************************************************************************)
EXTENDS Naturals, FiniteSets

CONSTANTS Users,     \* whose token a page may carry
          MayAccess, \* those for whom canAccessReport holds
          Pages,     \* mounted dashboards
          Slots,     \* calls that can be under way together
          None,
          MaxFiles   \* bound for TLC: files ever created

ASSUME AttachmentsAssumption ==
  /\ MayAccess \subseteq Users
  /\ MaxFiles \in Nat
  /\ None \notin Pages

VARIABLES disk,      \* disk[a]: the stored file of attachment a
          rows,      \* the attachments in the table
          uploader,  \* uploader[a]: uploaded_by, for ids in use
          made,      \* number of files created so far
          shown,     \* shown[p]: the attachments in the panel
          busy,      \* busy[p]: isUploading
          up,        \* the pages with a dashboard on them
          calls,     \* calls[s]: a call of a page, or None
          torn,      \* history: a removal took the file and left the row
          left,      \* history: an upload or removal left a file alone
          removed    \* history: rows deleted by a removal

vars == <<disk, rows, uploader, made, shown, busy, up, calls, torn, left, removed>>

Ids  == 1 .. MaxFiles
Used == 1 .. made

(* page is None when the page was left before the answer: nobody listens. *)
Call == [op : {"list", "upload", "remove"}, page : Pages \cup {None},
         as : Users, id : 0 .. MaxFiles, answer : SUBSET Ids,
         phase : {"sent", "copying", "copied", "found", "unlinked", "answered", "null", "failed"}]

ASSUME NoneAssumption == None \notin Call

Init == /\ disk = [a \in Ids |-> "none"]
        /\ rows = {}
        /\ uploader = [a \in Ids |-> None]
        /\ made = 0
        /\ shown = [p \in Pages |-> {}]
        /\ busy = [p \in Pages |-> FALSE]
        /\ up = {}
        /\ calls = [s \in Slots |-> None]
        /\ torn = {}
        /\ left = {}
        /\ removed = {}

table == <<disk, rows, uploader, made, torn, left, removed>>
panel == <<shown, busy, up>>
-----------------------------------------------------------------------------
(* The page.  Uploading and removing are offered while its copy of the     *)
(* report is neither submitted nor approved, which may be at any time; the *)
(* file input is not disabled during an upload.                            *)
Sent(p, u, op, a) == [op |-> op, page |-> p, as |-> u, id |-> a,
                      answer |-> {}, phase |-> "sent"]

(* What the dashboard of a page was waiting for, nobody waits for any more. *)
Cleared(p) == [x \in Slots |->
  IF calls[x] # None /\ calls[x].page = p THEN [calls[x] EXCEPT !.page = None]
  ELSE calls[x]]
Wipe(p) == /\ shown' = [shown EXCEPT ![p] = {}]
           /\ busy' = [busy EXCEPT ![p] = FALSE]

(* The dashboard is mounted, anew perhaps: state and calls are forgotten. *)
Mount(p, s, u) ==
  /\ calls[s] = None
  /\ Wipe(p)
  /\ up' = up \cup {p}
  /\ calls' = [Cleared(p) EXCEPT ![s] = Sent(p, u, "list", 0)]
  /\ UNCHANGED table

FileChosen(p, s, u) ==
  /\ calls[s] = None
  /\ p \in up
  /\ calls' = [calls EXCEPT ![s] = Sent(p, u, "upload", 0)]
  /\ busy' = [busy EXCEPT ![p] = TRUE]
  /\ UNCHANGED <<table, shown, up>>

RemoveClick(p, s, u) == \E a \in Ids :
  /\ calls[s] = None
  /\ p \in up /\ a \in shown[p]
  /\ calls' = [calls EXCEPT ![s] = Sent(p, u, "remove", a)]
  /\ UNCHANGED <<table, panel>>

-----------------------------------------------------------------------------
(* The handlers, one statement or file operation per step. *)
At(s, op, phase) == calls[s] # None /\ calls[s].op = op /\ calls[s].phase = phase
Go(s, phase)     == calls' = [calls EXCEPT ![s].phase = phase]

List(s) ==
  /\ At(s, "list", "sent")
  /\ calls[s].as \in MayAccess
  /\ calls' = [calls EXCEPT ![s] = [@ EXCEPT !.phase = "answered", !.answer = rows]]
  /\ UNCHANGED <<table, panel>>

(* Find fails, and nobody looks: 200, with null for the list. *)
ListOfNull(s) ==
  /\ At(s, "list", "sent")
  /\ calls[s].as \in MayAccess
  /\ Go(s, "null")
  /\ UNCHANGED <<table, panel>>

\* Faulty variant: the number of files is the name, and is not kept.
CreateFileUncounted(s) ==
  /\ At(s, "upload", "sent")
  /\ calls[s].as \in MayAccess
  /\ made < MaxFiles
  /\ disk' = [disk EXCEPT ![made + 1] = "partial"]
  /\ uploader' = [uploader EXCEPT ![made + 1] = calls[s].as]
  /\ calls' = [calls EXCEPT ![s] = [@ EXCEPT !.phase = "copying", !.id = made + 1]]
  /\ UNCHANGED <<rows, made, torn, left, removed, panel>>

CreateFile(s) ==
  /\ At(s, "upload", "sent")
  /\ calls[s].as \in MayAccess
  /\ made < MaxFiles
  /\ made' = made + 1
  /\ disk' = [disk EXCEPT ![made + 1] = "partial"]
  /\ uploader' = [uploader EXCEPT ![made + 1] = calls[s].as]
  /\ calls' = [calls EXCEPT ![s] = [@ EXCEPT !.phase = "copying", !.id = made + 1]]
  /\ UNCHANGED <<rows, torn, left, removed, panel>>

CopyFile(s) ==
  /\ At(s, "upload", "copying")
  /\ disk' = [disk EXCEPT ![calls[s].id] = "whole"]
  /\ Go(s, "copied")
  /\ UNCHANGED <<rows, uploader, made, torn, left, removed, panel>>

\* Faulty variant: the error of the copy is not looked at.
CopyFailsUnnoticed(s) ==
  /\ At(s, "upload", "copying")
  /\ Go(s, "copied")
  /\ UNCHANGED <<table, panel>>

(* The copy stops half-way; what was written stays. *)
CopyFails(s) ==
  /\ At(s, "upload", "copying")
  /\ left' = left \cup {calls[s].id}
  /\ Go(s, "failed")
  /\ UNCHANGED <<disk, rows, uploader, made, torn, removed, panel>>

InsertRow(s) ==
  /\ At(s, "upload", "copied")
  /\ rows' = rows \cup {calls[s].id}
  /\ Go(s, "answered")
  /\ UNCHANGED <<disk, uploader, made, torn, left, removed, panel>>

\* Faulty variant: the error of the insert is not looked at.
InsertFailsUnnoticed(s) ==
  /\ At(s, "upload", "copied")
  /\ left' = left \cup {calls[s].id}
  /\ Go(s, "answered")
  /\ UNCHANGED <<disk, rows, uploader, made, torn, removed, panel>>

InsertFails(s) ==
  /\ At(s, "upload", "copied")
  /\ left' = left \cup {calls[s].id}
  /\ Go(s, "failed")
  /\ UNCHANGED <<disk, rows, uploader, made, torn, removed, panel>>

FindForRemoval(s) ==
  /\ At(s, "remove", "sent")
  /\ Go(s, IF calls[s].id \in rows /\ uploader[calls[s].id] = calls[s].as
           THEN "found" ELSE "failed")
  /\ UNCHANGED <<table, panel>>

\* Faulty variant: only the row is removed.
UnlinkSkipped(s) ==
  /\ At(s, "remove", "found")
  /\ Go(s, "unlinked")
  /\ UNCHANGED <<table, panel>>

(* os.Remove, whose error is ignored. *)
Unlink(s) ==
  /\ At(s, "remove", "found")
  /\ \/ disk' = [disk EXCEPT ![calls[s].id] = "none"] /\ UNCHANGED left
     \/ left' = left \cup {calls[s].id} /\ UNCHANGED disk
  /\ Go(s, "unlinked")
  /\ UNCHANGED <<rows, uploader, made, torn, removed, panel>>

(* db.Delete, whose error is ignored: both answer 200. *)
DeleteRow(s) ==
  /\ At(s, "remove", "unlinked")
  /\ \/ /\ rows' = rows \ {calls[s].id}
        /\ removed' = removed \cup {calls[s].id}
        /\ UNCHANGED torn
     \/ torn' = torn \cup {calls[s].id} /\ UNCHANGED <<rows, removed>>
  /\ Go(s, "answered")
  /\ UNCHANGED <<disk, uploader, made, left, panel>>

(* Lost on its way, refused (404, 403, 413), or the file was not opened.   *)
Refuse(s) ==
  /\ calls[s] # None
  /\ calls[s].phase = "sent"
  /\ Go(s, "failed")
  /\ UNCHANGED <<table, panel>>

(* The answer is lost: the page takes what was done for a failure. *)
LoseAnswer(s) ==
  /\ calls[s] # None
  /\ calls[s].phase \in {"answered", "null"}
  /\ Go(s, "failed")
  /\ UNCHANGED <<table, panel>>

(* The server dies and starts again: connections break, handlers are gone. *)
InHandler(phase) == {s \in Slots : calls[s] # None /\ calls[s].phase = phase}
IdsOf(ss)        == {calls[s].id : s \in ss}

Crash ==
  /\ left' = left \cup IdsOf(InHandler("copying") \cup InHandler("copied"))
  /\ torn' = torn \cup IdsOf(InHandler("unlinked"))
  /\ calls' = [s \in Slots |->
       IF s \in UNION {InHandler(f) : f \in {"copying", "copied", "found", "unlinked"}}
       THEN [calls[s] EXCEPT !.phase = "failed"] ELSE calls[s]]
  /\ UNCHANGED <<disk, rows, uploader, made, removed, panel>>

-----------------------------------------------------------------------------
(* The page gets the answer, or the error, if it still listens. *)
Listens(s, op) == calls[s] # None /\ calls[s].op = op /\ calls[s].page # None
Over(s)        == calls' = [calls EXCEPT ![s] = None]

ListArrives(s) ==
  /\ Listens(s, "list")
  /\ calls[s].phase \in {"answered", "failed"}
  /\ shown' = [shown EXCEPT ![calls[s].page] =
                 IF calls[s].phase = "answered" THEN calls[s].answer ELSE {}]
  /\ Over(s)
  /\ UNCHANGED <<table, busy, up>>

(* null has no length: rendering the panel throws, and the page goes blank. *)
NullArrives(s) ==
  /\ Listens(s, "list")
  /\ calls[s].phase = "null"
  /\ LET p == calls[s].page IN
       /\ Wipe(p)
       /\ up' = up \ {p}
       /\ calls' = [Cleared(p) EXCEPT ![s] = None]
  /\ UNCHANGED table

Uploaded(s) ==
  /\ Listens(s, "upload")
  /\ calls[s].phase = "answered"
  /\ shown' = [shown EXCEPT ![calls[s].page] = @ \cup {calls[s].id}]
  /\ busy' = [busy EXCEPT ![calls[s].page] = FALSE]
  /\ Over(s)
  /\ UNCHANGED <<table, up>>

\* Faulty variant: then instead of finally.
UploadFailedStillBusy(s) ==
  /\ Listens(s, "upload")
  /\ calls[s].phase = "failed"
  /\ Over(s)
  /\ UNCHANGED <<table, panel>>

UploadFailed(s) ==
  /\ Listens(s, "upload")
  /\ calls[s].phase = "failed"
  /\ busy' = [busy EXCEPT ![calls[s].page] = FALSE]
  /\ Over(s)
  /\ UNCHANGED <<table, shown, up>>

RemovalArrives(s) ==
  /\ Listens(s, "remove")
  /\ \/ /\ calls[s].phase = "answered"
        /\ shown' = [shown EXCEPT ![calls[s].page] = @ \ {calls[s].id}]
     \/ calls[s].phase = "failed" /\ UNCHANGED shown
  /\ Over(s)
  /\ UNCHANGED <<table, busy, up>>

NobodyListens(s) ==
  /\ calls[s] # None
  /\ calls[s].page = None
  /\ calls[s].phase \in {"answered", "null", "failed"}
  /\ Over(s)
  /\ UNCHANGED <<table, panel>>

Serve(s) == \/ List(s) \/ ListOfNull(s)
            \/ CreateFile(s) \/ CopyFile(s) \/ CopyFails(s)
            \/ InsertRow(s) \/ InsertFails(s)
            \/ FindForRemoval(s) \/ Unlink(s) \/ DeleteRow(s)
            \/ Refuse(s)

Deliver(s) == \/ ListArrives(s) \/ NullArrives(s)
              \/ Uploaded(s) \/ UploadFailed(s)
              \/ RemovalArrives(s) \/ NobodyListens(s)

Next == \/ \E p \in Pages, s \in Slots, u \in Users :
             Mount(p, s, u) \/ FileChosen(p, s, u) \/ RemoveClick(p, s, u)
        \/ \E s \in Slots : Serve(s) \/ LoseAnswer(s) \/ Deliver(s)
        \/ Crash

Spec == Init /\ [][Next]_vars
-----------------------------------------------------------------------------
TypeOK == /\ disk \in [Ids -> {"none", "partial", "whole"}]
          /\ rows \subseteq Used
          /\ uploader \in [Ids -> Users \cup {None}]
          /\ made \in 0 .. MaxFiles
          /\ shown \in [Pages -> SUBSET Used]
          /\ busy \in [Pages -> BOOLEAN]
          /\ up \subseteq Pages
          /\ calls \in [Slots -> Call \cup {None}]
          /\ torn \subseteq Used
          /\ left \subseteq Used
          /\ removed \subseteq Used

(* An attachment in the table has its whole file, but while a removal is   *)
(* between the file and the row, or after one that failed or died there    *)
(* (handler.go:170-171); no upload, however it ends, leaves such a row.    *)
RowsHaveFiles == \A a \in rows :
  \/ disk[a] = "whole"
  \/ a \in torn
  \/ \E s \in Slots : At(s, "remove", "unlinked") /\ calls[s].id = a

(* A file without a row belongs to an upload under way, or to an upload or *)
(* removal that failed or died (handler.go:91-104, 170).                   *)
FilesAreListed == \A a \in Used \ rows :
  \/ disk[a] = "none"
  \/ a \in left
  \/ \E s \in Slots : /\ At(s, "upload", "copying") \/ At(s, "upload", "copied")
                     /\ calls[s].id = a

(* What a page shows, late answers and several pages included, is in the   *)
(* table unless a removal deleted it: no attachment is shown whose upload   *)
(* did not get as far as the row.                                           *)
ShownWasStored == \A p \in Pages : shown[p] \subseteq rows \cup removed

(* "Uploading..." (EmployeeDashboard.tsx:555) is shown only while an upload *)
(* of the page is under way, whatever fails and in whatever order uploads   *)
(* end.  The converse does not hold: the first of two to end clears it.     *)
BusyMeansUploading == \A p \in Pages : busy[p] =>
  \E s \in Slots : calls[s] # None /\ calls[s].op = "upload" /\ calls[s].page = p

(* What makes these inductive: an id of an upload under way is its own and  *)
(* not in the table yet; an id of any other call has been there.            *)
Known == rows \cup removed
Sound(c) ==
  /\ c.answer \subseteq Known
  /\ c.phase \in {"copying", "copied"} => c.op = "upload" /\ c.id \in Used \ Known
  /\ c.op = "upload" /\ c.phase = "copied" => disk[c.id] = "whole"
  /\ c.op = "upload" /\ c.phase = "answered" => c.id \in Known
  /\ c.phase \in {"found", "unlinked"} => c.op = "remove" /\ c.id \in Known
  /\ c.phase = "unlinked" => disk[c.id] = "none" \/ c.id \in left
CallsSound == \A s \in Slots : calls[s] # None => Sound(calls[s])

InUpload(s)  == calls[s] # None /\ calls[s].phase \in {"copying", "copied"}
UploadsApart == \A s, t \in Slots :
  InUpload(s) /\ InUpload(t) /\ s # t => calls[s].id # calls[t].id

IInv == /\ TypeOK
        /\ RowsHaveFiles
        /\ FilesAreListed
        /\ ShownWasStored
        /\ CallsSound
        /\ UploadsApart

(* What a failure, a crash or an overlap may do to an attachment, step by   *)
(* step: it implements the life of an attachment.  No upload lists a file   *)
(* that is not whole, and no step brings back what was removed.             *)
Stage(a) == IF a \in rows THEN IF disk[a] = "whole" THEN "listed" ELSE "broken"
            ELSE IF a \in removed THEN "gone"
            ELSE IF disk[a] = "none" THEN "new" ELSE "stored"
stages == [a \in Ids |-> Stage(a)]
Life == INSTANCE AttachmentLife WITH stage <- stages
ImplementsLife == Life!Spec

(* A removal that took the row is final, whatever upload, removal or crash  *)
(* comes after it (handler.go:170-171).                                     *)
RemovalIsFinal == [][\A a \in Ids : Stage(a) = "gone" => a \notin rows']_vars
=============================================================================

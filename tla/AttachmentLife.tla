---------------------------- MODULE AttachmentLife ----------------------------
(***************************************************************************)
(* What the product means an attachment to be, seen from its report: it is *)
(* stored before it is listed, it is listed once, with a whole file, and   *)
(* what is removed stays removed.  A removal may stop between the file and *)
(* the row; what it leaves can only be removed again.                      *)
(***************************************************************************)
CONSTANT Ids

VARIABLE stage  \* stage[a]: what file and row make of attachment a

Stages == {"new", "stored", "listed", "broken", "gone"}

Init == stage = [a \in Ids |-> "new"]

Becomes(a, from, to) == stage[a] \in from /\ stage' = [stage EXCEPT ![a] = to]

Store(a)  == Becomes(a, {"new"}, "stored")
List(a)   == Becomes(a, {"stored"}, "listed")
Break(a)  == Becomes(a, {"listed"}, "broken")
Remove(a) == Becomes(a, {"listed", "broken"}, "gone")

Next == \E a \in Ids : Store(a) \/ List(a) \/ Break(a) \/ Remove(a)

Spec == Init /\ [][Next]_stage
=============================================================================

---------------------------- MODULE MCAttachments ----------------------------
(* The author of the report, on two pages, and a colleague without access. *)
EXTENDS Attachments, TLC

CONSTANTS author, peer

MCUsers == {author, peer}
MCMayAccess == {author}

Symmetry == Permutations(Pages) \cup Permutations(Slots)
=============================================================================

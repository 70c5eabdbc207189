--------------------------- MODULE MCNotifications ---------------------------
(* One user with one or two pages open. *)
EXTENDS Notifications, TLC

Symmetry == Permutations(Pages) \cup Permutations(Slots)
=============================================================================

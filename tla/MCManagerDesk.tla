---------------------------- MODULE MCManagerDesk ----------------------------
(* A manager at the page, an employee of the manager's and one of another's. *)
EXTENDS ManagerDesk, TLC

CONSTANTS emp, peer, boss, r1, r2

MCUsers == {emp, peer, boss}
MCRole == emp :> "EMPLOYEE" @@ peer :> "EMPLOYEE" @@ boss :> "MANAGER"
MCManager == emp :> boss @@ peer :> NoUser @@ boss :> NoUser
MCOwner == r1 :> emp @@ r2 :> peer

\* Bound: the other employee's report stays a draft.
PeerDraftOnly == Cardinality(versions[r2]) <= 1

SlotSymmetry == Permutations(Slots)
=============================================================================

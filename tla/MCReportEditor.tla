--------------------------- MODULE MCReportEditor ---------------------------
(* One employee at the page, the manager reviewing. *)
EXTENDS ReportEditor, TLC

CONSTANTS emp, boss

MCUsers == {emp, boss}
MCRole == emp :> "EMPLOYEE" @@ boss :> "MANAGER"
MCManager == emp :> boss @@ boss :> NoUser
MCOwner == Mine :> emp

SlotSymmetry == Permutations(Slots)
=============================================================================

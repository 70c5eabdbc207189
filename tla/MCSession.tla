------------------------------ MODULE MCSession ------------------------------
(* The CEO and an employee at two tabs of one browser. *)
EXTENDS Session, TLC

CONSTANTS ceo, emp

MCUsers == {ceo, emp}
MCRole == ceo :> "CEO" @@ emp :> "EMPLOYEE"
MCManager == ceo :> NoUser @@ emp :> ceo

TabSymmetry == Permutations(Tabs)
=============================================================================

------------------------------ MODULE MCOrgTree ------------------------------
(* The seeded ceo <- mgr and an employee still to be created. *)
EXTENDS OrgTree, TLC

CONSTANTS ceo, mgr, emp, plain

MCSeed == ceo :> [manager |-> NoManager, profile |-> plain]
       @@ mgr :> [manager |-> ceo, profile |-> plain]
       @@ emp :> NoRow
=============================================================================

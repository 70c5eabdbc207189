-------------------------- MODULE MCReportWorkflow --------------------------
(* Instances of ReportWorkflow for TLC: one employee, the employee's manager, *)
(* a manager of somebody else and a director.                                 *)
EXTENDS ReportWorkflow, TLC

CONSTANTS emp, boss, other, dir, r1, r2

MCUsers == {emp, boss, other, dir}
MCRole == emp :> "EMPLOYEE" @@ boss :> "MANAGER" @@ other :> "MANAGER" @@ dir :> "DIRECTOR"
MCManager == emp :> boss @@ boss :> dir @@ other :> dir @@ dir :> NoUser
MCOwner == [r \in Reports |-> IF r = r1 THEN emp ELSE boss]

\* Bound: the second report is there to be worked on meanwhile.
SecondIsShort == Cardinality(versions[r2]) <= 2

SlotSymmetry == Permutations(Slots)
=============================================================================

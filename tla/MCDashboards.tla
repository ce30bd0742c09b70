---------------------------- MODULE MCDashboards ----------------------------
(* Four alerts through a cache of three and two rows, two threats through  *)
(* one of two and one row; three polls at a time, one restart, two         *)
(* failures.                                                               *)
EXTENDS Dashboards

MCMaxEntries == [l \in Lists |-> IF l = "alerts" THEN 4 ELSE 2]
MCCap == [l \in Lists |-> IF l = "alerts" THEN 3 ELSE 2]
MCRows == [l \in Lists |-> IF l = "alerts" THEN 2 ELSE 1]
=============================================================================

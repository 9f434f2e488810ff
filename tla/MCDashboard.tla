------------------------------ MODULE MCDashboard -----------------------------
(* Dashboard with two contracts, one of which passes the filter "one". *)
EXTENDS Dashboard

CONSTANTS a, b

MCMatches == [f \in {"none", "one"} |-> IF f = "none" THEN {a, b} ELSE {a}]
==============================================================================

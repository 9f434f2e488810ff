------------------------------- MODULE Analysis -------------------------------
(***************************************************************************)
(* What an analysis of a contract promises, without saying how: findings   *)
(* come to light one after another, and a result, if there is one, has all *)
(* of them and a status that agrees with them.  ChainAnalysis implements   *)
(* it, on Ethereum-like chains and on Solana.                              *)
(***************************************************************************)
CONSTANT None

VARIABLES
  reported,     \* what has come to light
  phase,        \* "running", "done" or "raised"
  result        \* the ScanResult, or None

vars == <<reported, phase, result>>

Init == reported = {} /\ phase = "running" /\ result = None

Report ==
  /\ phase = "running"
  /\ reported \subseteq reported'
  /\ UNCHANGED <<phase, result>>

Finish ==
  /\ phase = "running"
  /\ phase' = "done"
  /\ reported \subseteq reported'
  /\ result' = [status |-> IF reported' = {} THEN "ok" ELSE "vulnerabilities_detected",
                vulnerabilities |-> reported']

\* There is no result then, and the contract keeps the scan it had.
Raise ==
  /\ phase = "running"
  /\ phase' = "raised"
  /\ UNCHANGED <<reported, result>>

Next == Report \/ Finish \/ Raise

Spec == Init /\ [][Next]_vars
==============================================================================

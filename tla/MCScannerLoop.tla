---------------------------- MODULE MCScannerLoop ----------------------------
(* ScannerLoop on a chain of a few blocks. *)
EXTENDS ScannerLoop

CONSTANTS a1, a2

\* Block 1 creates a1 (next to a call of a1), block 2 creates a2 (next to a
\* transaction without recipient whose receipt names no contract), block 3
\* creates nothing.
MCTxs == [b \in Block |->
  CASE b = 1 -> {[to |-> None, contractAddress |-> a1], [to |-> a1, contractAddress |-> None]}
    [] b = 2 -> {[to |-> None, contractAddress |-> a2], [to |-> None, contractAddress |-> None]}
    [] OTHER -> {}]
==============================================================================

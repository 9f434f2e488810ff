--------------------------- MODULE DiscoveryLedger ---------------------------
(***************************************************************************)
(* What the contract monitor promises about discovery, without saying how: *)
(* a ledger of the contracts it has claimed and of those it has scanned,   *)
(* and a cursor that passes a block only when every contract created in it *)
(* is claimed.  ScannerLoop implements it, and so does ProtocolScan, which *)
(* never moves the cursor.                                                 *)
(***************************************************************************)
EXTENDS Integers

CONSTANTS
  Address,
  MaxHeight,
  Created,      \* Created[b]: the contracts created in block b
  None

VARIABLES
  cursor,       \* the last block accounted for, or None
  claimed,      \* contracts that have been entered
  scanned       \* contracts that have a scan result

vars == <<cursor, claimed, scanned>>

Init == cursor = None /\ claimed = {} /\ scanned = {}

\* Monitoring starts somewhere.
Start ==
  /\ cursor = None
  /\ cursor' \in Int
  /\ UNCHANGED <<claimed, scanned>>

Claim(a) ==
  /\ claimed' = claimed \cup {a}
  /\ UNCHANGED <<cursor, scanned>>

Record(a) ==
  /\ a \in claimed
  /\ scanned' = scanned \cup {a}
  /\ UNCHANGED <<cursor, claimed>>

\* Nothing between the old and the new cursor is left unclaimed.
Advance ==
  /\ cursor # None
  /\ cursor' \in Int /\ cursor' > cursor
  /\ \A b \in 0 .. MaxHeight :
       cursor < b /\ b <= cursor' => Created[b] \subseteq claimed
  /\ UNCHANGED <<claimed, scanned>>

Next ==
  \/ Start
  \/ \E a \in Address : Claim(a) \/ Record(a)
  \/ Advance

Spec == Init /\ [][Next]_vars
==============================================================================

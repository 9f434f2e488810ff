--------------------------- MODULE MCProtocolScan ----------------------------
(* ProtocolScan with two EVM addresses, one Solana address and three chains,  *)
(* of which tron has no adapter.                                              *)
EXTENDS ProtocolScan, TLC

CONSTANTS
  e1, E1, e2,   \* E1 is the checksum form of e1
  s1, S1,       \* a Solana address S1 and what str.lower makes of it
  p1, n1, n2

MCLower == [a \in Address |-> CASE a = E1 -> e1 [] a = S1 -> s1 [] OTHER -> a]

ACall(kind, chain, addresses) ==
  [kind |-> kind, protocol |-> p1, chain |-> chain,
   adhoc |-> addresses # {}, addresses |-> addresses]

\* Good and bad calls of each kind; the one on tron has no adapter, the one
\* with S1 on ethereum no valid address, and four entries are above the limit.
MCCall == {
  ACall("register", "ethereum", {E1, e2}),
  ACall("register", "ethereum", {e1, S1}),
  ACall("register", "solana", {S1}),
  ACall("register", "tron", {e1}),
  ACall("import", "all", {}),
  ACall("import", "ethereum", {}),
  ACall("scan", "all", {}),
  ACall("scan", "ethereum", {}),
  ACall("scan", "solana", {S1})}

AnObject(name, chains, evm) ==
  [name |-> name, chains |-> chains, evm |-> evm, relevant |-> TRUE]

\* An object that hints at Solana, one without hints beside one with, one on a
\* chain without adapter, and protocols left out by the limit or by the query.
MCReply == {
  {AnObject(n1, {"ethereum", "solana"}, {e1})},
  {AnObject(n1, {"unknown"}, {e1, e2}), AnObject(n2, {"ethereum"}, {e2}),
   [name |-> n2, chains |-> {"tron"}, evm |-> {e1}, relevant |-> FALSE]},
  {AnObject(n1, {"ethereum", "tron"}, {e1, e2}), AnObject(None, {"ethereum"}, {e2})}}

RequestSymmetry == Permutations(Request)
==============================================================================

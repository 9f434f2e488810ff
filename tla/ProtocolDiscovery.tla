-------------------------- MODULE ProtocolDiscovery --------------------------
(***************************************************************************)
(* What an import of a protocol makes of a CoinMarketCap answer            *)
(* (backend/app/protocol_discovery.py, search_defi_protocols, and the first *)
(* half of import_protocol_contracts_from_coinmarketcap in main.py): which  *)
(* addresses it registers under which chains.                              *)
(*                                                                         *)
(* An answer is a set of objects, nested ones included.  Of an object there *)
(* is left what the code reads out of its text: the name it aggregates by,  *)
(* the chains its text hints at, the 0x-addresses in it, and whether it     *)
(* matches the query and looks like DeFi.                                   *)
(***************************************************************************)
EXTENDS Integers, FiniteSets

CONSTANTS
  Chain,        \* the chains the code has names for, "ethereum" among them
  EvmAddress,   \* 0x-addresses, in lower case
  Name,         \* protocol names, in lower case
  None

ASSUME ChainAssumption == "ethereum" \in Chain /\ "all" \notin Chain /\ "unknown" \notin Chain

\* _extract_chain_signals: the chains of an object, or "unknown" if it hints at none.
Signals == ((SUBSET Chain) \ {{}}) \cup {{"unknown"}}

Object == [name : Name \cup {None}, chains : Signals, evm : SUBSET EvmAddress,
           relevant : BOOLEAN]

\* A place where an address is registered.
Key == [chain : Chain \cup {"unknown"}, address : EvmAddress]

\* The objects that count: named, of the chain asked for, matching the query.
Hits(objects, chain) ==
  {o \in objects : o.name # None /\ o.relevant /\ (chain = "all" \/ chain \in o.chains)}

\* The protocols of an answer, cut off at limit; which ones the score puts
\* first is left open.
SearchDefiProtocols(objects, limit, chain) ==
  LET names == {o.name : o \in Hits(objects, chain)} IN
  {kept \in SUBSET names :
     Cardinality(kept) = IF Cardinality(names) <= limit THEN Cardinality(names) ELSE limit}

\* evm_addresses_by_chain of the protocol that the objects hits describe.
AddressesByChain(hits) ==
  {k \in Key : k.chain # "unknown" /\ \E o \in hits : k.chain \in o.chains /\ k.address \in o.evm}

\* Where an address goes whose protocol hints at no chain.
FallbackChain(chain) == IF chain = "all" THEN "ethereum" ELSE chain

\* The entries of one protocol: all pairs of its addresses with the chains
\* their objects hint at, whatever chain was asked for; or, if there is no hint
\* at all, its addresses under the fallback chain.
EntriesOf(hits, chain) ==
  IF \E o \in hits : o.chains # {"unknown"}
    THEN AddressesByChain(hits)
    ELSE [chain : {FallbackChain(chain)}, address : UNION {o.evm : o \in hits}]

\* deduped_entries, for the protocols kept of an answer.
DiscoveredEntries(objects, kept, chain) ==
  UNION {EntriesOf({o \in Hits(objects, chain) : o.name = n}, chain) : n \in kept}
==============================================================================

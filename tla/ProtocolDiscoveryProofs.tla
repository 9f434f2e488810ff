----------------------- MODULE ProtocolDiscoveryProofs -----------------------
(***************************************************************************)
(* What an import registers, for any answer of CoinMarketCap: nothing that *)
(* the answer does not say, and all that it says but for the addresses of  *)
(* objects that hint at no chain beside others of their protocol that do.  *)
(***************************************************************************)
EXTENDS ProtocolDiscovery, TLAPS

\* The objects of an answer that describe protocol n.
HitsOf(objects, chain, n) == {o \in Hits(objects, chain) : o.name = n}

\* No object that describes the protocol hints at a chain.
Unhinted(hits) == \A o \in hits : o.chains = {"unknown"}

\* A hint is at chains, or says that there is none.
LEMMA SignalsApart ==
  ASSUME NEW s \in Signals
  PROVE  s # {"unknown"} => /\ s \subseteq Chain
                            /\ \E c \in Chain : c \in s
  BY DEF Signals

------------------------------------------------------------------------------
\* EntriesOf, of hits of one protocol.

\* With a hint: the pairs that some object has.
LEMMA HintedEntries ==
  ASSUME NEW hits \in SUBSET Object, NEW chain, ~Unhinted(hits)
  PROVE  EntriesOf(hits, chain) =
           {k \in Key : k.chain # "unknown" /\ \E o \in hits : k.chain \in o.chains /\ k.address \in o.evm}
  BY DEF EntriesOf, AddressesByChain, Unhinted

\* Without: all its addresses, under one chain.
LEMMA UnhintedEntries ==
  ASSUME NEW hits \in SUBSET Object, NEW chain, Unhinted(hits)
  PROVE  EntriesOf(hits, chain) = [chain : {FallbackChain(chain)}, address : UNION {o.evm : o \in hits}]
  BY DEF EntriesOf, Unhinted

\* The addresses of the hits, one by one.
LEMMA AddressOfHit ==
  ASSUME NEW hits, NEW a
  PROVE  a \in UNION {o.evm : o \in hits} <=> \E o \in hits : a \in o.evm
  OBVIOUS

LEMMA UnhintedEntry ==
  ASSUME NEW hits \in SUBSET Object, NEW chain, Unhinted(hits), NEW k
  PROVE  k \in EntriesOf(hits, chain) <=>
           \E o \in hits : \E a \in o.evm : k = [chain |-> FallbackChain(chain), address |-> a]
<1>. DEFINE f == FallbackChain(chain)
            all == UNION {o.evm : o \in hits}
<1>1. EntriesOf(hits, chain) = [chain : {f}, address : all]
  BY UnhintedEntries
<1>2. \A a : a \in all <=> \E o \in hits : a \in o.evm
  BY AddressOfHit
<1>. HIDE DEF f, all
<1>3. k \in [chain : {f}, address : all] <=> \E a \in all : k = [chain |-> f, address |-> a]
  OBVIOUS
<1>. QED BY <1>1, <1>2, <1>3 DEF f

------------------------------------------------------------------------------
\* The theorems.

\* Nothing is made up (main.py:463-494): a registered address stands in an object
\* of a protocol that was kept, under a chain that this very object hints at or,
\* if no object of the protocol hints at any, under the fallback chain.
THEOREM EntriesComeFromHits ==
  ASSUME NEW objects \in SUBSET Object, NEW kept \in SUBSET Name, NEW chain,
         NEW k \in DiscoveredEntries(objects, kept, chain)
  PROVE  \E n \in kept : \E o \in HitsOf(objects, chain, n) :
           /\ k.address \in o.evm
           /\ IF Unhinted(HitsOf(objects, chain, n))
                THEN k.chain = FallbackChain(chain)
                ELSE k.chain \in o.chains /\ k.chain \in Chain
<1>1. PICK n \in kept : k \in EntriesOf(HitsOf(objects, chain, n), chain)
  BY DEF DiscoveredEntries, HitsOf
<1>. DEFINE hits == HitsOf(objects, chain, n)
<1>2. hits \in SUBSET Object
  BY DEF HitsOf, Hits
<1>3. CASE Unhinted(hits)
  <2>1. PICK o \in hits : \E a \in o.evm : k = [chain |-> FallbackChain(chain), address |-> a]
    BY <1>1, <1>2, <1>3, UnhintedEntry
  <2>. QED BY <1>3, <2>1
<1>4. CASE ~Unhinted(hits)
  <2>1. PICK o \in hits : /\ k \in Key /\ k.chain # "unknown"
                          /\ k.chain \in o.chains /\ k.address \in o.evm
    BY <1>1, <1>2, <1>4, HintedEntries
  <2>2. k.chain \in Chain
    BY <2>1 DEF Key
  <2>. QED BY <1>4, <2>1, <2>2
<1>. QED BY <1>3, <1>4

\* Nothing is left out but one thing (main.py:476-488): an address of a protocol
\* that was kept is registered, unless its object hints at no chain while another
\* object of the same protocol does.
THEOREM AddressesRegistered ==
  ASSUME NEW objects \in SUBSET Object, NEW kept \in SUBSET Name, NEW chain,
         NEW n \in kept, NEW o \in HitsOf(objects, chain, n), NEW a \in o.evm
  PROVE  \/ \E k \in DiscoveredEntries(objects, kept, chain) : k.address = a
         \/ o.chains = {"unknown"} /\ ~Unhinted(HitsOf(objects, chain, n))
<1>. DEFINE hits == HitsOf(objects, chain, n)
<1>1. hits \in SUBSET Object /\ o \in hits
  BY DEF HitsOf, Hits
<1>2. EntriesOf(hits, chain) \subseteq DiscoveredEntries(objects, kept, chain)
  BY DEF DiscoveredEntries, HitsOf
<1>3. CASE Unhinted(hits)
  <2>1. [chain |-> FallbackChain(chain), address |-> a] \in EntriesOf(hits, chain)
    BY <1>1, <1>3, UnhintedEntry
  <2>. QED BY <1>2, <2>1
<1>4. CASE ~Unhinted(hits) /\ o.chains # {"unknown"}
  <2>1. o.chains \in Signals /\ a \in EvmAddress
    BY <1>1 DEF Object
  <2>2. PICK c \in Chain : c \in o.chains
    BY <1>4, <2>1, SignalsApart
  <2>3. [chain |-> c, address |-> a] \in Key /\ c # "unknown"
    BY <2>1, <2>2, ChainAssumption DEF Key
  <2>4. [chain |-> c, address |-> a] \in EntriesOf(hits, chain)
    BY <1>1, <1>4, <2>2, <2>3, HintedEntries
  <2>. QED BY <1>2, <2>4
<1>. QED BY <1>3, <1>4

\* An import for one chain may register addresses under others: an object that
\* hints at the chain asked for and at a second one is registered under both
\* (main.py:468-480).
THEOREM OtherChainsToo ==
  ASSUME NEW objects \in SUBSET Object, NEW kept \in SUBSET Name, NEW chain \in Chain,
         NEW n \in kept, NEW o \in HitsOf(objects, chain, n), NEW a \in o.evm
  PROVE  \A c \in o.chains : [chain |-> c, address |-> a] \in DiscoveredEntries(objects, kept, chain)
<1>. DEFINE hits == HitsOf(objects, chain, n)
<1>1. hits \in SUBSET Object /\ o \in hits
  BY DEF HitsOf, Hits
<1>2. chain # "all" /\ chain # "unknown"
  BY ChainAssumption
<1>3. chain \in o.chains
  BY <1>2 DEF HitsOf, Hits
<1>4. o.chains # {"unknown"} /\ ~Unhinted(hits)
  BY <1>1, <1>2, <1>3 DEF Unhinted
<1>5. o.chains \subseteq Chain /\ a \in EvmAddress
  BY <1>1, <1>4, SignalsApart DEF Object
<1>6. ASSUME NEW c \in o.chains PROVE [chain |-> c, address |-> a] \in EntriesOf(hits, chain)
  <2>1. [chain |-> c, address |-> a] \in Key /\ c # "unknown"
    BY <1>5, ChainAssumption DEF Key
  <2>. QED BY <1>1, <1>4, <2>1, HintedEntries
<1>7. EntriesOf(hits, chain) \subseteq DiscoveredEntries(objects, kept, chain)
  BY DEF DiscoveredEntries, HitsOf
<1>. QED BY <1>6, <1>7
==============================================================================

-------------------------- MODULE ProtocolScanProofs -------------------------
EXTENDS ProtocolScan, TLAPS

USE DEF tables

------------------------------------------------------------------------------
\* The data a request works on.

LEMMA LowerKeyType ==
  ASSUME NEW t \in Target
  PROVE  /\ LowerKey(t) \in LowerTarget
         /\ LowerKey(t).chain = t.chain
         /\ LowerKey(t).address = Lower[t.address]
         /\ t \in LowerTarget => LowerKey(t) = t
<1>1. LowerKey(t) = [chain |-> t.chain, address |-> Lower[t.address]]
  BY DEF LowerKey, Target
<1>2. Lower[t.address] \in Address /\ Lower[Lower[t.address]] = Lower[t.address]
  BY AddressAssumption DEF Target
<1>. QED
  BY <1>1, <1>2 DEF LowerTarget, Target

\* What a call lets through is one of the chain's addresses.
LEMMA NormalizedType ==
  ASSUME NEW c \in Call, InputOk(c)
  PROVE  /\ c.chain \in Adapter
         /\ Normalized(c.addresses, c.chain) \subseteq Target
         /\ \A t \in Normalized(c.addresses, c.chain) :
              t.chain = c.chain /\ Valid(t.address, c.chain)
<1>1. c.chain \in Adapter /\ c.chain \in ChainName /\ c.addresses \subseteq Address
  BY CallAssumption, AdapterAssumption DEF InputOk, ChainAdapterOr400, CallType, ChainName
<1>2. CASE c.chain = "solana"
  BY <1>1, <1>2 DEF Normalized, Target, InputOk
<1>3. CASE c.chain # "solana"
  <2>1. ASSUME NEW t \in Normalized(c.addresses, c.chain)
        PROVE  t \in Target /\ t.chain = c.chain /\ Valid(t.address, c.chain)
    <3>1. PICK a \in c.addresses : t = [chain |-> c.chain, address |-> Lower[a]]
      BY <1>3, <2>1 DEF Normalized
    <3>2. Lower[a] \in EvmAddress /\ Lower[a] \in Address
      BY <1>1, <1>3, AddressAssumption DEF InputOk, Valid
    <3>. QED
      BY <1>1, <1>3, <3>1, <3>2, AddressAssumption DEF Target, Valid
  <2>. QED
    BY <1>1, <2>1
<1>. QED
  BY <1>2, <1>3

\* What an import registers are 0x-addresses, in lower case, on chains.
LEMMA EntriesType ==
  ASSUME NEW objects \in Reply, NEW kept, NEW chain \in ChainName \cup {"all"}
  PROVE  DiscoveredEntries(objects, kept, chain) \subseteq LowerTarget
<1>1. Key \subseteq LowerTarget
  BY AddressAssumption DEF Key, LowerTarget, Target, ChainName
<1>2. ASSUME NEW hits, hits \subseteq objects PROVE EntriesOf(hits, chain) \subseteq Key
  <2>1. AddressesByChain(hits) \subseteq Key
    BY DEF AddressesByChain
  <2>2. UNION {o.evm : o \in hits} \subseteq EvmAddress
    BY <1>2, ReplyAssumption DEF Object
  <2>3. FallbackChain(chain) \in ChainName
    BY ChainAssumption DEF FallbackChain, ChainName
  <2>. QED
    BY <2>1, <2>2, <2>3 DEF EntriesOf, Key, ChainName
<1>3. \A n \in kept : {o \in Hits(objects, chain) : o.name = n} \subseteq objects
  BY DEF Hits
<1>. QED
  BY <1>1, <1>2, <1>3 DEF DiscoveredEntries

LEMMA ListType ==
  ASSUME TypeOK, NEW p \in Protocol, NEW chain
  PROVE  ListProtocolContracts(p, chain) \subseteq registry[p] /\ registry[p] \subseteq LowerTarget
  BY DEF TypeOK, ListProtocolContracts

\* A call of the calls, and None is none of them.
LEMMA CallFields ==
  ASSUME NEW c \in Call
  PROVE  /\ c.kind \in {"register", "import", "scan"}
         /\ c.protocol \in Protocol
         /\ c.chain \in ChainName \cup {"all"}
         /\ c # None
  BY CallAssumption, NoneAssumption DEF CallType

------------------------------------------------------------------------------
\* The step of a registration, an import's answer and a scan's beginning, with
\* what the invariants need of them.

LEMMA RegisterWrites ==
  ASSUME TypeOK, NEW r \in Request, NEW c \in Call, Register(r, c)
  PROVE  \E rows \in SUBSET LowerTarget :
           /\ \A t \in rows : /\ t.chain \in Adapter
                              /\ t.chain = "solana" <=> t.address \notin EvmAddress
           /\ \/ /\ targets' = [targets EXCEPT ![r] = rows]
                 /\ registry' = [registry EXCEPT ![c.protocol] = @ \cup rows]
                 /\ added' = [added EXCEPT ![r] = @ \cup (rows \ registry[c.protocol])]
                 /\ pc' = [pc EXCEPT ![r] = "count"]
              \/ /\ UNCHANGED <<targets, registry, added>>
                 /\ pc' = [pc EXCEPT ![r] = "failed"]
<1>1. call'[r] = c
  BY DEF Register, Begin, TypeOK
<1>2. CASE ~(InputOk(c) /\ WithinLimit(Normalized(c.addresses, c.chain)))
  <2>1. UNCHANGED <<targets, registry, added>> /\ pc' = [pc EXCEPT ![r] = "failed"]
    BY <1>2 DEF Register, Goto
  <2>2. {} \in SUBSET LowerTarget
    OBVIOUS
  <2>. QED
    BY <2>1, <2>2
<1>3. CASE InputOk(c) /\ WithinLimit(Normalized(c.addresses, c.chain))
  <2>. DEFINE entries == Normalized(c.addresses, c.chain)
              rows == {LowerKey(e) : e \in entries}
  <2>1. ASSUME NEW e \in entries
        PROVE  /\ LowerKey(e) \in LowerTarget
               /\ LowerKey(e).chain \in Adapter
               /\ LowerKey(e).chain = "solana" <=> LowerKey(e).address \notin EvmAddress
    <3>1. e \in Target /\ e.chain = c.chain /\ Valid(e.address, c.chain) /\ c.chain \in Adapter
      BY <1>3, <2>1, NormalizedType
    <3>2. /\ LowerKey(e) \in LowerTarget
          /\ LowerKey(e).chain = c.chain
          /\ LowerKey(e).address = Lower[e.address]
      BY <3>1, LowerKeyType
    <3>. QED
      BY <3>1, <3>2, AddressAssumption DEF Valid
  <2>2. /\ targets' = [targets EXCEPT ![r] = rows]
        /\ registry' = [registry EXCEPT ![c.protocol] = @ \cup rows]
        /\ added' = [added EXCEPT ![r] = @ \cup (rows \ registry[c.protocol])]
        /\ pc' = [pc EXCEPT ![r] = "count"]
    BY <1>1, <1>3 DEF Register, Insert, Goto
  <2>3. rows \in SUBSET LowerTarget
    BY <2>1
  <2>4. \A t \in rows : t.chain \in Adapter /\ (t.chain = "solana" <=> t.address \notin EvmAddress)
    BY <2>1
  <2>. HIDE DEF rows
  <2>. QED
    BY <2>2, <2>3, <2>4
<1>. QED
  BY <1>2, <1>3

LEMMA SearchWrites ==
  ASSUME TypeOK, KindsFit, NEW r \in Request, SearchAnswered(r)
  PROVE  \/ \E entries \in SUBSET LowerTarget :
              /\ targets' = [targets EXCEPT ![r] = entries]
              /\ todo' = [todo EXCEPT ![r] = entries]
              /\ pc' = [pc EXCEPT ![r] = "insert"]
         \/ /\ UNCHANGED <<targets, todo>>
            /\ pc' = [pc EXCEPT ![r] = "failed"]
<1>1. call[r] \in Call
  BY DEF SearchAnswered, KindsFit, TypeOK
<1>2. PICK objects \in Reply : \E kept \in SearchDefiProtocols(objects, Limit, call[r].chain) :
         LET entries == DiscoveredEntries(objects, kept, call[r].chain) IN
         IF WithinLimit(entries)
           THEN Take(r, entries) /\ Goto(r, "insert")
           ELSE Goto(r, "failed") /\ UNCHANGED <<targets, todo>>
  BY DEF SearchAnswered
<1>3. PICK kept \in SearchDefiProtocols(objects, Limit, call[r].chain) :
         LET entries == DiscoveredEntries(objects, kept, call[r].chain) IN
         IF WithinLimit(entries)
           THEN Take(r, entries) /\ Goto(r, "insert")
           ELSE Goto(r, "failed") /\ UNCHANGED <<targets, todo>>
  BY <1>2
<1>4. DiscoveredEntries(objects, kept, call[r].chain) \in SUBSET LowerTarget
  BY <1>1, CallFields, EntriesType
<1>. QED
  BY <1>3, <1>4 DEF Take, Goto

LEMMA ScanWrites ==
  ASSUME TypeOK, NEW r \in Request, NEW c \in Call, Scan(r, c)
  PROVE  \/ \E ts \in SUBSET Target :
              /\ ~c.adhoc => ts = ListProtocolContracts(c.protocol, c.chain)
              /\ c.adhoc => \A t \in ts : ~Misfit(t)
              /\ targets' = [targets EXCEPT ![r] = ts]
              /\ todo' = [todo EXCEPT ![r] = ts]
              /\ pc' = [pc EXCEPT ![r] = "loop"]
         \/ /\ UNCHANGED <<targets, todo>>
            /\ pc' = [pc EXCEPT ![r] = "failed"]
<1>. DEFINE ts == IF c.adhoc THEN Normalized(c.addresses, c.chain)
                  ELSE ListProtocolContracts(c.protocol, c.chain)
<1>1. CASE ~((c.adhoc => InputOk(c)) /\ WithinLimit(ts))
  BY <1>1 DEF Scan, Goto
<1>2. CASE (c.adhoc => InputOk(c)) /\ WithinLimit(ts)
  <2>1. ts \in SUBSET Target
    BY <1>2, NormalizedType, ListType, CallFields DEF LowerTarget
  <2>2. /\ targets' = [targets EXCEPT ![r] = ts]
        /\ todo' = [todo EXCEPT ![r] = ts]
        /\ pc' = [pc EXCEPT ![r] = "loop"]
    BY <1>2 DEF Scan, Take, Goto
  <2>3. ~c.adhoc => ts = ListProtocolContracts(c.protocol, c.chain)
    OBVIOUS
  <2>4. ASSUME c.adhoc, NEW t \in ts PROVE ~Misfit(t)
    <3>1. /\ t \in Target /\ t.chain = c.chain /\ Valid(t.address, c.chain)
          /\ c.chain \in Adapter
      BY <1>2, <2>4, NormalizedType
    <3>2. c.chain = "solana" => t.address \notin EvmAddress
      BY <3>1, AddressAssumption DEF Valid, Target
    <3>. QED
      BY <3>1, <3>2 DEF Misfit
  <2>. HIDE DEF ts
  <2>. QED
    BY <2>1, <2>2, <2>3, <2>4
<1>. QED
  BY <1>1, <1>2

------------------------------------------------------------------------------
LEMMA Initially == ASSUME Init PROVE IInv
<1>. USE DEF Init
<1>1. TypeOK /\ KindsFit
  BY BoundsAssumption DEF TypeOK, KindsFit, RequestPc, Scanning
<1>2. InsertsKept /\ ScanBooks /\ SeenBefore
  BY DEF InsertsKept, ScanBooks, SeenBefore, Scanning
<1>3. EachRowAddedOnce /\ ScanHasContract /\ RegistrationComplete
  BY DEF EachRowAddedOnce, Of, ScanHasContract, RegistrationComplete
<1>4. OthersAddNone /\ MisfitsImported /\ ScanComplete
  BY DEF OthersAddNone, MisfitsImported, ScanComplete
<1>. QED
  BY <1>1, <1>2, <1>3, <1>4 DEF IInv

\* The insert of one entry of an import.
LEMMA EntryWrites ==
  ASSUME TypeOK, KindsFit, InsertsKept, NEW r \in Request, NEW e \in todo[r], InsertEntry(r, e)
  PROVE  LET p == call[r].protocol IN
         /\ p \in Protocol
         /\ call' = call
         /\ \E t \in LowerTarget :
              /\ e \in LowerTarget => t = e
              /\ registry' = [registry EXCEPT ![p] = @ \cup {t}]
              /\ added' = [added EXCEPT ![r] = @ \cup ({t} \ registry[p])]
         /\ todo' = [todo EXCEPT ![r] = @ \ {e}]
         /\ \/ pc' = [pc EXCEPT ![r] = "insert"]
            \/ pc' = [pc EXCEPT ![r] = "count"] /\ todo[r] = {e}
<1>1. call[r].protocol \in Protocol
  BY CallFields DEF InsertEntry, KindsFit, TypeOK
<1>2. LowerKey(e) \in LowerTarget /\ (e \in LowerTarget => LowerKey(e) = e)
  BY LowerKeyType DEF TypeOK
<1>. QED
  BY <1>1, <1>2 DEF InsertEntry, Insert, Goto, AfterInsert

LEMMA TypeStep ==
  ASSUME TypeOK, KindsFit, InsertsKept, ScanBooks, [Next]_vars
  PROVE  TypeOK'
<1>0. LowerTarget \subseteq Target
  BY DEF LowerTarget
<1>. USE DEF TypeOK, RequestPc
<1>1. ASSUME NEW r \in Request, NEW c \in Call, Register(r, c) PROVE TypeOK'
  <2>1. c.protocol \in Protocol
    BY CallFields
  <2>2. /\ registry' \in [Protocol -> SUBSET LowerTarget]
        /\ added' \in [Request -> SUBSET LowerTarget]
        /\ targets' \in [Request -> SUBSET Target]
        /\ pc' \in [Request -> RequestPc]
    BY <1>0, <1>1, <2>1, RegisterWrites
  <2>. QED
    BY <1>1, <2>2 DEF Register, Begin
<1>2. ASSUME NEW r \in Request, NEW c \in Call, Import(r, c) PROVE TypeOK'
  BY <1>2 DEF Import, Begin, Goto
<1>3. ASSUME NEW r \in Request, NEW c \in Call, Scan(r, c) PROVE TypeOK'
  <2>1. /\ targets' \in [Request -> SUBSET Target]
        /\ todo' \in [Request -> SUBSET Target]
        /\ pc' \in [Request -> RequestPc]
    BY <1>3, ScanWrites
  <2>. QED
    BY <1>3, <2>1 DEF Scan, Begin
<1>4. ASSUME NEW r \in Request, NEW c \in Call, BeginRaises(r, c) PROVE TypeOK'
  BY <1>4 DEF BeginRaises, Begin, Goto
<1>5. ASSUME NEW r \in Request, SearchAnswered(r) PROVE TypeOK'
  BY <1>0, <1>5, SearchWrites DEF SearchAnswered
<1>6. ASSUME NEW r \in Request, SearchFailed(r) \/ ScanDone(r) PROVE TypeOK'
  BY <1>6 DEF SearchFailed, ScanDone, Goto
<1>7. ASSUME NEW r \in Request, NEW e \in todo[r], InsertEntry(r, e) PROVE TypeOK'
  <2>1. /\ registry' \in [Protocol -> SUBSET LowerTarget]
        /\ added' \in [Request -> SUBSET LowerTarget]
        /\ pc' \in [Request -> RequestPc]
        /\ UNCHANGED call
        /\ todo' \in [Request -> SUBSET Target]
    BY <1>7, EntryWrites
  <2>. QED
    BY <1>7, <2>1 DEF InsertEntry
<1>8. ASSUME NEW r \in Request, NEW t \in todo[r], SkipTarget(r, t) PROVE TypeOK'
  BY <1>8 DEF SkipTarget, Visit
<1>9. ASSUME NEW r \in Request, NEW t \in todo[r], ScanTarget(r, t) PROVE TypeOK'
  <2>1. LowerKey(t) \in LowerTarget
    BY LowerKeyType
  <2>. QED
    BY <1>9, <2>1 DEF ScanTarget, Visit, AddContract, Goto
<1>10. ASSUME NEW r \in Request, CountTracked(r) PROVE TypeOK'
  <2>1. call[r].protocol \in Protocol
    BY <1>10, CallFields DEF CountTracked, KindsFit
  <2>2. ListProtocolContracts(call[r].protocol, call[r].chain) \subseteq LowerTarget
    BY <2>1, ListType
  <2>. QED
    BY <1>10, <2>2 DEF CountTracked, Goto
<1>11. ASSUME NEW r \in Request, StoreResult(r) PROVE TypeOK'
  <2>1. LowerKey(current[r]) \in LowerTarget
    BY <1>11, LowerKeyType DEF StoreResult, ScanBooks
  <2>. QED
    BY <1>11, <2>1 DEF StoreResult, UpsertScan, Goto
<1>12. ASSUME NEW r \in Request, Notify(r) PROVE TypeOK'
  BY <1>12 DEF Notify, Goto, ScanBooks
<1>13. ASSUME NEW r \in Request, Raises(r) PROVE TypeOK'
  BY <1>13 DEF Raises, Goto
<1>14. CASE Crash
  BY <1>14 DEF Crash
<1>15. CASE UNCHANGED vars
  BY <1>15 DEF vars, locals
<1>. QED
  BY <1>1, <1>2, <1>3, <1>4, <1>5, <1>6, <1>7, <1>8, <1>9, <1>10, <1>11, <1>12, <1>13, <1>14,
     <1>15 DEF Next

------------------------------------------------------------------------------
\* What one request's step leaves alone.

Step(r) ==
  \/ \E c \in Call : Register(r, c) \/ Import(r, c) \/ Scan(r, c) \/ BeginRaises(r, c)
  \/ SearchAnswered(r)
  \/ SearchFailed(r)
  \/ \E e \in todo[r] : InsertEntry(r, e) \/ SkipTarget(r, e) \/ ScanTarget(r, e)
  \/ CountTracked(r)
  \/ StoreResult(r)
  \/ Notify(r)
  \/ ScanDone(r)
  \/ Raises(r)

LEMMA NextSteps == Next <=> Crash \/ \E r \in Request : Step(r)
  BY DEF Next, Step

SameLocals(q) ==
  /\ pc'[q] = pc[q] /\ call'[q] = call[q] /\ targets'[q] = targets[q] /\ todo'[q] = todo[q]
  /\ added'[q] = added[q] /\ tracked'[q] = tracked[q] /\ current'[q] = current[q]
  /\ scanned'[q] = scanned[q] /\ skipped'[q] = skipped[q] /\ before'[q] = before[q]

LEMMA OthersStay ==
  ASSUME TypeOK, KindsFit, InsertsKept, NEW r \in Request, Step(r), NEW q \in Request, q # r
  PROVE  SameLocals(q)
<1>. USE DEF TypeOK, SameLocals
<1>1. ASSUME NEW c \in Call, Register(r, c) PROVE SameLocals(q)
  <2>1. targets'[q] = targets[q] /\ added'[q] = added[q] /\ pc'[q] = pc[q]
    BY <1>1, RegisterWrites
  <2>. QED
    BY <1>1, <2>1 DEF Register, Begin
<1>2. ASSUME NEW c \in Call, Import(r, c) \/ BeginRaises(r, c) PROVE SameLocals(q)
  BY <1>2 DEF Import, BeginRaises, Begin, Goto
<1>3. ASSUME NEW c \in Call, Scan(r, c) PROVE SameLocals(q)
  <2>1. targets'[q] = targets[q] /\ todo'[q] = todo[q] /\ pc'[q] = pc[q]
    BY <1>3, ScanWrites
  <2>. QED
    BY <1>3, <2>1 DEF Scan, Begin
<1>4. CASE SearchAnswered(r)
  BY <1>4, SearchWrites DEF SearchAnswered
<1>5. ASSUME NEW e \in todo[r], InsertEntry(r, e) PROVE SameLocals(q)
  <2>1. added'[q] = added[q] /\ todo'[q] = todo[q] /\ pc'[q] = pc[q]
    BY <1>5, EntryWrites
  <2>. QED
    BY <1>5, <2>1 DEF InsertEntry
<1>6. ASSUME NEW t \in todo[r], SkipTarget(r, t) \/ ScanTarget(r, t) PROVE SameLocals(q)
  BY <1>6 DEF SkipTarget, ScanTarget, Visit, Goto
<1>7. CASE CountTracked(r) \/ StoreResult(r) \/ Notify(r)
  BY <1>7 DEF CountTracked, StoreResult, Notify, Goto
<1>8. CASE SearchFailed(r) \/ ScanDone(r) \/ Raises(r)
  BY <1>8 DEF SearchFailed, ScanDone, Raises, Goto
<1>. QED
  BY <1>1, <1>2, <1>3, <1>4, <1>5, <1>6, <1>7, <1>8 DEF Step

\* The tables only grow, and so does what a request was counted as adding.
LEMMA TablesGrow ==
  ASSUME TypeOK, KindsFit, InsertsKept, [Next]_vars
  PROVE  /\ \A p \in Protocol : registry[p] \subseteq registry'[p]
         /\ contracts \subseteq contracts'
         /\ scans \subseteq scans'
<1>. USE DEF TypeOK
<1>1. ASSUME NEW r \in Request, NEW c \in Call, Register(r, c)
      PROVE  /\ \A p \in Protocol : registry[p] \subseteq registry'[p]
             /\ contracts' = contracts /\ scans' = scans
  BY <1>1, RegisterWrites, CallFields DEF Register
<1>2. ASSUME NEW r \in Request, NEW e \in todo[r], InsertEntry(r, e)
      PROVE  /\ \A p \in Protocol : registry[p] \subseteq registry'[p]
             /\ contracts' = contracts /\ scans' = scans
  <2>1. \A p \in Protocol : registry[p] \subseteq registry'[p]
    BY <1>2, EntryWrites
  <2>. QED
    BY <1>2, <2>1 DEF InsertEntry
<1>. QED
  BY <1>1, <1>2 DEF Next, vars, Import, Scan, BeginRaises, SearchAnswered, SearchFailed, SkipTarget,
     ScanTarget, CountTracked, StoreResult, Notify, ScanDone, Raises, Crash, AddContract, UpsertScan

\* A call stays what it is, and so do the targets once they are there.
LEMMA CallsStay ==
  ASSUME TypeOK, KindsFit, InsertsKept, [Next]_vars, NEW q \in Request, pc[q] # "new"
  PROVE  /\ call'[q] = call[q] /\ before'[q] = before[q] /\ pc'[q] # "new"
         /\ pc[q] # "search" => targets'[q] = targets[q]
         /\ pc[q] = "done" => pc'[q] = "done" /\ tracked'[q] = tracked[q]
                              /\ scanned'[q] = scanned[q] /\ skipped'[q] = skipped[q]
<1>. USE DEF TypeOK
<1>1. ASSUME Step(q)
      PROVE  /\ call'[q] = call[q] /\ before'[q] = before[q] /\ pc'[q] # "new" /\ pc[q] # "done"
             /\ pc[q] # "search" => targets'[q] = targets[q]
  BY <1>1 DEF Step, Register, Import, Scan, BeginRaises, Begin, SearchAnswered, SearchFailed,
     InsertEntry, AfterInsert, SkipTarget, ScanTarget, CountTracked, StoreResult, Notify, ScanDone,
     Raises, Goto
<1>2. ASSUME NEW r \in Request, r # q, Step(r) PROVE SameLocals(q)
  BY <1>2, OthersStay
<1>3. CASE Crash
  BY <1>3 DEF Crash
<1>4. CASE UNCHANGED vars
  BY <1>4 DEF vars, locals
<1>. QED
  BY <1>1, <1>2, <1>3, <1>4, NextSteps DEF SameLocals

LEMMA KindsStep ==
  ASSUME TypeOK, KindsFit, InsertsKept, [Next]_vars
  PROVE  KindsFit'
<1>. USE DEF TypeOK, Scanning, Registers
<1>. DEFINE Fit(q) ==
       /\ pc[q] = "new" => /\ call[q] = None
                           /\ targets[q] = {} /\ added[q] = {} /\ scanned[q] = {} /\ skipped[q] = {}
       /\ pc[q] # "new" => call[q] # None
       /\ pc[q] \in {"search", "insert"} => call[q].kind = "import"
       /\ pc[q] = "count" => call[q].kind \in Registers
       /\ pc[q] \in Scanning => call[q].kind = "scan"
<1>0. ASSUME NEW q \in Request PROVE Fit(q)
  BY DEF KindsFit
<1>1. ASSUME NEW r \in Request, NEW c \in Call, Register(r, c) PROVE Fit(r)'
  <2>1. pc'[r] \in {"count", "failed"}
    BY <1>1, RegisterWrites
  <2>2. call'[r] = c /\ c.kind = "register"
    BY <1>1 DEF Register, Begin
  <2>. QED
    BY <2>1, <2>2, CallFields
<1>2. ASSUME NEW r \in Request, NEW c \in Call, Import(r, c) \/ BeginRaises(r, c) PROVE Fit(r)'
  BY <1>2, CallFields DEF Import, BeginRaises, Begin, Goto
<1>3. ASSUME NEW r \in Request, NEW c \in Call, Scan(r, c) PROVE Fit(r)'
  BY <1>3, ScanWrites, CallFields DEF Scan, Begin
<1>4. ASSUME NEW r \in Request, SearchAnswered(r) PROVE Fit(r)'
  BY <1>0, <1>4, SearchWrites DEF SearchAnswered
<1>5. ASSUME NEW r \in Request, NEW e \in todo[r], InsertEntry(r, e) PROVE Fit(r)'
  BY <1>0, <1>5 DEF InsertEntry, AfterInsert, Goto
<1>6. ASSUME NEW r \in Request, NEW t \in todo[r], SkipTarget(r, t) \/ ScanTarget(r, t) PROVE Fit(r)'
  BY <1>0, <1>6 DEF SkipTarget, ScanTarget, Goto
<1>7. ASSUME NEW r \in Request, CountTracked(r) \/ StoreResult(r) \/ Notify(r) PROVE Fit(r)'
  BY <1>0, <1>7 DEF CountTracked, StoreResult, Notify, Goto
<1>8. ASSUME NEW r \in Request, SearchFailed(r) \/ ScanDone(r) \/ Raises(r) PROVE Fit(r)'
  BY <1>0, <1>8 DEF SearchFailed, ScanDone, Raises, Goto
<1>9. ASSUME NEW r \in Request, Step(r) PROVE KindsFit'
  <2>1. Fit(r)'
    BY <1>1, <1>2, <1>3, <1>4, <1>5, <1>6, <1>7, <1>8, <1>9 DEF Step
  <2>2. ASSUME NEW q \in Request, q # r PROVE Fit(q)'
    BY <1>0, <1>9, <2>2, OthersStay DEF SameLocals
  <2>. QED
    BY <2>1, <2>2 DEF KindsFit
<1>10. CASE Crash
  BY <1>10 DEF Crash, KindsFit
<1>11. CASE UNCHANGED vars
  BY <1>11 DEF vars, locals, KindsFit
<1>. QED
  BY <1>9, <1>10, <1>11, NextSteps

LEMMA InsertsStep ==
  ASSUME TypeOK, KindsFit, InsertsKept, [Next]_vars
  PROVE  InsertsKept'
<1>. DEFINE Reg(q) == registry[call[q].protocol]
            Kept(q) == call[q] # None /\ call[q].kind \in Registers =>
              /\ targets[q] \subseteq LowerTarget
              /\ pc[q] = "insert" => targets[q] \ todo[q] \subseteq Reg(q)
              /\ pc[q] \in {"count", "done"} => targets[q] \subseteq Reg(q)
<1>0. ASSUME NEW q \in Request PROVE Kept(q)
  BY DEF InsertsKept
<1>grow. ASSUME NEW q \in Request, pc[q] # "new" PROVE Reg(q) \subseteq Reg(q)'
  <2>1. call'[q] = call[q] /\ call[q].protocol \in Protocol
    BY <1>grow, CallsStay, CallFields DEF KindsFit, TypeOK
  <2>. QED
    BY <2>1, TablesGrow
<1>1. ASSUME NEW r \in Request, NEW c \in Call, Register(r, c) PROVE Kept(r)'
  <2>1. call'[r] = c /\ pc[r] = "new" /\ targets[r] = {}
    BY <1>1 DEF Register, Begin, TypeOK, KindsFit
  <2>2. PICK rows \in SUBSET LowerTarget :
          \/ /\ targets' = [targets EXCEPT ![r] = rows]
             /\ registry' = [registry EXCEPT ![c.protocol] = @ \cup rows]
             /\ pc' = [pc EXCEPT ![r] = "count"]
          \/ /\ UNCHANGED targets
             /\ pc' = [pc EXCEPT ![r] = "failed"]
    BY <1>1, RegisterWrites
  <2>3. CASE pc'[r] = "count"
    <3>1. targets'[r] = rows /\ registry'[c.protocol] = registry[c.protocol] \cup rows
      BY <2>2, <2>3, CallFields DEF TypeOK
    <3>. QED
      BY <2>1, <2>3, <3>1
  <2>4. CASE pc'[r] = "failed"
    <3>1. targets'[r] = {}
      BY <2>1, <2>2, <2>4 DEF TypeOK
    <3>. QED
      BY <2>4, <3>1
  <2>. QED
    BY <2>2, <2>3, <2>4 DEF TypeOK
<1>2. ASSUME NEW r \in Request, NEW c \in Call, Import(r, c) \/ BeginRaises(r, c) PROVE Kept(r)'
  <2>1. targets'[r] = {} /\ pc'[r] \in {"search", "failed"}
    BY <1>2 DEF Import, BeginRaises, Begin, Goto, TypeOK, KindsFit
  <2>. QED
    BY <2>1
<1>3. ASSUME NEW r \in Request, NEW c \in Call, Scan(r, c) PROVE Kept(r)'
  <2>1. call'[r].kind = "scan"
    BY <1>3 DEF Scan, Begin, TypeOK
  <2>. QED
    BY <2>1 DEF Registers
<1>4. ASSUME NEW r \in Request, SearchAnswered(r) PROVE Kept(r)'
  <2>1. \/ /\ targets'[r] \subseteq LowerTarget /\ todo'[r] = targets'[r]
           /\ pc'[r] = "insert"
        \/ targets'[r] = targets[r] /\ pc'[r] = "failed"
    BY <1>4, SearchWrites DEF TypeOK
  <2>2. call'[r] = call[r] /\ registry' = registry
    BY <1>4 DEF SearchAnswered
  <2>. QED
    BY <1>0, <2>1, <2>2
<1>5. ASSUME NEW r \in Request, NEW e \in todo[r], InsertEntry(r, e) PROVE Kept(r)'
  <2>1. pc[r] = "insert" /\ targets' = targets /\ call' = call
    BY <1>5 DEF InsertEntry
  <2>2. call[r] # None /\ call[r].kind = "import" /\ call[r].protocol \in Protocol
    BY <2>1, CallFields DEF KindsFit, TypeOK
  <2>3. targets[r] \subseteq LowerTarget /\ targets[r] \ todo[r] \subseteq Reg(r)
    BY <1>0, <2>1, <2>2 DEF Registers
  <2>4. /\ e \in LowerTarget => e \in Reg(r)'
        /\ todo'[r] = todo[r] \ {e}
        /\ pc'[r] = "insert" \/ (pc'[r] = "count" /\ todo[r] = {e})
    <3>1. PICK t \in LowerTarget :
            /\ e \in LowerTarget => t = e
            /\ registry' = [registry EXCEPT ![call[r].protocol] = @ \cup {t}]
      BY <1>5, EntryWrites
    <3>2. e \in LowerTarget => e \in Reg(r)'
      BY <2>1, <2>2, <3>1 DEF TypeOK
    <3>3. /\ todo'[r] = todo[r] \ {e}
          /\ pc'[r] = "insert" \/ (pc'[r] = "count" /\ todo[r] = {e})
      BY <1>5, <2>1 DEF InsertEntry, AfterInsert, Goto, TypeOK
    <3>. QED
      BY <3>2, <3>3
  <2>5. Reg(r) \subseteq Reg(r)'
    BY <1>grow, <2>1
  <2>. HIDE DEF Reg
  <2>6. targets[r] \ todo'[r] \subseteq Reg(r)'
    BY <2>3, <2>4, <2>5
  <2>. QED
    BY <2>1, <2>3, <2>4, <2>6
<1>6. ASSUME NEW r \in Request, NEW t \in todo[r], SkipTarget(r, t) \/ ScanTarget(r, t) PROVE Kept(r)'
  <2>1. call'[r].kind = "scan"
    BY <1>6 DEF SkipTarget, ScanTarget, KindsFit, Scanning
  <2>. QED
    BY <2>1 DEF Registers
<1>7. ASSUME NEW r \in Request, StoreResult(r) \/ Notify(r) \/ ScanDone(r) PROVE Kept(r)'
  <2>1. call'[r].kind = "scan"
    BY <1>7 DEF StoreResult, Notify, ScanDone, KindsFit, Scanning
  <2>. QED
    BY <2>1 DEF Registers
<1>8. ASSUME NEW r \in Request, CountTracked(r) \/ SearchFailed(r) \/ Raises(r) PROVE Kept(r)'
  BY <1>0, <1>8 DEF CountTracked, SearchFailed, Raises, Goto, TypeOK
<1>9. ASSUME NEW r \in Request, Step(r) PROVE InsertsKept'
  <2>1. Kept(r)'
    BY <1>1, <1>2, <1>3, <1>4, <1>5, <1>6, <1>7, <1>8, <1>9 DEF Step
  <2>2. ASSUME NEW q \in Request, q # r PROVE Kept(q)'
    <3>1. SameLocals(q)
      BY <1>9, <2>2, OthersStay
    <3>2. CASE pc[q] = "new"
      BY <3>1, <3>2 DEF SameLocals, KindsFit
    <3>3. CASE pc[q] # "new"
      <4>1. Reg(q) \subseteq Reg(q)'
        BY <1>grow, <3>3
      <4>. HIDE DEF Reg
      <4>. QED
        BY <1>0, <3>1, <4>1 DEF SameLocals
    <3>. QED
      BY <3>2, <3>3
  <2>. QED
    BY <2>1, <2>2 DEF InsertsKept
<1>10. CASE Crash
  BY <1>10 DEF Crash, InsertsKept, TypeOK
<1>11. CASE UNCHANGED vars
  BY <1>11 DEF vars, locals, InsertsKept
<1>. QED
  BY <1>9, <1>10, <1>11, NextSteps

LEMMA BooksStep ==
  ASSUME TypeOK, KindsFit, InsertsKept, ScanBooks, [Next]_vars
  PROVE  ScanBooks'
<1>. DEFINE Books(q) ==
       /\ pc[q] \in {"analyzing", "notify"} =>
            /\ current[q] \in Target /\ current[q].chain \in Adapter
            /\ LowerKey(current[q]) \in contracts
       /\ pc[q] = "notify" => LowerKey(current[q]) \in scans
       /\ pc[q] \in Scanning =>
            /\ targets[q] = todo[q] \cup InAnalysis(q) \cup scanned[q] \cup skipped[q]
            /\ \A t \in scanned[q] : t.chain \in Adapter /\ LowerKey(t) \in scans
            /\ \A t \in skipped[q] : t.chain \notin Adapter
<1>0. ASSUME NEW q \in Request PROVE Books(q)
  BY DEF ScanBooks
<1>. USE DEF Scanning, InAnalysis, TypeOK
<1>1. ASSUME NEW r \in Request, NEW c \in Call,
             Register(r, c) \/ Import(r, c) \/ BeginRaises(r, c)
      PROVE  Books(r)'
  <2>1. pc'[r] \in {"count", "search", "failed"}
    BY <1>1, RegisterWrites DEF Import, BeginRaises, Goto
  <2>. QED
    BY <2>1
<1>3. ASSUME NEW r \in Request, NEW c \in Call, Scan(r, c) PROVE Books(r)'
  <2>1. scanned'[r] = {} /\ skipped'[r] = {}
    BY <1>3 DEF Scan, Begin, KindsFit
  <2>2. \/ targets'[r] = todo'[r] /\ pc'[r] = "loop"
        \/ pc'[r] = "failed"
    BY <1>3, ScanWrites
  <2>. QED
    BY <2>1, <2>2
<1>4. ASSUME NEW r \in Request, SearchAnswered(r) PROVE Books(r)'
  <2>1. pc'[r] \in {"insert", "failed"}
    BY <1>4, SearchWrites
  <2>. QED
    BY <2>1
<1>5. ASSUME NEW r \in Request, NEW e \in todo[r], InsertEntry(r, e) PROVE Books(r)'
  BY <1>5 DEF InsertEntry, AfterInsert, Goto
<1>6. ASSUME NEW r \in Request, NEW t \in todo[r], SkipTarget(r, t) PROVE Books(r)'
  <2>1. /\ pc'[r] = "loop" /\ pc[r] = "loop" /\ targets' = targets /\ scanned' = scanned
        /\ scans' = scans
        /\ todo'[r] = todo[r] \ {t} /\ skipped'[r] = skipped[r] \cup {t} /\ t.chain \notin Adapter
    BY <1>6 DEF SkipTarget, Visit
  <2>. QED
    BY <1>0, <2>1
<1>7. ASSUME NEW r \in Request, NEW t \in todo[r], ScanTarget(r, t) PROVE Books(r)'
  <2>1. /\ pc'[r] = "analyzing" /\ pc[r] = "loop" /\ targets' = targets /\ scanned' = scanned
        /\ scans' = scans /\ skipped' = skipped /\ current'[r] = t /\ t \in Target
        /\ todo'[r] = todo[r] \ {t} /\ t.chain \in Adapter /\ LowerKey(t) \in contracts'
    BY <1>7 DEF ScanTarget, Visit, AddContract, Goto
  <2>. QED
    BY <1>0, <2>1
<1>8. ASSUME NEW r \in Request, StoreResult(r) PROVE Books(r)'
  <2>1. /\ pc'[r] = "notify" /\ pc[r] = "analyzing" /\ targets' = targets /\ scanned' = scanned
        /\ skipped' = skipped /\ current' = current /\ todo' = todo /\ contracts' = contracts
        /\ scans' = scans \cup {LowerKey(current[r])}
    BY <1>8 DEF StoreResult, UpsertScan, Goto
  <2>. QED
    BY <1>0, <2>1
<1>9. ASSUME NEW r \in Request, Notify(r) PROVE Books(r)'
  <2>1. /\ pc'[r] = "loop" /\ pc[r] = "notify" /\ targets' = targets /\ scans' = scans
        /\ scanned'[r] = scanned[r] \cup {current[r]}
        /\ skipped' = skipped /\ todo' = todo
    BY <1>9 DEF Notify, Goto
  <2>. QED
    BY <1>0, <2>1
<1>10. ASSUME NEW r \in Request, CountTracked(r) \/ SearchFailed(r) \/ ScanDone(r) \/ Raises(r)
       PROVE  Books(r)'
  BY <1>10 DEF CountTracked, SearchFailed, ScanDone, Raises, Goto
<1>11. ASSUME NEW r \in Request, Step(r) PROVE ScanBooks'
  <2>1. Books(r)'
    BY <1>1, <1>3, <1>4, <1>5, <1>6, <1>7, <1>8, <1>9, <1>10, <1>11 DEF Step
  <2>2. ASSUME NEW q \in Request, q # r PROVE Books(q)'
    BY <1>0, <1>11, <2>2, OthersStay, TablesGrow DEF SameLocals
  <2>. QED
    BY <2>1, <2>2 DEF ScanBooks
<1>12. CASE Crash
  BY <1>12 DEF Crash, ScanBooks
<1>13. CASE UNCHANGED vars
  BY <1>13 DEF vars, locals, ScanBooks
<1>. QED
  BY <1>11, <1>12, <1>13, NextSteps

LEMMA SeenStep ==
  ASSUME TypeOK, KindsFit, InsertsKept, SeenBefore, [Next]_vars
  PROVE  SeenBefore'
<1>. DEFINE Seen(r, q) ==
       /\ pc[r] \in Scanning \cup {"done"} /\ call[r].kind = "scan" /\ ~call[r].adhoc
       /\ call[q].kind \in Registers /\ call[q].protocol = call[r].protocol
       => \A t \in targets[q] : Selects(call[r], t) => t \in targets[r]
<1>1. SUFFICES ASSUME NEW r \in Request, NEW q \in Request, q \in before'[r]
               PROVE  pc'[q] = "done" /\ Seen(r, q)'
  BY DEF SeenBefore
\* The request before is done and does not change any more.
<1>done. ASSUME pc[q] = "done"
         PROVE  /\ pc'[q] = "done" /\ call'[q] = call[q] /\ targets'[q] = targets[q]
  BY <1>done, CallsStay
<1>2. CASE pc[r] # "new"
  <2>1. before'[r] = before[r] /\ call'[r] = call[r]
    BY <1>2, CallsStay
  <2>2. pc[q] = "done" /\ Seen(r, q)
    BY <1>1, <2>1 DEF SeenBefore
  <2>3. pc'[r] \in Scanning \cup {"done"} /\ call[r].kind = "scan" =>
          pc[r] \in Scanning \cup {"done"} /\ targets'[r] = targets[r]
    <3>1. ASSUME Step(r), call[r].kind = "scan" PROVE pc[r] \in Scanning
      BY <1>2, <3>1 DEF Step, KindsFit, TypeOK, Registers, Scanning, Register, Import, Scan,
         BeginRaises, Begin, SearchAnswered, SearchFailed, InsertEntry, SkipTarget, ScanTarget,
         CountTracked, StoreResult, Notify, ScanDone, Raises
    <3>2. ASSUME NEW x \in Request, x # r, Step(x) PROVE pc'[r] = pc[r]
      BY <3>2, OthersStay DEF SameLocals
    <3>3. CASE Crash
      BY <3>3 DEF Crash, TypeOK, Scanning
    <3>4. CASE UNCHANGED vars
      BY <3>4 DEF vars, locals
    <3>5. pc[r] \in Scanning \cup {"done"} => targets'[r] = targets[r]
      BY CallsStay DEF Scanning
    <3>. QED
      BY <3>1, <3>2, <3>3, <3>4, <3>5, NextSteps
  <2>. QED
    BY <1>done, <2>1, <2>2, <2>3
<1>3. CASE pc[r] = "new"
  <2>0. ASSUME NEW x \in Request, x # r, Step(x)
        PROVE  pc'[r] = "new" /\ before'[r] = before[r]
    BY <1>3, <2>0, OthersStay DEF SameLocals
  <2>a. ASSUME Step(r)
        PROVE  \E c \in Call : Register(r, c) \/ Import(r, c) \/ Scan(r, c) \/ BeginRaises(r, c)
    BY <1>3, <2>a DEF Step, SearchAnswered, SearchFailed, InsertEntry, SkipTarget, ScanTarget,
       CountTracked, StoreResult, Notify, ScanDone, Raises
  <2>b. ASSUME Crash \/ UNCHANGED vars
        PROVE  pc'[r] = "new" /\ before'[r] = before[r]
    BY <1>3, <2>b DEF Crash, vars, locals, TypeOK
  <2>c. ASSUME NEW c \in Call, Register(r, c) \/ Import(r, c) \/ Scan(r, c) \/ BeginRaises(r, c)
        PROVE  pc'[r] # "new"
    BY <2>c, RegisterWrites, ScanWrites DEF Import, BeginRaises, Goto, TypeOK
  <2>1. CASE pc'[r] = "new"
    <3>1. before'[r] = before[r]
      BY <2>0, <2>a, <2>b, <2>c, <2>1, NextSteps
    <3>2. pc[q] = "done"
      BY <1>1, <3>1 DEF SeenBefore
    <3>. QED
      BY <1>done, <2>1, <3>2 DEF Scanning
  <2>2. CASE pc'[r] # "new"
    <3>1. PICK c \in Call : Register(r, c) \/ Import(r, c) \/ Scan(r, c) \/ BeginRaises(r, c)
      BY <2>0, <2>a, <2>b, <2>2, NextSteps
    <3>2. pc[q] = "done" /\ call'[r] = c
      BY <1>1, <3>1 DEF Register, Import, Scan, BeginRaises, Begin, TypeOK
    <3>3. CASE c.kind # "scan"
      BY <1>done, <3>2, <3>3
    <3>4. CASE c.kind = "scan" /\ ~Scan(r, c)
      <4>1. pc'[r] = "failed"
        BY <3>1, <3>4 DEF Register, Import, BeginRaises, Goto, TypeOK
      <4>. QED
        BY <1>done, <3>2, <4>1 DEF Scanning
    <3>5. CASE Scan(r, c)
      <4>1. \/ pc'[r] = "failed"
            \/ ~c.adhoc => targets'[r] = ListProtocolContracts(c.protocol, c.chain)
        BY <3>5, ScanWrites DEF TypeOK
      <4>2. ASSUME call[q].kind \in Registers, call[q].protocol = c.protocol,
                   NEW t \in targets[q], Selects(c, t)
            PROVE  t \in ListProtocolContracts(c.protocol, c.chain)
        <5>1. call[q] # None
          BY <3>2 DEF KindsFit
        <5>2. t \in registry[c.protocol]
          BY <3>2, <4>2, <5>1 DEF InsertsKept
        <5>. QED
          BY <4>2, <5>2 DEF Selects, ListProtocolContracts
      <4>. QED
        BY <1>done, <3>2, <4>1, <4>2 DEF Scanning
    <3>. QED
      BY <3>3, <3>4, <3>5
  <2>. QED
    BY <2>1, <2>2
<1>. QED
  BY <1>2, <1>3

------------------------------------------------------------------------------
\* The properties.

\* A step that inserts rows accounts for those that are new.
LEMMA InsertAccounts ==
  ASSUME TypeOK, EachRowAddedOnce,
         NEW r \in Request, NEW p \in Protocol, NEW rows,
         registry' = [registry EXCEPT ![p] = @ \cup rows],
         added' = [added EXCEPT ![r] = @ \cup (rows \ registry[p])],
         Of(r, p)', Of(r, p) \/ added[r] = {},
         \A x \in Protocol : x # p => ~Of(r, x)',
         \A q \in Request, x \in Protocol : q # r => Of(q, x)' = Of(q, x),
         added[r] # {} => call'[r] = call[r]
  PROVE  EachRowAddedOnce'
<1>. USE DEF TypeOK
<1>1. registry'[p] = registry[p] \cup rows /\ \A x \in Protocol : x # p => registry'[x] = registry[x]
  OBVIOUS
<1>2. /\ added'[r] = added[r] \cup (rows \ registry[p])
      /\ \A q \in Request : q # r => added'[q] = added[q]
  OBVIOUS
<1>3. ASSUME NEW x \in Protocol, NEW t \in registry'[x]
      PROVE  \E q \in Request : Of(q, x)' /\ t \in added'[q]
  <2>1. CASE t \in registry[x]
    <3>1. PICK q \in Request : Of(q, x) /\ t \in added[q]
      BY <2>1 DEF EachRowAddedOnce
    <3>2. Of(q, x)' /\ t \in added'[q]
      BY <1>2, <3>1 DEF Of
    <3>. QED
      BY <3>2
  <2>2. CASE t \notin registry[x]
    BY <1>1, <1>2, <1>3, <2>2
  <2>. QED
    BY <2>1, <2>2
<1>4. ASSUME NEW x \in Protocol, NEW q \in Request, Of(q, x)'
      PROVE  added'[q] \subseteq registry'[x]
  BY <1>1, <1>2, <1>4 DEF EachRowAddedOnce
<1>5. ASSUME NEW x \in Protocol, NEW q \in Request, NEW y \in Request, q # y,
             Of(q, x)', Of(y, x)'
      PROVE  added'[q] \cap added'[y] = {}
  <2>1. CASE q # r /\ y # r
    BY <1>2, <1>5, <2>1 DEF EachRowAddedOnce
  <2>2. ASSUME NEW z \in Request, z # r, Of(z, p)
        PROVE  added'[r] \cap added'[z] = {}
    <3>1. added[z] \subseteq registry[p]
      BY <2>2 DEF EachRowAddedOnce
    <3>2. added[r] \cap added[z] = {}
      BY <2>2 DEF EachRowAddedOnce
    <3>. QED
      BY <1>2, <2>2, <3>1, <3>2
  <2>3. CASE q = r
    BY <1>5, <2>2, <2>3
  <2>4. CASE y = r
    BY <1>5, <2>2, <2>4
  <2>. QED
    BY <2>1, <2>3, <2>4
<1>. QED
  BY <1>3, <1>4, <1>5 DEF EachRowAddedOnce

LEMMA AddedStep ==
  ASSUME TypeOK, KindsFit, InsertsKept, EachRowAddedOnce, [Next]_vars
  PROVE  EachRowAddedOnce'
<1>. USE DEF TypeOK
<1>1. ASSUME registry' = registry, added' = added
      PROVE  EachRowAddedOnce'
  <2>1. \A q \in Request, x \in Protocol : Of(q, x) => Of(q, x)'
    BY CallsStay DEF Of, KindsFit
  <2>2. \A q \in Request, x \in Protocol : Of(q, x)' => Of(q, x) \/ added[q] = {}
    BY CallsStay DEF Of, KindsFit
  <2>. QED
    BY <1>1, <2>1, <2>2 DEF EachRowAddedOnce
<1>2. ASSUME NEW r \in Request, NEW c \in Call, Register(r, c) PROVE EachRowAddedOnce'
  <2>1. pc[r] = "new" /\ call'[r] = c /\ added[r] = {}
    BY <1>2 DEF Register, Begin, KindsFit
  <2>2. ASSUME NEW q \in Request, NEW x \in Protocol, q # r PROVE Of(q, x)' = Of(q, x)
    BY <1>2, <2>2 DEF Of, Register, Begin
  <2>3. /\ c.protocol \in Protocol /\ Of(r, c.protocol)'
        /\ \A x \in Protocol : x # c.protocol => ~Of(r, x)'
    BY <2>1, CallFields DEF Of
  <2>4. PICK rows \in SUBSET LowerTarget :
          \/ /\ targets' = [targets EXCEPT ![r] = rows]
             /\ registry' = [registry EXCEPT ![c.protocol] = @ \cup rows]
             /\ added' = [added EXCEPT ![r] = @ \cup (rows \ registry[c.protocol])]
          \/ UNCHANGED <<targets, registry, added>>
    <3>. HIDE DEF TypeOK
    <3>. QED
      BY <1>2, RegisterWrites
  <2>5. CASE UNCHANGED <<registry, added>>
    BY <1>1, <2>5
  <2>6. CASE /\ registry' = [registry EXCEPT ![c.protocol] = @ \cup rows]
             /\ added' = [added EXCEPT ![r] = @ \cup (rows \ registry[c.protocol])]
    <3>. HIDE DEF TypeOK
    <3>. QED
      BY <2>1, <2>2, <2>3, <2>6, InsertAccounts
  <2>. QED
    BY <2>4, <2>5, <2>6
<1>3. ASSUME NEW r \in Request, NEW e \in todo[r], InsertEntry(r, e) PROVE EachRowAddedOnce'
  <2>. DEFINE p == call[r].protocol
  <2>1. p \in Protocol /\ call' = call /\ call[r] # None
    BY <1>3, EntryWrites DEF InsertEntry, KindsFit
  <2>2. PICK t \in LowerTarget :
          /\ registry' = [registry EXCEPT ![p] = @ \cup {t}]
          /\ added' = [added EXCEPT ![r] = @ \cup ({t} \ registry[p])]
    BY <1>3, EntryWrites
  <2>3. /\ Of(r, p) /\ Of(r, p)'
        /\ \A x \in Protocol : x # p => ~Of(r, x)'
        /\ \A q \in Request, x \in Protocol : Of(q, x)' = Of(q, x)
    BY <2>1 DEF Of
  <2>. QED
    BY <2>1, <2>2, <2>3, InsertAccounts
<1>4. ASSUME NEW r \in Request, Step(r),
             \A c \in Call : ~Register(r, c), \A e \in todo[r] : ~InsertEntry(r, e)
      PROVE  registry' = registry /\ added' = added
  BY <1>4 DEF Step, Import, Scan, BeginRaises, SearchAnswered, SearchFailed, SkipTarget,
     ScanTarget, CountTracked, StoreResult, Notify, ScanDone, Raises
<1>5. CASE Crash \/ UNCHANGED vars
  BY <1>1, <1>5 DEF Crash, vars, locals
<1>. QED
  BY <1>1, <1>2, <1>3, <1>4, <1>5, NextSteps

LEMMA JoinStep ==
  ASSUME TypeOK, ScanBooks, ScanHasContract, [Next]_vars
  PROVE  ScanHasContract'
<1>. USE DEF ScanHasContract
<1>1. ASSUME NEW r \in Request, NEW t \in todo[r], ScanTarget(r, t) PROVE ScanHasContract'
  BY <1>1 DEF ScanTarget, AddContract
<1>2. ASSUME NEW r \in Request, StoreResult(r) PROVE ScanHasContract'
  BY <1>2 DEF StoreResult, UpsertScan, ScanBooks
<1>. QED
  BY <1>1, <1>2 DEF Next, vars, Register, Import, Scan, BeginRaises, SearchAnswered, SearchFailed,
     InsertEntry, SkipTarget, CountTracked, Notify, ScanDone, Raises, Crash

\* Who is done, was or has counted its rows or visited its targets.
LEMMA DoneBy ==
  ASSUME TypeOK, KindsFit, InsertsKept, [Next]_vars, NEW r \in Request, pc'[r] = "done"
  PROVE  pc[r] = "done" \/ CountTracked(r) \/ ScanDone(r)
<1>1. ASSUME Step(r) PROVE CountTracked(r) \/ ScanDone(r)
  <2>1. ASSUME NEW c \in Call, Register(r, c) \/ Import(r, c) \/ Scan(r, c) \/ BeginRaises(r, c)
        PROVE  FALSE
    BY <2>1, RegisterWrites, ScanWrites DEF Import, BeginRaises, Goto, TypeOK
  <2>2. ASSUME SearchAnswered(r) PROVE FALSE
    BY <2>2, SearchWrites DEF TypeOK
  <2>3. ASSUME NEW e \in todo[r], InsertEntry(r, e) \/ SkipTarget(r, e) \/ ScanTarget(r, e)
        PROVE  FALSE
    BY <2>3 DEF InsertEntry, AfterInsert, SkipTarget, ScanTarget, Goto, TypeOK
  <2>4. ASSUME SearchFailed(r) \/ StoreResult(r) \/ Notify(r) \/ Raises(r) PROVE FALSE
    BY <2>4 DEF SearchFailed, StoreResult, Notify, Raises, Goto, TypeOK
  <2>. QED
    BY <1>1, <2>1, <2>2, <2>3, <2>4 DEF Step
<1>2. ASSUME NEW x \in Request, x # r, Step(x) PROVE pc[r] = "done"
  BY <1>2, OthersStay DEF SameLocals
<1>3. CASE Crash \/ UNCHANGED vars
  BY <1>3 DEF Crash, vars, locals, TypeOK
<1>. QED
  BY <1>1, <1>2, <1>3, NextSteps

LEMMA RegistrationStep ==
  ASSUME TypeOK, KindsFit, InsertsKept, RegistrationComplete, [Next]_vars
  PROVE  RegistrationComplete'
<1>1. SUFFICES ASSUME NEW r \in Request, pc'[r] = "done", call'[r].kind \in Registers
               PROVE  /\ targets'[r] \subseteq registry'[call'[r].protocol]
                      /\ \A t \in targets'[r] : Selects(call'[r], t) => t \in tracked'[r]
  BY DEF RegistrationComplete, Selects
<1>2. pc[r] = "done" \/ CountTracked(r) \/ ScanDone(r)
  BY <1>1, DoneBy
<1>3. /\ call'[r] = call[r] /\ targets'[r] = targets[r] /\ call[r] # None
      /\ call[r].protocol \in Protocol
  BY <1>2, CallsStay, CallFields DEF CountTracked, ScanDone, KindsFit, TypeOK
<1>4. registry[call[r].protocol] \subseteq registry'[call[r].protocol]
  BY <1>3, TablesGrow
<1>5. CASE pc[r] = "done"
  <2>1. tracked'[r] = tracked[r]
    BY <1>5, CallsStay
  <2>. QED
    BY <1>1, <1>3, <1>4, <1>5, <2>1 DEF RegistrationComplete
<1>6. CASE CountTracked(r)
  <2>1. targets[r] \subseteq registry[call[r].protocol]
    BY <1>1, <1>3, <1>6 DEF CountTracked, InsertsKept
  <2>2. tracked'[r] = ListProtocolContracts(call[r].protocol, call[r].chain)
    BY <1>6 DEF CountTracked, TypeOK
  <2>. QED
    BY <1>3, <1>4, <2>1, <2>2 DEF Selects, ListProtocolContracts
<1>7. CASE ScanDone(r)
  BY <1>1, <1>3, <1>7 DEF ScanDone, KindsFit, Scanning, Registers
<1>. QED
  BY <1>2, <1>5, <1>6, <1>7

LEMMA OthersStep ==
  ASSUME TypeOK, KindsFit, InsertsKept, OthersAddNone, [Next]_vars
  PROVE  OthersAddNone'
<1>1. SUFFICES ASSUME NEW r \in Request, call'[r] # None, call'[r].kind # "import"
               PROVE  \A t \in added'[r] : ~Misfit(t)
  BY DEF OthersAddNone, Misfit
<1>2. call[r] # None /\ call[r].kind # "import" => \A t \in added[r] : ~Misfit(t)
  BY DEF OthersAddNone
<1>3. ASSUME NEW c \in Call, Register(r, c) PROVE \A t \in added'[r] : ~Misfit(t)
  <2>1. added[r] = {}
    BY <1>3 DEF Register, Begin, KindsFit
  <2>2. PICK rows \in SUBSET LowerTarget :
          /\ \A t \in rows : /\ t.chain \in Adapter
                             /\ t.chain = "solana" <=> t.address \notin EvmAddress
          /\ \/ added' = [added EXCEPT ![r] = @ \cup (rows \ registry[c.protocol])]
             \/ UNCHANGED added
    BY <1>3, RegisterWrites
  <2>3. added'[r] \subseteq rows
    BY <2>1, <2>2 DEF TypeOK
  <2>. QED
    BY <2>2, <2>3 DEF Misfit
<1>4. ASSUME NEW c \in Call, Import(r, c) \/ Scan(r, c) \/ BeginRaises(r, c)
      PROVE  added'[r] = {}
  BY <1>4 DEF Import, Scan, BeginRaises, Begin, KindsFit
<1>5. ASSUME NEW e \in todo[r], InsertEntry(r, e) PROVE FALSE
  BY <1>1, <1>5 DEF InsertEntry, KindsFit
<1>6. ASSUME \/ SearchAnswered(r) \/ SearchFailed(r) \/ CountTracked(r) \/ StoreResult(r)
             \/ Notify(r) \/ ScanDone(r) \/ Raises(r) \/ Crash \/ UNCHANGED vars
             \/ \E e \in todo[r] : SkipTarget(r, e) \/ ScanTarget(r, e)
      PROVE  call' = call /\ added' = added
  BY <1>6 DEF SearchAnswered, SearchFailed, CountTracked, StoreResult, Notify, ScanDone, Raises,
     Crash, vars, locals, SkipTarget, ScanTarget
<1>7. ASSUME NEW x \in Request, x # r, Step(x) PROVE call'[r] = call[r] /\ added'[r] = added[r]
  BY <1>7, OthersStay DEF SameLocals
<1>. QED
  BY <1>1, <1>2, <1>3, <1>4, <1>5, <1>6, <1>7, NextSteps DEF Step

\* What an import brought in stays brought in.
LEMMA ImportedStays ==
  ASSUME TypeOK, KindsFit, InsertsKept, [Next]_vars, NEW t, NEW p, Imported(t, p)
  PROVE  Imported(t, p)'
<1>1. PICK q \in Request : /\ call[q] # None /\ call[q].kind = "import" /\ call[q].protocol = p
                          /\ t \in added[q]
  BY DEF Imported
<1>2. pc[q] # "new"
  BY <1>1 DEF KindsFit
<1>3. call'[q] = call[q]
  BY <1>2, CallsStay
<1>4. ASSUME Step(q) PROVE t \in added'[q]
  <2>1. ASSUME NEW e \in todo[q], InsertEntry(q, e) PROVE t \in added'[q]
    BY <1>1, <2>1, EntryWrites DEF TypeOK
  <2>2. ASSUME \A e \in todo[q] : ~InsertEntry(q, e) PROVE added' = added
    BY <1>2, <1>4, <2>2 DEF Step, Register, Import, Scan, BeginRaises, Begin, SearchAnswered,
       SearchFailed, SkipTarget, ScanTarget, CountTracked, StoreResult, Notify, ScanDone, Raises
  <2>. QED
    BY <1>1, <2>1, <2>2
<1>5. ASSUME NEW x \in Request, x # q, Step(x) PROVE added'[q] = added[q]
  BY <1>5, OthersStay DEF SameLocals
<1>6. CASE Crash \/ UNCHANGED vars
  BY <1>1, <1>3, <1>6 DEF Crash, vars, locals, Imported
<1>7. t \in added'[q]
  BY <1>1, <1>4, <1>5, <1>6, NextSteps DEF Crash, vars, locals
<1>. QED
  BY <1>1, <1>3, <1>7 DEF Imported

LEMMA MisfitsStep ==
  ASSUME TypeOK, KindsFit, InsertsKept, EachRowAddedOnce, OthersAddNone, MisfitsImported,
         [Next]_vars
  PROVE  MisfitsImported'
<1>1. SUFFICES ASSUME NEW r \in Request, call'[r] # None, call'[r].kind = "scan",
                      NEW t \in targets'[r], Misfit(t), NEW p, p = call'[r].protocol
               PROVE  Imported(t, p)'
  BY DEF MisfitsImported, Misfit, Imported
<1>2. CASE pc[r] # "new"
  <2>1. call'[r] = call[r] /\ call[r] # None
    BY <1>2, CallsStay DEF KindsFit
  <2>2. targets'[r] = targets[r]
    BY <1>1, <1>2, <2>1, CallsStay DEF KindsFit
  <2>3. Imported(t, p)
    BY <1>1, <2>1, <2>2 DEF MisfitsImported, Imported
  <2>. QED
    BY <2>3, ImportedStays
<1>3. CASE pc[r] = "new"
  <2>1. call[r] = None /\ targets[r] = {}
    BY <1>3 DEF KindsFit
  <2>2. ASSUME NEW x \in Request, x # r, Step(x) PROVE call'[r] = call[r]
    BY <2>2, OthersStay DEF SameLocals
  <2>3. ASSUME Crash \/ UNCHANGED vars PROVE call'[r] = call[r]
    BY <2>3 DEF Crash, vars, locals
  <2>4. Step(r)
    BY <1>1, <2>1, <2>2, <2>3, NextSteps
  <2>5. PICK c \in Call : Register(r, c) \/ Import(r, c) \/ Scan(r, c) \/ BeginRaises(r, c)
    BY <1>3, <2>4 DEF Step, SearchAnswered, SearchFailed, InsertEntry, SkipTarget, ScanTarget,
       CountTracked, StoreResult, Notify, ScanDone, Raises
  <2>6. call'[r] = c
    BY <2>5 DEF Register, Import, Scan, BeginRaises, Begin, TypeOK
  <2>7. Scan(r, c)
    BY <1>1, <2>1, <2>5, <2>6 DEF Register, Import, BeginRaises
  <2>8. PICK ts \in SUBSET Target :
          /\ ~c.adhoc => ts = ListProtocolContracts(c.protocol, c.chain)
          /\ c.adhoc => \A y \in ts : ~Misfit(y)
          /\ targets' = [targets EXCEPT ![r] = ts]
    BY <1>1, <2>1, <2>7, ScanWrites
  <2>9. t \in ts
    BY <1>1, <2>8 DEF TypeOK
  <2>10. t \in registry[c.protocol] /\ c.protocol \in Protocol
    BY <1>1, <2>8, <2>9, CallFields DEF ListProtocolContracts
  <2>11. PICK q \in Request : Of(q, c.protocol) /\ t \in added[q]
    BY <2>10 DEF EachRowAddedOnce
  <2>12. Imported(t, p)
    <3>1. call[q] # None /\ call[q].protocol = c.protocol
      BY <2>11 DEF Of
    <3>2. call[q].kind = "import"
      BY <1>1, <2>11, <3>1 DEF OthersAddNone
    <3>. QED
      BY <1>1, <2>6, <2>11, <3>1, <3>2 DEF Imported
  <2>. QED
    BY <2>12, ImportedStays
<1>. QED
  BY <1>2, <1>3

LEMMA CompleteStep ==
  ASSUME TypeOK, KindsFit, InsertsKept, ScanBooks, ScanComplete, [Next]_vars
  PROVE  ScanComplete'
<1>1. SUFFICES ASSUME NEW r \in Request, pc'[r] = "done", call'[r].kind = "scan"
               PROVE  /\ targets'[r] = scanned'[r] \cup skipped'[r]
                      /\ skipped'[r] = {t \in targets'[r] : t.chain \notin Adapter}
                      /\ \A t \in scanned'[r] : LowerKey(t) \in scans'
  BY DEF ScanComplete
<1>2. pc[r] = "done" \/ CountTracked(r) \/ ScanDone(r)
  BY <1>1, DoneBy
<1>3. CASE pc[r] = "done"
  BY <1>1, <1>3, CallsStay, TablesGrow DEF ScanComplete
<1>4. CASE CountTracked(r)
  BY <1>1, <1>4 DEF CountTracked, KindsFit, Registers
<1>5. CASE ScanDone(r)
  <2>1. /\ pc[r] = "loop" /\ todo[r] = {} /\ targets' = targets /\ scanned' = scanned
        /\ skipped' = skipped /\ scans' = scans
    BY <1>5 DEF ScanDone
  <2>2. /\ targets[r] = scanned[r] \cup skipped[r]
        /\ \A t \in scanned[r] : t.chain \in Adapter /\ LowerKey(t) \in scans
        /\ \A t \in skipped[r] : t.chain \notin Adapter
    BY <2>1 DEF ScanBooks, InAnalysis, Scanning
  <2>. QED
    BY <2>1, <2>2
<1>. QED
  BY <1>2, <1>3, <1>4, <1>5

------------------------------------------------------------------------------
THEOREM Invariance == Spec => []IInv
<1>1. Init => IInv
  BY Initially
<1>2. IInv /\ [Next]_vars => IInv'
  BY TypeStep, KindsStep, InsertsStep, BooksStep, SeenStep, AddedStep, JoinStep, RegistrationStep,
     OthersStep, MisfitsStep, CompleteStep DEF IInv
<1>. QED
  BY <1>1, <1>2, PTL DEF Spec

\* The tables hold lower-case addresses only; all else has its type.
THEOREM TypeCorrect == Spec => []TypeOK
<1>1. IInv => TypeOK
  BY DEF IInv
<1>. QED
  BY <1>1, Invariance, PTL

\* Each registered row was counted as added by exactly one request.
THEOREM RowsAddedOnce == Spec => []EachRowAddedOnce
<1>1. IInv => EachRowAddedOnce
  BY DEF IInv
<1>. QED
  BY <1>1, Invariance, PTL

\* No scan row lacks its contract row.
THEOREM JoinHidesNothing == Spec => []ScanHasContract
<1>1. IInv => ScanHasContract
  BY DEF IInv
<1>. QED
  BY <1>1, Invariance, PTL

\* A registration or import answered with 200 has registered everything.
THEOREM NothingLeftOut == Spec => []RegistrationComplete
<1>1. IInv => RegistrationComplete
  BY DEF IInv
<1>. QED
  BY <1>1, Invariance, PTL

\* Only an import brings in what a scan skips or asks the wrong adapter for.
THEOREM MisfitsComeFromImports == Spec => []MisfitsImported
<1>1. IInv => MisfitsImported
  BY DEF IInv
<1>. QED
  BY <1>1, Invariance, PTL

\* A scan answered with 200 accounts for each of its targets.
THEOREM ScansAccountForAll == Spec => []ScanComplete
<1>1. IInv => ScanComplete
  BY DEF IInv
<1>. QED
  BY <1>1, Invariance, PTL

\* A scan of a protocol covers what was registered before it began.
THEOREM WorkflowCovers == Spec => []RegisteredThenScanned
<1>1. IInv => RegisteredThenScanned
  <2>1. SUFFICES
          ASSUME IInv, NEW r \in Request, NEW q \in Request,
                 pc[r] = "done", call[r].kind = "scan", ~call[r].adhoc,
                 q \in before[r], call[q].kind \in Registers,
                 call[q].protocol = call[r].protocol,
                 NEW t \in targets[q], Selects(call[r], t)
          PROVE  t \in scanned[r] \cup skipped[r]
    BY DEF RegisteredThenScanned
  <2>2. t \in targets[r]
    BY <2>1 DEF IInv, SeenBefore
  <2>3. targets[r] = scanned[r] \cup skipped[r]
    BY <2>1 DEF IInv, ScanComplete
  <2>. QED
    BY <2>2, <2>3
<1>. QED
  BY <1>1, Invariance, PTL

------------------------------------------------------------------------------
\* The protocol endpoints implement the ledger.

LEMMA LedgerStep ==
  ASSUME TypeOK, ScanBooks, [Next]_vars
  PROVE  [Ledger!Next]_(Ledger!vars)
<1>1. ASSUME NEW r \in Request, NEW t \in todo[r], ScanTarget(r, t) PROVE Ledger!Next
  <2>1. t \in Target
    BY DEF TypeOK
  <2>2. LowerKey(t) \in Target
    BY <2>1, LowerKeyType DEF LowerTarget
  <2>3. Ledger!Claim(LowerKey(t))
    BY <1>1 DEF ScanTarget, AddContract, Ledger!Claim
  <2>. QED
    BY <2>2, <2>3 DEF Ledger!Next
<1>2. ASSUME NEW r \in Request, StoreResult(r) PROVE Ledger!Next
  <2>1. current[r] \in Target /\ LowerKey(current[r]) \in contracts
    BY <1>2 DEF StoreResult, ScanBooks
  <2>2. LowerKey(current[r]) \in Target
    BY <2>1, LowerKeyType DEF LowerTarget
  <2>3. Ledger!Record(LowerKey(current[r]))
    BY <1>2, <2>1 DEF StoreResult, UpsertScan, Ledger!Record
  <2>. QED
    BY <2>2, <2>3 DEF Ledger!Next
<1>3. CASE UNCHANGED <<contracts, scans>>
  BY <1>3 DEF Ledger!vars
<1>. QED
  BY <1>1, <1>2, <1>3 DEF Next, vars, Register, Import, Scan, BeginRaises, SearchAnswered,
     SearchFailed, InsertEntry, SkipTarget, CountTracked, Notify, ScanDone, Raises, Crash

\* A target is claimed before its analysis and recorded after it, and no request,
\* error or crash takes anything back: like the scanner, the protocol endpoints
\* keep the ledger, whose cursor they leave alone.
THEOREM ImplementsLedger == Spec => LedgerSpec
<1>1. Init => Ledger!Init
  BY DEF Init, Ledger!Init
<1>2. IInv /\ [Next]_vars => [Ledger!Next]_(Ledger!vars)
  BY LedgerStep DEF IInv
<1>. QED
  BY <1>1, <1>2, Invariance, PTL DEF Spec, LedgerSpec, Ledger!Spec

------------------------------------------------------------------------------
\* Addresses of Solana.

\* The targets of a scan of given addresses are as the client wrote them.
AsWritten(r) ==
  call[r] # None /\ call[r].kind = "scan" /\ call[r].adhoc =>
    \A t \in targets[r] : t.chain = "solana" => t.address \in Base58

\* What is under analysis has been taken from the targets.
CurrentFits(r) == current[r] # None => pc[r] \in {"analyzing", "notify"}

LEMMA GivenAddresses ==
  ASSUME NEW c \in Call, InputOk(c), NEW t \in Normalized(c.addresses, c.chain), t.chain = "solana"
  PROVE  t.address \in Base58
<1>1. c.chain = "solana"
  BY DEF Normalized
<1>2. t.address \in c.addresses
  BY <1>1 DEF Normalized
<1>. QED
  BY <1>1, <1>2 DEF InputOk, Valid

LEMMA WrittenStep ==
  ASSUME TypeOK, KindsFit, InsertsKept, [Next]_vars, NEW r \in Request, AsWritten(r)
  PROVE  AsWritten(r)'
<1>1. ASSUME NEW c \in Call, Scan(r, c) PROVE AsWritten(r)'
  <2>1. call'[r] = c /\ targets[r] = {}
    BY <1>1 DEF Scan, Begin, KindsFit, TypeOK
  <2>2. CASE UNCHANGED targets
    BY <2>1, <2>2 DEF AsWritten
  <2>3. CASE c.adhoc /\ InputOk(c) /\ targets'[r] = Normalized(c.addresses, c.chain)
    BY <2>1, <2>3, GivenAddresses DEF AsWritten
  <2>. QED
    BY <1>1, <2>1, <2>2, <2>3 DEF Scan, Take, AsWritten, TypeOK
<1>2. ASSUME NEW c \in Call, Register(r, c) \/ Import(r, c) PROVE AsWritten(r)'
  BY <1>2 DEF Register, Import, Begin, AsWritten, TypeOK
<1>3. ASSUME NEW c \in Call, BeginRaises(r, c) PROVE AsWritten(r)'
  BY <1>3 DEF BeginRaises, Begin, AsWritten, KindsFit
<1>4. CASE SearchAnswered(r)
  BY <1>4 DEF SearchAnswered, AsWritten, KindsFit
<1>5. ASSUME call'[r] = call[r], targets'[r] = targets[r] PROVE AsWritten(r)'
  BY <1>5 DEF AsWritten
<1>6. ASSUME NEW x \in Request, x # r, Step(x) PROVE AsWritten(r)'
  BY <1>5, <1>6, OthersStay DEF SameLocals
<1>. QED
  BY <1>1, <1>2, <1>3, <1>4, <1>5, <1>6, NextSteps
  DEF Step, SearchFailed, CountTracked, StoreResult, Notify, ScanDone, Raises, Crash, vars, locals,
      InsertEntry, SkipTarget, ScanTarget

LEMMA CurrentStep ==
  ASSUME TypeOK, KindsFit, InsertsKept, [Next]_vars, NEW r \in Request, CurrentFits(r)
  PROVE  CurrentFits(r)'
<1>. USE DEF CurrentFits, Goto, TypeOK
<1>1. ASSUME NEW c \in Call, Register(r, c) \/ Import(r, c) \/ Scan(r, c) \/ BeginRaises(r, c)
      PROVE  CurrentFits(r)'
  BY <1>1 DEF Register, Import, Scan, BeginRaises, Begin
<1>2. ASSUME SearchAnswered(r) \/ SearchFailed(r) \/ CountTracked(r) \/ ScanDone(r)
      PROVE  CurrentFits(r)'
  BY <1>2 DEF SearchAnswered, SearchFailed, CountTracked, ScanDone
<1>3. ASSUME NEW t \in todo[r], InsertEntry(r, t) \/ SkipTarget(r, t) PROVE CurrentFits(r)'
  BY <1>3 DEF InsertEntry, SkipTarget
<1>4. ASSUME NEW t \in todo[r], ScanTarget(r, t) PROVE CurrentFits(r)'
  BY <1>4 DEF ScanTarget
<1>5. CASE StoreResult(r) \/ Notify(r) \/ Raises(r)
  BY <1>5 DEF StoreResult, Notify, Raises
<1>6. CASE Crash \/ UNCHANGED vars
  BY <1>6 DEF Crash, vars, locals
<1>7. ASSUME NEW x \in Request, x # r, Step(x) PROVE CurrentFits(r)'
  BY <1>7, OthersStay DEF SameLocals
<1>. QED
  BY <1>1, <1>2, <1>3, <1>4, <1>5, <1>6, <1>7, NextSteps DEF Step

\* How far the instructions are right (.github/copilot-instructions.md:40, see
\* SolanaAddressIntact): a scan of addresses given in the call asks the Solana
\* adapter for them as they were written; only those that went through the
\* registry are not.
THEOREM AdhocAddressesIntact ==
  Spec => [](\A r \in Request :
               current[r] # None /\ current[r].chain = "solana" /\ call[r].adhoc =>
                 current[r].address \in Base58)
<1>. DEFINE Intact == \A r \in Request :
               current[r] # None /\ current[r].chain = "solana" /\ call[r].adhoc =>
                 current[r].address \in Base58
            Kept == \A r \in Request : AsWritten(r) /\ CurrentFits(r)
<1>1. Init => Kept
  BY DEF Init, AsWritten, CurrentFits
<1>2. IInv /\ Kept /\ [Next]_vars => Kept'
  BY WrittenStep, CurrentStep DEF IInv
<1>3. ASSUME IInv, Kept, NEW r \in Request,
             current[r] # None, current[r].chain = "solana", call[r].adhoc
      PROVE  current[r].address \in Base58
  <2>1. pc[r] \in {"analyzing", "notify"}
    BY <1>3 DEF CurrentFits
  <2>2. current[r] \in targets[r] /\ call[r] # None /\ call[r].kind = "scan"
    BY <1>3, <2>1 DEF IInv, ScanBooks, InAnalysis, Scanning, KindsFit
  <2>. QED
    BY <1>3, <2>2 DEF AsWritten
<1>4. IInv /\ Kept => Intact
  BY <1>3
<1>. QED
  BY <1>1, <1>2, <1>4, Invariance, PTL DEF Spec
==============================================================================

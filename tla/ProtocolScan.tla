----------------------------- MODULE ProtocolScan ----------------------------
(***************************************************************************)
(* The protocol endpoints of the contract monitor (backend/app/main.py):   *)
(* registering the contracts of a protocol by hand, importing them from    *)
(* CoinMarketCap, and scanning them on the chains that have an adapter;    *)
(* with the tables protocol_contracts, contracts and scans they share.     *)
(*                                                                         *)
(* Registration and import are plain functions, which FastAPI runs in its  *)
(* thread pool: they interleave at every SQL transaction.  A protocol scan *)
(* is a coroutine on the event loop: another task runs only while it       *)
(* awaits an analysis.                                                     *)
(***************************************************************************)
EXTENDS ProtocolDiscovery

CONSTANTS
  Address,      \* addresses as clients write them
  Lower,        \* Lower[a]: str.lower of a
  Base58,       \* the addresses that look like Solana's
  Adapter,      \* the chains of build_all_chain_adapters
  Protocol,     \* protocol names, validated
  MaxContracts, \* settings.protocol_scan_max_contracts
  Limit,        \* the parameter limit of an import
  Request,      \* requests to the endpoints, one call each
  Call,         \* the calls a client may make
  Reply,        \* the answers CoinMarketCap may give
  MaxFaults,    \* bound: errors raised by SQLite or an adapter
  MaxCrashes    \* bound: crashes of the process

ChainName == Chain \cup {"unknown"}

\* A chain and an address: a row of protocol_contracts under its protocol, a
\* primary key of contracts and of scans, an element of targets.
Target == [chain : ChainName, address : Address]

\* A call; adhoc tells whether the payload has addresses.
CallType == [kind : {"register", "import", "scan"}, protocol : Protocol,
             chain : ChainName \cup {"all"}, adhoc : BOOLEAN,
             addresses : SUBSET Address]

ASSUME AddressAssumption ==
  /\ EvmAddress \subseteq Address
  /\ Lower \in [Address -> Address]
  /\ \A a \in Address : Lower[Lower[a]] = Lower[a]
  /\ \A a \in EvmAddress : Lower[a] = a
  /\ Base58 \subseteq Address
  /\ \A a \in Base58 : Lower[a] \notin EvmAddress
ASSUME AdapterAssumption == Adapter \subseteq Chain /\ "solana" \in Adapter
ASSUME CallAssumption == Call \subseteq CallType
ASSUME ReplyAssumption  == Reply \subseteq SUBSET Object
ASSUME BoundsAssumption ==
  MaxContracts \in Nat /\ Limit \in Nat /\ MaxFaults \in Nat /\ MaxCrashes \in Nat
ASSUME NoneAssumption   == None \notin Call \cup Target

VARIABLES
  registry,   \* registry[p]: the rows of protocol_contracts of p
  contracts,  \* the keys of the table contracts
  scans,      \* the keys of the table scans
  pc,         \* where each request stands
  call,       \* its call, or None before
  targets,    \* the entries it registers or the targets it scans
  todo,       \* those not yet visited
  added,      \* the rows its inserts created, counted in inserted
  tracked,    \* what its closing list_protocol_contracts returned
  current,    \* the target under analysis, or None
  scanned,    \* the targets stored, alerted and in its results
  skipped,    \* the targets in its skipped
  before,     \* history: the requests answered with 200 before it began
  faults, crashes

tables == <<registry, contracts, scans>>
locals == <<pc, call, targets, todo, added, tracked, current, scanned, skipped, before>>
vars == <<tables, locals, faults, crashes>>

Init ==
  /\ registry = [p \in Protocol |-> {}]
  /\ contracts = {}
  /\ scans = {}
  /\ pc = [r \in Request |-> "new"]
  /\ call = [r \in Request |-> None]
  /\ targets = [r \in Request |-> {}]
  /\ todo = [r \in Request |-> {}]
  /\ added = [r \in Request |-> {}]
  /\ tracked = [r \in Request |-> {}]
  /\ current = [r \in Request |-> None]
  /\ scanned = [r \in Request |-> {}]
  /\ skipped = [r \in Request |-> {}]
  /\ before = [r \in Request |-> {}]
  /\ faults = 0
  /\ crashes = 0

------------------------------------------------------------------------------
\* Validation.

\* _normalize_addresses_for_chain: which addresses a chain takes, and how.
Valid(a, chain) == IF chain = "solana" THEN a \in Base58 ELSE Lower[a] \in EvmAddress
Normalized(addresses, chain) ==
  [chain : {chain}, address : IF chain = "solana" THEN addresses
                              ELSE {Lower[a] : a \in addresses}]

\* Mutant: the chain is not looked up in chain_adapters.
AnyChain(chain) == chain # "all"
\* _chain_adapter_or_400; "all" has no adapter.
ChainAdapterOr400(chain) == chain \in Adapter

\* Addresses given in a call are for one chain that has an adapter.
InputOk(c) ==
  /\ ChainAdapterOr400(c.chain)
  /\ \A a \in c.addresses : Valid(a, c.chain)

WithinLimit(entries) == entries # {} /\ Cardinality(entries) <= MaxContracts

------------------------------------------------------------------------------
\* Storage.

LowerKey(t) == [t EXCEPT !.address = Lower[@]]

\* Mutant: rows that were there count as inserted.
InsertCountsAll(r, rows) ==
  LET p == call'[r].protocol IN
  /\ registry' = [registry EXCEPT ![p] = @ \cup rows]
  /\ added' = [added EXCEPT ![r] = @ \cup rows]

\* INSERT OR IGNORE of rows of a protocol; rowcount tells the new ones.
Insert(r, rows) ==
  LET p == call'[r].protocol IN
  /\ registry' = [registry EXCEPT ![p] = @ \cup rows]
  /\ added' = [added EXCEPT ![r] = @ \cup (rows \ registry[p])]

\* list_protocol_contracts.  Mutant: no chain means ethereum.
ListOfOneChain(p, chain) ==
  {t \in registry[p] : t.chain = IF chain = "all" THEN "ethereum" ELSE chain}
ListProtocolContracts(p, chain) ==
  {t \in registry[p] : chain = "all" \/ t.chain = chain}

\* add_contract.  Mutant: the address is stored as it is.
AddContractRaw(t) == contracts' = contracts \cup {t}
AddContract(t) == contracts' = contracts \cup {LowerKey(t)}

\* upsert_scan.  Mutant: the address is stored as it is.
UpsertScanRaw(t) == scans' = scans \cup {t}
UpsertScan(t) == scans' = scans \cup {LowerKey(t)}

------------------------------------------------------------------------------
\* Helpers on requests.

Goto(r, where) == pc' = [pc EXCEPT ![r] = where]

\* A request begins with call c.
Begin(r, c) ==
  /\ pc[r] = "new"
  /\ call' = [call EXCEPT ![r] = c]
  /\ before' = [before EXCEPT ![r] = {q \in Request : pc[q] = "done"}]

\* It works on the entries or targets ts from here on.
Take(r, ts) ==
  /\ targets' = [targets EXCEPT ![r] = ts]
  /\ todo' = [todo EXCEPT ![r] = ts]

\* A scan that stands there keeps the event loop.
EventLoopFree == \A r \in Request : pc[r] \notin {"loop", "notify"}

------------------------------------------------------------------------------
\* POST /api/protocols/{name}/contracts: validate, then insert all addresses in
\* one transaction.
Register(r, c) ==
  /\ c.kind = "register"
  /\ Begin(r, c)
  /\ LET entries == Normalized(c.addresses, c.chain)
         rows == {LowerKey(e) : e \in entries}
     IN IF InputOk(c) /\ WithinLimit(entries)
          THEN /\ targets' = [targets EXCEPT ![r] = rows]
               /\ Insert(r, rows)
               /\ Goto(r, "count")
          ELSE /\ Goto(r, "failed")
               /\ UNCHANGED <<targets, registry, added>>
  /\ UNCHANGED <<contracts, scans, todo, tracked, current, scanned, skipped, faults, crashes>>

\* POST .../contracts/import-coinmarketcap: ask CoinMarketCap, ...
Import(r, c) ==
  /\ c.kind = "import"
  /\ Begin(r, c)
  /\ Goto(r, "search")
  /\ UNCHANGED <<tables, targets, todo, added, tracked, current, scanned, skipped, faults, crashes>>

\* ... look at what it answers, ...
SearchAnswered(r) ==
  /\ pc[r] = "search"
  /\ \E objects \in Reply :
       \E kept \in SearchDefiProtocols(objects, Limit, call[r].chain) :
         LET entries == DiscoveredEntries(objects, kept, call[r].chain) IN
         IF WithinLimit(entries)
           THEN Take(r, entries) /\ Goto(r, "insert")
           ELSE Goto(r, "failed") /\ UNCHANGED <<targets, todo>>
  /\ UNCHANGED <<tables, call, added, tracked, current, scanned, skipped, before, faults, crashes>>

SearchFailed(r) ==
  /\ pc[r] = "search"
  /\ Goto(r, "failed")
  /\ UNCHANGED <<tables, call, targets, todo, added, tracked, current, scanned, skipped,
                 before, faults, crashes>>

\* Where a loop goes on after one entry.  Mutant: it ends where nothing changed.
StopAtKnown(r, e) == IF todo[r] = {e} \/ e \in registry[call[r].protocol] THEN "count" ELSE "insert"
AfterInsert(r, e) == IF todo[r] = {e} THEN "count" ELSE "insert"

\* ... and insert the entries one by one, each in a transaction of its own.
\* (They are sorted; names have no order here.)
InsertEntry(r, e) ==
  /\ pc[r] = "insert"
  /\ e \in todo[r]
  /\ UNCHANGED call
  /\ Insert(r, {LowerKey(e)})
  /\ todo' = [todo EXCEPT ![r] = @ \ {e}]
  /\ Goto(r, AfterInsert(r, e))
  /\ UNCHANGED <<contracts, scans, targets, tracked, current, scanned, skipped, before,
                 faults, crashes>>

\* Both list what is tracked now, for the response.
CountTracked(r) ==
  /\ pc[r] = "count"
  /\ tracked' = [tracked EXCEPT ![r] =
       ListProtocolContracts(call[r].protocol, call[r].chain)]
  /\ Goto(r, "done")
  /\ UNCHANGED <<tables, call, targets, todo, added, current, scanned, skipped, before,
                 faults, crashes>>

------------------------------------------------------------------------------
\* POST /api/protocols/{name}/scan: the registered contracts, or those given.
Scan(r, c) ==
  /\ c.kind = "scan"
  /\ EventLoopFree
  /\ Begin(r, c)
  /\ LET ts == IF c.adhoc THEN Normalized(c.addresses, c.chain)
               ELSE ListProtocolContracts(c.protocol, c.chain)
     IN IF (c.adhoc => InputOk(c)) /\ WithinLimit(ts)
          THEN Take(r, ts) /\ Goto(r, "loop")
          ELSE Goto(r, "failed") /\ UNCHANGED <<targets, todo>>
  /\ UNCHANGED <<tables, added, tracked, current, scanned, skipped, faults, crashes>>

\* The loop variable takes the value t.  Mutant: break instead of continue.
VisitLast(r, t) == todo' = [todo EXCEPT ![r] = {}]
Visit(r, t) == todo' = [todo EXCEPT ![r] = @ \ {t}]

\* A target whose chain has no adapter.
SkipTarget(r, t) ==
  /\ pc[r] = "loop"
  /\ t \in todo[r]
  /\ t.chain \notin Adapter
  /\ Visit(r, t)
  /\ skipped' = [skipped EXCEPT ![r] = @ \cup {t}]
  /\ UNCHANGED <<tables, pc, call, targets, added, tracked, current, scanned, before,
                 faults, crashes>>

\* A target whose chain has one: add its contract, await its analysis.
ScanTarget(r, t) ==
  /\ pc[r] = "loop"
  /\ t \in todo[r]
  /\ t.chain \in Adapter
  /\ Visit(r, t)
  /\ AddContract(t)
  /\ current' = [current EXCEPT ![r] = t]
  /\ Goto(r, "analyzing")
  /\ UNCHANGED <<registry, scans, call, targets, added, tracked, scanned, skipped, before,
                 faults, crashes>>

\* The analysis returned: store its result, ...
StoreResult(r) ==
  /\ pc[r] = "analyzing"
  /\ EventLoopFree
  /\ UpsertScan(current[r])
  /\ Goto(r, "notify")
  /\ UNCHANGED <<registry, contracts, call, targets, todo, added, tracked, current, scanned,
                 skipped, before, faults, crashes>>

\* ... alert, and append it to the results.
Notify(r) ==
  /\ pc[r] = "notify"
  /\ scanned' = [scanned EXCEPT ![r] = @ \cup {current[r]}]
  /\ current' = [current EXCEPT ![r] = None]
  /\ Goto(r, "loop")
  /\ UNCHANGED <<tables, call, targets, todo, added, tracked, skipped, before, faults, crashes>>

ScanDone(r) ==
  /\ pc[r] = "loop"
  /\ todo[r] = {}
  /\ Goto(r, "done")
  /\ UNCHANGED <<tables, call, targets, todo, added, tracked, current, scanned, skipped,
                 before, faults, crashes>>

------------------------------------------------------------------------------
\* SQLite raises in the first access of a request to it: nothing is changed.
BeginRaises(r, c) ==
  /\ c.kind = "scan" => EventLoopFree
  /\ Begin(r, c)
  /\ faults < MaxFaults
  /\ faults' = faults + 1
  /\ Goto(r, "failed")
  /\ UNCHANGED <<tables, targets, todo, added, tracked, current, scanned, skipped, crashes>>

\* SQLite or an adapter raises later: status 500; what was committed stays.
Raises(r) ==
  /\ \/ pc[r] \in {"insert", "count"}
     \/ pc[r] = "loop" /\ todo[r] # {}
     \/ pc[r] = "analyzing" /\ EventLoopFree
  /\ faults < MaxFaults
  /\ faults' = faults + 1
  /\ Goto(r, "failed")
  /\ todo' = [todo EXCEPT ![r] = {}]
  /\ current' = [current EXCEPT ![r] = None]
  /\ UNCHANGED <<tables, call, targets, added, tracked, scanned, skipped, before, crashes>>

\* The process goes down and comes up again; requests in flight are gone.
Crash ==
  /\ crashes < MaxCrashes
  /\ crashes' = crashes + 1
  /\ pc' = [r \in Request |-> IF pc[r] \in {"new", "done"} THEN pc[r] ELSE "failed"]
  /\ todo' = [r \in Request |-> {}]
  /\ current' = [r \in Request |-> None]
  /\ UNCHANGED <<tables, call, targets, added, tracked, scanned, skipped, before, faults>>

Next ==
  \/ \E r \in Request :
       \/ \E c \in Call : Register(r, c) \/ Import(r, c) \/ Scan(r, c) \/ BeginRaises(r, c)
       \/ SearchAnswered(r)
       \/ SearchFailed(r)
       \/ \E e \in todo[r] : InsertEntry(r, e) \/ SkipTarget(r, e) \/ ScanTarget(r, e)
       \/ CountTracked(r)
       \/ StoreResult(r)
       \/ Notify(r)
       \/ ScanDone(r)
       \/ Raises(r)
  \/ Crash

Spec == Init /\ [][Next]_vars

------------------------------------------------------------------------------
\* Properties.

RequestPc == {"new", "search", "insert", "count", "loop", "analyzing", "notify", "done", "failed"}
Registers == {"register", "import"}

\* Every variable keeps its type; in particular the tables hold addresses in
\* lower case only.
LowerTarget == {t \in Target : Lower[t.address] = t.address}
TypeOK ==
  /\ registry \in [Protocol -> SUBSET LowerTarget]
  /\ contracts \in SUBSET LowerTarget
  /\ scans \in SUBSET LowerTarget
  /\ pc \in [Request -> RequestPc]
  /\ call \in [Request -> Call \cup {None}]
  /\ targets \in [Request -> SUBSET Target]
  /\ todo \in [Request -> SUBSET Target]
  /\ added \in [Request -> SUBSET LowerTarget]
  /\ tracked \in [Request -> SUBSET LowerTarget]
  /\ current \in [Request -> Target \cup {None}]
  /\ scanned \in [Request -> SUBSET Target]
  /\ skipped \in [Request -> SUBSET Target]
  /\ before \in [Request -> SUBSET Request]
  /\ faults \in Nat /\ crashes \in Nat

Of(r, p) == call[r] # None /\ call[r].protocol = p

\* Every registered row was counted as added_now by exactly one request
\* (storage.py:416-427), also when two requests register the same contract at
\* once and when an import fails half-way.
EachRowAddedOnce ==
  \A p \in Protocol :
    /\ \A t \in registry[p] : \E r \in Request : Of(r, p) /\ t \in added[r]
    /\ \A r \in Request : Of(r, p) => added[r] \subseteq registry[p]
    /\ \A r, q \in Request : r # q /\ Of(r, p) /\ Of(q, p) => added[r] \cap added[q] = {}

\* A scan row has its contract row on the same chain (main.py:625-631), however
\* the address was written, so that the join of list_recent_scans hides none.
ScanHasContract == scans \subseteq contracts

\* What DiscoveryLedger promises of contracts and scans, here without blocks and
\* a cursor: what is claimed or scanned stays so, and nothing is scanned that is
\* not claimed under the same key (main.py:625-631).
Ledger == INSTANCE DiscoveryLedger WITH
  Address   <- Target,
  MaxHeight <- 0,
  Created   <- [b \in {0} |-> {}],
  cursor    <- None,
  claimed   <- contracts,
  scanned   <- scans
LedgerSpec == Ledger!Spec

\* The chain filter of call c lets t pass.
Selects(c, t) == c.chain \in {"all", t.chain}

\* A registration or import that answers 200 has registered everything it was
\* given or found, and lists it as far as its chain filter goes (main.py:511-530,
\* 558-566), whatever other requests did meanwhile.
RegistrationComplete ==
  \A r \in Request : pc[r] = "done" /\ call[r].kind \in Registers =>
    /\ targets[r] \subseteq registry[call[r].protocol]
    /\ \A t \in targets[r] : Selects(call[r], t) => t \in tracked[r]

\* A target that no adapter takes: one on a chain without adapter, or an
\* 0x-address under Solana.
Misfit(t) == t.chain \notin Adapter \/ (t.chain = "solana" /\ t.address \in EvmAddress)

\* An import of protocol p added t.
Imported(t, p) ==
  \E q \in Request : /\ call[q] # None /\ call[q].kind = "import" /\ call[q].protocol = p
                    /\ t \in added[q]

\* Only an import brings in what a later scan skips or asks the wrong adapter for
\* (main.py:465-490, 538-545, 577-586, 606-623): registrations by hand and addresses given
\* to a scan are checked against the adapters, hints in a CoinMarketCap answer
\* are not.  (What lower-casing does to Solana's own is SolanaAddressIntact's.)
MisfitsImported ==
  \A r \in Request : call[r] # None /\ call[r].kind = "scan" =>
    \A t \in targets[r] : Misfit(t) => Imported(t, call[r].protocol)

\* A scan that answers 200 has accounted for every target (main.py:603-637):
\* skipped if and only if there is no adapter for its chain, else with a result
\* in the table.
ScanComplete ==
  \A r \in Request : pc[r] = "done" /\ call[r].kind = "scan" =>
    /\ targets[r] = scanned[r] \cup skipped[r]
    /\ skipped[r] = {t \in targets[r] : t.chain \notin Adapter}
    /\ \A t \in scanned[r] : LowerKey(t) \in scans

\* The workflow of the README (register or import, then scan the protocol): the
\* scan covers all that earlier requests registered and its filter selects.
RegisteredThenScanned ==
  \A r, q \in Request :
    /\ pc[r] = "done" /\ call[r].kind = "scan" /\ ~call[r].adhoc
    /\ q \in before[r] /\ call[q].kind \in Registers
    /\ call[q].protocol = call[r].protocol
    => \A t \in targets[q] : Selects(call[r], t) => t \in scanned[r] \cup skipped[r]

------------------------------------------------------------------------------
\* The inductive invariant.

Scanning == {"loop", "analyzing", "notify"}

\* A request that has not begun has nothing; later its kind fits its place.
KindsFit ==
  \A r \in Request :
    /\ pc[r] = "new" => /\ call[r] = None
                        /\ targets[r] = {} /\ added[r] = {} /\ scanned[r] = {} /\ skipped[r] = {}
    /\ pc[r] # "new" => call[r] # None
    /\ pc[r] \in {"search", "insert"} => call[r].kind = "import"
    /\ pc[r] = "count" => call[r].kind \in Registers
    /\ pc[r] \in Scanning => call[r].kind = "scan"

\* What a registration or import has behind it is registered, and its entries
\* are in lower case.
InsertsKept ==
  \A r \in Request : call[r] # None /\ call[r].kind \in Registers =>
    /\ targets[r] \subseteq LowerTarget
    /\ pc[r] = "insert" => targets[r] \ todo[r] \subseteq registry[call[r].protocol]
    /\ pc[r] \in {"count", "done"} => targets[r] \subseteq registry[call[r].protocol]

\* No misfit is added by hand.
OthersAddNone ==
  \A r \in Request : call[r] # None /\ call[r].kind # "import" =>
    \A t \in added[r] : ~Misfit(t)

\* The target under analysis of request r, as a set.
InAnalysis(r) == IF pc[r] \in {"analyzing", "notify"} THEN {current[r]} ELSE {}

\* A scan has its targets ahead, under analysis, in its results or skipped, and
\* the tables know those it has been at.
ScanBooks ==
  \A r \in Request :
    /\ pc[r] \in {"analyzing", "notify"} =>
         /\ current[r] \in Target /\ current[r].chain \in Adapter
         /\ LowerKey(current[r]) \in contracts
    /\ pc[r] = "notify" => LowerKey(current[r]) \in scans
    /\ pc[r] \in Scanning =>
         /\ targets[r] = todo[r] \cup InAnalysis(r) \cup scanned[r] \cup skipped[r]
         /\ \A t \in scanned[r] : t.chain \in Adapter /\ LowerKey(t) \in scans
         /\ \A t \in skipped[r] : t.chain \notin Adapter

\* A scan of a protocol has seen what earlier requests registered.
SeenBefore ==
  \A r, q \in Request : q \in before[r] =>
    /\ pc[q] = "done"
    /\ /\ pc[r] \in Scanning \cup {"done"} /\ call[r].kind = "scan" /\ ~call[r].adhoc
       /\ call[q].kind \in Registers /\ call[q].protocol = call[r].protocol
       => \A t \in targets[q] : Selects(call[r], t) => t \in targets[r]

IInv ==
  /\ TypeOK
  /\ KindsFit
  /\ InsertsKept
  /\ ScanBooks
  /\ SeenBefore
  /\ EachRowAddedOnce
  /\ ScanHasContract
  /\ RegistrationComplete
  /\ OthersAddNone
  /\ MisfitsImported
  /\ ScanComplete

------------------------------------------------------------------------------
\* What the documentation says and the code does not do.

\* copilot-instructions.md:40, "Address validation is chain-specific [...]
\* Solana = base58": a Solana adapter is asked for an address as a client wrote
\* it, base58 being case-sensitive.
SolanaAddressIntact ==
  \A r \in Request : current[r] # None /\ current[r].chain = "solana" =>
    current[r].address \in Base58
==============================================================================

----------------------------- MODULE ScannerLoop -----------------------------
(***************************************************************************)
(* The background scanner of the contract monitor (backend/app/main.py,    *)
(* scanner_loop) with everything it touches: the block watcher, the tables *)
(* contracts and scans and the block cursor kept in SQLite, the notifier,  *)
(* the manual rescan requests that run on the same asyncio event loop, and *)
(* crashes, shutdowns and restarts of the process.                         *)
(*                                                                         *)
(* Granularity.  asyncio switches tasks only at an await, so a task keeps  *)
(* the event loop from one await to the next.  A step of the model ends at *)
(* an await or, inside such a segment, after one committed SQL statement   *)
(* or one sent alert: a crash may fall between two of those, another task  *)
(* may not (EventLoopFree).                                                *)
(***************************************************************************)
EXTENDS Integers, FiniteSets

CONSTANTS
  Address,      \* contract addresses on ethereum, as Storage lower-cases them
  MaxHeight,    \* bound: the highest block the chain grows to
  Txs,          \* Txs[b]: the transactions of block b, with their receipts
  StartBlock,   \* what settings.start_block may be when a process starts; None
                \* if it is not set
  FloatMaxExp,  \* least n for which the int 2**n overflows a float (1024)
  Request,      \* calls of POST /api/rescan/{address}, one each
  MaxFaults,    \* bound: errors raised by RPC, SQLite or analysis, stale nodes
  MaxCrashes,   \* bound: crashes of the process
  MaxStops,     \* bound: orderly shutdowns
  None

Block == 0 .. MaxHeight

\* A contract as the watcher reports it (DiscoveredContract).
Contract == [address : Address, block : Block]

\* A transaction with its receipt: who it is sent to and what it created.
Tx == [to : Address \cup {None}, contractAddress : Address \cup {None}]

ASSUME MaxHeightAssumption == MaxHeight \in Nat
ASSUME TxsAssumption       == Txs \in [Block -> SUBSET Tx]
ASSUME StartAssumption     == StartBlock \subseteq Nat \cup {None}
ASSUME FloatAssumption     == FloatMaxExp \in Nat
ASSUME BoundsAssumption    == /\ MaxFaults \in Nat
                              /\ MaxCrashes \in Nat
                              /\ MaxStops \in Nat
ASSUME RequestAssumption   == IsFiniteSet(Request)
ASSUME NoneAssumption      == None \notin Int \cup Address \cup Contract

VARIABLES
  \* the chain
  height,         \* newest block of the chain
  \* SQLite, survives the process
  contracts,      \* contracts[a]: block_number of the row of a, or None
  scans,          \* scans[a]: block_number of the row of a, or None
  lastDisk,       \* metadata row last_processed_block, or None
  \* the scanner task
  pc,             \* where scanner_loop stands
  lastProcessed,  \* its variable last_processed
  latest,         \* its variable latest
  batch,          \* the part of created_contracts not yet visited
  current,        \* the contract under analysis, or None
  rpcErrors,      \* its variable consecutive_rpc_errors
  \* the process
  stopEvent,      \* stop_event.is_set()
  reqPc,          \* where each rescan request stands
  reqAddr,        \* the address of each rescan request
  \* history
  origin,         \* the cursor monitoring started from
  analyses,       \* analyses[a]: analyses of a started by the scanner
  upserts,        \* scan rows written so far, by anyone
  alerts,         \* calls of notifier.notify_scan so far
  faults, crashes, stops

chainVars   == <<height>>
diskVars    == <<contracts, scans, lastDisk>>
taskVars    == <<pc, lastProcessed, latest, batch, current, rpcErrors>>
requestVars == <<reqPc, reqAddr>>
history     == <<origin, analyses, upserts, alerts>>
budgets     == <<faults, crashes, stops>>
vars == <<chainVars, diskVars, taskVars, stopEvent, requestVars, history, budgets>>

------------------------------------------------------------------------------
\* What the watcher reports.

\* The contracts created in block b: transactions without a recipient whose
\* receipt carries a contract address.
Deployed(b) ==
  {t.contractAddress : t \in {u \in Txs[b] : u.to = None /\ u.contractAddress # None}}

\* Mutant: range(start_block + 1, end_block + 1).
FindSkipsFirstBlock(first, last) ==
  {c \in Contract : first < c.block /\ c.block <= last /\ c.address \in Deployed(c.block)}

\* EthereumWatcher.find_contract_creations(start_block, end_block).
FindContractCreations(first, last) ==
  {c \in Contract : first <= c.block /\ c.block <= last /\ c.address \in Deployed(c.block)}

\* created_contracts lists blocks in ascending order; the order within a block
\* is left open.
NextInBatch == {c \in batch : \A d \in batch : c.block <= d.block}

------------------------------------------------------------------------------
\* The event loop.  Between two awaits a task is in one of these states.

ScannerHoldsLoop == pc \in {"batch", "notify"}
RequestHoldsLoop == \E r \in Request : reqPc[r] = "notify"
EventLoopFree    == ~ScannerHoldsLoop /\ ~RequestHoldsLoop

ProcessUp == pc # "down"

\* Mutant: while True.
LoopTopForever == pc' = "latest"

\* The top of the while loop: leave it if stop_event is set, else ask the RPC
\* node for its newest block.
LoopTop == pc' = IF stopEvent THEN "stopped" ELSE "latest"

\* last_processed when there was no cursor: one block below the newest.
FirstCursorTwoBelow(n) == n - 2     \* mutant
FirstCursor(n) == n - 1

\* The newest block n is not beyond the cursor.
NothingNewUnlessEqual(n, last) == n = last        \* mutant
NothingNewBelowTwo(n, last) == n <= last + 1      \* mutant
NothingNew(n, last) == n <= last

\* Storage.has_contract.  Mutant: it asks the table scans.
HasScan(a) == scans[a] # None
HasContract(a) == contracts[a] # None

\* Mutants of add_contract: INSERT OR REPLACE, and placeholder rows dropped.
ReplaceContract(a, block) == contracts' = [contracts EXCEPT ![a] = block]
AddUnlessPlaceholder(a, block) ==
  contracts' = [contracts EXCEPT ![a] = IF @ = None /\ block # 0 THEN block ELSE @]

\* Storage.add_contract: INSERT OR IGNORE keeps the row that is there.
AddContract(a, block) ==
  contracts' = [contracts EXCEPT ![a] = IF @ = None THEN block ELSE @]

\* Mutant of upsert_scan: UPDATE, which inserts no row.
UpdateScan(a, block) ==
  /\ scans' = [scans EXCEPT ![a] = IF @ = None THEN None ELSE block]
  /\ upserts' = upserts + 1

\* Storage.upsert_scan: the newest result replaces the row.
UpsertScan(a, block) ==
  /\ scans' = [scans EXCEPT ![a] = block]
  /\ upserts' = upserts + 1

\* notifier.notify_scan: one call, and failures of its channels do not show.
NotifyMayRaise == alerts' \in {alerts, alerts + 1}      \* mutant
NotifyScan == alerts' = alerts + 1

Init ==
  /\ height = 0
  /\ contracts = [a \in Address |-> None]
  /\ scans = [a \in Address |-> None]
  /\ lastDisk = None
  /\ pc = "down"
  /\ lastProcessed = None
  /\ latest = None
  /\ batch = {}
  /\ current = None
  /\ rpcErrors = 0
  /\ stopEvent = FALSE
  /\ reqPc = [r \in Request |-> "new"]
  /\ reqAddr = [r \in Request |-> None]
  /\ origin = None
  /\ analyses = [a \in Address |-> 0]
  /\ upserts = 0
  /\ alerts = 0
  /\ faults = 0
  /\ crashes = 0
  /\ stops = 0

------------------------------------------------------------------------------
\* The environment.

\* The chain grows by a block.
Mine ==
  /\ height < MaxHeight
  /\ height' = height + 1
  /\ UNCHANGED <<diskVars, taskVars, stopEvent, requestVars, history, budgets>>

------------------------------------------------------------------------------
\* The scanner task.

\* The process starts, and with it the scanner task: it reads the cursor from
\* SQLite; on an empty database a configured START_BLOCK becomes the cursor
\* and is stored.
Boot ==
  /\ pc = "down"
  /\ LoopTop
  /\ \E startBlock \in StartBlock :
       IF lastDisk = None /\ startBlock # None
         THEN /\ lastProcessed' = startBlock
              /\ lastDisk' = startBlock
              /\ origin' = startBlock
         ELSE /\ lastProcessed' = lastDisk
              /\ UNCHANGED <<lastDisk, origin>>
  /\ UNCHANGED <<chainVars, contracts, scans, latest, batch, current, rpcErrors,
                 stopEvent, requestVars, analyses, upserts, alerts, budgets>>

\* SQLite fails in the prologue of scanner_loop, which no try protects: the
\* task ends, the web application does not notice.
BootFails ==
  /\ pc = "down"
  /\ faults < MaxFaults
  /\ faults' = faults + 1
  /\ pc' = "dead"
  /\ UNCHANGED <<chainVars, diskVars, lastProcessed, latest, batch, current, rpcErrors,
                 stopEvent, requestVars, history, crashes, stops>>

\* A sleep (polling interval or backoff) is over.
Wake ==
  /\ pc \in {"sleep", "backoff"}
  /\ EventLoopFree
  /\ LoopTop
  /\ UNCHANGED <<chainVars, diskVars, lastProcessed, latest, batch, current, rpcErrors,
                 stopEvent, requestVars, history, budgets>>

\* latest_block_number returned n.  The first answer ever fixes the cursor one
\* block below it.  Nothing new: reset the error count and sleep.  Otherwise
\* ask for the contracts of the new blocks.
LatestAnswer(n) ==
  /\ pc = "latest"
  /\ EventLoopFree
  /\ LET last == IF lastProcessed = None THEN FirstCursor(n) ELSE lastProcessed IN
       /\ lastProcessed' = last
       /\ IF lastProcessed = None
            THEN lastDisk' = last /\ origin' = last
            ELSE UNCHANGED <<lastDisk, origin>>
       /\ IF NothingNew(n, last)
            THEN /\ pc' = "sleep"
                 /\ rpcErrors' = 0
                 /\ UNCHANGED latest
            ELSE /\ pc' = "find"
                 /\ latest' = n
                 /\ UNCHANGED rpcErrors
  /\ UNCHANGED <<chainVars, contracts, scans, batch, current, stopEvent,
                 requestVars, analyses, upserts, alerts>>

\* An answer from a node that has the whole chain, and one from a node that is
\* behind (load-balanced RPC endpoints); the latter counts as a fault.
LatestFresh ==
  /\ LatestAnswer(height)
  /\ UNCHANGED budgets

LatestStale ==
  /\ faults < MaxFaults
  /\ faults' = faults + 1
  /\ \E n \in Block : n < height /\ LatestAnswer(n)
  /\ UNCHANGED <<crashes, stops>>

\* find_contract_creations returned for the blocks last_processed+1 .. latest.
FindAnswer ==
  /\ pc = "find"
  /\ EventLoopFree
  /\ batch' = FindContractCreations(lastProcessed + 1, latest)
  /\ pc' = "batch"
  /\ UNCHANGED <<chainVars, diskVars, lastProcessed, latest, current, rpcErrors,
                 stopEvent, requestVars, history, budgets>>

\* storage.has_contract: the row is there, on to the next contract.
SkipKnown(c) ==
  /\ pc = "batch"
  /\ c \in NextInBatch
  /\ HasContract(c.address)
  /\ batch' = batch \ {c}
  /\ UNCHANGED <<chainVars, diskVars, pc, lastProcessed, latest, current, rpcErrors,
                 stopEvent, requestVars, history, budgets>>

\* A new contract: store it, then await its analysis.
ClaimAndAnalyze(c) ==
  /\ pc = "batch"
  /\ c \in NextInBatch
  /\ ~HasContract(c.address)
  /\ AddContract(c.address, c.block)
  /\ batch' = batch \ {c}
  /\ current' = c
  /\ analyses' = [analyses EXCEPT ![c.address] = @ + 1]
  /\ pc' = "analyzing"
  /\ UNCHANGED <<chainVars, scans, lastDisk, lastProcessed, latest, rpcErrors, stopEvent,
                 requestVars, origin, upserts, alerts, budgets>>

\* The analysis returned: its result replaces the scan row.
StoreScan ==
  /\ pc = "analyzing"
  /\ EventLoopFree
  /\ UpsertScan(current.address, current.block)
  /\ pc' = "notify"
  /\ UNCHANGED <<chainVars, contracts, lastDisk, lastProcessed, latest, batch, current,
                 rpcErrors, stopEvent, requestVars, origin, analyses, alerts, budgets>>

\* Webhook and Telegram; their failures are swallowed by the notifier.
SendAlert ==
  /\ pc = "notify"
  /\ NotifyScan
  /\ current' = None
  /\ pc' = "batch"
  /\ UNCHANGED <<chainVars, diskVars, lastProcessed, latest, batch, rpcErrors, stopEvent,
                 requestVars, origin, analyses, upserts, budgets>>

\* The for loop is done: the cursor moves to latest in memory and on disk.
AdvanceCursor ==
  /\ pc = "batch"
  /\ batch = {}
  /\ lastProcessed' = latest
  /\ lastDisk' = latest
  /\ rpcErrors' = 0
  /\ pc' = "sleep"
  /\ UNCHANGED <<chainVars, contracts, scans, latest, batch, current, stopEvent,
                 requestVars, history, budgets>>

------------------------------------------------------------------------------
\* Errors inside the try block of the loop.

\* The except branch.  A retryable error backs off for
\* min(max, base * 2 ** (consecutive_rpc_errors - 1)) seconds; the conversion
\* of that int to a float overflows from FloatMaxExp on, and the OverflowError,
\* raised by the handler itself, ends the task.  Any other error is logged.
\* Either way what the iteration had found is dropped.
DelayOverflows(exponent) == exponent >= FloatMaxExp

HandleError(retryable) ==
  /\ IF retryable
       THEN /\ rpcErrors' = rpcErrors + 1
            /\ pc' = IF DelayOverflows(rpcErrors) THEN "dead" ELSE "backoff"
       ELSE /\ pc' = "sleep"
            /\ UNCHANGED rpcErrors
  /\ batch' = {}
  /\ current' = None
  /\ faults < MaxFaults
  /\ faults' = faults + 1

\* The RPC node, the analysis, or a read or write of SQLite raises, before the
\* step at hand changed anything.  No SQLite error counts as retryable.
StepRaises(retryable) ==
  /\ \/ pc \in {"latest", "find", "analyzing"} /\ EventLoopFree
     \/ pc = "batch" /\ batch # {} /\ ~retryable
  /\ HandleError(retryable)
  /\ UNCHANGED <<chainVars, diskVars, lastProcessed, latest, stopEvent, requestVars,
                 history, crashes, stops>>

\* set_last_processed_block raises: last_processed was assigned just before,
\* so memory is ahead of the database.
FirstCursorNotStored ==
  /\ pc = "latest"
  /\ EventLoopFree
  /\ lastProcessed = None
  /\ lastProcessed' = FirstCursor(height)
  /\ origin' = FirstCursor(height)
  /\ HandleError(FALSE)
  /\ UNCHANGED <<chainVars, diskVars, latest, stopEvent, requestVars, analyses, upserts,
                 alerts, crashes, stops>>

CursorNotStored ==
  /\ pc = "batch"
  /\ batch = {}
  /\ lastProcessed' = latest
  /\ HandleError(FALSE)
  /\ UNCHANGED <<chainVars, diskVars, latest, stopEvent, requestVars, history,
                 crashes, stops>>

------------------------------------------------------------------------------
\* POST /api/rescan/{address}, a coroutine on the same event loop.

\* The row is added with the placeholder block 0, then the analysis awaited.
StartRescan(r, a) ==
  /\ reqPc[r] = "new"
  /\ ProcessUp /\ ~stopEvent
  /\ EventLoopFree
  /\ AddContract(a, 0)
  /\ reqPc' = [reqPc EXCEPT ![r] = "analyzing"]
  /\ reqAddr' = [reqAddr EXCEPT ![r] = a]
  /\ UNCHANGED <<chainVars, scans, lastDisk, taskVars, stopEvent, history, budgets>>

StoreRescan(r) ==
  /\ reqPc[r] = "analyzing"
  /\ EventLoopFree
  /\ UpsertScan(reqAddr[r], 0)
  /\ reqPc' = [reqPc EXCEPT ![r] = "notify"]
  /\ UNCHANGED <<chainVars, contracts, lastDisk, taskVars, stopEvent, reqAddr, origin,
                 analyses, alerts, budgets>>

AlertRescan(r) ==
  /\ reqPc[r] = "notify"
  /\ NotifyScan
  /\ reqPc' = [reqPc EXCEPT ![r] = "done"]
  /\ UNCHANGED <<chainVars, diskVars, taskVars, stopEvent, reqAddr, origin, analyses,
                 upserts, budgets>>

\* The analysis or a write raises: the client gets status 500.
RescanFails(r) ==
  /\ reqPc[r] = "analyzing"
  /\ EventLoopFree
  /\ faults < MaxFaults
  /\ faults' = faults + 1
  /\ reqPc' = [reqPc EXCEPT ![r] = "done"]
  /\ UNCHANGED <<chainVars, diskVars, taskVars, stopEvent, reqAddr, history, crashes, stops>>

------------------------------------------------------------------------------
\* The process.

\* The memory of the process is gone; requests in flight are cut off.
LoseMemory ==
  /\ pc' = "down"
  /\ lastProcessed' = None
  /\ latest' = None
  /\ batch' = {}
  /\ current' = None
  /\ rpcErrors' = 0
  /\ stopEvent' = FALSE
  /\ reqPc' = [r \in Request |-> IF reqPc[r] = "new" THEN "new" ELSE "done"]

Crash ==
  /\ ProcessUp
  /\ crashes < MaxCrashes
  /\ crashes' = crashes + 1
  /\ LoseMemory
  /\ UNCHANGED <<chainVars, diskVars, reqAddr, history, faults, stops>>

\* An orderly shutdown: uvicorn waits for the requests in flight, then the
\* lifespan sets stop_event and awaits the scanner task ...
Shutdown ==
  /\ ProcessUp /\ ~stopEvent
  /\ stops < MaxStops
  /\ EventLoopFree
  /\ \A r \in Request : reqPc[r] # "analyzing"
  /\ stops' = stops + 1
  /\ stopEvent' = TRUE
  /\ UNCHANGED <<chainVars, diskVars, taskVars, requestVars, history, faults, crashes>>

\* ... and the process ends when the task has returned, or raised.
Exit ==
  /\ stopEvent
  /\ pc \in {"stopped", "dead"}
  /\ LoseMemory
  /\ UNCHANGED <<chainVars, diskVars, reqAddr, history, budgets>>

------------------------------------------------------------------------------
\* The steps of the scanner task that the event loop will get to.
ScannerStep ==
  \/ Wake
  \/ LatestFresh
  \/ FindAnswer
  \/ \E c \in batch : SkipKnown(c) \/ ClaimAndAnalyze(c)
  \/ StoreScan
  \/ SendAlert
  \/ AdvanceCursor

RequestStep(r) == StoreRescan(r) \/ AlertRescan(r)

Fault ==
  \/ BootFails
  \/ LatestStale
  \/ \E retryable \in BOOLEAN : StepRaises(retryable)
  \/ FirstCursorNotStored
  \/ CursorNotStored
  \/ \E r \in Request : RescanFails(r)
  \/ Crash

Next ==
  \/ Mine
  \/ Boot
  \/ ScannerStep
  \/ \E r \in Request : RequestStep(r)
  \/ \E r \in Request, a \in Address : StartRescan(r, a)
  \/ Fault
  \/ Shutdown
  \/ Exit

\* The event loop resumes every task whose await is over, and every await ends:
\* RPC calls, tools and alerts all have timeouts.  Nothing restarts the process,
\* mines blocks or sends requests.
Fairness ==
  /\ WF_vars(ScannerStep)
  /\ WF_vars(Exit)
  /\ \A r \in Request : WF_vars(RequestStep(r))

Spec == Init /\ [][Next]_vars /\ Fairness

------------------------------------------------------------------------------
\* Properties.

Height == -1 .. MaxHeight           \* values of a cursor, START_BLOCK aside
Cursor == Height \cup StartBlock \cup {None}
ScannerPc == {"down", "latest", "find", "batch", "analyzing", "notify", "sleep",
              "backoff", "stopped", "dead"}

\* Every variable keeps its type; a cursor is never below -1, and the error
\* count never passes the one that ends the task.
TypeOK ==
  /\ height \in Block
  /\ contracts \in [Address -> Block \cup {None}]
  /\ scans \in [Address -> Block \cup {None}]
  /\ lastDisk \in Cursor
  /\ lastProcessed \in Cursor
  /\ origin \in Cursor
  /\ pc \in ScannerPc
  /\ latest \in Block \cup {None}
  /\ batch \in SUBSET Contract
  /\ current \in Contract \cup {None}
  /\ rpcErrors \in 0 .. FloatMaxExp + 1
  /\ stopEvent \in BOOLEAN
  /\ reqPc \in [Request -> {"new", "analyzing", "notify", "done"}]
  /\ reqAddr \in [Request -> Address \cup {None}]
  /\ analyses \in [Address -> Nat]
  /\ upserts \in Nat
  /\ alerts \in Nat
  /\ faults \in Nat /\ crashes \in Nat /\ stops \in Nat

\* Every contract created above block first, up to block last, has its row.
Covered(first, last) ==
  \A b \in Block : first < b /\ b <= last => \A a \in Deployed(b) : contracts[a] # None

\* No contract is missed (main.py:246-272): whatever failed, crashed or was
\* retried, every contract created since monitoring started, up to the cursor
\* in the database, is in the table contracts.
NoContractMissed == lastDisk # None => Covered(origin, lastDisk)

\* The stored cursor never goes back and is never lost (main.py:234, 272),
\* whatever blocks stale RPC nodes report.
CursorNeverBack == [][lastDisk # None => lastDisk' # None /\ lastDisk' >= lastDisk]_vars

\* The duplicate filter (main.py:259-263): across retries of a range of blocks
\* and restarts the scanner analyses a contract at most once.
AnalysedAtMostOnce == \A a \in Address : analyses[a] <= 1

\* A scan row has its contract row, so that the join of list_recent_scans
\* (storage.py:293) hides no scan.
ScanHasContract == \A a \in Address : scans[a] # None => contracts[a] # None

\* How a contract was found is written once (storage.py:223): a rescan does not
\* overwrite the block the scanner recorded, nor the other way round.
DiscoveryWrittenOnce ==
  [][\A a \in Address : contracts[a] # None => contracts'[a] = contracts[a]]_vars

\* A scan has been stored whose alert is about to be sent; the task keeps the
\* event loop meanwhile, so there is one at a time.
AlertsPending == IF pc = "notify" \/ RequestHoldsLoop THEN 1 ELSE 0

\* Of the alerts of stored scans (main.py:268-269, 408-409) only those are lost
\* that a crash falls in front of, and no scan is alerted twice.
AlertAccounting ==
  /\ alerts + AlertsPending <= upserts
  /\ upserts <= alerts + crashes + AlertsPending

\* The scanner or a request is analysing a.
UnderAnalysis(a) ==
  \/ pc = "analyzing" /\ current.address = a
  \/ \E r \in Request : reqPc[r] = "analyzing" /\ reqAddr[r] = a

\* Contracts with a row that nothing will scan, for the loop skips what it knows
\* (main.py:259), unless somebody asks for a rescan.
Stranded == {a \in Address : contracts[a] # None /\ scans[a] = None /\ ~UnderAnalysis(a)}

\* What claiming a contract before its analysis (main.py:262-268) can cost: a
\* contract is only stranded by a failure.  An error strands at most one, a
\* crash what was under analysis; neither a shutdown nor a rescan of the same
\* contract at the same time strands any.
OnlyFailuresStrand ==
  Cardinality(Stranded) <= faults + crashes * (1 + Cardinality(Request))

\* A shutdown ends (main.py:320-321): the loop sees stop_event whatever it was
\* doing, and a task that died does not keep the process.
StopTerminates == stopEvent ~> pc = "down"

\* The scanner catches up: in a process that stays up, whose task did not die,
\* the cursor reaches every block that is mined, however often steps of the
\* loop failed.  It is the cursor in memory: after a failed write the one in
\* the database waits for the next block.
CatchesUp ==
  <>[](pc \notin {"down", "dead"} /\ ~stopEvent) =>
    \A b \in Block : height >= b ~> lastProcessed # None /\ lastProcessed >= b

\* The abstract specification: a ledger of claimed and scanned contracts.
Ledger == INSTANCE DiscoveryLedger WITH
  Created <- [b \in Block |-> Deployed(b)],
  cursor  <- lastDisk,
  claimed <- {a \in Address : contracts[a] # None},
  scanned <- {a \in Address : scans[a] # None}

\* The scanner implements the ledger: what is claimed or scanned stays so, and
\* the cursor passes a block only once its contracts are claimed.
LedgerSpec == Ledger!Spec

------------------------------------------------------------------------------
\* The inductive invariant.

\* At most one task runs between two awaits.
OneRunning ==
  /\ ~(ScannerHoldsLoop /\ RequestHoldsLoop)
  /\ \A r, q \in Request : reqPc[r] = "notify" /\ reqPc[q] = "notify" => r = q

\* Shutting down, the process serves no request.
StoppedIsQuiet == stopEvent => \A r \in Request : reqPc[r] \in {"new", "done"}

\* The origin is below both cursors and the stored one is never ahead of the
\* one in memory, which a task that runs has whenever the database has one.
CursorsOrdered ==
  /\ lastDisk # None => origin # None /\ origin <= lastDisk
  /\ lastProcessed # None =>
       /\ origin # None /\ origin <= lastProcessed
       /\ lastDisk # None => lastDisk <= lastProcessed
  /\ pc \notin {"down", "dead"} /\ lastProcessed = None => lastDisk = None
  /\ pc \in {"find", "batch", "analyzing", "notify"} =>
       latest # None /\ lastProcessed # None /\ lastProcessed < latest

\* What the blocks of this iteration created is claimed or still in the batch.
BatchComplete ==
  pc \in {"batch", "analyzing", "notify"} =>
    \A b \in Block : lastProcessed < b /\ b <= latest =>
      \A a \in Deployed(b) : contracts[a] # None \/ [address |-> a, block |-> b] \in batch

\* Both cursors are behind what is covered.
WorkCovered ==
  /\ NoContractMissed
  /\ lastProcessed # None => Covered(origin, lastProcessed)
  /\ BatchComplete

\* Who is being analysed, or has been, is in the table contracts.
AnalysesClaimed ==
  /\ \A a \in Address : analyses[a] > 0 => contracts[a] # None
  /\ pc \in {"analyzing", "notify"} => current # None /\ contracts[current.address] # None
  /\ \A r \in Request : reqPc[r] \in {"analyzing", "notify"} =>
       reqAddr[r] # None /\ contracts[reqAddr[r]] # None

\* A task that lives has not seen the overflow.
ErrorsBounded == pc # "dead" => rpcErrors <= FloatMaxExp

IInv ==
  /\ TypeOK
  /\ OneRunning
  /\ StoppedIsQuiet
  /\ CursorsOrdered
  /\ WorkCovered
  /\ AnalysesClaimed
  /\ ErrorsBounded
  /\ AnalysedAtMostOnce
  /\ ScanHasContract
  /\ AlertAccounting

------------------------------------------------------------------------------
\* What the documentation says and the code does not do.

\* README.md:7, "Automatically runs Mythril, Slither, and Echidna": a contract
\* the cursor has passed was analysed and has its scan.
EveryContractScanned ==
  \A b \in Block : lastDisk # None /\ origin < b /\ b <= lastDisk =>
    \A a \in Deployed(b) : scans[a] # None

\* main.py:172-173, transient failures of the provider are kept "on backoff
\* path": an error inside the loop never ends the task.
ErrorsAreSurvived == [][pc # "down" => (pc' = "dead" => pc = "dead")]_vars
==============================================================================

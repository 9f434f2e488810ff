# The contract monitor in TLA+

This directory holds a verification project for the contract monitor of this
repository (`src/contract-monitor`): a service that watches Ethereum for newly
deployed contracts, runs analysers on them, stores and alerts the results, and
serves them, with profiles from a block explorer and protocol-wide scans, to a
dashboard. The three analysers next to it in the repository (`mythril`,
`slither`, `echidna`) are vendored copies of third-party tools which the monitor
starts as child processes; they are not modelled. Paths below are relative to
`src/contract-monitor/backend/app` unless they say otherwise.

## 1. Inventory

| Component | State it keeps | Operations | Hard behaviour | What makes it correct |
|---|---|---|---|---|
| Block scanner (`main.py` `scanner_loop`, `providers.py`) | `last_processed`, `latest`, the contracts found, the error count; the cursor in SQLite | poll, find creations, analyse, store, alert, advance, back off | errors and crashes at every step, stale RPC nodes, retries of a range, shutdown | no contract missed or analysed twice; the cursor never goes back; it catches up and it stops |
| Rescan endpoint (`main.py` `rescan_address`) | a coroutine per call | add, analyse, store, alert | interleaves with the scanner at the awaits, on the same rows | provenance kept, a scan has its contract |
| Contract and scan tables (`storage.py`) | `contracts`, `scans`, `metadata` | one transaction per call under one lock | crash between two calls | rows consistent between calls |
| Notifier (`notifier.py`) | none | webhook and Telegram, failures swallowed | crash between a store and its alert | an alert per stored scan, none twice |
| Profile endpoint (`main.py` `contract_profile`, `storage.py`) | `contract_profiles`, `contract_profile_snapshots` | read, decide, enrich, upsert, mark an error, respond in three more reads | parallel requests between any two of these, TTL and backoff, failing explorer, crash | cache = newest snapshot; backoff respected; stale data only for a reason; a response does not contradict itself |
| Discovery (`protocol_discovery.py`) | none | what a CoinMarketCap answer says of protocols, chains, addresses | nested objects, hints of several chains | addresses registered under chains that fit |
| Protocol endpoints (`main.py`, `storage.py`) | `protocol_contracts`, and the two tables above | register, import, scan | threads against coroutines, per-entry transactions, errors half-way | rows counted once, nothing left out, scans complete |
| Chain adapters (`chain_adapters.py`) | none | one analysis on one chain | may raise | which chains have one |
| Analysis runner, source fetcher (`scanners.py`, `sources.py`) | temporary files | run three tools with timeouts, fetch and write source files | missing tools, timeouts, retry in another mode, names that lead to one path or out of the temporary directory | no finding lost or made up, a summary that agrees, the right file analysed |
| Solana analysis (`solana_scanner.py`, `solana_sources.py`) | none | RPC and HTTP calls, cargo-audit | any may fail, an IDL may be malformed | an analysis has a result, and a whole one |
| Schema migration (`storage.py` `_initialize`) | the schema | rebuild three tables | crash between statements | no row lost |
| Dashboard (`../../frontend/src/App.jsx`) | React state, a cache in localStorage | load, filter, refresh, navigate, reload, refresh a profile | answers that overtake each other, requests not cancelled, tabs that share the cache | what is shown belongs to what was asked; no page waits for good |
| Profile building, vulnerability catalogue, configuration, read endpoints | none | pure functions and reads | | |

Interactions. One process runs an asyncio event loop. `lifespan` starts
`scanner_loop` on it; the `async def` endpoints (rescan, protocol scan) are
coroutines on the same loop and interleave with it only at an `await`; the
`def` endpoints (profile, registration, import, reads) run in FastAPI's thread
pool and interleave with everything at each storage call. All share one SQLite
connection behind one lock; a storage call is one transaction. The notifier is
called synchronously and keeps the event loop.

The hazards this gives rise to are listed, each at its line, in `PROJECT.json`.

## 2. Modules

| Module | Models | Proofs |
|---|---|---|
| `DiscoveryLedger` | abstract: contracts are claimed and scanned, a cursor passes a block only when its contracts are claimed | |
| `ScannerLoop` | the scanner task, its tables, rescans, errors, crashes, shutdowns; implements `DiscoveryLedger` | `ScannerLoopProofs` |
| `ProfileCache` | the profile endpoint for one address | `ProfileCacheProofs` |
| `ProtocolDiscovery` | pure: from a CoinMarketCap answer to the entries of an import | `ProtocolDiscoveryProofs` |
| `ProtocolScan` | the protocol endpoints and their tables; extends `ProtocolDiscovery`, implements `DiscoveryLedger` | `ProtocolScanProofs` |
| `SchemaMigration` | the statements `Storage._initialize` runs at every start | `SchemaMigrationProofs` |
| `Analysis` | abstract: findings come to light, a result has all of them | |
| `ChainAnalysis` | one analysis on an Ethereum-like chain or on Solana; implements `Analysis` | `ChainAnalysisProofs` |
| `Dashboard` | the dashboard in a browser tab, with the requests it makes | `DashboardProofs` |
| `MCScannerLoop`, `MCProfileCache`, `MCProtocolScan`, `MCSchemaMigration`, `MCChainAnalysis`, `MCDashboard` | instances for TLC | |

### ScannerLoop

`pc` is where `scanner_loop` stands: `latest` and `find` are its two RPC calls,
`batch` the `for` loop, `analyzing` the awaited analysis, `notify` the alert,
`sleep` and `backoff` the sleeps; `down` means no process, `dead` a task ended
by an exception, `stopped` one that has left its loop. `lastProcessed`, `latest`, `batch` (the
contracts not yet visited) and `rpcErrors` are its local variables, lost in a
crash; `contracts`, `scans` and `lastDisk` are the tables. A step ends at an
`await` or after one committed statement or sent alert, so that a crash may fall
between any two of those, while another task of the event loop may run only at an await
(`EventLoopFree`). Errors come in the classes the code tells apart, retryable
or not, and where an assignment precedes a failing write
(`main.py:231`, `271`) the step that fails keeps the assignment. `StartBlock` is the set of values
that `START_BLOCK` may have at a start of the process. The chain is an
environment that grows; `LatestStale` lets a node answer with an older block.

A scan of a protocol on Ethereum is, for the scanner, a sequence of rescans; the
two modules are kept apart because they share nothing else.

The abstract `DiscoveryLedger` says what the scanner promises: what is claimed or
scanned stays so, a scan is of a claimed contract, and the cursor moves only
forward and only over blocks whose contracts are claimed. `LedgerSpec` maps its
cursor to the *stored* cursor, its two sets to the keys of the two tables.

`Stranded` is the price of claiming a contract before its analysis: contracts with a row
that have no scan and are not under analysis, which the loop skips from then on.
`OnlyFailuresStrand` bounds it: at most one per error, and per crash at most the
analyses it cut off, one of the scanner and one per request.

### ProfileCache

One address, several threads. A profile is the version of the explorer's data
it was made from; `Empty` is the `'{}'` that a failed first refresh stores. The
clock counts seconds, which is the resolution of SQLite's `CURRENT_TIMESTAMP`.
Between reading the row (`ReadCache`, with the decision to refresh), asking the
explorer (`Enrich`) and storing (`StoreProfile`), other threads and time pass.
The two statements of `upsert_contract_profile` are one step, being one
transaction: that sqlite3 rolls it back as a whole is assumed. TTL and backoff are any
integers, as in `config.py`. The response is made of three reads, each a transaction of its own:
the row (`Respond`), the two newest snapshots for the diff (`ReadDiff`) and the
list of snapshots (`ListSnapshots`). `upto[t]` remembers up to which
snapshot each of them, and the request's own refresh, has seen, and also (`meta`) the first read of
the row, from which `_meta.cached_at` and `cache_age_seconds` are answered even when the row is
read again after a refresh (`main.py:662-666`, `735-736`). `ResponseInOrder` says that this is
the one part that lags behind the profile it comes with.

`StaleOnlyWithReason`: a profile past its TTL is served unasked when the last refresh failed,
or when the profile is younger than the backoff. The second needs a backoff longer than the TTL,
which the settings allow; with the defaults (900 and 90 seconds) only the first is left
(`StaleAfterFailureOnly`).

### ProtocolDiscovery and ProtocolScan

An answer of CoinMarketCap is a set of objects, each with a name, the chains
its text hints at, the 0x-addresses in it, and whether it is relevant; the
module says which (chain, address) pairs an import makes of it. Text extraction
is thereby the choice of the objects, the score that cuts off at `limit` a choice of
the protocols kept. `ProtocolScan` has requests, each with one call:
registration (validated, one transaction), import (search, then one transaction
per entry) and scan (targets fixed at its start; each with an adapter is added,
analysed, stored and alerted, the others are skipped). Registrations and
imports run in threads and interleave at every transaction; scans only at an await.
Addresses have an upper- and a lower-case form where that matters: `Lower` is `str.lower`,
which is harmless for 0x-addresses and not for base58. The order of a list of entries
is left open.

`MisfitsImported` says where the rows come from that a scan skips for want of an adapter, or
asks an adapter of the other kind for: from imports, which put addresses under whatever chain a hint
names. What a registration by hand does to Solana's own addresses, which it lower-cases, is not among
them: that is `SolanaAddressIntact`, and it is violated.

Its tables `contracts` and `scans` are those of the scanner, here by chain and address,
and they keep the same `DiscoveryLedger` (`LedgerSpec`), with a cursor that never moves.

### SchemaMigration

`conn` is the database as the connection sees it, `disk` what a crash leaves. The
`with` block of `_initialize` begins no transaction: Python's `sqlite3` does so
before an `INSERT` only, so schema statements before the first `INSERT` are
committed one by one (`Execute`), and those from it on together, at the end of
the block (`Insert`, `Commit`). This is what keeps the rows: every `DROP TABLE`
comes after an `INSERT`. A failing statement ends the process and is thereby a
`Crash`. A row is its chain and an identity, which stands for the rest of its
key; `contract_profiles` is its set of later columns.

### Analysis and ChainAnalysis

`Analysis` promises that whatever comes to light during an analysis is in its
result and decides its status, and that an analysis that raises has no result.
`ChainAnalysis` is one call of `AnalysisRunner.analyze` (`kind = "evm"`) or
`SolanaAnalysisRunner.analyze` (`"solana"`), a step per stage. An outcome of a
tool says how the process ended and what its output would be searched for: a
report that parses as JSON, keywords, something on stderr (which follows stdout and
so spoils the JSON), a reason of failure that can be recognised. From
it `Findings` and `Says` are computed as `_run_tool` does. `Says(...) = None`
is never recorded: when nothing is found and the process failed, either there
is a reason to name or the finding `nonzero_exit` is made. A retry of Echidna
replaces the first run's output; `reported` keeps what either found, and the
refinement shows that the retry loses nothing.

Files of a source are known by name; `Sanitize` is where a name leads from the temporary
directory of Echidna's run. Two names may lead to one path (`.` and `..` are dropped), and an
absolute one leads outside (`Shared`), since `_sanitize_source_path` keeps the root; there
other analyses write, and files may exist that no analysis wrote. `Directories` are made for the
files (`Parents`); a file that is to be written where there is a directory raises (`Writable`).
`Target` asks what exists (`Existing`): the files written, the directories made and whatever is
found outside. `input` is the file of the source Echidna is started on, `"whole"` for a plain
source, and `"other"` for what is none of its files. `EchidnaGetsTarget` says that the last happens
only when a name is absolute or the target is a directory, and that otherwise a target with
a content and a path of its own is what Echidna gets; without one it gets the first file, or what
overwrote it. (`RawPath` is used by a mutant only.)

An analysis may also end with an exception (`Raise`): the files for Slither or Echidna cannot be
written, or an IDL is not shaped as it is read. `AnalysisSpec` promises nothing of a result then;
that there should always be one is `AlwaysReturns`.

### Dashboard

One tab: `rows`, `loading`, `error`, `filter` and `route` are React state of
`App`, `profile`, `profileLoading` and `profileError` of the page of a contract. A step is an
event handler or the continuation of a fetch, with the rendering and
the effects it causes: `SetRows` re-runs the effect of an open page
(`RowChanges`), because every load makes new row objects. `loads`, `profileLoads`
and `refreshes` are the open fetches with what their closures captured; they end
in any order, well or not. `profileLoads` are those not cancelled by the
cleanup of the effect. Other tabs write the shared `cache` at any time. The server's
table `scans` grows and is reordered by scans, and an answer holds its state
when the answer arrives. `shown` records from which query and which
call of `loadData` the rows came, `strayed` that a refresh ended on
another contract's page than the one it was begun on: the two known races, of which the
properties say that nothing else goes wrong.

## 3. Runs

| Run | Expect | What it shows | Bounds |
|---|---|---|---|
| `ScannerLoop` | pass | the scanner's invariants, what failures cost, the refinement of the ledger; a shutdown ends, the scanner catches up | 3 blocks, 2 contracts, 1 rescan, 2 errors, 1 crash, 1 shutdown, `START_BLOCK` unset or 0 at each start, overflow at exponent 1 |
| `ScannerLoopUnscanned` | violation | a contract can stay without a scan for good | 1 error, 1 crash |
| `ScannerLoopOverflow` | violation | the 1025th transient error in a row kills the scanner | exponent 1024, as in Python |
| `ProfileCache` | pass | cache, snapshots, TTL and backoff, and responses in three reads | 2 threads, seconds 0 to 3, TTL 2, backoff 1, 2 versions, 3 snapshots, 1 crash |
| `ProfileCacheEmpty` | violation | a failed first refresh yields a profile without fields | 1 thread |
| `ProtocolScan` | pass | registrations, imports and scans are complete and counted once, only imports bring in misfits, and all keep the ledger | 3 requests, 9 calls, 3 answers, 3 chains, 1 error, 1 crash |
| `ProtocolScanSolana` | violation | a registered Solana address is scanned in lower case | 2 requests |
| `SchemaMigration` | pass | no start, interrupted or not, loses a row, and the service never runs on a half-new schema | 3 tables, 2 identities, 2 chains, 1 stored row, 2 crashes |
| `ChainAnalysis` | pass | no finding is lost, the summary tells what happened to each tool, what Echidna is started on | any tools installed, any outcome of each, 1 label, sources of 0 to 4 files: two that lead to one path, one where their directory is, one outside |
| `ChainAnalysisMissing` | violation | a missing EVM tool makes a contract "vulnerable" | the same |
| `ChainAnalysisRaises` | violation | an analysis may end without a result | the same |
| `Dashboard` | pass | cache entries fit their key, no page waits for good, the only ways to a wrong table or profile are the two races | 2 contracts, 2 filters, limit 1, 3 loads, 1 open refresh |

Why the bounds are enough. The scanner works on one range of blocks at a time:
three blocks give ranges of length one, two and three, ranges before and after
a restart, and a first range that begins above block 0; two contracts give a
batch of two in one range, or one in each of two; two errors are a failed
write and a retry that fails again, which is, with the overflow at exponent 1,
the death of the task. In `ProfileCache` TTL, backoff and the seconds 0 to 3 let each age fall
below, on and above its limit, and a row be refreshed before, at and after it has outlived its TTL;
a backoff longer than the TTL is left to the proof. Three requests
are the least in which two registrations race and a scan follows. The
migration runs from every combination of absent, empty and filled tables, and two
crashes interrupt a start that already follows an interrupted one. Fault budgets
bound what the environment does, never what the code does. In `ChainAnalysis` one label is enough,
since findings of one kind are never compared with each other; the four names
are a target, a file that overwrites it, one in whose place there is a directory and one outside. In
`Dashboard` three loads let two overtake each other after a third has filled the
cache, and limit 1 lets a contract drop out of the table while its page is open.
Threads and requests
are interchangeable, hence the symmetry in the runs that check no liveness;
no run of a liveness property uses symmetry.

Deadlock is not checked in any run: a scanner whose task has died, requests and
analyses that have ended and a clock at its bound are states in which nothing more happens.

Fairness (`StopTerminates`, `CatchesUp` in the run `ScannerLoop`). Weak fairness of the scanner's next step, of the steps of
each rescan and of the exit of a stopped process: the event loop resumes every
task whose await is over, and every await ends, as RPC calls, tools (180 s) and
alerts have timeouts. Nothing is assumed of the environment: no
fairness of mining, of requests, of restarts (`Boot`), and none that errors
stop, except that their number is bounded. `CatchesUp` is therefore conditional on a
process that stays up with a living task; in memory the cursor then reaches every block.

Each passing property has a mutant of the code in `PROJECT.json` that breaks it.

### What the code does otherwise than it is said to

1. `EveryContractScanned`: the scanner enters a contract before its analysis;
   if that fails, the retry skips it as known (`main.py:259-263`).
2. `ErrorsAreSurvived`: the exponential delay is a float times an unbounded
   power of two; its `OverflowError` is raised in the `except` branch and ends
   the task (`main.py:286`). With the default settings (at
   most 120 s and a jitter per attempt) that is some 34 hours of outage.
3. `ResponseHasFields`: after a failed first refresh the row holds `'{}'`, and
   the answer that was written for this case is unreachable
   (`FallbackUnreachable`, a theorem).
4. `SolanaAddressIntact`: `add_protocol_contracts` lower-cases Solana addresses.
5. `MissingToolIsNote`: `_run_tool` makes a missing tool a finding
   (`scanners.py:191`), so that without Mythril every contract is
   `vulnerabilities_detected`; the Solana runner keeps to a note.
6. `AlwaysReturns`: "Analysis is always best-effort" (`.github/copilot-instructions.md:42`), but
   an IDL with parts of another type (`solana_sources.py:131`, `solana_scanner.py:128`) and files
   that cannot be written (`scanners.py:98`, `150-151`) raise in `analyze`, which catches
   nothing: there is no list of vulnerabilities, and what was found so far is lost.

Without a document that says otherwise, and so not in this list: names in a source that begin
with `/` are written outside the temporary directory (`scanners.py:149-151`, `181-186`), and
Echidna may be started on something that is no file of the source (`scanners.py:159`).

Each of the six is false in general and true under a condition, which is proved
(section 4): 1 without errors and crashes, 2 before the 1024th fault, 3 for a request that
read the row after a profile was stored, 4 for scans of addresses given in the call, 5 for
cargo-audit, and for the others up to the one finding `<tool>_unavailable`, 6 without a source, and on
Solana with an IDL that is shaped as it is read or without one.

## 4. Proofs

`tlapm` proves for every value of the constants, with the assumptions named in the
modules: the chain's transactions have the right type, bounds are naturals,
`Lower` is idempotent and leaves 0x-addresses alone, a lower-cased base58 address
is no 0x-address, there are finitely many file names and finitely many rescans, `NoFilter` is a filter,
`None` is not a value, TTL and backoff are integers. `StaleAfterFailureOnly`
alone assumes more, in its statement: that the backoff is at most the TTL.

* **`ScannerLoopProofs`**: `TypeOK`, `NoContractMissed`, `AnalysedAtMostOnce`,
  `ScanHasContract`, `AlertAccounting`, `DiscoveryWrittenOnce`,
  `CursorNeverBack`, `OnlyFailuresStrand` and `LedgerSpec`. `NoContractMissed` is not inductive: that
  the stored cursor may move to `latest` needs that the blocks in between are claimed,
  which during an iteration holds only of what is not in the batch any more
  (`BatchComplete`), above a cursor in memory that is itself covered
  (`WorkCovered`) and not below the stored one (`CursorsOrdered`). `AnalysedAtMostOnce`
  rests on analysed contracts being claimed (`AnalysesClaimed`), `AlertAccounting`
  on one task at a time being between its store and its alert (`OneRunning`).
  `LedgerSpec` is proved step by step: the cursor's writes are `Start` or
  `Advance`, a claim is `Claim`, a stored scan `Record`, all else stutters.
  `OnlyFailuresStrand` is inductive together with the finiteness of `Stranded`:
  `StrandedStep` sorts the steps into those that strand nothing, at most one contract, or
  at most one per analysis, and facts about cardinalities do the rest. From it
  `ScannedUnlessFailure` concludes that without errors and crashes every contract the cursor
  has passed is scanned; `FewErrorsSurvived` says that no error ends the task before
  `FloatMaxExp` faults have occurred, as the error count is at most that of all faults.
* **`ProfileCacheProofs`**: all seven properties of the run. `CachedIsNewestSnapshot` and
  `BackoffRespected` need what a request knows at each place (`Requests`),
  `StaleOnlyWithReason` how the times of a row belong together (`RowTimes`: an attempt
  other than that of the update means an error); `ResponseInOrder` needs that the
  snapshots never shrink and that what a request stored itself is among them.
  `EmptyOnlyBeforeFirst`: a response has no fields only if its row was read
  before any profile was stored.
* **`ProtocolDiscoveryProofs`**: what an import makes of any answer. It makes nothing up
  (`EntriesComeFromHits`) and leaves nothing out (`AddressesRegistered`) but the addresses of objects
  that hint at no chain beside others of their protocol that do; and an import for one chain
  registers addresses under other chains too (`OtherChainsToo`).
* **`ProtocolScanProofs`**: all seven properties of the run, the refinement included. `KindsFit` ties a
  request's place to its call; `InsertsKept` says what of an import is in the
  table already; `ScanBooks` that a scan's targets are ahead, under analysis,
  stored or skipped; `SeenBefore` that a scan has on its list what requests answered
  before it had registered; `OthersAddNone`, with which `MisfitsImported` is inductive, that
  no request but an import has added a misfit. For the ledger, `ScanBooks` says that what is stored has been claimed.
  `AdhocAddressesIntact`: addresses given in a scan reach the Solana adapter as written.
* **`SchemaMigrationProofs`**: all six properties of the run. The invariant says of
  each table where its rows are at each statement: in the table, with at most an
  empty copy (`AtRest`); in both (`Filled`); in the copy only (`Dropped`). On `conn` the
  last two occur between `INSERT` and `RENAME` of the table at hand; on `disk`
  (`DiskAtRest`) they never do, since a transaction is open from the first insert on
  (`Transaction`).
* **`ChainAnalysisProofs`**: all of the run, the refinement included. `Books` says which
  tools are noted at each stage, each once and truly, `AllKept` that the findings are
  those that came to light. The retry keeps both as it happens only after a
  run that found nothing, whose note it drops. That Echidna gets its target (`EchidnaGetsTarget`)
  rests on the last file written to a path being the one found there, a lemma
  about the choice among finitely many files (`LastOne`), and on what exists where its target leads
  (`TargetExists`, `ContentsRight`). `RaisesOnlyOnInput` says when an analysis can raise at all. `MissingLeavesOneFinding` says what a tool
  that is not installed leaves in a result.
* **`DashboardProofs`**: all of the run. `LastCall` says of the last call of
  `loadData` that it is open, has been shown, or that there is an error, and that it was made for the
  filter on the page; from it `TableOfFilter` follows when no call is open. `PageFits`
  says that a load not cancelled is for the contract on the page. `OneRowPerContract`
  is an invariant of its own: moving a row to the front of the server's table keeps each
  contract on one row.

Only model-checked: the liveness properties `StopTerminates` and `CatchesUp`, which rest on
fairness, and so on `ENABLED`. Every other property of a passing run is a theorem.

## 5. Not modelled, and the plan

Abstracted throughout: texts, logging, the content of results and profiles. The
chain does not reorganise, as the code has no notion of it. Two analyses of one
address carry no order, so which of them is newer is not told apart.

* The vendored analysers (`src/mythril`, `src/slither`, `src/echidna`) are nine tenths and
  more of the repository's code. They are third-party programs that the
  monitor runs as child processes, with a timeout, reading what they print:
  `ChainAnalysis` models them as any process that may do so. What they compute is not the
  subject of this project, which therefore covers a small part of the repository's lines
  and most of the monitor's own backend.
* Profile building (`EtherscanEnricher.enrich`): seven explorer calls and a dictionary made of their
  answers; no state, and its only effect on others is to return or to raise, which
  `Enrich` does. The diff of two snapshots is likewise a function of what `ReadDiff` reads.
* The vulnerability catalogue is a table of texts; settings are the constants of the modules.
* `ChainAnalysis`: the keyword tables are a set of labels; whatever a name in a
  source makes of `..` is dropped as the code drops it, and symbolic links are left out; which tools are installed does
  not change during an analysis.
* Three known races are described rather than excluded, since the code allows them: an overtaken
  answer that is shown (`TableOfFilter` exempts it), a profile refresh that ends on another page
  (`ForeignProfileStrayed`), and an explorer call begun before another's attempt was recorded
  (`BackoffRespected`). The properties say that nothing else goes wrong in the same way.
* `Dashboard`: Manual Rescan and its status line, sharing, printing, reports and how rows
  look are left out. Rows are known by address, so that the chain and the time in a link
  are left out. Balances do not change, so that which contracts match a filter is fixed.
* Notifier: a call is one step that never raises; which of its two channels
  delivered is left out, since nothing depends on it.

The plan, the most important behaviour first. All of its models and theorems are in place.

1. `ScannerLoop`, `DiscoveryLedger` and their proofs.
2. `ProfileCache` and its proofs; its response in separate reads.
3. `ProtocolDiscovery`, `ProtocolScan` and their proofs.
4. `SchemaMigration` and its proofs.
5. `Analysis`, `ChainAnalysis` and their proofs.
6. `Dashboard` and its proofs.

Left for later: the two channels of the notifier; a composition of the scanner
with protocol scans, which to the scanner are rescans (section 2); of `ProtocolDiscovery`, that the
protocols kept are as many as `limit` allows; what the ledger promises, as theorems about
`DiscoveryLedger` that its two implementations inherit.

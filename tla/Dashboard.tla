------------------------------- MODULE Dashboard -------------------------------
(***************************************************************************)
(* The dashboard (frontend/src/App.jsx) in one browser tab: App with its   *)
(* table of contracts and the page of one contract, their requests to the  *)
(* server, the cache in localStorage that tabs share, navigation and       *)
(* reloads of the document.                                                *)
(*                                                                         *)
(* A step is one event handler or one continuation after an await, with    *)
(* the rendering and the effects it brings about.  Requests are answered   *)
(* or fail in any order; they have the values their closures captured.     *)
(***************************************************************************)
EXTENDS Integers, Sequences

CONSTANTS
  Contract,     \* the contracts, by address
  Filter,       \* what may stand in the three filter inputs
  NoFilter,     \* nothing in them
  Matches,      \* the contracts that pass a filter
  Limit,        \* the parameter limit of a request, 200
  MaxLoads,     \* bound: calls of loadData
  RefreshId,    \* bound: open profile refreshes
  Home, None

LoadId == 1 .. MaxLoads

ASSUME FilterAssumption ==
  NoFilter \in Filter /\ Matches \in [Filter -> SUBSET Contract]
ASSUME BoundsAssumption == Limit \in Nat /\ MaxLoads \in Nat
ASSUME RouteAssumption  == Home \notin Contract /\ None \notin Contract \cup Filter

VARIABLES
  scans,        \* the server's table scans, the newest last
  mounted,      \* App has run its first effects
  filter, route,
  rows, loading, error,
  loads,        \* the open fetches of loadData
  cache,        \* the entry in localStorage, or None
  begun,        \* calls of loadData so far, which number them
  profile,      \* the contract whose profile is shown
  profileLoading, profileError,
  profileLoads, \* open fetches of loadProfile that are not cancelled
  refreshes,    \* open fetches of refreshProfile
  shown,        \* history: the query and the call the rows came from,
                \* and the latest call whose rows were ever shown
  strayed       \* history: a refresh ended on the page of another contract

table == <<rows, loading, error, loads, begun, shown>>
page  == <<profile, profileLoading, profileError, profileLoads, refreshes, strayed>>
vars  == <<scans, mounted, filter, route, table, cache, page>>

\* A document just loaded: the initial values of useState, no open requests.
FreshTable ==
  /\ mounted' = FALSE
  /\ filter' = NoFilter
  /\ rows' = {} /\ loading' = TRUE /\ error' = FALSE
  /\ loads' = {}
  /\ shown' = [query |-> None, load |-> 0, newest |-> 0]

Init ==
  /\ scans = <<>>
  /\ mounted = FALSE
  /\ filter = NoFilter
  /\ route \in Contract \cup {Home}
  /\ rows = {} /\ loading = TRUE /\ error = FALSE
  /\ loads = {} /\ begun = 0
  /\ cache = None
  /\ profile = None /\ profileLoading = FALSE /\ profileError = FALSE
  /\ profileLoads = {} /\ refreshes = {}
  /\ shown = [query |-> None, load |-> 0, newest |-> 0]
  /\ strayed = FALSE

------------------------------------------------------------------------------
\* The server.

\* GET /api/contracts: of the newest scans those that pass the filter.
Newest(n) == {scans[i] : i \in {j \in DOMAIN scans : j > Len(scans) - n}}
Answer(query) == Newest(Limit) \cap Matches[query]

\* The backend scans a contract, or scans it again: its row is the newest then.
Without(i) == SubSeq(scans, 1, i - 1) \o SubSeq(scans, i + 1, Len(scans))
ScanStored(c) ==
  /\ \/ /\ \A i \in DOMAIN scans : scans[i] # c
        /\ scans' = Append(scans, c)
     \/ \E i \in DOMAIN scans :
          /\ scans[i] = c
          /\ scans' = Append(Without(i), c)
  /\ UNCHANGED <<mounted, filter, route, table, cache, page>>

------------------------------------------------------------------------------
\* The page of one contract, ContractDetailPage.

\* selectedRow: the row the page is about.
Selected(inRows, at) == IF at \in inRows THEN at ELSE None

\* Mutant: no cleanup, a fetch for a row that is not shown any more goes on.
KeepLoads == profileLoads
\* The cleanup of the effect on row: what is cancelled has no effect any more.
OpenLoads == {}

\* Mutant: the effect does not look whether there is a row.
RowOrNoneChanges(row) ==
  /\ profileLoads' = OpenLoads \cup {row}
  /\ profileLoading' = TRUE
  /\ profileError' = FALSE
  /\ UNCHANGED <<profile, refreshes, strayed>>
\* The effect on row, after the row changed: loadProfile.
RowChanges(row) ==
  /\ IF row = None
       THEN profileLoads' = OpenLoads /\ UNCHANGED <<profileLoading, profileError>>
       ELSE /\ profileLoads' = OpenLoads \cup {row}
            /\ profileLoading' = TRUE
            /\ profileError' = FALSE
  /\ UNCHANGED <<profile, refreshes, strayed>>

\* Its state is gone when it is unmounted, and what then comes has no effect.
ClosePage ==
  /\ profile' = None /\ profileLoading' = FALSE /\ profileError' = FALSE
  /\ profileLoads' = {} /\ refreshes' = {}
  /\ strayed' = FALSE

\* The answer of a fetch for c, and its failure; both end the waiting.
ProfileArrives(c) ==
  /\ profile' = c
  /\ profileLoading' = FALSE
  /\ UNCHANGED profileError
ProfileFails ==
  /\ profileError' = TRUE
  /\ profileLoading' = FALSE
  /\ UNCHANGED profile

LoadProfileEnds(c) ==
  /\ c \in profileLoads
  /\ profileLoads' = profileLoads \ {c}
  /\ ProfileArrives(c) \/ ProfileFails
  /\ UNCHANGED <<scans, mounted, filter, route, table, cache, refreshes, strayed>>

\* refreshProfile, by a button that is disabled while a profile is awaited.
RefreshProfile(id) ==
  /\ mounted
  /\ Selected(rows, route) # None
  /\ ~profileLoading
  /\ \A r \in refreshes : r.id # id
  /\ refreshes' = refreshes \cup {[id |-> id, contract |-> route]}
  /\ profileLoading' = TRUE
  /\ profileError' = FALSE
  /\ UNCHANGED <<scans, mounted, filter, route, table, cache, profile, profileLoads, strayed>>

\* It is not cancelled when the page moves to another contract.
RefreshProfileEnds(r) ==
  /\ r \in refreshes
  /\ refreshes' = refreshes \ {r}
  /\ ProfileArrives(r.contract) \/ ProfileFails
  /\ strayed' = (strayed \/ r.contract # route)
  /\ UNCHANGED <<scans, mounted, filter, route, table, cache, profileLoads>>

------------------------------------------------------------------------------
\* The table, App.

\* setRows, with rows that call number load of loadData got for query: every
\* row is a new object, for which the effect of an open page runs again.
SetRows(contracts, query, load) ==
  /\ rows' = contracts
  /\ shown' = [query |-> query, load |-> load,
               newest |-> IF load > shown.newest THEN load ELSE shown.newest]
  /\ IF route = Home THEN UNCHANGED page ELSE RowChanges(Selected(contracts, route))

CacheHit(query) == cache # None /\ cache.query = query /\ cache.fresh

\* loadData up to its first await, for the filter of the last rendering.
LoadData(query, force) ==
  /\ begun < MaxLoads
  /\ begun' = begun + 1
  /\ error' = FALSE
  /\ IF ~force /\ CacheHit(query)
       THEN /\ SetRows(cache.contracts, query, begun + 1)
            /\ loading' = FALSE
            /\ UNCHANGED loads
       ELSE /\ loads' = loads \cup {[id |-> begun + 1, query |-> query]}
            /\ loading' = TRUE
            /\ UNCHANGED <<rows, shown, page>>

\* The effect of the first rendering.
Mount ==
  /\ ~mounted
  /\ mounted' = TRUE
  /\ LoadData(filter, FALSE)
  /\ UNCHANGED <<scans, filter, route, cache>>

\* Mutant: the filter is not among the dependencies of the effect.
IgnoreFilter(f) == UNCHANGED <<table, page>>
\* The effect of a changed filter.
FilterChanges(f) == LoadData(f, FALSE)

\* The user types a filter.
ChangeFilter(f) ==
  /\ mounted /\ route = Home
  /\ f # filter
  /\ filter' = f
  /\ FilterChanges(f)
  /\ UNCHANGED <<scans, mounted, route, cache>>

\* The button Refresh, disabled while loading.
ForceRefresh ==
  /\ mounted /\ route = Home /\ ~loading
  /\ LoadData(filter, TRUE)
  /\ UNCHANGED <<scans, mounted, filter, route, cache>>

\* Mutant: the key is computed again from the filter of the page.
CacheUnderFilter(query, contracts) == [query |-> filter, contracts |-> contracts, fresh |-> TRUE]
\* The entry setItem stores: the key of the request, captured when it was sent.
CacheEntry(query, contracts) == [query |-> query, contracts |-> contracts, fresh |-> TRUE]

\* A fetch is answered; storing the answer may fail (quota, permissions).
LoadAnswered(l) ==
  /\ l \in loads
  /\ loads' = loads \ {l}
  /\ SetRows(Answer(l.query), l.query, l.id)
  /\ cache' \in {cache, CacheEntry(l.query, Answer(l.query))}
  /\ loading' = FALSE
  /\ UNCHANGED <<scans, mounted, filter, route, error, begun>>

\* Mutant: setLoading(FALSE) at the end of the try block only.
StillLoading == UNCHANGED loading
\* The finally block of a fetch that failed.
LoadingEnds == loading' = FALSE

LoadFailed(l) ==
  /\ l \in loads
  /\ loads' = loads \ {l}
  /\ error' = TRUE
  /\ LoadingEnds
  /\ UNCHANGED <<scans, mounted, filter, route, rows, begun, shown, cache, page>>

\* A click on a row or on Back To Dashboard, and the buttons of the browser,
\* which may go to any entry of its history.
Navigate(to) ==
  /\ mounted
  /\ to # route
  /\ route' = to
  /\ IF to = Home THEN ClosePage ELSE RowChanges(Selected(rows, to))
  /\ UNCHANGED <<scans, mounted, filter, table, cache>>

\* The document is loaded again; only the address and localStorage stay.
Reload ==
  /\ mounted
  /\ FreshTable
  /\ ClosePage
  /\ UNCHANGED <<scans, route, cache, begun>>

------------------------------------------------------------------------------
\* localStorage.

\* Another tab stores an answer of its own.
OtherTabCaches(query) ==
  /\ cache' = [query |-> query, contracts |-> Answer(query), fresh |-> TRUE]
  /\ UNCHANGED <<scans, mounted, filter, route, table, page>>

\* CONTRACTS_CACHE_TTL_MS pass.
CacheExpires ==
  /\ cache # None
  /\ cache' = [cache EXCEPT !.fresh = FALSE]
  /\ UNCHANGED <<scans, mounted, filter, route, table, page>>

Next ==
  \/ \E c \in Contract : ScanStored(c) \/ LoadProfileEnds(c)
  \/ \E id \in RefreshId : RefreshProfile(id)
  \/ \E r \in refreshes : RefreshProfileEnds(r)
  \/ Mount
  \/ \E f \in Filter : ChangeFilter(f) \/ OtherTabCaches(f)
  \/ ForceRefresh
  \/ \E l \in loads : LoadAnswered(l) \/ LoadFailed(l)
  \/ \E to \in Contract \cup {Home} : Navigate(to)
  \/ Reload
  \/ CacheExpires

Spec == Init /\ [][Next]_vars

------------------------------------------------------------------------------
\* Properties.

Load    == [id : LoadId, query : Filter]
Refresh == [id : RefreshId, contract : Contract]
Entry   == [query : Filter, contracts : SUBSET Contract, fresh : BOOLEAN]

\* Every variable keeps its type.
TypeOK ==
  /\ scans \in Seq(Contract)
  /\ mounted \in BOOLEAN /\ loading \in BOOLEAN /\ error \in BOOLEAN
  /\ filter \in Filter /\ route \in Contract \cup {Home}
  /\ rows \subseteq Contract
  /\ loads \subseteq Load /\ begun \in 0 .. MaxLoads
  /\ cache = None \/ cache \in Entry
  /\ profile \in Contract \cup {None}
  /\ profileLoading \in BOOLEAN /\ profileError \in BOOLEAN /\ strayed \in BOOLEAN
  /\ profileLoads \subseteq Contract /\ refreshes \subseteq Refresh
  /\ shown \in [query : Filter \cup {None}, load : 0 .. MaxLoads, newest : 0 .. MaxLoads]

\* What localStorage holds under a key are rows of that query
\* (App.jsx:984-1028), although answers come in any order and the filter moves
\* on while they are awaited: a later visit is never shown the rows of another.
CacheAnswersKey == cache # None => cache.contracts \subseteq Matches[cache.query]

\* The table says Refreshing... only while a fetch is open (App.jsx:1029-1033),
\* and the page of a contract likewise: no button stays disabled for good.
SpinnersEnd ==
  /\ mounted /\ loads = {} => ~loading
  /\ Selected(rows, route) # None /\ profileLoads = {} /\ refreshes = {} => ~profileLoading

\* When all fetches have ended without an error, the table is that of the filter
\* on the page, unless an answer was overtaken by that of a later one
\* (App.jsx:1010-1014): that race is the only way to a table of another filter.
TableOfFilter ==
  mounted /\ loads = {} /\ ~error =>
    shown.query = filter \/ shown.load < shown.newest

\* The page of a contract shows the profile of another one without saying that
\* it is loading or that it failed only after a refresh has ended on a page it
\* was not begun on (App.jsx:518-541, 584-599).
ForeignProfileStrayed ==
  Selected(rows, route) # None /\ profile \notin {None, route} /\ ~strayed =>
    profileLoading \/ profileError
==============================================================================

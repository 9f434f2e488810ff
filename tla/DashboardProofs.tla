---------------------------- MODULE DashboardProofs ----------------------------
(***************************************************************************)
(* Proofs about Dashboard, for any contracts, filters and numbers of       *)
(* requests.  The server's table is an invariant of its own, ServerTable;  *)
(* it has no part in the others: what matters of an answer is that its     *)
(* rows pass the filter it was asked for.                                  *)
(***************************************************************************)
EXTENDS Dashboard, SequenceTheorems, TLAPS

USE DEF table, page

------------------------------------------------------------------------------
\* The invariant.

TableTypes ==
  /\ mounted \in BOOLEAN /\ loading \in BOOLEAN /\ error \in BOOLEAN
  /\ filter \in Filter /\ route \in Contract \cup {Home}
  /\ rows \subseteq Contract
  /\ loads \subseteq Load /\ begun \in 0 .. MaxLoads
  /\ shown \in [query : Filter \cup {None}, load : 0 .. MaxLoads, newest : 0 .. MaxLoads]

PageTypes ==
  /\ profile \in Contract \cup {None}
  /\ profileLoading \in BOOLEAN /\ profileError \in BOOLEAN /\ strayed \in BOOLEAN
  /\ profileLoads \subseteq Contract /\ refreshes \subseteq Refresh

CacheFits == cache = None \/ (cache \in Entry /\ cache.contracts \subseteq Matches[cache.query])

\* Calls of loadData are told apart by their numbers.
LoadsNumbered ==
  /\ \A l \in loads : l.id <= begun
  /\ \A k, l \in loads : k.id = l.id => k = l
  /\ shown.load <= shown.newest /\ shown.newest <= begun

\* The last call of loadData is the one for the filter on the page: it is open,
\* or its rows have been shown, or something failed.
LastCall ==
  mounted =>
    /\ \/ \E l \in loads : l.id = begun
       \/ shown.newest = begun /\ (shown.load = begun => shown.query = filter)
       \/ error
    /\ \A l \in loads : l.id = begun => l.query = filter

\* A fetch of a profile that is not cancelled is for the row of the page.
PageFits == \A c \in profileLoads : c = route /\ route \in rows

PageInv == PageTypes /\ PageFits /\ ForeignProfileStrayed /\
           (Selected(rows, route) # None /\ profileLoads = {} /\ refreshes = {} => ~profileLoading)

TableInv == TableTypes /\ LoadsNumbered /\ LastCall /\ (mounted /\ loads = {} => ~loading)

IInv == TableInv /\ PageInv /\ CacheFits

------------------------------------------------------------------------------
\* The page of a contract.

LEMMA SelectedIs ==
  ASSUME NEW R \in SUBSET Contract, NEW at \in Contract \cup {Home}
  PROVE  /\ Selected(R, at) \in Contract \cup {None}
         /\ Selected(R, at) # None => Selected(R, at) = at /\ at \in R
         /\ Selected(R, Home) = None
  BY RouteAssumption DEF Selected

LEMMA SelectedWhen ==
  ASSUME NEW R \in SUBSET Contract, NEW at \in R PROVE Selected(R, at) = at /\ at # None
  BY RouteAssumption DEF Selected

\* The effect on row of the page starts over for the row that is there now.
LEMMA RowChangesKeeps ==
  ASSUME PageInv, rows' \subseteq Contract, route' \in Contract \cup {Home},
         RowChanges(Selected(rows', route'))
  PROVE  PageInv'
<1>. DEFINE row == Selected(rows', route')
<1>1. CASE row = None
  <2>1. profileLoads' = {} /\ UNCHANGED <<profileLoading, profileError, profile, refreshes, strayed>>
    BY <1>1 DEF RowChanges, OpenLoads
  <2>. QED BY <1>1, <2>1 DEF PageInv, PageTypes, PageFits, ForeignProfileStrayed
<1>2. CASE row # None
  <2>1. row = route' /\ route' \in rows' /\ row \in Contract
    BY <1>2, SelectedIs
  <2>2. /\ profileLoads' = {row} /\ profileLoading' = TRUE /\ profileError' = FALSE
        /\ UNCHANGED <<profile, refreshes, strayed>>
    BY <1>2 DEF RowChanges, OpenLoads
  <2>. QED BY <2>1, <2>2 DEF PageInv, PageTypes, PageFits, ForeignProfileStrayed
<1>. QED BY <1>1, <1>2

LEMMA ClosePageKeeps ==
  ASSUME ClosePage PROVE PageInv'
  BY DEF ClosePage, PageInv, PageTypes, PageFits, ForeignProfileStrayed

\* Nothing about the page changes.
LEMMA PageStays ==
  ASSUME PageInv, UNCHANGED <<rows, route, page>> PROVE PageInv'
  BY DEF PageInv, PageTypes, PageFits, ForeignProfileStrayed

LEMMA StepLoadProfileEnds ==
  ASSUME IInv, NEW c \in Contract, LoadProfileEnds(c) PROVE IInv'
<1>1. c = route /\ c \in profileLoads /\ profileLoads' = profileLoads \ {c}
  BY DEF IInv, PageInv, PageFits, LoadProfileEnds
<1>2. PageInv'
  BY <1>1 DEF IInv, PageInv, PageTypes, PageFits, ForeignProfileStrayed, LoadProfileEnds,
              ProfileArrives, ProfileFails
<1>. QED BY <1>2 DEF LoadProfileEnds, IInv, TableInv, TableTypes, LoadsNumbered, LastCall, CacheFits

LEMMA StepRefreshProfile ==
  ASSUME IInv, NEW id \in RefreshId, RefreshProfile(id) PROVE IInv'
<1>1. route \in Contract
  BY SelectedIs DEF RefreshProfile, IInv, TableInv, TableTypes
<1>2. refreshes' \subseteq Refresh
  BY <1>1 DEF RefreshProfile, Refresh, IInv, PageInv, PageTypes
<1>3. PageInv'
  BY <1>2 DEF IInv, PageInv, PageTypes, PageFits, ForeignProfileStrayed, RefreshProfile
<1>. QED BY <1>3 DEF RefreshProfile, IInv, TableInv, TableTypes, LoadsNumbered, LastCall, CacheFits

LEMMA StepRefreshProfileEnds ==
  ASSUME IInv, NEW r \in refreshes, RefreshProfileEnds(r) PROVE IInv'
<1>1. r.contract \in Contract
  BY DEF IInv, PageInv, PageTypes, Refresh
<1>2. PageInv'
  BY <1>1 DEF IInv, PageInv, PageTypes, PageFits, ForeignProfileStrayed, RefreshProfileEnds,
              ProfileArrives, ProfileFails
<1>. QED BY <1>2 DEF RefreshProfileEnds, IInv, TableInv, TableTypes, LoadsNumbered, LastCall, CacheFits

------------------------------------------------------------------------------
\* The table.

LEMMA AnswerFits ==
  ASSUME NEW query \in Filter
  PROVE  Answer(query) \subseteq Matches[query] /\ Matches[query] \subseteq Contract
  BY FilterAssumption DEF Answer

LEMMA SetRowsKeepsPage ==
  ASSUME IInv, NEW contracts \in SUBSET Contract, NEW query, NEW load, UNCHANGED route,
         SetRows(contracts, query, load)
  PROVE  PageInv'
<1>1. rows' = contracts /\ route' \in Contract \cup {Home} /\ PageInv
  BY DEF SetRows, IInv, TableInv, TableTypes
<1>2. CASE route = Home
  <2>1. Selected(rows', route') = None /\ UNCHANGED page
    BY <1>1, <1>2, SelectedIs DEF SetRows
  <2>2. profileLoads = {}
    BY <1>1, <1>2, RouteAssumption DEF PageInv, PageFits, PageTypes
  <2>. QED BY <1>1, <2>1, <2>2 DEF PageInv, PageTypes, PageFits, ForeignProfileStrayed
<1>3. CASE route # Home
  <2>1. RowChanges(Selected(rows', route'))
    BY <1>1, <1>3 DEF SetRows
  <2>. QED BY <1>1, <2>1, RowChangesKeeps
<1>. QED BY <1>2, <1>3

\* A call of loadData for the filter that is on the page by then.
LEMMA LoadDataKeeps ==
  ASSUME IInv, NEW query \in Filter, NEW force \in BOOLEAN, LoadData(query, force),
         filter' = query, mounted' \in BOOLEAN, UNCHANGED <<route, cache>>
  PROVE  IInv'
<1>1. /\ begun \in 0 .. MaxLoads /\ begun' = begun + 1 /\ begun' \in 1 .. MaxLoads
      /\ error' = FALSE
  BY BoundsAssumption DEF LoadData, IInv, TableInv, TableTypes
<1>2. CacheFits'
  BY DEF IInv, CacheFits
<1>3. CASE ~force /\ CacheHit(query)
  <2>1. /\ SetRows(cache.contracts, query, begun + 1)
        /\ loading' = FALSE /\ UNCHANGED loads
    BY <1>3 DEF LoadData
  <2>2. cache.contracts \in SUBSET Contract
    BY <1>3 DEF CacheHit, IInv, CacheFits, Entry
  <2>3. PageInv'
    BY <2>1, <2>2, SetRowsKeepsPage
  <2>4. shown.newest <= begun /\ shown.newest \in Int
    BY DEF IInv, TableInv, TableTypes, LoadsNumbered
  <2>5. /\ rows' = cache.contracts
        /\ shown' = [query |-> query, load |-> begun', newest |-> begun']
    BY <1>1, <2>1, <2>4 DEF SetRows
  <2>6. TableTypes'
    <3>1. begun' \in 0 .. MaxLoads
      BY <1>1
    <3>2. shown' \in [query : Filter \cup {None}, load : 0 .. MaxLoads, newest : 0 .. MaxLoads]
      BY <2>5, <3>1
    <3>. QED BY <1>1, <2>1, <2>2, <2>5, <3>1, <3>2 DEF IInv, TableInv, TableTypes
  <2>7. LoadsNumbered' /\ LastCall'
    <3>1. \A l \in loads : l.id <= begun /\ l.id \in Int
      BY DEF IInv, TableInv, TableTypes, LoadsNumbered, Load, LoadId
    <3>2. LoadsNumbered'
      BY <1>1, <2>1, <2>5, <3>1 DEF IInv, TableInv, LoadsNumbered
    <3>3. \A l \in loads' : l.id # begun'
      BY <1>1, <2>1, <3>1
    <3>. QED BY <2>5, <3>2, <3>3 DEF LastCall
  <2>. QED BY <1>2, <2>1, <2>3, <2>6, <2>7 DEF IInv, TableInv
<1>4. CASE ~(~force /\ CacheHit(query))
  <2>. DEFINE new == [id |-> begun + 1, query |-> query]
  <2>1. /\ loads' = loads \cup {new} /\ loading' = TRUE
        /\ UNCHANGED <<rows, shown, page>>
    BY <1>4 DEF LoadData
  <2>2. new \in Load /\ new.id = begun' /\ new.query = filter'
    BY <1>1 DEF Load, LoadId
  <2>3. \A l \in loads : l.id <= begun /\ l.id \in Int
    BY DEF IInv, TableInv, TableTypes, LoadsNumbered, Load, LoadId
  <2>. HIDE DEF new
  <2>4. TableTypes'
    <3>1. begun' \in 0 .. MaxLoads
      BY <1>1
    <3>. QED BY <1>1, <2>1, <2>2, <3>1 DEF IInv, TableInv, TableTypes
  <2>5. LoadsNumbered'
    <3>1. \A l \in loads' : l.id <= begun'
      BY <1>1, <2>1, <2>2, <2>3
    <3>2. \A k, l \in loads' : k.id = l.id => k = l
      BY <1>1, <2>1, <2>2, <2>3 DEF IInv, TableInv, LoadsNumbered
    <3>3. shown'.load <= shown'.newest /\ shown'.newest <= begun'
      BY <1>1, <2>1 DEF IInv, TableInv, TableTypes, LoadsNumbered
    <3>. QED BY <3>1, <3>2, <3>3 DEF LoadsNumbered
  <2>6. LastCall'
    <3>1. \A l \in loads' : l.id = begun' => l = new
      BY <1>1, <2>1, <2>2, <2>3
    <3>. QED BY <2>1, <2>2, <3>1 DEF LastCall
  <2>7. PageInv'
    BY <2>1, PageStays DEF IInv
  <2>. QED BY <1>2, <2>1, <2>4, <2>5, <2>6, <2>7 DEF IInv, TableInv
<1>. QED BY <1>3, <1>4

LEMMA StepMount == ASSUME IInv, Mount PROVE IInv'
  BY LoadDataKeeps DEF Mount, IInv, TableInv, TableTypes

LEMMA StepChangeFilter == ASSUME IInv, NEW f \in Filter, ChangeFilter(f) PROVE IInv'
  BY LoadDataKeeps DEF ChangeFilter, FilterChanges, IInv, TableInv, TableTypes

LEMMA StepForceRefresh == ASSUME IInv, ForceRefresh PROVE IInv'
  BY LoadDataKeeps DEF ForceRefresh, IInv, TableInv, TableTypes

\* An answer that is not the last call's is noticed as overtaken.
LEMMA StepLoadAnswered == ASSUME IInv, NEW l \in loads, LoadAnswered(l) PROVE IInv'
<1>. DEFINE contracts == Answer(l.query)
<1>1. /\ l \in Load /\ l.id \in 1 .. MaxLoads /\ l.query \in Filter /\ l.id <= begun
  BY DEF IInv, TableInv, TableTypes, LoadsNumbered, Load, LoadId
<1>2. contracts \in SUBSET Contract /\ contracts \subseteq Matches[l.query]
  BY <1>1, AnswerFits
<1>3. /\ loads' = loads \ {l} /\ SetRows(contracts, l.query, l.id)
      /\ cache' \in {cache, CacheEntry(l.query, contracts)} /\ loading' = FALSE
      /\ UNCHANGED <<mounted, filter, route, error, begun>>
  BY DEF LoadAnswered
<1>4. CacheFits'
  <2>1. CASE cache' = cache
    BY <2>1 DEF IInv, CacheFits
  <2>2. CASE cache' = CacheEntry(l.query, contracts)
    BY <1>1, <1>2, <2>2 DEF CacheFits, CacheEntry, Entry
  <2>. QED BY <1>3, <2>1, <2>2
<1>5. PageInv'
  <2>. HIDE DEF contracts
  <2>. QED BY <1>2, <1>3, SetRowsKeepsPage
<1>6. /\ rows' = contracts
      /\ shown' = [query |-> l.query, load |-> l.id,
                   newest |-> IF l.id > shown.newest THEN l.id ELSE shown.newest]
  BY <1>3 DEF SetRows
<1>7. /\ shown.load \in 0 .. MaxLoads /\ shown.newest \in 0 .. MaxLoads
      /\ shown.newest <= begun /\ begun \in 0 .. MaxLoads
  BY DEF IInv, TableInv, TableTypes, LoadsNumbered
<1>8. /\ shown'.query = l.query /\ shown'.load = l.id
      /\ shown'.newest \in 0 .. MaxLoads /\ shown'.newest <= begun
      /\ l.id <= shown'.newest /\ shown.newest <= shown'.newest
      /\ shown' \in [query : Filter \cup {None}, load : 0 .. MaxLoads,
                     newest : 0 .. MaxLoads]
  <2>. DEFINE newest == IF l.id > shown.newest THEN l.id ELSE shown.newest
  <2>1. /\ newest \in 0 .. MaxLoads /\ newest <= begun
        /\ l.id <= newest /\ shown.newest <= newest
    BY <1>1, <1>7, BoundsAssumption
  <2>2. shown' = [query |-> l.query, load |-> l.id, newest |-> newest]
    BY <1>6
  <2>3. l.id \in 0 .. MaxLoads /\ l.query \in Filter \cup {None}
    BY <1>1, BoundsAssumption
  <2>. HIDE DEF newest
  <2>. QED BY <2>1, <2>2, <2>3
<1>9. TableTypes'
  BY <1>1, <1>2, <1>3, <1>6, <1>8 DEF IInv, TableInv, TableTypes
<1>10. LoadsNumbered'
  BY <1>3, <1>8 DEF IInv, TableInv, LoadsNumbered
<1>11. LastCall'
  <2>1. SUFFICES ASSUME mounted
                 PROVE  /\ \/ \E k \in loads' : k.id = begun
                           \/ /\ shown'.newest = begun
                              /\ shown'.load = begun => shown'.query = filter
                           \/ error
                        /\ \A k \in loads' : k.id = begun => k.query = filter
    BY <1>3 DEF LastCall
  <2>2. \A k \in loads : k.id = begun => k.query = filter
    BY <2>1 DEF IInv, TableInv, LastCall
  <2>3. CASE l.id = begun
    BY <1>3, <1>7, <1>8, <2>2, <2>3
  <2>4. CASE l.id # begun
    <3>1. CASE \E k \in loads : k.id = begun
      BY <1>3, <2>2, <2>4, <3>1
    <3>2. CASE shown.newest = begun
      BY <1>3, <1>7, <1>8, <2>2, <2>4, <3>2
    <3>3. CASE error
      BY <1>3, <2>2, <3>3
    <3>. QED BY <2>1, <3>1, <3>2, <3>3 DEF IInv, TableInv, LastCall
  <2>. QED BY <2>3, <2>4
<1>. QED BY <1>3, <1>4, <1>5, <1>9, <1>10, <1>11 DEF IInv, TableInv

\* A failure is shown as one.
LEMMA StepLoadFailed == ASSUME IInv, NEW l \in loads, LoadFailed(l) PROVE IInv'
<1>1. /\ loads' = loads \ {l} /\ error' = TRUE /\ loading' = FALSE
      /\ UNCHANGED <<mounted, filter, route, rows, begun, shown, cache, page>>
  BY DEF LoadFailed, LoadingEnds
<1>2. PageInv'
  BY <1>1, PageStays DEF IInv
<1>3. TableTypes' /\ LoadsNumbered' /\ CacheFits'
  BY <1>1 DEF IInv, TableInv, TableTypes, LoadsNumbered, CacheFits
<1>4. LastCall'
  BY <1>1 DEF IInv, TableInv, LastCall
<1>. QED BY <1>1, <1>2, <1>3, <1>4 DEF IInv, TableInv

LEMMA StepNavigate == ASSUME IInv, NEW to \in Contract \cup {Home}, Navigate(to) PROVE IInv'
<1>1. /\ route' = to /\ UNCHANGED <<mounted, filter, table, cache>>
      /\ rows' \subseteq Contract
      /\ to = Home => ClosePage
      /\ to # Home => RowChanges(Selected(rows', route'))
  BY DEF Navigate, IInv, TableInv, TableTypes
<1>2. PageInv'
  BY <1>1, ClosePageKeeps, RowChangesKeeps DEF IInv
<1>3. TableTypes' /\ LoadsNumbered' /\ LastCall' /\ CacheFits'
  BY <1>1 DEF IInv, TableInv, TableTypes, LoadsNumbered, LastCall, CacheFits
<1>. QED BY <1>1, <1>2, <1>3 DEF IInv, TableInv

LEMMA StepReload == ASSUME IInv, Reload PROVE IInv'
<1>1. PageInv'
  BY ClosePageKeeps DEF Reload
<1>2. TableTypes'
  <2>1. shown' \in [query : Filter \cup {None}, load : 0 .. MaxLoads, newest : 0 .. MaxLoads]
    BY BoundsAssumption DEF Reload, FreshTable
  <2>. QED BY <2>1, FilterAssumption DEF Reload, FreshTable, IInv, TableInv, TableTypes
<1>3. LoadsNumbered'
  BY DEF Reload, FreshTable, LoadsNumbered, IInv, TableInv, TableTypes
<1>4. LastCall' /\ CacheFits' /\ ~mounted'
  BY DEF Reload, FreshTable, LastCall, CacheFits, IInv
<1>. QED BY <1>1, <1>2, <1>3, <1>4 DEF IInv, TableInv

\* Neither the server nor other tabs touch the page; what tabs share fits.
LEMMA StepOthers ==
  ASSUME IInv, CacheFits',
         UNCHANGED <<mounted, filter, route, table, page>>
  PROVE  IInv'
<1>1. PageInv'
  BY PageStays DEF IInv
<1>2. TableTypes' /\ LoadsNumbered' /\ LastCall'
  BY DEF IInv, TableInv, TableTypes, LoadsNumbered, LastCall
<1>. QED BY <1>1, <1>2 DEF IInv, TableInv

LEMMA StepScanStored == ASSUME IInv, NEW c \in Contract, ScanStored(c) PROVE IInv'
<1>1. CacheFits'
  BY DEF ScanStored, IInv, CacheFits
<1>. QED BY <1>1, StepOthers DEF ScanStored

LEMMA StepOtherTabCaches == ASSUME IInv, NEW q \in Filter, OtherTabCaches(q) PROVE IInv'
<1>1. cache' = [query |-> q, contracts |-> Answer(q), fresh |-> TRUE]
  BY DEF OtherTabCaches
<1>2. Answer(q) \subseteq Matches[q] /\ Answer(q) \subseteq Contract
  BY AnswerFits
<1>3. CacheFits'
  BY <1>1, <1>2 DEF CacheFits, Entry
<1>. QED BY <1>3, StepOthers DEF OtherTabCaches

LEMMA StepCacheExpires == ASSUME IInv, CacheExpires PROVE IInv'
<1>1. cache \in Entry /\ cache.contracts \subseteq Matches[cache.query]
  BY DEF CacheExpires, IInv, CacheFits
<1>2. cache' = [cache EXCEPT !.fresh = FALSE]
  BY DEF CacheExpires
<1>3. CacheFits'
  BY <1>1, <1>2 DEF CacheFits, Entry
<1>. QED BY <1>3, StepOthers DEF CacheExpires

LEMMA StepStutter == ASSUME IInv, UNCHANGED vars PROVE IInv'
<1>1. CacheFits'
  BY DEF vars, IInv, CacheFits
<1>. QED BY <1>1, StepOthers DEF vars

LEMMA InitIInv == ASSUME Init PROVE IInv
<1>1. TableTypes
  <2>1. shown \in [query : Filter \cup {None}, load : 0 .. MaxLoads, newest : 0 .. MaxLoads]
    BY BoundsAssumption DEF Init
  <2>. QED BY <2>1, FilterAssumption, BoundsAssumption DEF Init, TableTypes
<1>2. LoadsNumbered /\ LastCall
  BY DEF Init, LoadsNumbered, LastCall
<1>3. PageInv
  BY DEF Init, PageInv, PageTypes, PageFits, ForeignProfileStrayed
<1>4. CacheFits /\ ~mounted
  BY DEF Init, CacheFits
<1>. QED BY <1>1, <1>2, <1>3, <1>4 DEF IInv, TableInv

LEMMA StepIInv == ASSUME IInv, [Next]_vars PROVE IInv'
  BY StepScanStored, StepLoadProfileEnds, StepRefreshProfile, StepRefreshProfileEnds, StepMount,
     StepChangeFilter, StepOtherTabCaches, StepForceRefresh, StepLoadAnswered, StepLoadFailed,
     StepNavigate, StepReload, StepCacheExpires, StepStutter
  DEF Next

------------------------------------------------------------------------------
\* The server's table.

\* A contract has one row, as address and chain are the key of the table.
OneRowEach == \A i, j \in DOMAIN scans : scans[i] = scans[j] => i = j

ServerTable == scans \in Seq(Contract) /\ OneRowEach

\* Of the table without row i, the rows before i have kept their places, those
\* behind it have moved up.
LEMMA WithoutRow ==
  ASSUME scans \in Seq(Contract), NEW i \in DOMAIN scans
  PROVE  /\ Without(i) \in Seq(Contract)
         /\ Len(Without(i)) = Len(scans) - 1
         /\ \A j \in 1 .. Len(scans) - 1 :
              Without(i)[j] = IF j < i THEN scans[j] ELSE scans[j + 1]
<1>. DEFINE n == Len(scans)
            front == SubSeq(scans, 1, i - 1)
            back == SubSeq(scans, i + 1, n)
<1>1. n \in Nat /\ i \in 1 .. n /\ \A j \in 1 .. n : scans[j] \in Contract
  BY LenProperties, ElementOfSeq
<1>2. /\ front \in Seq(Contract) /\ Len(front) = i - 1
      /\ \A j \in 1 .. i - 1 : front[j] = scans[j]
  <2>1. \A j \in 1 .. i - 1 : scans[j] \in Contract
    BY <1>1
  <2>. HIDE DEF n
  <2>. QED BY <1>1, <2>1, SubSeqProperties
<1>3. /\ back \in Seq(Contract) /\ Len(back) = n - i
      /\ \A j \in 1 .. n - i : back[j] = scans[j + i]
  <2>1. \A j \in i + 1 .. n : scans[j] \in Contract
    BY <1>1
  <2>. HIDE DEF n
  <2>2. /\ back \in Seq(Contract)
        /\ Len(back) = IF i + 1 <= n THEN n - (i + 1) + 1 ELSE 0
        /\ \A j \in 1 .. n - (i + 1) + 1 : back[j] = scans[(i + 1) + j - 1]
    BY <1>1, <2>1, SubSeqProperties
  <2>. HIDE DEF back
  <2>. QED BY <1>1, <2>2
<1>4. Without(i) = front \o back
  BY DEF Without
<1>. HIDE DEF n, front, back
<1>5. /\ front \o back \in Seq(Contract)
      /\ Len(front \o back) = Len(front) + Len(back)
      /\ \A j \in 1 .. Len(front) + Len(back) :
           (front \o back)[j] = IF j <= Len(front) THEN front[j] ELSE back[j - Len(front)]
  BY <1>2, <1>3, ConcatProperties
<1>6. Len(front) = i - 1 /\ Len(back) = n - i /\ Len(front) + Len(back) = n - 1
  BY <1>1, <1>2, <1>3
<1>7. ASSUME NEW j \in 1 .. n - 1
      PROVE  (front \o back)[j] = IF j < i THEN scans[j] ELSE scans[j + 1]
  <2>1. (front \o back)[j] = IF j <= i - 1 THEN front[j] ELSE back[j - (i - 1)]
    BY <1>5, <1>6
  <2>2. CASE j < i
    BY <1>1, <1>2, <2>1, <2>2
  <2>3. CASE ~(j < i)
    <3>1. j - (i - 1) \in 1 .. n - i /\ ~(j <= i - 1)
      BY <1>1, <2>3
    <3>2. (j - (i - 1)) + i = j + 1
      BY <1>1
    <3>. QED BY <1>3, <2>1, <2>3, <3>1, <3>2
  <2>. QED BY <2>2, <2>3
<1>. QED BY <1>4, <1>5, <1>6, <1>7 DEF n

\* A scan puts its contract last, and takes it from where it was.
LEMMA ScanKeepsTable ==
  ASSUME ServerTable, NEW c \in Contract, ScanStored(c)
  PROVE  ServerTable'
<1>1. ASSUME NEW s \in Seq(Contract), scans' = Append(s, c),
             \A i, j \in 1 .. Len(s) : s[i] = s[j] => i = j,
             \A i \in 1 .. Len(s) : s[i] # c
      PROVE  ServerTable'
  <2>1. /\ scans' \in Seq(Contract) /\ Len(scans') = Len(s) + 1 /\ Len(s) \in Nat
        /\ \A i \in 1 .. Len(s) : scans'[i] = s[i]
        /\ scans'[Len(s) + 1] = c
    BY <1>1, AppendProperties
  <2>2. DOMAIN scans' = 1 .. Len(s) + 1
    BY <2>1
  <2>3. ASSUME NEW i \in 1 .. Len(s) + 1, NEW j \in 1 .. Len(s) + 1, scans'[i] = scans'[j]
        PROVE  i = j
    <3>1. CASE i = Len(s) + 1 /\ j = Len(s) + 1
      BY <3>1
    <3>2. CASE i \in 1 .. Len(s) /\ j \in 1 .. Len(s)
      BY <1>1, <2>1, <2>3, <3>2
    <3>3. CASE i \in 1 .. Len(s) /\ j = Len(s) + 1
      BY <1>1, <2>1, <2>3, <3>3
    <3>4. CASE i = Len(s) + 1 /\ j \in 1 .. Len(s)
      BY <1>1, <2>1, <2>3, <3>4
    <3>. QED BY <2>1, <3>1, <3>2, <3>3, <3>4
  <2>. QED BY <2>1, <2>2, <2>3 DEF ServerTable, OneRowEach
<1>2. scans \in Seq(Contract) /\ Len(scans) \in Nat /\ DOMAIN scans = 1 .. Len(scans)
  BY LenProperties DEF ServerTable
<1>3. CASE /\ \A i \in DOMAIN scans : scans[i] # c
           /\ scans' = Append(scans, c)
  BY <1>1, <1>2, <1>3 DEF ServerTable, OneRowEach
<1>4. ASSUME NEW i \in DOMAIN scans, scans[i] = c, scans' = Append(Without(i), c)
      PROVE  ServerTable'
  <2>1. /\ Without(i) \in Seq(Contract) /\ Len(Without(i)) = Len(scans) - 1
        /\ \A j \in 1 .. Len(scans) - 1 :
             Without(i)[j] = IF j < i THEN scans[j] ELSE scans[j + 1]
    BY <1>2, WithoutRow
  <2>2. ASSUME NEW j \in 1 .. Len(Without(i)) PROVE Without(i)[j] # c
    <3>1. i \in 1 .. Len(scans) /\ j \in 1 .. Len(scans) - 1
      BY <1>2, <2>1
    <3>2. CASE j < i
      <4>1. j \in DOMAIN scans /\ Without(i)[j] = scans[j]
        BY <1>2, <2>1, <3>1, <3>2
      <4>. QED BY <1>2, <1>4, <3>1, <3>2, <4>1 DEF ServerTable, OneRowEach
    <3>3. CASE ~(j < i)
      <4>1. j + 1 \in DOMAIN scans /\ Without(i)[j] = scans[j + 1] /\ j + 1 # i
        BY <1>2, <2>1, <3>1, <3>3
      <4>. QED BY <1>4, <4>1 DEF ServerTable, OneRowEach
    <3>. QED BY <3>2, <3>3
  <2>3. ASSUME NEW j \in 1 .. Len(Without(i)), NEW k \in 1 .. Len(Without(i)),
               Without(i)[j] = Without(i)[k]
        PROVE  j = k
    <3>. DEFINE place(x) == IF x < i THEN x ELSE x + 1
    <3>1. /\ i \in 1 .. Len(scans)
          /\ j \in 1 .. Len(scans) - 1 /\ k \in 1 .. Len(scans) - 1
      BY <1>2, <2>1
    <3>2. place(j) \in DOMAIN scans /\ place(k) \in DOMAIN scans
      BY <1>2, <3>1
    <3>3. scans[place(j)] = scans[place(k)]
      BY <2>1, <2>3, <3>1
    <3>4. place(j) = place(k)
      BY <3>2, <3>3 DEF ServerTable, OneRowEach
    <3>. QED BY <3>1, <3>4
  <2>. QED BY <1>1, <1>4, <2>1, <2>2, <2>3
<1>. QED BY <1>3, <1>4 DEF ScanStored

LEMMA StepServerTable == ASSUME ServerTable, [Next]_vars PROVE ServerTable'
<1>1. ASSUME NEW c \in Contract, ScanStored(c) PROVE ServerTable'
  BY <1>1, ScanKeepsTable
<1>2. CASE UNCHANGED scans
  BY <1>2 DEF ServerTable, OneRowEach
<1>. QED
  BY <1>1, <1>2
  DEF Next, vars, LoadProfileEnds, RefreshProfile, RefreshProfileEnds, Mount, ChangeFilter,
      OtherTabCaches, ForceRefresh, LoadAnswered, LoadFailed, Navigate, Reload, CacheExpires

------------------------------------------------------------------------------
\* The theorems.

\* What the tab knows of its last call, of its page and of the cache, at every
\* moment and whatever order answers come in.
THEOREM Invariance == Spec => []IInv
<1>1. Init => IInv
  BY InitIInv
<1>2. IInv /\ [Next]_vars => IInv'
  BY StepIInv
<1>. QED BY <1>1, <1>2, PTL DEF Spec

\* Every contract has one row in the server's table.
THEOREM OneRowPerContract == Spec => []ServerTable
<1>1. Init => ServerTable
  BY EmptySeq DEF Init, ServerTable, OneRowEach
<1>2. ServerTable /\ [Next]_vars => ServerTable'
  BY StepServerTable
<1>. QED BY <1>1, <1>2, PTL DEF Spec

\* Every variable keeps its type.
THEOREM TypeCorrect == Spec => []TypeOK
<1>1. IInv /\ ServerTable => TypeOK
  BY DEF IInv, TableInv, TableTypes, PageInv, PageTypes, CacheFits, ServerTable, TypeOK
<1>. QED BY <1>1, Invariance, OneRowPerContract, PTL

\* A cache entry has rows of its own query only.
THEOREM CacheTrue == Spec => []CacheAnswersKey
<1>1. IInv => CacheAnswersKey
  BY DEF IInv, CacheFits, CacheAnswersKey
<1>. QED BY <1>1, Invariance, PTL

\* No page waits without an open fetch.
THEOREM NoEndlessSpinner == Spec => []SpinnersEnd
<1>1. IInv => SpinnersEnd
  BY DEF IInv, TableInv, PageInv, SpinnersEnd
<1>. QED BY <1>1, Invariance, PTL

\* The table at rest is that of the filter, or of an answer that overtook.
THEOREM TableFitsFilter == Spec => []TableOfFilter
<1>1. ASSUME IInv PROVE TableOfFilter
  <2>1. SUFFICES ASSUME mounted, loads = {}, ~error
                 PROVE  shown.query = filter \/ shown.load < shown.newest
    BY DEF TableOfFilter
  <2>2. shown.newest = begun /\ (shown.load = begun => shown.query = filter)
    BY <1>1, <2>1 DEF IInv, TableInv, LastCall
  <2>3. shown.load <= shown.newest /\ shown.load \in Int /\ shown.newest \in Int
    BY <1>1 DEF IInv, TableInv, TableTypes, LoadsNumbered
  <2>. QED BY <2>2, <2>3
<1>. QED BY <1>1, Invariance, PTL

\* Another contract's profile is shown as current only after a stray refresh.
THEOREM ForeignOnlyStray == Spec => []ForeignProfileStrayed
<1>1. IInv => ForeignProfileStrayed
  BY DEF IInv, PageInv
<1>. QED BY <1>1, Invariance, PTL
==============================================================================

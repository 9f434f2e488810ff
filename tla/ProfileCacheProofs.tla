-------------------------- MODULE ProfileCacheProofs -------------------------
EXTENDS ProfileCache, TLAPS

USE DEF dbVars, reqVars

\* The fields of a row.
LEMMA RowFields ==
  ASSUME TypeOK, row # None
  PROVE  /\ row.profile \in Version \cup {Empty}
         /\ row.updatedAt \in Time
         /\ row.lastRefreshAttemptAt \in Time \cup {None}
         /\ row.lastRefreshError \in {None, "error"}
  BY DEF TypeOK, Row

LEMMA Numbers ==
  /\ Time \subseteq Int /\ Version \subseteq Int
  /\ Empty \notin Version /\ None \notin Time /\ None \notin Row /\ None # "error"
  BY BoundsAssumption, NoneAssumption DEF Time, Version, Empty

\* The counts a request keeps.
LEMMA MarksUpdate ==
  ASSUME NEW u \in Marks, NEW n \in Nat
  PROVE  /\ NothingRead \in Marks /\ [NothingRead EXCEPT !.meta = n, !.row = n] \in Marks
         /\ [u EXCEPT !.own = n] \in Marks /\ [u EXCEPT !.row = n] \in Marks
         /\ [u EXCEPT !.diff = n] \in Marks /\ [u EXCEPT !.list = n] \in Marks
  BY DEF Marks, NothingRead

LEMMA ZeroIsTime == 0 \in Time
  BY BoundsAssumption DEF Time

\* What the three writes of the row leave behind.
LEMMA UpsertRowWrites ==
  ASSUME TypeOK, NEW p \in Version, UpsertRow(p)
  PROVE  /\ row' \in Row
         /\ row'.profile = p
         /\ row'.updatedAt = now
         /\ row'.lastRefreshError = None
         /\ row'.lastRefreshAttemptAt = IF row = None THEN None ELSE now
<1>1. now \in Time
  BY DEF TypeOK
<1>2. CASE row = None
  BY <1>1, <1>2 DEF UpsertRow, Row
<1>3. CASE row # None
  <2>1. row' = [Attempted(now, None) EXCEPT !.profile = p, !.updatedAt = now]
    BY <1>3 DEF UpsertRow
  <2>2. row \in Row
    BY <1>3 DEF TypeOK
  <2>. QED
    BY <1>1, <1>3, <2>1, <2>2 DEF Attempted, Row
<1>. QED
  BY <1>2, <1>3

LEMMA MarkWrites ==
  ASSUME TypeOK, MarkProfileRefreshError
  PROVE  /\ row' \in Row
         /\ row'.profile = IF row = None THEN Empty ELSE row.profile
         /\ row'.updatedAt = IF row = None THEN now ELSE row.updatedAt
         /\ row'.lastRefreshError = "error"
         /\ row'.lastRefreshAttemptAt = now
<1>1. now \in Time
  BY DEF TypeOK
<1>2. CASE row = None
  BY <1>1, <1>2 DEF MarkProfileRefreshError, Row
<1>3. CASE row # None
  <2>1. row' = Attempted(now, "error")
    BY <1>3 DEF MarkProfileRefreshError
  <2>2. row \in Row
    BY <1>3 DEF TypeOK
  <2>. QED
    BY <1>1, <1>3, <2>1, <2>2 DEF Attempted, Row
<1>. QED
  BY <1>2, <1>3

------------------------------------------------------------------------------
LEMMA Initially == ASSUME Init PROVE IInv
<1>. USE DEF Init
<1>1. TypeOK
  BY BoundsAssumption DEF TypeOK, Time, Version, ThreadPc, Empty, Marks, NothingRead
<1>2. Requests /\ RowTimes /\ BackoffRespected /\ AttemptUnsetOnce
  BY DEF Requests, RowTimes, BackoffRespected, AttemptUnsetOnce, Empty
<1>3. CachedIsNewestSnapshot /\ FallbackUnreachable
  BY DEF CachedIsNewestSnapshot, FallbackUnreachable
<1>4. Reads
  <2>1. Len(snapshots) = 0
    OBVIOUS
  <2>2. ASSUME NEW t \in Thread
        PROVE  /\ cached[t] = None /\ pc[t] = "idle"
               /\ upto[t].meta = 0 /\ upto[t].own = 0 /\ upto[t].row = 0 /\ upto[t].diff = 0 /\ upto[t].list = 0
    BY DEF NothingRead
  <2>. HIDE DEF Init
  <2>3. ASSUME NEW t \in Thread PROVE ReadsOf(t)
    BY <2>1, <2>2 DEF ReadsOf
  <2>. QED
    BY <2>3 DEF Reads
<1>. QED
  BY <1>1, <1>2, <1>3, <1>4 DEF IInv

LEMMA TypeStep ==
  ASSUME TypeOK, Requests, [Next]_vars
  PROVE  TypeOK'
<1>. USE DEF TypeOK, ThreadPc
<1>length. Len(snapshots) \in Nat /\ Len(snapshots) + 1 \in Nat
  OBVIOUS
<1>1. ASSUME NEW t \in Thread, NEW refresh \in BOOLEAN, ReadCache(t, refresh)
      PROVE  TypeOK'
  <2>1. [NothingRead EXCEPT !.meta = Len(snapshots), !.row = Len(snapshots)] \in Marks
    BY <1>length, MarksUpdate
  <2>. QED
    BY <1>1, <2>1, ZeroIsTime DEF ReadCache, Goto
<1>2. ASSUME NEW t \in Thread, Enrich(t) PROVE TypeOK'
  BY <1>2, ZeroIsTime DEF Enrich, ExplorerData, Goto
<1>3. ASSUME NEW t \in Thread, StoreProfile(t) PROVE TypeOK'
  <2>1. profile[t] \in Version
    BY <1>3 DEF StoreProfile, Requests
  <2>2. row' \in Row
    BY <1>3, <2>1, UpsertRowWrites DEF StoreProfile
  <2>3. [upto[t] EXCEPT !.own = Len(snapshots) + 1] \in Marks
    BY <1>length, MarksUpdate
  <2>4. upto' \in [Thread -> Marks]
    BY <1>3, <2>3 DEF StoreProfile
  <2>. QED
    BY <1>3, <2>1, <2>2, <2>4 DEF StoreProfile, AddSnapshot, Goto
<1>4. ASSUME NEW t \in Thread, RefreshRaises(t) PROVE TypeOK'
  BY <1>4, ZeroIsTime DEF RefreshRaises, Goto
<1>5. ASSUME NEW t \in Thread, MarkError(t) PROVE TypeOK'
  <2>1. row' \in Row
    BY <1>5, MarkWrites DEF MarkError
  <2>. QED
    BY <1>5, <2>1 DEF MarkError, Goto
<1>6. ASSUME NEW t \in Thread, Reread(t) PROVE TypeOK'
  <2>1. [upto[t] EXCEPT !.row = Len(snapshots)] \in Marks
    BY <1>length, MarksUpdate
  <2>2. upto' \in [Thread -> Marks]
    BY <1>6, <2>1 DEF Reread, CachedAgain
  <2>. QED
    BY <1>6, <2>2 DEF Reread, CachedAgain, Goto, Requests
<1>7. ASSUME NEW t \in Thread, RequestFails(t) \/ Respond(t) \/ ReadDiff(t) \/ ListSnapshots(t)
      PROVE  TypeOK'
  <2>1. /\ [upto[t] EXCEPT !.diff = Len(snapshots)] \in Marks
        /\ [upto[t] EXCEPT !.list = Len(snapshots)] \in Marks
        /\ NothingRead \in Marks
    BY <1>length, MarksUpdate
  <2>2. upto' \in [Thread -> Marks]
    BY <1>7, <2>1 DEF RequestFails, Respond, ReadDiff, ListSnapshots
  <2>. QED
    BY <1>7, <2>2 DEF RequestFails, Respond, ReadDiff, ListSnapshots, Goto
<1>8. CASE Tick
  BY <1>8, BoundsAssumption DEF Tick, Time
<1>9. CASE DataChanges
  BY <1>9, BoundsAssumption DEF DataChanges, Version
<1>10. CASE Crash
  <2>1. NothingRead \in Marks
    BY DEF NothingRead, Marks
  <2>. QED
    BY <1>10, <2>1, ZeroIsTime DEF Crash
<1>11. CASE UNCHANGED vars
  BY <1>11 DEF vars
<1>. QED
  BY <1>1, <1>2, <1>3, <1>4, <1>5, <1>6, <1>7, <1>8, <1>9, <1>10, <1>11 DEF Next

LEMMA RequestsStep ==
  ASSUME TypeOK, Requests, [Next]_vars
  PROVE  Requests'
<1>. USE Numbers DEF TypeOK, Requests
<1>1. ASSUME NEW t \in Thread, NEW refresh \in BOOLEAN, ReadCache(t, refresh)
      PROVE  Requests'
  BY <1>1 DEF ReadCache, Goto, ShouldRefresh, WithinBackoff, Free, Time
<1>2. ASSUME NEW t \in Thread, Enrich(t) PROVE Requests'
  BY <1>2 DEF Enrich, ExplorerData, Goto, Time
<1>3. ASSUME NEW t \in Thread, StoreProfile(t) PROVE Requests'
  <2>1. row' # None
    BY <1>3, UpsertRowWrites DEF StoreProfile
  <2>. QED
    BY <1>3, <2>1 DEF StoreProfile, Goto
<1>4. ASSUME NEW t \in Thread, RefreshRaises(t) PROVE Requests'
  BY <1>4 DEF RefreshRaises, Goto, Time
<1>5. ASSUME NEW t \in Thread, MarkError(t) PROVE Requests'
  <2>1. row' # None
    BY <1>5, MarkWrites DEF MarkError
  <2>. QED
    BY <1>5, <2>1 DEF MarkError, Goto
<1>6. ASSUME NEW t \in Thread, Reread(t) PROVE Requests'
  BY <1>6 DEF Reread, CachedAgain, Goto
<1>7. ASSUME NEW t \in Thread, RequestFails(t) \/ Respond(t) \/ ReadDiff(t) \/ ListSnapshots(t)
      PROVE  Requests'
  BY <1>7 DEF RequestFails, Respond, ReadDiff, ListSnapshots, Goto
<1>8. CASE Tick
  <2>1. now \in Int /\ \A t \in Thread : began[t] \in Int
    OBVIOUS
  <2>2. now' = now + 1 /\ UNCHANGED <<row, pc, cached, profile, began>>
    BY <1>8 DEF Tick
  <2>3. \A t \in Thread : began[t] <= now + 1
    BY <2>1
  <2>. QED
    BY <2>2, <2>3
<1>9. CASE DataChanges
  BY <1>9 DEF DataChanges
<1>10. CASE Crash
  BY <1>10 DEF Crash, Time
<1>11. CASE UNCHANGED vars
  BY <1>11 DEF vars
<1>. QED
  BY <1>1, <1>2, <1>3, <1>4, <1>5, <1>6, <1>7, <1>8, <1>9, <1>10, <1>11 DEF Next

\* The only writes of the row and the snapshots.
LEMMA Writes ==
  ASSUME [Next]_vars
  PROVE  \/ \E t \in Thread : StoreProfile(t)
         \/ \E t \in Thread : MarkError(t)
         \/ UNCHANGED dbVars
  BY DEF Next, vars, ReadCache, Enrich, RefreshRaises, Reread, RequestFails, Respond, ReadDiff,
         ListSnapshots, Tick, DataChanges, Crash

LEMMA TimePasses ==
  ASSUME TypeOK, [Next]_vars
  PROVE  now \in Int /\ now' \in Int /\ now <= now'
<1>1. now \in Int
  BY Numbers DEF TypeOK
<1>2. CASE Tick
  BY <1>1, <1>2 DEF Tick
<1>3. CASE UNCHANGED now
  BY <1>1, <1>3
<1>. QED
  BY <1>2, <1>3 DEF Next, vars, ReadCache, Enrich, StoreProfile, RefreshRaises, MarkError,
                    Reread, RequestFails, Respond, ReadDiff, ListSnapshots, DataChanges, Crash

LEMMA RowTimesStep ==
  ASSUME TypeOK, Requests, RowTimes, [Next]_vars
  PROVE  RowTimes'
<1>1. now \in Int
  BY Numbers DEF TypeOK
<1>2. ASSUME NEW t \in Thread, StoreProfile(t) PROVE RowTimes'
  <2>1. profile[t] \in Version /\ now' = now
    BY <1>2 DEF StoreProfile, Requests, TypeOK
  <2>. QED
    BY <1>1, <1>2, <2>1, UpsertRowWrites DEF StoreProfile, RowTimes
<1>3. ASSUME NEW t \in Thread, MarkError(t) PROVE RowTimes'
  <2>1. now' = now
    BY <1>3 DEF MarkError
  <2>. QED
    <3>1. /\ row'.lastRefreshError # None
          /\ row'.lastRefreshAttemptAt = now
          /\ row'.updatedAt = IF row = None THEN now ELSE row.updatedAt
      BY <1>3, MarkWrites, Numbers DEF MarkError
    <3>2. row'.updatedAt <= now
      BY <1>1, <3>1 DEF RowTimes
    <3>. QED
      BY <1>1, <2>1, <3>1, <3>2 DEF RowTimes
<1>4. CASE UNCHANGED dbVars
  <2>1. CASE row = None
    BY <1>4, <2>1 DEF RowTimes
  <2>2. CASE row # None
    <3>1. /\ row.updatedAt \in Int
          /\ row.lastRefreshAttemptAt # None => row.lastRefreshAttemptAt \in Int
      BY <2>2, RowFields, Numbers
    <3>2. now \in Int /\ now' \in Int /\ now <= now'
      BY TimePasses
    <3>3. row' = row
      BY <1>4
    <3>. QED
      BY <2>2, <3>1, <3>2, <3>3 DEF RowTimes
  <2>. QED
    BY <2>1, <2>2
<1>. QED
  BY <1>2, <1>3, <1>4, Writes

LEMMA NewestStep ==
  ASSUME TypeOK, Requests, CachedIsNewestSnapshot, [Next]_vars
  PROVE  CachedIsNewestSnapshot'
<1>1. ASSUME NEW t \in Thread, StoreProfile(t) PROVE CachedIsNewestSnapshot'
  <2>1. profile[t] \in Version
    BY <1>1 DEF StoreProfile, Requests, TypeOK
  <2>2. snapshots' = Append(snapshots, profile[t]) /\ snapshots \in Seq(Version)
    BY <1>1 DEF StoreProfile, AddSnapshot, TypeOK
  <2>3. /\ snapshots' # <<>>
        /\ snapshots'[Len(snapshots')] = profile[t]
    BY <2>1, <2>2
  <2>4. row' # None /\ row'.profile = profile[t]
    BY <1>1, <2>1, UpsertRowWrites, Numbers DEF StoreProfile
  <2>. QED
    BY <2>3, <2>4 DEF CachedIsNewestSnapshot
<1>2. ASSUME NEW t \in Thread, MarkError(t) PROVE CachedIsNewestSnapshot'
  BY <1>2, MarkWrites, Numbers DEF MarkError, CachedIsNewestSnapshot
<1>3. CASE UNCHANGED dbVars
  BY <1>3 DEF CachedIsNewestSnapshot
<1>. QED
  BY <1>1, <1>2, <1>3, Writes

LEMMA UnsetStep ==
  ASSUME TypeOK, Requests, CachedIsNewestSnapshot, AttemptUnsetOnce, [Next]_vars
  PROVE  AttemptUnsetOnce'
<1>1. ASSUME NEW t \in Thread, StoreProfile(t) PROVE AttemptUnsetOnce'
  <2>1. profile[t] \in Version
    BY <1>1 DEF StoreProfile, Requests, TypeOK
  <2>2. snapshots' = Append(snapshots, profile[t]) /\ snapshots \in Seq(Version)
    BY <1>1 DEF StoreProfile, AddSnapshot, TypeOK
  <2>3. CASE row = None
    <3>1. snapshots = <<>>
      BY <2>3 DEF CachedIsNewestSnapshot
    <3>2. Len(snapshots') = 1
      BY <2>1, <2>2, <3>1
    <3>. QED
      BY <1>1, <2>1, <3>2, UpsertRowWrites DEF StoreProfile, AttemptUnsetOnce
  <2>4. CASE row # None
    <3>1. row'.lastRefreshAttemptAt = now /\ now # None
      BY <1>1, <2>1, <2>4, UpsertRowWrites, Numbers DEF StoreProfile, TypeOK
    <3>. QED
      BY <1>1, <3>1 DEF StoreProfile, AttemptUnsetOnce
  <2>. QED
    BY <2>3, <2>4
<1>2. ASSUME NEW t \in Thread, MarkError(t) PROVE AttemptUnsetOnce'
  BY <1>2, MarkWrites, Numbers DEF MarkError, AttemptUnsetOnce, TypeOK
<1>3. CASE UNCHANGED dbVars
  BY <1>3 DEF AttemptUnsetOnce
<1>. QED
  BY <1>1, <1>2, <1>3, Writes

LEMMA BackoffStep ==
  ASSUME TypeOK, Requests, RowTimes, BackoffRespected, [Next]_vars
  PROVE  BackoffRespected'
<1>0. /\ now \in Int
      /\ \A t \in Thread : began[t] \in Int
      /\ row # None /\ row.lastRefreshAttemptAt # None => row.lastRefreshAttemptAt \in Int
  BY Numbers, RowFields DEF TypeOK
\* A recorded attempt is at least as late as the beginning of every open call.
<1>attempt. ASSUME row'.lastRefreshAttemptAt \in {now, None}, UNCHANGED began
            PROVE  BackoffRespected'
  BY <1>0, <1>attempt DEF BackoffRespected, Requests
<1>keep. ASSUME UNCHANGED row,
                \A t \in Thread : pc'[t] = "enrich" => pc[t] = "enrich" /\ began'[t] = began[t]
         PROVE  BackoffRespected'
  BY <1>keep DEF BackoffRespected
<1>1. ASSUME NEW t \in Thread, NEW refresh \in BOOLEAN, ReadCache(t, refresh)
      PROVE  BackoffRespected'
  <2>1. SUFFICES ASSUME NEW x \in Thread, pc'[x] = "enrich", row # None,
                        row.lastRefreshAttemptAt # None
                 PROVE  \/ began'[x] <= row.lastRefreshAttemptAt
                        \/ began'[x] - row.lastRefreshAttemptAt > Backoff
    BY <1>1 DEF ReadCache, BackoffRespected
  <2>2. CASE x = t
    <3>1. began'[x] = now /\ ~WithinBackoff
      BY <1>1, <2>1, <2>2 DEF ReadCache, Goto, ShouldRefresh, TypeOK
    <3>. QED
      BY <1>0, <2>1, <3>1, SettingsAssumption DEF WithinBackoff
  <2>3. CASE x # t
    <3>1. pc[x] = "enrich" /\ began'[x] = began[x]
      BY <1>1, <2>1, <2>3 DEF ReadCache, Goto, TypeOK
    <3>. QED
      BY <2>1, <3>1 DEF BackoffRespected
  <2>. QED
    BY <2>2, <2>3
<1>2. ASSUME NEW t \in Thread, StoreProfile(t) PROVE BackoffRespected'
  <2>1. profile[t] \in Version
    BY <1>2 DEF StoreProfile, Requests, TypeOK
  <2>. QED
    BY <1>2, <1>attempt, <2>1, UpsertRowWrites DEF StoreProfile
<1>3. ASSUME NEW t \in Thread, MarkError(t) PROVE BackoffRespected'
  BY <1>3, <1>attempt, MarkWrites DEF MarkError
<1>4. ASSUME NEW t \in Thread,
             \/ Enrich(t) \/ RefreshRaises(t) \/ Reread(t) \/ RequestFails(t)
             \/ Respond(t) \/ ReadDiff(t) \/ ListSnapshots(t)
      PROVE  BackoffRespected'
  BY <1>4, <1>keep
  DEF Enrich, RefreshRaises, Reread, RequestFails, Respond, ReadDiff, ListSnapshots, Goto,
      TypeOK, dbVars
<1>5. CASE Tick \/ DataChanges \/ Crash \/ UNCHANGED vars
  BY <1>5, <1>keep DEF Tick, DataChanges, Crash, vars
<1>. QED
  BY <1>1, <1>2, <1>3, <1>4, <1>5 DEF Next

LEMMA FallbackStep ==
  ASSUME TypeOK, Requests, FallbackUnreachable, [Next]_vars
  PROVE  FallbackUnreachable'
  BY DEF TypeOK, Requests, FallbackUnreachable, Next, vars, ReadCache, Enrich, StoreProfile,
         RefreshRaises, MarkError, Reread, CachedAgain, RequestFails, Respond, ReadDiff,
         ListSnapshots, Tick, DataChanges, Crash, Goto

\* A snapshot that is there stays where it is.
LEMMA SnapshotsGrow ==
  ASSUME TypeOK, [Next]_vars
  PROVE  /\ Len(snapshots) \in Nat /\ Len(snapshots') \in Nat /\ Len(snapshots) <= Len(snapshots')
         /\ \A i \in 1 .. Len(snapshots) : snapshots'[i] = snapshots[i]
<1>1. snapshots \in Seq(Version)
  BY DEF TypeOK
<1>2. ASSUME NEW t \in Thread, StoreProfile(t)
      PROVE  snapshots' = Append(snapshots, profile[t])
  BY <1>2 DEF StoreProfile, AddSnapshot
<1>3. CASE UNCHANGED snapshots
  BY <1>1, <1>3
<1>. QED
  BY <1>1, <1>2, <1>3, Writes DEF MarkError

\* What a request holds is kept by the steps of others and of the clock.
LEMMA ReadsKept ==
  ASSUME TypeOK, Reads, [Next]_vars, NEW t \in Thread,
         pc'[t] = pc[t], cached'[t] = cached[t], upto'[t] = upto[t]
  PROVE  ReadsOf(t)'
<1>1. ReadsOf(t)
  BY DEF Reads
<1>2. upto[t] \in Marks
  BY DEF TypeOK
<1>. QED
  BY <1>1, <1>2, SnapshotsGrow DEF ReadsOf, Marks

\* A row that is read now holds the newest snapshot.
LEMMA RowIsNewest ==
  ASSUME TypeOK, CachedIsNewestSnapshot, row # None
  PROVE  row.profile = IF Len(snapshots) = 0 THEN Empty ELSE snapshots[Len(snapshots)]
<1>1. snapshots \in Seq(Version)
  BY DEF TypeOK
<1>2. Len(snapshots) = 0 <=> snapshots = <<>>
  BY <1>1
<1>. QED
  BY <1>2 DEF CachedIsNewestSnapshot

LEMMA ReadsStep ==
  ASSUME TypeOK, CachedIsNewestSnapshot, Reads, [Next]_vars
  PROVE  Reads'
<1>0. Len(snapshots) \in Nat
  BY SnapshotsGrow
\* It is enough to look at the thread that takes the step.
<1>other. ASSUME NEW t \in Thread, ReadsOf(t)',
                 \A x \in Thread \ {t} :
                   pc'[x] = pc[x] /\ cached'[x] = cached[x] /\ upto'[x] = upto[x]
          PROVE  Reads'
  BY <1>other, ReadsKept DEF Reads
<1>1. ASSUME NEW t \in Thread, NEW refresh \in BOOLEAN, ReadCache(t, refresh)
      PROVE  Reads'
  <2>1. /\ cached'[t] = row /\ pc'[t] \in {"enrich", "respond"} /\ snapshots' = snapshots
        /\ upto'[t] = [meta |-> Len(snapshots), own |-> 0, row |-> Len(snapshots),
                       diff |-> 0, list |-> 0]
    BY <1>1 DEF ReadCache, Goto, NothingRead, TypeOK
  <2>2. ReadsOf(t)'
    BY <1>0, <2>1, RowIsNewest DEF ReadsOf
  <2>. QED
    BY <1>1, <1>other, <2>2 DEF ReadCache, Goto, TypeOK
<1>2. ASSUME NEW t \in Thread, Enrich(t) \/ RefreshRaises(t) \/ MarkError(t) \/ Respond(t)
      PROVE  Reads'
  <2>1. /\ cached'[t] = cached[t] /\ upto'[t] = upto[t] /\ snapshots' = snapshots
        /\ pc'[t] \notin {"list", "responded"}
        /\ pc[t] \in {"reread", "mark", "rereadError"} => pc'[t] \in {"mark", "rereadError"}
    BY <1>2 DEF Enrich, RefreshRaises, MarkError, Respond, Goto, TypeOK
  <2>2. ReadsOf(t)'
    BY <2>1 DEF Reads, ReadsOf
  <2>. QED
    BY <1>2, <1>other, <2>2 DEF Enrich, RefreshRaises, MarkError, Respond, Goto, TypeOK
<1>3. ASSUME NEW t \in Thread, StoreProfile(t) PROVE Reads'
  <2>1. /\ cached'[t] = cached[t] /\ pc'[t] = "reread"
        /\ upto'[t] = [upto[t] EXCEPT !.own = Len(snapshots) + 1]
    BY <1>3 DEF StoreProfile, Goto, TypeOK
  <2>2. Len(snapshots') = Len(snapshots) + 1
    BY <1>3 DEF StoreProfile, AddSnapshot, TypeOK
  <2>3. /\ upto[t] \in Marks
        /\ ReadsOf(t)
    BY DEF TypeOK, Reads
  <2>4. /\ upto'[t].own = Len(snapshots') /\ upto'[t].row = upto[t].row
        /\ upto'[t].diff = upto[t].diff /\ upto'[t].list = upto[t].list
        /\ upto'[t].meta = upto[t].meta
    BY <2>1, <2>2, <2>3 DEF Marks
  <2>5. ReadsOf(t)'
    BY <1>0, <2>1, <2>2, <2>3, <2>4, SnapshotsGrow DEF ReadsOf, Marks
  <2>. QED
    BY <1>3, <1>other, <2>5 DEF StoreProfile, Goto, TypeOK
<1>4. ASSUME NEW t \in Thread, Reread(t) PROVE Reads'
  <2>1. /\ cached'[t] = row /\ pc'[t] = "respond" /\ snapshots' = snapshots
        /\ upto'[t] = [upto[t] EXCEPT !.row = Len(snapshots)]
    BY <1>4 DEF Reread, CachedAgain, Goto, TypeOK
  <2>2. /\ upto[t] \in Marks
        /\ ReadsOf(t)
    BY DEF TypeOK, Reads
  <2>3. /\ upto'[t].row = Len(snapshots) /\ upto'[t].own = upto[t].own
        /\ upto'[t].diff = upto[t].diff /\ upto'[t].list = upto[t].list
        /\ upto'[t].meta = upto[t].meta
    BY <2>1, <2>2 DEF Marks
  <2>4. ReadsOf(t)'
    BY <1>0, <2>1, <2>2, <2>3, RowIsNewest DEF ReadsOf, Marks
  <2>. QED
    BY <1>4, <1>other, <2>4 DEF Reread, CachedAgain, Goto, TypeOK
<1>5. ASSUME NEW t \in Thread, RequestFails(t) PROVE Reads'
  <2>1. ReadsOf(t)'
    BY <1>0, <1>5 DEF RequestFails, Goto, NothingRead, ReadsOf, TypeOK
  <2>. QED
    BY <1>5, <1>other, <2>1 DEF RequestFails, Goto, TypeOK
<1>6. ASSUME NEW t \in Thread, ReadDiff(t) \/ ListSnapshots(t) PROVE Reads'
  <2>1. /\ upto[t] \in Marks
        /\ ReadsOf(t)
    BY DEF TypeOK, Reads
  <2>2. cached'[t] = cached[t] /\ snapshots' = snapshots
    BY <1>6 DEF ReadDiff, ListSnapshots
  <2>3. CASE ReadDiff(t)
    <3>1. /\ pc[t] = "diff" /\ pc'[t] = "list"
          /\ upto'[t] = [upto[t] EXCEPT !.diff = Len(snapshots)]
      BY <2>3 DEF ReadDiff, Goto, TypeOK
    <3>2. /\ upto'[t].own = upto[t].own /\ upto'[t].row = upto[t].row
          /\ upto'[t].diff = Len(snapshots) /\ upto'[t].list = upto[t].list
          /\ upto'[t].meta = upto[t].meta
      BY <2>1, <3>1 DEF Marks
    <3>3. ReadsOf(t)'
      BY <1>0, <2>1, <2>2, <3>1, <3>2 DEF ReadsOf, Marks
    <3>. QED
      BY <1>other, <2>3, <3>3 DEF ReadDiff, Goto, TypeOK
  <2>4. CASE ListSnapshots(t)
    <3>1. /\ pc[t] = "list" /\ pc'[t] = "responded"
          /\ upto'[t] = [upto[t] EXCEPT !.list = Len(snapshots)]
      BY <2>4 DEF ListSnapshots, Goto, TypeOK
    <3>2. /\ upto'[t].own = upto[t].own /\ upto'[t].row = upto[t].row
          /\ upto'[t].diff = upto[t].diff /\ upto'[t].list = Len(snapshots)
          /\ upto'[t].meta = upto[t].meta
      BY <2>1, <3>1 DEF Marks
    <3>3. ReadsOf(t)'
      BY <1>0, <2>1, <2>2, <3>1, <3>2 DEF ReadsOf, Marks
    <3>. QED
      BY <1>other, <2>4, <3>3 DEF ListSnapshots, Goto, TypeOK
  <2>. QED
    BY <1>6, <2>3, <2>4
<1>7. CASE Tick \/ DataChanges \/ UNCHANGED vars
  BY <1>7, ReadsKept DEF Tick, DataChanges, vars, Reads
<1>8. CASE Crash
  BY <1>0, <1>8 DEF Crash, NothingRead, Reads, ReadsOf
<1>. QED
  BY <1>1, <1>2, <1>3, <1>4, <1>5, <1>6, <1>7, <1>8 DEF Next

LEMMA Inductive == ASSUME IInv, [Next]_vars PROVE IInv'
<1>. USE DEF IInv
<1>1. TypeOK' /\ Requests'
  BY TypeStep, RequestsStep
<1>2. RowTimes' /\ CachedIsNewestSnapshot'
  BY RowTimesStep, NewestStep
<1>3. BackoffRespected' /\ AttemptUnsetOnce' /\ FallbackUnreachable'
  BY BackoffStep, UnsetStep, FallbackStep
<1>4. Reads'
  BY ReadsStep
<1>. QED
  BY <1>1, <1>2, <1>3, <1>4

\* The inductive invariant holds in every state of every behaviour.
THEOREM Invariance == Spec => []IInv
<1>1. Init => IInv
  BY Initially
<1>2. IInv /\ [Next]_vars => IInv'
  BY Inductive
<1>. QED
  BY <1>1, <1>2, PTL DEF Spec

\* The row of a contract and its newest snapshot hold the same profile, for any
\* number of threads and any interleaving of their refreshes.
THEOREM CacheMatchesSnapshots == Spec => []CachedIsNewestSnapshot
<1>1. IInv => CachedIsNewestSnapshot
  BY DEF IInv
<1>. QED
  BY <1>1, Invariance, PTL

\* Every variable keeps its type, for any number of threads and any settings.
THEOREM TypeCorrect == Spec => []TypeOK
<1>1. IInv => TypeOK
  BY DEF IInv
<1>. QED
  BY <1>1, Invariance, PTL

\* Only the first stored profile leaves the time of the attempt unset.
THEOREM UnsetOnlyOnce == Spec => []AttemptUnsetOnce
<1>1. IInv => AttemptUnsetOnce
  BY DEF IInv
<1>. QED
  BY <1>1, Invariance, PTL

\* The parts of a response go together, however many refreshes run meanwhile.
THEOREM ResponseGoesTogether == Spec => []ResponseInOrder
<1>1. ASSUME IInv PROVE ResponseInOrder
  BY <1>1 DEF IInv, Requests, Reads, ReadsOf, ResponseInOrder
<1>. QED
  BY <1>1, Invariance, PTL

\* No open call of the explorer began within the backoff of a recorded attempt.
THEOREM BackoffHolds == Spec => []BackoffRespected
<1>1. IInv => BackoffRespected
  BY DEF IInv
<1>. QED
  BY <1>1, Invariance, PTL

\* The answer for a missing row is never given.
THEOREM FallbackIsDead == Spec => []FallbackUnreachable
<1>1. IInv => FallbackUnreachable
  BY DEF IInv
<1>. QED
  BY <1>1, Invariance, PTL

LEMMA StaleStep ==
  ASSUME TypeOK, RowTimes, [Next]_vars, NEW t \in Thread,
         pc[t] \in Free, pc'[t] = "respond", ~WithinTtl
  PROVE  row.lastRefreshError # None \/ now - row.updatedAt <= Backoff
<1>1. PICK refresh \in BOOLEAN : ReadCache(t, refresh)
  BY DEF TypeOK, Free, Next, vars, ReadCache, Enrich, StoreProfile, RefreshRaises, MarkError,
         Reread, RequestFails, Respond, ReadDiff, ListSnapshots, Tick, DataChanges, Crash, Goto
<1>2. WithinBackoff
  BY <1>1 DEF ReadCache, Goto, ShouldRefresh, TypeOK
\* The attempt that is still within the backoff failed or stored the profile.
<1>3. row.updatedAt = row.lastRefreshAttemptAt \/ row.lastRefreshError # None
  BY <1>2 DEF WithinBackoff, RowTimes
<1>. QED
  BY <1>2, <1>3 DEF WithinBackoff

\* Whatever integers TTL and backoff are: a profile that has outlived its TTL is
\* served without a call of the explorer only after a failed refresh, or while it
\* is itself younger than the backoff.
THEOREM StaleServedWithReason == Spec => StaleOnlyWithReason
<1>1. IInv /\ [Next]_vars =>
        [\A t \in Thread :
           pc[t] \in Free /\ pc'[t] = "respond" /\ ~WithinTtl =>
             row.lastRefreshError # None \/ now - row.updatedAt <= Backoff]_vars
  BY StaleStep DEF IInv
<1>. QED
  BY <1>1, Invariance, PTL DEF Spec, StaleOnlyWithReason

\* With the backoff at most the TTL, as by default, the failure is the only reason.
THEOREM StaleAfterFailureOnly ==
  ASSUME Backoff <= Ttl
  PROVE  Spec => [][\A t \in Thread :
                      pc[t] \in Free /\ pc'[t] = "respond" /\ ~WithinTtl =>
                        row.lastRefreshError # None]_vars
<1>. DEFINE Failed == \A t \in Thread :
                      pc[t] \in Free /\ pc'[t] = "respond" /\ ~WithinTtl =>
                        row.lastRefreshError # None
<1>1. ASSUME IInv, [Next]_vars, NEW t \in Thread,
             pc[t] \in Free, pc'[t] = "respond", ~WithinTtl
      PROVE  row.lastRefreshError # None
  <2>1. PICK refresh \in BOOLEAN : ReadCache(t, refresh)
    BY <1>1 DEF IInv, TypeOK, Free, Next, vars, ReadCache, Enrich, StoreProfile, RefreshRaises,
           MarkError, Reread, RequestFails, Respond, ReadDiff, ListSnapshots, Tick, DataChanges,
           Crash, Goto
  <2>2. row # None
    BY <1>1, <2>1 DEF IInv, TypeOK, ReadCache, Goto, ShouldRefresh, WithinBackoff
  <2>3. now \in Int /\ row.updatedAt \in Int
    BY <1>1, <2>2, RowFields, Numbers DEF IInv, TypeOK
  <2>. QED
    BY <1>1, <2>2, <2>3, StaleStep, SettingsAssumption DEF IInv, WithinTtl
<1>2. IInv /\ [Next]_vars => [Failed]_vars
  BY <1>1
<1>. QED
  BY <1>2, Invariance, PTL DEF Spec

\* When the comment is right (main.py:690, see ResponseHasFields): only a request
\* that read the row before any profile was ever stored is answered without the
\* fields of a profile; a failed refresh never takes a profile away.
THEOREM EmptyOnlyBeforeFirst ==
  Spec => [](\A t \in Thread :
               pc[t] = "responded" /\ cached[t].profile = Empty =>
                 upto[t].own = 0 /\ upto[t].row = 0)
<1>. DEFINE Fields == \A t \in Thread :
               pc[t] = "responded" /\ cached[t].profile = Empty =>
                 upto[t].own = 0 /\ upto[t].row = 0
<1>1. ASSUME IInv, NEW t \in Thread, pc[t] = "responded", cached[t].profile = Empty
      PROVE  upto[t].own = 0 /\ upto[t].row = 0
  <2>1. upto[t].own \in Nat /\ upto[t].row \in Nat /\ snapshots \in Seq(Version)
    BY <1>1 DEF IInv, TypeOK, Marks
  <2>2. /\ upto[t].own <= upto[t].row /\ upto[t].row <= Len(snapshots)
        /\ Empty = IF upto[t].row = 0 THEN Empty ELSE snapshots[upto[t].row]
    BY <1>1 DEF IInv, Requests, Reads, ReadsOf
  <2>3. CASE upto[t].row # 0
    <3>1. snapshots[upto[t].row] \in Version
      BY <2>1, <2>2, <2>3
    <3>. QED BY <2>2, <2>3, <3>1 DEF Version, Empty
  <2>. QED BY <2>1, <2>2, <2>3
<1>2. IInv => Fields
  BY <1>1
<1>. QED
  BY <1>2, Invariance, PTL
==============================================================================

----------------------------- MODULE ProfileCache ----------------------------
(***************************************************************************)
(* GET /api/contracts/{address}/profile (main.py, contract_profile) for one *)
(* address: requests that run in parallel on the server's thread pool, the *)
(* row of contract_profiles and the snapshots they share, the explorer     *)
(* (EtherscanEnricher.enrich), whose data changes over time and which may  *)
(* fail, and crashes.  Each SQL call is atomic: one lock, one transaction. *)
(*                                                                         *)
(* A profile is the version of the explorer's data it was made from.  The  *)
(* clock counts seconds, the resolution of SQLite's CURRENT_TIMESTAMP, and *)
(* the ages computed from it are taken to fall on whole seconds.           *)
(***************************************************************************)
EXTENDS Integers, Sequences

CONSTANTS
  Thread,       \* the threads of the pool; each serves one request at a time
  Ttl,          \* settings.profile_cache_ttl_seconds
  Backoff,      \* settings.profile_refresh_backoff_seconds
  MaxTime,      \* bound: the last second
  MaxVersion,   \* bound: versions of the explorer's data
  MaxSnapshots, \* bound: stored profiles
  MaxCrashes,   \* bound: crashes
  None

Version == 1 .. MaxVersion
Empty   == 0                    \* the profile '{}'
Time    == 0 .. MaxTime

Row == [profile : Version \cup {Empty}, updatedAt : Time,
        lastRefreshAttemptAt : Time \cup {None}, lastRefreshError : {None, "error"}]

\* config.py:45-46 takes any integers; 900 and 90 are only their defaults.
ASSUME SettingsAssumption == Ttl \in Int /\ Backoff \in Int
ASSUME BoundsAssumption   == /\ MaxTime \in Nat
                             /\ MaxVersion \in Nat \ {0}
                             /\ MaxSnapshots \in Nat
                             /\ MaxCrashes \in Nat
ASSUME NoneAssumption     == None \notin Int \cup Row \cup {"error"}

VARIABLES
  now,          \* the clock
  version,      \* the version of the explorer's data
  row,          \* the row of contract_profiles, or None
  snapshots,    \* the rows of contract_profile_snapshots, oldest first
  pc,           \* where each thread stands in contract_profile
  cached,       \* its variable cached
  profile,      \* its variable profile, Empty before and after
  upto,         \* history: how many snapshots there were when its request
                \* first read the row (cached_at and age, for _meta), stored
                \* its own, last read the row, the diff and the list
  began,        \* history: when its open explorer call was decided on, or 0
  crashes

dbVars  == <<row, snapshots>>
reqVars == <<pc, cached, profile, upto, began>>
vars == <<now, version, dbVars, reqVars, crashes>>

Marks == [meta : Nat, own : Nat, row : Nat, diff : Nat, list : Nat]
NothingRead == [meta |-> 0, own |-> 0, row |-> 0, diff |-> 0, list |-> 0]

Init ==
  /\ now = 0
  /\ version = 1
  /\ row = None
  /\ snapshots = <<>>
  /\ pc = [t \in Thread |-> "idle"]
  /\ cached = [t \in Thread |-> None]
  /\ profile = [t \in Thread |-> Empty]
  /\ upto = [t \in Thread |-> NothingRead]
  /\ began = [t \in Thread |-> 0]
  /\ crashes = 0

------------------------------------------------------------------------------
\* Storage.

Attempted(at, error) ==
  [row EXCEPT !.lastRefreshAttemptAt = at, !.lastRefreshError = error]

\* Mutants of upsert_contract_profile: updated_at is not set on conflict, and
\* last_refresh_attempt_at is not.
KeepUpdatedAt(p) ==
  row' = IF row = None
           THEN [profile |-> p, updatedAt |-> now,
                 lastRefreshAttemptAt |-> None, lastRefreshError |-> None]
           ELSE [Attempted(now, None) EXCEPT !.profile = p]
KeepAttemptAt(p) ==
  row' = IF row = None
           THEN [profile |-> p, updatedAt |-> now,
                 lastRefreshAttemptAt |-> None, lastRefreshError |-> None]
           ELSE [row EXCEPT !.profile = p, !.updatedAt = now, !.lastRefreshError = None]

\* The first statement of upsert_contract_profile.  A new row has no attempt
\* time: the column is not among those inserted.
UpsertRow(p) ==
  row' = IF row = None
           THEN [profile |-> p, updatedAt |-> now,
                 lastRefreshAttemptAt |-> None, lastRefreshError |-> None]
           ELSE [Attempted(now, None) EXCEPT !.profile = p, !.updatedAt = now]

\* The second one.  Mutant: not in the transaction of the first, it may be lost.
MayLoseSnapshot(p) == snapshots' \in {snapshots, Append(snapshots, p)}
AddSnapshot(p) == snapshots' = Append(snapshots, p)

\* Mutant of mark_profile_refresh_error: UPDATE, which creates no row.
UpdateError == row' = IF row = None THEN None ELSE Attempted(now, "error")

\* mark_profile_refresh_error: a new row holds the profile '{}'.
MarkProfileRefreshError ==
  row' = IF row = None
           THEN [profile |-> Empty, updatedAt |-> now,
                 lastRefreshAttemptAt |-> now, lastRefreshError |-> "error"]
           ELSE Attempted(now, "error")

------------------------------------------------------------------------------
\* The handler.

WithinTtl == row # None /\ now - row.updatedAt <= Ttl

\* Mutant: an attempt is forgotten a second early.
WithinShortBackoff ==
  row # None /\ row.lastRefreshAttemptAt # None /\ now - row.lastRefreshAttemptAt < Backoff
WithinBackoff ==
  row # None /\ row.lastRefreshAttemptAt # None /\ now - row.lastRefreshAttemptAt <= Backoff

ShouldRefresh(refresh) ==
  /\ refresh \/ row = None \/ ~WithinTtl
  /\ ~WithinBackoff

Goto(t, where) == pc' = [pc EXCEPT ![t] = where]

\* The thread is free: before the first and after every request.
Free == {"idle", "responded", "unavailable", "failed"}

\* storage.get_contract_profile, and the decision to ask the explorer.
ReadCache(t, refresh) ==
  /\ pc[t] \in Free
  /\ cached' = [cached EXCEPT ![t] = row]
  /\ upto' = [upto EXCEPT ![t] = [NothingRead EXCEPT !.meta = Len(snapshots),
                                                     !.row  = Len(snapshots)]]
  /\ began' = [began EXCEPT ![t] = IF ShouldRefresh(refresh) THEN now ELSE 0]
  /\ Goto(t, IF ShouldRefresh(refresh) THEN "enrich" ELSE "respond")
  /\ UNCHANGED <<now, version, dbVars, profile, crashes>>

\* What enricher.enrich may return.  Mutant: '{}' instead of an exception.
DataOrNothing == {version, Empty}
ExplorerData  == {version}

\* enricher.enrich returns what the explorer has by now ...
Enrich(t) ==
  /\ pc[t] = "enrich"
  /\ \E p \in ExplorerData : profile' = [profile EXCEPT ![t] = p]
  /\ began' = [began EXCEPT ![t] = 0]
  /\ Goto(t, "store")
  /\ UNCHANGED <<now, version, dbVars, cached, upto, crashes>>

\* ... and storage.upsert_contract_profile stores it.
StoreProfile(t) ==
  /\ pc[t] = "store"
  /\ Len(snapshots) < MaxSnapshots
  /\ UpsertRow(profile[t])
  /\ AddSnapshot(profile[t])
  /\ profile' = [profile EXCEPT ![t] = Empty]
  /\ upto' = [upto EXCEPT ![t].own = Len(snapshots) + 1]
  /\ Goto(t, "reread")
  /\ UNCHANGED <<now, version, cached, began, crashes>>

\* One of the two, or the read after them, raises.
RefreshRaises(t) ==
  /\ pc[t] \in {"enrich", "store", "reread"}
  /\ profile' = [profile EXCEPT ![t] = Empty]
  /\ began' = [began EXCEPT ![t] = 0]
  /\ Goto(t, "mark")
  /\ UNCHANGED <<now, version, dbVars, cached, upto, crashes>>

\* The except branch: the error is written to the row.
MarkError(t) ==
  /\ pc[t] = "mark"
  /\ MarkProfileRefreshError
  /\ Goto(t, "rereadError")
  /\ UNCHANGED <<now, version, snapshots, cached, profile, upto, began, crashes>>

\* Mutant: the row read at the beginning is good enough.
CachedBefore(t) == UNCHANGED <<cached, upto>>
\* The row is read again, its cached_at and age are not, ...
CachedAgain(t) ==
  /\ cached' = [cached EXCEPT ![t] = row]
  /\ upto' = [upto EXCEPT ![t].row = Len(snapshots)]

\* ... in the try block or in the except branch.
Reread(t) ==
  /\ pc[t] \in {"reread", "rereadError"}
  /\ CachedAgain(t)
  /\ Goto(t, "respond")
  /\ UNCHANGED <<now, version, dbVars, profile, began, crashes>>

\* A database error outside the try block: status 500.
RequestFails(t) ==
  /\ pc[t] \in Free \cup {"mark", "rereadError", "respond", "diff", "list"}
  /\ cached' = [cached EXCEPT ![t] = None]
  /\ upto' = [upto EXCEPT ![t] = NothingRead]
  /\ Goto(t, "failed")
  /\ UNCHANGED <<now, version, dbVars, profile, began, crashes>>

\* The response: what is cached, or the empty answer with all its fields.
Respond(t) ==
  /\ pc[t] = "respond"
  /\ Goto(t, IF cached[t] = None THEN "unavailable" ELSE "diff")
  /\ UNCHANGED <<now, version, dbVars, cached, profile, upto, began, crashes>>

\* storage.latest_profile_diff: between the last two snapshots there are, ...
ReadDiff(t) ==
  /\ pc[t] = "diff"
  /\ upto' = [upto EXCEPT ![t].diff = Len(snapshots)]
  /\ Goto(t, "list")
  /\ UNCHANGED <<now, version, dbVars, cached, profile, began, crashes>>

\* ... and storage.list_profile_snapshots, which goes with it.
ListSnapshots(t) ==
  /\ pc[t] = "list"
  /\ upto' = [upto EXCEPT ![t].list = Len(snapshots)]
  /\ Goto(t, "responded")
  /\ UNCHANGED <<now, version, dbVars, cached, profile, began, crashes>>

------------------------------------------------------------------------------
\* The environment.

Tick ==
  /\ now < MaxTime
  /\ now' = now + 1
  /\ UNCHANGED <<version, dbVars, reqVars, crashes>>

DataChanges ==
  /\ version < MaxVersion
  /\ version' = version + 1
  /\ UNCHANGED <<now, dbVars, reqVars, crashes>>

\* The process goes down and comes up again; open requests are gone.
Crash ==
  /\ crashes < MaxCrashes
  /\ crashes' = crashes + 1
  /\ pc' = [t \in Thread |-> "idle"]
  /\ profile' = [t \in Thread |-> Empty]
  /\ cached' = [t \in Thread |-> None]
  /\ upto' = [t \in Thread |-> NothingRead]
  /\ began' = [t \in Thread |-> 0]
  /\ UNCHANGED <<now, version, dbVars>>

Next ==
  \/ \E t \in Thread :
       \/ \E refresh \in BOOLEAN : ReadCache(t, refresh)
       \/ Enrich(t)
       \/ StoreProfile(t)
       \/ RefreshRaises(t)
       \/ MarkError(t)
       \/ Reread(t)
       \/ RequestFails(t)
       \/ Respond(t)
       \/ ReadDiff(t)
       \/ ListSnapshots(t)
  \/ Tick
  \/ DataChanges
  \/ Crash

Spec == Init /\ [][Next]_vars

------------------------------------------------------------------------------
\* Properties.

ThreadPc == {"idle", "enrich", "store", "reread", "mark", "rereadError", "respond",
              "diff", "list", "responded", "unavailable", "failed"}

\* Every variable keeps its type; in particular what is stored is a profile the
\* explorer gave, at a time that has been.
TypeOK ==
  /\ now \in Time
  /\ version \in Version
  /\ row \in Row \cup {None}
  /\ snapshots \in Seq(Version)
  /\ pc \in [Thread -> ThreadPc]
  /\ cached \in [Thread -> Row \cup {None}]
  /\ profile \in [Thread -> Version \cup {Empty}]
  /\ upto \in [Thread -> Marks]
  /\ began \in [Thread -> Time]
  /\ crashes \in Nat

\* The cached profile is the newest snapshot, and '{}' stands for no snapshot
\* at all (storage.py:372-407), whoever stored last and wherever a crash fell:
\* the diff in a response ends at a profile that was or is the cached one.
CachedIsNewestSnapshot ==
  IF snapshots = <<>> THEN row = None \/ row.profile = Empty
  ELSE row # None /\ row.profile = snapshots[Len(snapshots)]

\* A profile that has outlived its TTL is only served without asking the explorer
\* for a reason (main.py:670-678): the last attempt to refresh it failed, or the
\* profile itself is younger than the backoff, which takes settings that make the
\* backoff the longer of the two.  The backoff after a success hides nothing else.
StaleOnlyWithReason ==
  [][\A t \in Thread :
       pc[t] \in Free /\ pc'[t] = "respond" /\ ~WithinTtl =>
         row.lastRefreshError # None \/ now - row.updatedAt <= Backoff]_vars

\* Explorer calls respect the backoff (main.py:671-678): an open call began
\* before the last recorded attempt, or more than the backoff after it.
BackoffRespected ==
  \A t \in Thread : pc[t] = "enrich" /\ row # None =>
    \/ row.lastRefreshAttemptAt = None
    \/ began[t] <= row.lastRefreshAttemptAt
    \/ began[t] - row.lastRefreshAttemptAt > Backoff

\* Only the very first fetch leaves the attempt time unset (storage.py:376), so
\* only one refresh may follow it before the backoff applies.
AttemptUnsetOnce ==
  row # None /\ row.lastRefreshAttemptAt = None =>
    Len(snapshots) = 1 /\ row.lastRefreshError = None

\* The answer for a missing row (main.py:689-721) is never given: both ways out
\* of a refresh leave a row, also when requests race.
FallbackUnreachable == \A t \in Thread : pc[t] # "unavailable"

\* The profile, the diff and the list of a response are read in transactions of
\* their own (main.py:660-729), and yet they go together: the profile is the one
\* stored by the request itself or a later one, the diff ends there or later,
\* and the list goes on to there or further, whoever else stores meanwhile.  The
\* one part that lags is _meta.cached_at (main.py:735), kept from the first read:
\* it is never ahead of the profile, and it is that of an older one whenever the
\* request has stored a profile itself.
ResponseInOrder ==
  \A t \in Thread : pc[t] = "responded" =>
    /\ upto[t].meta <= upto[t].row
    /\ upto[t].own # 0 => upto[t].meta < upto[t].own
    /\ upto[t].own <= upto[t].row /\ upto[t].row <= upto[t].diff
    /\ upto[t].diff <= upto[t].list /\ upto[t].list <= Len(snapshots)
    /\ cached[t].profile = IF upto[t].row = 0 THEN Empty ELSE snapshots[upto[t].row]

\* The inductive invariant: what a request knows at each place, and how the
\* times of the row and its error belong together, and how what it has read goes
\* with the snapshots.
Requests ==
  \A t \in Thread :
    /\ began[t] <= now
    /\ pc[t] = "store" => profile[t] # Empty
    /\ pc[t] \in {"reread", "rereadError"} => row # None
    /\ pc[t] \in {"respond", "diff", "list", "responded"} => cached[t] # None
RowTimes ==
  row # None =>
    /\ row.updatedAt <= now
    /\ row.lastRefreshAttemptAt # None =>
         /\ row.updatedAt <= row.lastRefreshAttemptAt
         /\ row.lastRefreshAttemptAt <= now
         /\ row.updatedAt = row.lastRefreshAttemptAt \/ row.lastRefreshError # None
ReadsOf(t) ==
  /\ upto[t].meta <= upto[t].row
  /\ upto[t].own # 0 => upto[t].meta < upto[t].own
  /\ upto[t].own <= Len(snapshots) /\ upto[t].row <= Len(snapshots)
  /\ upto[t].diff <= Len(snapshots) /\ upto[t].list <= Len(snapshots)
  /\ pc[t] \notin {"reread", "mark", "rereadError"} => upto[t].own <= upto[t].row
  /\ cached[t] # None =>
       cached[t].profile = IF upto[t].row = 0 THEN Empty ELSE snapshots[upto[t].row]
  /\ pc[t] \in {"list", "responded"} => upto[t].row <= upto[t].diff
  /\ pc[t] = "responded" => upto[t].diff <= upto[t].list
Reads == \A t \in Thread : ReadsOf(t)

IInv ==
  /\ TypeOK
  /\ Requests
  /\ RowTimes
  /\ Reads
  /\ CachedIsNewestSnapshot
  /\ BackoffRespected
  /\ AttemptUnsetOnce
  /\ FallbackUnreachable

------------------------------------------------------------------------------
\* main.py:690, "keep contract with API expectations": a response has the
\* fields of a profile, also when the explorer cannot be reached.
ResponseHasFields ==
  \A t \in Thread : pc[t] = "responded" => cached[t].profile # Empty
==============================================================================

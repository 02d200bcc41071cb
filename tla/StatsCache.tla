----------------------------- MODULE StatsCache -----------------------------
(***************************************************************************)
(* The cache of the statistics queries (cmd/api/statscache.go): a fresh    *)
(* entry is served, a stale one is served while one background refresh     *)
(* recomputes it, a cold key is computed by its request.  Keys beyond the  *)
(* cap push out the oldest entry, while refreshes and cold computations    *)
(* of the same key may be under way.                                       *)
(***************************************************************************)
EXTENDS Naturals, Sequences, SequencesExt

CONSTANTS
  StatKeys,
  MaxStatsEntries, \* maxStatsEntries (256)
  MaxColds,        \* bound: cold computations of a key at a time
  MaxRefreshes,    \* bound: refreshes of a key at a time
  MaxStatFails     \* bound: queries that fail

VARIABLES
  order,          \* the keys with an entry, the longest unfetched first
  stale,          \* entries older than their time to live
  refreshing,     \* entries whose refreshing flag is set
  refreshes,      \* background refreshes under way, of each key
  colds,          \* cold computations under way, of each key
  statFails

statVars == <<order, stale, refreshing, refreshes, colds, statFails>>

Entries == ToSet(order)

StatInit ==
  /\ order = << >> /\ stale = {} /\ refreshing = {}
  /\ refreshes = [k \in StatKeys |-> 0] /\ colds = [k \in StatKeys |-> 0]
  /\ statFails = 0

Expire(k) ==
  /\ k \in Entries \ stale
  /\ stale' = stale \cup {k}
  /\ UNCHANGED <<order, refreshing, refreshes, colds, statFails>>

\* get of a stale entry; a fresh one changes nothing.
GetStale(k) ==
  /\ k \in stale \ refreshing /\ refreshes[k] < MaxRefreshes
  /\ refreshing' = refreshing \cup {k}
  /\ refreshes' = [refreshes EXCEPT ![k] = @ + 1]
  /\ UNCHANGED <<order, stale, colds, statFails>>

GetCold(k) ==
  /\ k \notin Entries /\ colds[k] < MaxColds
  /\ colds' = [colds EXCEPT ![k] = @ + 1]
  /\ UNCHANGED <<order, stale, refreshing, refreshes, statFails>>

\* Deleting a key from the map; it has one entry at most.
Without(s, k) == IF k \in ToSet(s) THEN RemoveAt(s, CHOOSE i \in DOMAIN s : s[i] = k) ELSE s

Latest_First(k) == Append(Without(order, k), k)

\* refresh's second half; the entry may be gone, or another one by now.
Refreshed(k) ==
  /\ refreshes[k] > 0 /\ refreshes' = [refreshes EXCEPT ![k] = @ - 1]
  /\ refreshing' = refreshing \ {k}
  /\ stale' = stale \ {k}
  /\ order' = IF k \in Entries THEN Latest_First(k) ELSE order
  /\ UNCHANGED <<colds, statFails>>

\* Mutated RefreshFailed: the flag is reset where the value is set only.
RefreshFailed_Flagged(k) ==
  /\ refreshes[k] > 0 /\ refreshes' = [refreshes EXCEPT ![k] = @ - 1]
  /\ statFails < MaxStatFails /\ statFails' = statFails + 1
  /\ UNCHANGED <<order, stale, refreshing, colds>>

RefreshFailed(k) ==
  /\ refreshes[k] > 0 /\ refreshes' = [refreshes EXCEPT ![k] = @ - 1]
  /\ statFails < MaxStatFails /\ statFails' = statFails + 1
  /\ refreshing' = refreshing \ {k}
  /\ UNCHANGED <<order, stale, colds>>

\* put makes room first, even where the key has an entry already.
Kept == IF Len(order) >= MaxStatsEntries THEN Tail(order) ELSE order

Put(k) ==
  /\ colds[k] > 0 /\ colds' = [colds EXCEPT ![k] = @ - 1]
  /\ order' = Append(Without(Kept, k), k)
  /\ stale' = (stale \cap ToSet(Kept)) \ {k}
  /\ refreshing' = (refreshing \cap ToSet(Kept)) \ {k}
  /\ UNCHANGED <<refreshes, statFails>>

ColdFailed(k) ==
  /\ colds[k] > 0 /\ colds' = [colds EXCEPT ![k] = @ - 1]
  /\ statFails < MaxStatFails /\ statFails' = statFails + 1
  /\ UNCHANGED <<order, stale, refreshing, refreshes>>

StatNext ==
  \E k \in StatKeys :
    \/ Expire(k) \/ GetStale(k) \/ GetCold(k)
    \/ Refreshed(k) \/ RefreshFailed(k) \/ Put(k) \/ ColdFailed(k)

-----------------------------------------------------------------------------
(* Properties.                                                             *)

\* An entry whose flag is set has a refresh under way, whatever was evicted,
\* put again or failed meanwhile: no entry stays stale for ever behind a flag
\* nobody will reset.
FlagMeansRunning == \A k \in refreshing : k \in Entries /\ refreshes[k] > 0

=============================================================================

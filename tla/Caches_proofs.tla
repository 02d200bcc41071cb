--------------------------- MODULE Caches_proofs ---------------------------
(***************************************************************************)
(* The caches of the processes: what is cached or in hand was read when    *)
(* its fields say, a flag has a refresh that will reset it, a retry is due *)
(* by the last outcome, and a user and a password are of one file.         *)
(***************************************************************************)
EXTENDS FeedCaches, StatsCache, FxCache, DbCredentials, SequenceTheorems, TLAPS

-----------------------------------------------------------------------------
(* The static bases of the feeds: the invariant behind FreshAsAsked.       *)

\* What the record of a pass may be.
InProgress == [pc : {"rest", "fetch", "overlay", "ready"},
               began : Nat \cup {NotRead}, asked : Nat \cup {NotRead},
               fresh : BOOLEAN, base : Nat \cup {NotRead}, status : Nat \cup {OfBase}]

FeedTypeOK ==
  /\ now \in Nat
  /\ cache \in [fetched : Nat \cup {NotRead}, base : Nat \cup {NotRead},
                status : Nat \cup {OfBase}]
  /\ feedPass \in [Passes -> InProgress]

\* The cached base carries no live status and took a fetch at most to read.
CacheHonest ==
  /\ cache.status = OfBase
  /\ cache.fetched # NotRead =>
       /\ cache.fetched <= now
       /\ cache.base >= cache.fetched - MaxFetch /\ cache.base <= cache.fetched

\* What a pass has in hand at each stage.
InHand(p) ==
  /\ feedPass[p].began <= now /\ feedPass[p].asked <= now
  /\ feedPass[p].asked >= feedPass[p].began
  /\ feedPass[p].pc = "fetch" =>
       /\ feedPass[p].began # NotRead
       /\ feedPass[p].base = feedPass[p].began /\ feedPass[p].asked = feedPass[p].began
       /\ now - feedPass[p].asked <= MaxFetch
       /\ feedPass[p].status = OfBase
  /\ feedPass[p].pc \in {"overlay", "ready"} =>
       feedPass[p].base >=
         feedPass[p].began - (IF feedPass[p].fresh THEN 0 ELSE StaticTTL + MaxFetch)
  /\ feedPass[p].pc = "overlay" => feedPass[p].status = OfBase
  /\ feedPass[p].pc = "ready" =>
       feedPass[p].status = OfBase \/ feedPass[p].status >= feedPass[p].began

FeedInv == FeedTypeOK /\ CacheHonest /\ (\A p \in Passes : InHand(p))

\* Nothing is cached or in hand at first.
LEMMA FeedInitInv == FeedInit => FeedInv
  BY DEF FeedInit, FeedInv, FeedTypeOK, InProgress, CacheHonest, InHand, NoPass, NotRead, OfBase

\* A step of pass p leaves what the others have in hand.
LEMMA OthersInHand ==
  ASSUME FeedInv, NEW p \in Passes, now' = now, NEW f, feedPass' = [feedPass EXCEPT ![p] = f]
  PROVE  \A q \in Passes \ {p} : InHand(q)'
  BY DEF FeedInv, FeedTypeOK, InProgress, InHand

\* A base stored or taken by a pass keeps the bound on its age; an overlay
\* leaves the cache alone.
LEMMA FeedStepInv == FeedInv /\ [FeedNext]_feedVars => FeedInv'
<1>. SUFFICES ASSUME FeedInv, [FeedNext]_feedVars PROVE FeedInv'
  OBVIOUS
<1>. USE Durations DEF NotRead, OfBase
<1>0. \A p \in Passes : feedPass[p] \in InProgress
  BY DEF FeedInv, FeedTypeOK
<1>1. ASSUME NEW p \in Passes, NEW fresh \in BOOLEAN, Begin(p, fresh)
      PROVE  FeedInv'
  <2>1. FeedTypeOK' /\ CacheHonest'
    BY <1>1 DEF FeedInv, FeedTypeOK, InProgress, CacheHonest, Begin, NoPass
  <2>2. InHand(p)'
    BY <1>1 DEF FeedInv, FeedTypeOK, InProgress, CacheHonest, InHand, Begin, NoPass, Usable
  <2>3. \A q \in Passes \ {p} : InHand(q)'
    BY <1>1, OthersInHand DEF Begin
  <2>. QED
    BY <2>1, <2>2, <2>3 DEF FeedInv
<1>2. ASSUME NEW p \in Passes, Store(p)
      PROVE  FeedInv'
  <2>1. /\ feedPass[p].base \in Nat /\ feedPass[p].base <= now
        /\ feedPass[p].base >= now - MaxFetch
    BY <1>2 DEF FeedInv, FeedTypeOK, InProgress, InHand, Store
  <2>2. feedPass' = [feedPass EXCEPT ![p] = [feedPass[p] EXCEPT !.pc = "overlay", !.asked = now]]
    BY <1>2 DEF FeedInv, FeedTypeOK, InProgress, Store
  <2>3. FeedTypeOK'
    <3>1. [feedPass[p] EXCEPT !.pc = "overlay", !.asked = now] \in InProgress
      BY <1>0 DEF FeedInv, FeedTypeOK, InProgress
    <3>2. feedPass' \in [Passes -> InProgress]
      BY <2>2, <3>1 DEF FeedInv, FeedTypeOK
    <3>3. UNCHANGED now /\ cache' = [fetched |-> now, base |-> feedPass[p].base, status |-> OfBase]
      BY <1>2 DEF Store
    <3>. QED
      BY <2>1, <3>2, <3>3 DEF FeedInv, FeedTypeOK
  <2>4. CacheHonest'
    BY <1>2, <2>1 DEF FeedInv, FeedTypeOK, InProgress, CacheHonest, Store
  <2>5. InHand(p)'
    <3>1. feedPass'[p] = [feedPass[p] EXCEPT !.pc = "overlay", !.asked = now]
      BY <2>2 DEF FeedInv, FeedTypeOK
    <3>2. feedPass[p].pc = "fetch" /\ now' = now
      BY <1>2 DEF Store
    <3>. QED
      BY <1>0, <2>1, <3>1, <3>2 DEF FeedInv, FeedTypeOK, InProgress, InHand
  <2>6. \A q \in Passes \ {p} : InHand(q)'
    BY <1>2, <2>2, OthersInHand DEF Store
  <2>. QED
    BY <2>3, <2>4, <2>5, <2>6 DEF FeedInv
<1>3. ASSUME NEW p \in Passes, FailStatic(p) \/ Return(p)
      PROVE  FeedInv'
  <2>1. UNCHANGED <<now, cache>> /\ feedPass' = [feedPass EXCEPT ![p] = NoPass]
    BY <1>3 DEF FailStatic, Return
  <2>2. FeedTypeOK' /\ CacheHonest'
    BY <2>1 DEF FeedInv, FeedTypeOK, InProgress, CacheHonest, NoPass
  <2>3. InHand(p)'
    BY <2>1 DEF FeedInv, FeedTypeOK, InProgress, InHand, NoPass
  <2>4. \A q \in Passes \ {p} : InHand(q)'
    BY <2>1, OthersInHand
  <2>. QED
    BY <2>2, <2>3, <2>4 DEF FeedInv
<1>4. ASSUME NEW p \in Passes, NEW listed \in BOOLEAN, Overlay(p, listed)
      PROVE  FeedInv'
  <2>1. PICK st \in Nat \cup {OfBase} :
          /\ feedPass' = [feedPass EXCEPT ![p] = [feedPass[p] EXCEPT !.pc = "ready", !.status = st]]
          /\ st = feedPass[p].status \/ st = feedPass[p].asked
    BY <1>0, <1>4 DEF FeedInv, FeedTypeOK, InProgress, Overlay
  <2>2. FeedTypeOK' /\ CacheHonest'
    <3>1. [feedPass[p] EXCEPT !.pc = "ready", !.status = st] \in InProgress
      BY <1>0 DEF InProgress
    <3>2. feedPass' \in [Passes -> InProgress]
      BY <2>1, <3>1 DEF FeedInv, FeedTypeOK
    <3>. QED
      BY <1>4, <3>2 DEF FeedInv, FeedTypeOK, InProgress, CacheHonest, Overlay
  <2>3. InHand(p)'
    <3>1. feedPass'[p] = [feedPass[p] EXCEPT !.pc = "ready", !.status = st]
      BY <2>1 DEF FeedInv, FeedTypeOK
    <3>2. feedPass[p].pc = "overlay" /\ now' = now
      BY <1>4 DEF Overlay
    <3>. QED
      BY <1>0, <2>1, <3>1, <3>2 DEF FeedInv, FeedTypeOK, InProgress, InHand
  <2>4. \A q \in Passes \ {p} : InHand(q)'
    BY <1>4, <2>1, OthersInHand DEF Overlay
  <2>. QED
    BY <2>2, <2>3, <2>4 DEF FeedInv
<1>5. ASSUME NEW p \in Passes, FailOverlay(p)
      PROVE  FeedInv'
  <2>1. FeedTypeOK' /\ CacheHonest' /\ InHand(p)'
    BY <1>5 DEF FeedInv, FeedTypeOK, InProgress, CacheHonest, InHand, FailOverlay, NoPass
  <2>2. \A q \in Passes \ {p} : InHand(q)'
    BY <1>5, OthersInHand DEF FailOverlay
  <2>. QED
    BY <2>1, <2>2 DEF FeedInv
<1>6. CASE FeedTick
  BY <1>6 DEF FeedInv, FeedTypeOK, InProgress, CacheHonest, InHand, FeedTick
<1>7. CASE UNCHANGED feedVars
  BY <1>7 DEF FeedInv, FeedTypeOK, InProgress, CacheHonest, InHand, feedVars
<1>. QED
  BY <1>1, <1>2, <1>3, <1>4, <1>5, <1>6, <1>7 DEF FeedNext

\* What a pass has in hand when it is ready is what it asked for.
LEMMA FeedInvFresh == FeedInv => FreshAsAsked
  BY DEF FeedInv, InHand, FreshAsAsked, BaseFresh, StatusesNow, Ready

-----------------------------------------------------------------------------
(* The statistics: the invariant behind FlagMeansRunning.                  *)

\* Flags and the mark of staleness are an entry's, and go with it.
StatInv ==
  /\ order \in Seq(StatKeys)
  /\ stale \subseteq Entries
  /\ refreshes \in [StatKeys -> Nat]
  /\ FlagMeansRunning

\* The cache is empty at first.
LEMMA StatInitInv == StatInit => StatInv
  BY DEF StatInit, StatInv, FlagMeansRunning, Entries, ToSet

\* Deleting a key keeps every other entry.
LEMMA WithoutKeeps ==
  ASSUME NEW s \in Seq(StatKeys), NEW k \in StatKeys
  PROVE  Without(s, k) \in Seq(StatKeys) /\ ToSet(s) \ {k} \subseteq ToSet(Without(s, k))
<1>1. CASE k \notin ToSet(s)
  BY <1>1 DEF Without
<1>2. CASE k \in ToSet(s)
  <2>. DEFINE i == CHOOSE j \in DOMAIN s : s[j] = k
              w == RemoveAt(s, i)
              a == SubSeq(s, 1, i - 1)
              b == SubSeq(s, i + 1, Len(s))
  <2>1. i \in DOMAIN s /\ s[i] = k
    BY <1>2 DEF ToSet
  <2>2. i \in 1..Len(s) /\ Len(s) \in Nat /\ DOMAIN s = 1..Len(s)
    BY <2>1
  <2>. HIDE DEF i
  <2>3. /\ a \in Seq(StatKeys) /\ Len(a) = i - 1
        /\ \A j \in 1..(i - 1) : a[j] = s[j]
    BY <2>2
  <2>4. /\ b \in Seq(StatKeys) /\ Len(b) = Len(s) - i
        /\ \A j \in 1..(Len(s) - i) : b[j] = s[i + j]
    <3>1. i + 1 \in Int /\ Len(s) \in Int /\ \A j \in (i + 1)..Len(s) : s[j] \in StatKeys
      BY <2>2
    <3>2. /\ b \in Seq(StatKeys) /\ Len(b) = IF i + 1 <= Len(s) THEN Len(s) - (i + 1) + 1 ELSE 0
          /\ \A j \in 1..(Len(s) - (i + 1) + 1) : b[j] = s[i + 1 + j - 1]
      BY <3>1, SubSeqProperties
    <3>. HIDE DEF b
    <3>3. Len(b) = Len(s) - i
      <4>1. Len(b) = IF i + 1 <= Len(s) THEN Len(s) - (i + 1) + 1 ELSE 0
        BY ONLY <3>2
      <4>2. (IF i + 1 <= Len(s) THEN Len(s) - (i + 1) + 1 ELSE 0) = Len(s) - i
        <5>1. ASSUME NEW m \in Nat, NEW n \in 1..m
              PROVE  (IF n + 1 <= m THEN m - (n + 1) + 1 ELSE 0) = m - n
          OBVIOUS
        <5>. QED
          BY ONLY <2>2, <5>1
      <4>. QED
        BY ONLY <4>1, <4>2
    <3>4. ASSUME NEW j \in 1..(Len(s) - i) PROVE b[j] = s[i + j]
      <4>1. j \in 1..(Len(s) - (i + 1) + 1) /\ i + 1 + j - 1 = i + j
        BY <2>2
      <4>. QED
        BY <3>2, <4>1
    <3>. QED
      BY <3>2, <3>3, <3>4
  <2>. HIDE DEF a, b
  <2>5. w = a \o b
    BY DEF RemoveAt, a, b
  <2>6. /\ w \in Seq(StatKeys) /\ Len(w) = Len(a) + Len(b) /\ DOMAIN w = 1..Len(w)
        /\ \A j \in 1..Len(w) : w[j] = IF j <= Len(a) THEN a[j] ELSE b[j - Len(a)]
    <3>1. /\ a \o b \in Seq(StatKeys) /\ Len(a \o b) = Len(a) + Len(b)
          /\ \A j \in 1..(Len(a) + Len(b)) : (a \o b)[j] = IF j <= Len(a) THEN a[j] ELSE b[j - Len(a)]
      BY <2>3, <2>4, ConcatProperties
    <3>. QED
      BY <2>5, <3>1
  <2>. HIDE DEF w
  <2>7. ASSUME NEW x \in ToSet(s), x # k
        PROVE  x \in ToSet(w)
    <3>1. PICK j \in 1..Len(s) : s[j] = x
      BY <2>2 DEF ToSet
    <3>2. CASE j < i
      <4>1. j \in 1..Len(a) /\ j \in DOMAIN w
        BY <2>2, <2>3, <2>4, <2>6, <3>2
      <4>2. w[j] = x
        BY <2>3, <2>6, <3>1, <4>1
      <4>. QED
        BY <4>1, <4>2 DEF ToSet
    <3>3. CASE j > i
      <4>1. j - i \in 1..Len(b) /\ Len(a) + (j - i) \in DOMAIN w
        BY <2>2, <2>3, <2>4, <2>6, <3>3
      <4>2. w[Len(a) + (j - i)] = b[j - i]
        <5>1. Len(a) + (j - i) - Len(a) = j - i /\ ~(Len(a) + (j - i) <= Len(a))
          BY <2>2, <2>3, <3>3
        <5>. QED
          BY <2>6, <4>1, <5>1
      <4>3. b[j - i] = x
        <5>1. j - i \in 1..(Len(s) - i) /\ i + (j - i) = j
          BY <2>2, <3>3
        <5>. QED
          BY <2>4, <3>1, <5>1
      <4>. QED
        BY <4>1, <4>2, <4>3 DEF ToSet
    <3>4. j # i
      BY <2>1, <2>7, <3>1
    <3>. QED
      BY <2>2, <3>2, <3>3, <3>4
  <2>8. Without(s, k) = w
    BY <1>2 DEF Without, w, i
  <2>. QED
    BY <2>6, <2>7, <2>8
<1>. QED
  BY <1>1, <1>2

\* A key put at the end of what is left.
LEMMA AppendKeeps ==
  ASSUME NEW s \in Seq(StatKeys), NEW k \in StatKeys
  PROVE  /\ Append(Without(s, k), k) \in Seq(StatKeys)
         /\ ToSet(s) \cup {k} \subseteq ToSet(Append(Without(s, k), k))
<1>. DEFINE w == Without(s, k)
            n == Append(w, k)
<1>1. w \in Seq(StatKeys) /\ ToSet(s) \ {k} \subseteq ToSet(w)
  BY WithoutKeeps
<1>. HIDE DEF w
<1>2. /\ n \in Seq(StatKeys) /\ DOMAIN n = 1..(Len(w) + 1) /\ DOMAIN w = 1..Len(w) /\ Len(w) \in Nat
      /\ \A j \in 1..Len(w) : n[j] = w[j]
      /\ n[Len(w) + 1] = k
  BY <1>1
<1>3. ToSet(w) \subseteq ToSet(n) /\ k \in ToSet(n)
  BY <1>2 DEF ToSet
<1>. QED
  BY <1>1, <1>2, <1>3 DEF w

\* Making room leaves entries there were.
LEMMA KeptEntries ==
  ASSUME order \in Seq(StatKeys)
  PROVE  Kept \in Seq(StatKeys)
<1>1. CASE order = << >>
  BY <1>1 DEF Kept
<1>2. CASE order # << >>
  BY <1>2 DEF Kept
<1>. QED
  BY <1>1, <1>2

\* Every step keeps the invariant.
LEMMA StatStepInv == StatInv /\ [StatNext]_statVars => StatInv'
<1>. SUFFICES ASSUME StatInv, [StatNext]_statVars PROVE StatInv'
  OBVIOUS
<1>. USE DEF StatInv, FlagMeansRunning
<1>1. ASSUME NEW k \in StatKeys, Expire(k) \/ GetStale(k) \/ GetCold(k) \/ ColdFailed(k)
      PROVE  StatInv'
  <2>1. UNCHANGED order /\ Entries' = Entries
    BY <1>1 DEF Expire, GetStale, GetCold, ColdFailed, Entries
  <2>2. CASE GetStale(k)
    BY <2>1, <2>2 DEF GetStale
  <2>3. CASE Expire(k) \/ GetCold(k) \/ ColdFailed(k)
    BY <2>1, <2>3 DEF Expire, GetCold, ColdFailed
  <2>. QED
    BY <1>1, <2>2, <2>3
<1>2. ASSUME NEW k \in StatKeys, Refreshed(k)
      PROVE  StatInv'
  <2>1. order' \in Seq(StatKeys) /\ Entries \subseteq Entries'
    BY <1>2, AppendKeeps DEF Refreshed, Latest_First, Entries
  <2>. QED
    BY <1>2, <2>1 DEF Refreshed
<1>3. ASSUME NEW k \in StatKeys, RefreshFailed(k)
      PROVE  StatInv'
  BY <1>3 DEF RefreshFailed, Entries
<1>4. ASSUME NEW k \in StatKeys, Put(k)
      PROVE  StatInv'
  <2>1. order' \in Seq(StatKeys) /\ ToSet(Kept) \subseteq Entries'
    BY <1>4, AppendKeeps, KeptEntries DEF Put, Entries
  <2>. QED
    BY <1>4, <2>1 DEF Put
<1>5. CASE UNCHANGED statVars
  BY <1>5 DEF statVars, Entries
<1>. QED
  BY <1>1, <1>2, <1>3, <1>4, <1>5 DEF StatNext

-----------------------------------------------------------------------------
(* The database credentials.                                               *)

\* Whatever is held is what one well-formed version names: only such a file is
\* remembered, and both of its fields together.
FromOneVersion(pair) == \E v \in 1..newest : v \notin Malformed /\ pair = PairOf(v)
HeldPair == [user |-> held.user, password |-> held.password]
CredInv ==
  /\ newest \in Nat /\ newest >= 1 /\ file \in 0..newest
  /\ FromOneVersion(HeldPair)
  /\ opening \in [pc : {"rest", "read", "remember", "apply"}, from : Nat]
  /\ opening.pc = "remember" => opening.from \in 1..newest /\ opening.from \notin Malformed
  /\ PairMatches

\* The process starts with what its first file names.
LEMMA CredInitInv == CredInit => CredInv
<1>. SUFFICES ASSUME CredInit PROVE CredInv
  OBVIOUS
<1>1. newest = 1 /\ file = 1 /\ 1 \in 1..newest /\ opening.pc = "rest"
  BY DEF CredInit
<1>2. opened = PairOf(1) /\ HeldPair = PairOf(1)
  BY DEF CredInit, HeldPair, PairOf
<1>3. opening \in [pc : {"rest", "read", "remember", "apply"}, from : Nat]
  BY DEF CredInit, Gone
<1>. QED
  BY <1>1, <1>2, <1>3, FirstIsGood DEF CredInv, FromOneVersion, PairMatches

\* Both fields change at once, to what a version names that was read to its end.
LEMMA CredStepInv == CredInv /\ [CredNext]_credVars => CredInv'
<1>. SUFFICES ASSUME CredInv, [CredNext]_credVars PROVE CredInv'
  OBVIOUS
<1>0. newest' \in Nat /\ newest' >= newest /\ 1..newest \subseteq 1..newest'
  BY DEF CredInv, CredNext, Rotate, Vanish, Look, ReadFile, Remember, Apply, credVars
<1>1. CASE Rotate
  BY <1>0, <1>1 DEF CredInv, Rotate, PairMatches, FromOneVersion, HeldPair
<1>2. CASE Vanish
  BY <1>2 DEF CredInv, Vanish, PairMatches, FromOneVersion, HeldPair, Gone
<1>3. CASE Look
  BY <1>3 DEF CredInv, Look, PairMatches, FromOneVersion, HeldPair
<1>4. CASE ReadFile
  <2>1. CASE file = Gone \/ file \in Malformed
    <3>1. held' = held /\ newest' = newest /\ file' = file /\ opened' = OwnPair /\ opening'.pc = "rest"
      <4>1. opening' = [opening EXCEPT !.pc = "rest"]
        BY <1>4, <2>1 DEF ReadFile
      <4>. QED
        BY <1>4, <2>1, <4>1 DEF ReadFile, KeepOnError, CredInv
    <3>2. HeldPair' = HeldPair /\ opened' = OwnPair
      BY <3>1 DEF HeldPair
    <3>3. opening' \in [pc : {"rest", "read", "remember", "apply"}, from : Nat]
      BY <1>4, <2>1 DEF ReadFile, CredInv
    <3>. QED
      BY <3>1, <3>2, <3>3 DEF CredInv, PairMatches, FromOneVersion, OwnPair
  <2>2. CASE ~(file = Gone \/ file \in Malformed)
    BY <1>4, <2>2 DEF CredInv, ReadFile, PairMatches, FromOneVersion, HeldPair, Gone
  <2>. QED
    BY <2>1, <2>2
<1>5. CASE Remember
  <2>1. HeldPair' = PairOf(opening.from)
    BY <1>5 DEF Remember, HeldPair, PairOf
  <2>. QED
    BY <1>5, <2>1 DEF CredInv, Remember, PairMatches, FromOneVersion, Gone
<1>6. CASE Apply
  BY <1>6 DEF CredInv, Apply, PairMatches, FromOneVersion, HeldPair
<1>7. CASE UNCHANGED credVars
  BY <1>7 DEF CredInv, credVars, PairMatches, FromOneVersion, HeldPair
<1>. QED
  BY <1>1, <1>2, <1>3, <1>4, <1>5, <1>6, <1>7 DEF CredNext

-----------------------------------------------------------------------------
(* The exchange rates.                                                     *)

\* The next attempt is due a fixed time after the last one, by its outcome;
\* no answer is older than that.
FxInv ==
  /\ fxNow \in Nat /\ nextTry \in Nat
  /\ fetchedAt \in Nat \cup {NoRates} /\ failedAt \in Nat \cup {NoRates}
  /\ answer \in [at : Nat \cup {NoRates}, fetched : Nat \cup {NoRates}]
  /\ fetchedAt <= fxNow /\ failedAt <= fxNow /\ answer.at <= fxNow
  /\ failedAt # NoRates => nextTry = failedAt + RetryAfter
  /\ fetchedAt # NoRates /\ failedAt = NoRates => nextTry = fetchedAt + RefreshEvery
  /\ RetriesSoon

\* Nobody has been answered at first.
LEMMA FxInitInv == FxInit => FxInv
  BY DEF FxInit, FxInv, NoRates, RetriesSoon

\* Each fetch sets the next try by its own outcome.
LEMMA FxStepInv == FxInv /\ [FxNext]_fxVars => FxInv'
<1>. SUFFICES ASSUME FxInv, [FxNext]_fxVars PROVE FxInv'
  OBVIOUS
<1>. USE Intervals DEF FxInv, NoRates, RetriesSoon
<1>1. CASE CallCached
  BY <1>1 DEF CallCached, Due
<1>2. CASE CallFetches
  BY <1>2 DEF CallFetches
<1>3. CASE CallFails
  BY <1>3 DEF CallFails, Due
<1>4. CASE FxTick
  BY <1>4 DEF FxTick
<1>5. CASE UNCHANGED fxVars
  BY <1>5 DEF fxVars
<1>. QED
  BY <1>1, <1>2, <1>3, <1>4, <1>5 DEF FxNext

=============================================================================

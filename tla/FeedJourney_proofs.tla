-------------------------- MODULE FeedJourney_proofs --------------------------
(***************************************************************************)
(* Proofs about FeedJourney: the rows stay one for each charger, the       *)
(* region files are the table, no charger turns free by itself, every      *)
(* charger is priced as it was offered, and an offer that is only written  *)
(* down in another order opens no version.                                 *)
(***************************************************************************)
EXTENDS FeedJourney, FiniteSetTheorems, SequenceTheorems, WellFoundedInduction, TLAPS

-----------------------------------------------------------------------------
(* Induction, and folds.                                                   *)

\* A set with 0 and the successors of its members is Nat.
LEMMA SetInduction ==
  ASSUME NEW S \in SUBSET Nat, 0 \in S, \A n \in S : n + 1 \in S
  PROVE  S = Nat
<1>. DEFINE R == OpToRel(<, Nat)
            T == Nat \ S
<1>1. SUFFICES ASSUME T # {} PROVE FALSE
  OBVIOUS
<1>2. IsWellFoundedOn(R, Nat)
  BY NatLessThanWellFounded
<1>3. PICK x \in T : \A y \in T : <<y, x>> \notin R
  <2>. HIDE DEF R
  <2>1. T \subseteq Nat /\ T # {}
    BY <1>1
  <2>. QED
    BY <1>2, <2>1, WFMin
<1>4. \A y \in T : ~(y < x)
  BY <1>3 DEF OpToRel
<1>5. x - 1 \in Nat /\ x - 1 \in S
  BY <1>4
<1>. QED
  BY <1>5

\* The steps of the folds: a connector of a price pass, one of an
\* availability pass, a row of the stream; a key that may be there already, a
\* publication of a payload, an update joined to a table.
Step(a, v, x) ==
  CASE a.fold = "prices"   -> ApplyFull(a.s, a.got, a.closes, a.fx, v, x)
    [] a.fold = "statuses" -> IF Signed(statusSigs[a.s], x, AvailabilitySig(x)) THEN v
                              ELSE UpsertConnector(v, a.s, x)
    [] a.fold = "regions"  -> Take(v, x)
    [] a.fold = "unique"   -> IF Contains(v, x) THEN v ELSE Append(v, x)
    [] a.fold = "payload"  -> TakePub(v, x)
    [] a.fold = "join"     -> JoinUpdate(v, x)

\* f is what FoldLeft computes on its way.
Folding(f, a, base, seq, n) ==
  f = [s \in SUBSET (1..n) |-> IF s = {} THEN base ELSE Step(a, f[s \ {Max(s)}], seq[Max(s)])]

LEMMA MaxIs ==
  ASSUME NEW n \in Nat, NEW s \in SUBSET (1..(n + 1)), n + 1 \in s
  PROVE  Max(s) = n + 1
<1>1. \A x \in s : (\A y \in s : x >= y) => x = n + 1
  OBVIOUS
<1>2. \A y \in s : n + 1 >= y
  OBVIOUS
<1>. QED
  BY <1>1, <1>2 DEF Max

LEMMA FoldingExists ==
  ASSUME NEW a, NEW base, NEW seq, NEW n \in Nat
  PROVE  \E f : Folding(f, a, base, seq, n)
<1>. DEFINE S == {m \in Nat : \E f : Folding(f, a, base, seq, m)}
<1>1. 0 \in S
  <2>1. SUBSET (1..0) = {{}}
    OBVIOUS
  <2>2. Folding([s \in {{}} |-> base], a, base, seq, 0)
    BY <2>1 DEF Folding
  <2>. QED
    BY <2>2
<1>2. ASSUME NEW m \in S PROVE m + 1 \in S
  <2>1. PICK f : Folding(f, a, base, seq, m)
    BY <1>2
  <2>2. m \in Nat
    BY <1>2
  <2>. DEFINE g == [s \in SUBSET (1..(m + 1)) |->
                      IF m + 1 \in s THEN Step(a, f[s \ {m + 1}], seq[m + 1]) ELSE f[s]]
  <2>3. ASSUME NEW s \in SUBSET (1..(m + 1))
        PROVE  g[s] = IF s = {} THEN base ELSE Step(a, g[s \ {Max(s)}], seq[Max(s)])
    <3>1. CASE m + 1 \in s
      <4>1. Max(s) = m + 1
        BY <2>2, <3>1, MaxIs
      <4>2. g[s \ {m + 1}] = f[s \ {m + 1}]
        OBVIOUS
      <4>. QED
        BY <3>1, <4>1, <4>2
    <3>2. CASE m + 1 \notin s
      <4>1. s \in SUBSET (1..m)
        BY <2>2, <3>2
      <4>2. g[s] = f[s] /\ g[s \ {Max(s)}] = f[s \ {Max(s)}]
        BY <3>2, <4>1
      <4>3. f[s] = IF s = {} THEN base ELSE Step(a, f[s \ {Max(s)}], seq[Max(s)])
        BY <2>1, <4>1 DEF Folding
      <4>. QED
        BY <4>2, <4>3
    <3>. QED
      BY <3>1, <3>2
  <2>4. Folding(g, a, base, seq, m + 1)
    BY <2>3 DEF Folding
  <2>. QED
    BY <2>2, <2>4
<1>3. S = Nat
  <2>. HIDE DEF S
  <2>. S \in SUBSET Nat
    BY DEF S
  <2>. QED
    BY <1>1, <1>2, SetInduction
<1>. QED
  BY <1>3

\* It begins with the base, and each element makes a step.
LEMMA FoldingSteps ==
  ASSUME NEW f, NEW a, NEW base, NEW seq, NEW n \in Nat, Folding(f, a, base, seq, n)
  PROVE  /\ f[1..0] = base
         /\ \A k \in Nat : k < n => f[1..(k + 1)] = Step(a, f[1..k], seq[k + 1])
<1>1. f[1..0] = base
  <2>1. 1..0 = {} /\ {} \in SUBSET (1..n)
    OBVIOUS
  <2>. QED
    BY <2>1 DEF Folding
<1>2. ASSUME NEW k \in Nat, k < n PROVE f[1..(k + 1)] = Step(a, f[1..k], seq[k + 1])
  <2>1. 1..(k + 1) \in SUBSET (1..n) /\ 1..(k + 1) # {} /\ k + 1 \in 1..(k + 1)
    BY <1>2
  <2>2. Max(1..(k + 1)) = k + 1
    BY <2>1, MaxIs
  <2>3. (1..(k + 1)) \ {k + 1} = 1..k
    OBVIOUS
  <2>. QED
    BY <2>1, <2>2, <2>3 DEF Folding
<1>. QED
  BY <1>1, <1>2

Prices(s, got, closes, fx, base, seq) ==
  LET apply(all, c) == ApplyFull(s, got, closes, fx, all, c)
  IN  FoldLeft(apply, base, seq)
Statuses(s, base, seq) ==
  LET apply(all, c) ==
        IF Signed(statusSigs[s], c, AvailabilitySig(c)) THEN all ELSE UpsertConnector(all, s, c)
  IN  FoldLeft(apply, base, seq)

Chunks(base, seq) == FoldLeft(Take, base, seq)

\* The three folds of the model are such foldings.
PricesFolding(f, s, got, closes, fx, base, seq, n) ==
  f = [t \in SUBSET (1..n) |->
         IF t = {} THEN base ELSE ApplyFull(s, got, closes, fx, f[t \ {Max(t)}], seq[Max(t)])]
StatusesFolding(f, s, base, seq, n) ==
  f = [t \in SUBSET (1..n) |->
         IF t = {} THEN base
         ELSE IF Signed(statusSigs[s], seq[Max(t)], AvailabilitySig(seq[Max(t)])) THEN f[t \ {Max(t)}]
         ELSE UpsertConnector(f[t \ {Max(t)}], s, seq[Max(t)])]
ChunksFolding(f, base, seq, n) ==
  f = [t \in SUBSET (1..n) |-> IF t = {} THEN base ELSE Take(f[t \ {Max(t)}], seq[Max(t)])]

LEMMA PricesFold ==
  ASSUME NEW s, NEW got, NEW closes, NEW fx, NEW base, NEW seq, NEW n \in Nat, DOMAIN seq = 1..n
  PROVE  LET a == [fold |-> "prices", s |-> s, got |-> got, closes |-> closes, fx |-> fx]
         IN  \E f : Folding(f, a, base, seq, n) /\ Prices(s, got, closes, fx, base, seq) = f[1..n]
<1>. DEFINE a == [fold |-> "prices", s |-> s, got |-> got, closes |-> closes, fx |-> fx]
<1>1. Prices(s, got, closes, fx, base, seq)
        = (CHOOSE f : PricesFolding(f, s, got, closes, fx, base, seq, n))[1..n]
  BY DEF Prices, FoldLeft, MapThenFoldSet, PricesFolding
<1>2. \A v, x : Step(a, v, x) = ApplyFull(s, got, closes, fx, v, x)
  BY DEF Step
<1>3. ASSUME NEW f PROVE Folding(f, a, base, seq, n) <=> PricesFolding(f, s, got, closes, fx, base, seq, n)
  <2>. HIDE DEF a
  <2>. QED
    BY <1>2 DEF Folding, PricesFolding
<1>. QED
  BY <1>1, <1>3, FoldingExists

LEMMA StatusesFold ==
  ASSUME NEW s, NEW base, NEW seq, NEW n \in Nat, DOMAIN seq = 1..n
  PROVE  LET a == [fold |-> "statuses", s |-> s]
         IN  \E f : Folding(f, a, base, seq, n) /\ Statuses(s, base, seq) = f[1..n]
<1>. DEFINE a == [fold |-> "statuses", s |-> s]
<1>1. Statuses(s, base, seq) = (CHOOSE f : StatusesFolding(f, s, base, seq, n))[1..n]
  BY DEF Statuses, FoldLeft, MapThenFoldSet, StatusesFolding
<1>2. \A v, x : Step(a, v, x) = IF Signed(statusSigs[s], x, AvailabilitySig(x)) THEN v
                                ELSE UpsertConnector(v, s, x)
  BY DEF Step
<1>3. ASSUME NEW f PROVE Folding(f, a, base, seq, n) <=> StatusesFolding(f, s, base, seq, n)
  <2>. HIDE DEF a
  <2>. QED
    BY <1>2 DEF Folding, StatusesFolding
<1>. QED
  BY <1>1, <1>3, FoldingExists

LEMMA ChunksFold ==
  ASSUME NEW base, NEW seq, NEW n \in Nat, DOMAIN seq = 1..n
  PROVE  \E f : Folding(f, [fold |-> "regions"], base, seq, n) /\ Chunks(base, seq) = f[1..n]
<1>. DEFINE a == [fold |-> "regions"]
<1>1. Chunks(base, seq) = (CHOOSE f : ChunksFolding(f, base, seq, n))[1..n]
  BY DEF Chunks, FoldLeft, MapThenFoldSet, ChunksFolding
<1>2. \A v, x : Step(a, v, x) = Take(v, x)
  BY DEF Step
<1>3. ASSUME NEW f PROVE Folding(f, a, base, seq, n) <=> ChunksFolding(f, base, seq, n)
  <2>. HIDE DEF a
  <2>. QED
    BY <1>2 DEF Folding, ChunksFolding
<1>. QED
  BY <1>1, <1>3, FoldingExists

-----------------------------------------------------------------------------
(* The rows: one for each charger, numbered.                               *)

RowFields == {"id", "cpo", "country", "evse", "connector", "place", "power", "plug", "current",
              "name", "status", "tariff", "headline", "prices", "versions", "retired", "superseded"}

RowOK(r) ==
  /\ DOMAIN r = RowFields
  /\ r.cpo \in Sources /\ r.country = Country[r.cpo]
  /\ r.retired \in BOOLEAN /\ r.superseded \in BOOLEAN /\ Whole(r.tariff)

SameCharger(r, x) == r.cpo = x.cpo /\ r.evse = x.evse /\ r.connector = x.connector

RowsOK(all) ==
  /\ IsFiniteSet(all)
  /\ \A r \in all : RowOK(r) /\ r.id \in 1..Cardinality(all)
  /\ \A r, x \in all : r.id = x.id \/ SameCharger(r, x) => r = x

\* d is what a row has become.
Becomes(r, d) == RowOK(d) /\ d.id = r.id /\ SameCharger(r, d)

LEMMA ReplaceRow ==
  ASSUME NEW all, RowsOK(all), NEW r \in all, NEW d, Becomes(r, d)
  PROVE  RowsOK((all \ {r}) \cup {d})
<1>. DEFINE new == (all \ {r}) \cup {d}
<1>1. \A x \in all \ {r} : x.id # d.id /\ ~SameCharger(x, d) /\ ~SameCharger(d, x)
  BY DEF RowsOK, Becomes, SameCharger
<1>2. d \notin all \ {r}
  BY <1>1
<1>3. IsFiniteSet(new) /\ Cardinality(new) = Cardinality(all)
  <2>1. IsFiniteSet(all \ {r}) /\ Cardinality(all \ {r}) = Cardinality(all) - 1
    BY FS_RemoveElement DEF RowsOK
  <2>2. Cardinality(all) \in Nat
    BY FS_CardinalityType DEF RowsOK
  <2>. DEFINE others == all \ {r}
  <2>3. IsFiniteSet(others \cup {d}) /\ Cardinality(others \cup {d}) = Cardinality(others) + 1
    <3>. HIDE DEF others
    <3>. QED
      BY <1>2, <2>1, FS_AddElement DEF others
  <2>. QED
    BY <2>1, <2>2, <2>3
<1>4. \A x \in new : RowOK(x) /\ x.id \in 1..Cardinality(all)
  BY DEF RowsOK, Becomes
<1>5. \A x, y \in new : x.id = y.id \/ SameCharger(x, y) => x = y
  BY <1>1 DEF RowsOK
<1>. QED
  BY <1>3, <1>4, <1>5 DEF RowsOK

LEMMA AddRow ==
  ASSUME NEW all, RowsOK(all), NEW d, RowOK(d), d.id = Cardinality(all) + 1,
         \A x \in all : ~SameCharger(x, d)
  PROVE  RowsOK(all \cup {d})
<1>0. Cardinality(all) \in Nat
  BY FS_CardinalityType DEF RowsOK
<1>1. \A x \in all : x.id # d.id /\ x.id \in 1..(Cardinality(all) + 1)
  BY <1>0 DEF RowsOK
<1>2. IsFiniteSet(all \cup {d}) /\ Cardinality(all \cup {d}) = Cardinality(all) + 1
  BY <1>1, FS_AddElement DEF RowsOK
<1>3. \A x \in all : ~SameCharger(d, x)
  BY DEF SameCharger
<1>4. d.id \in 1..(Cardinality(all) + 1)
  BY <1>0
<1>. QED
  BY <1>1, <1>2, <1>3, <1>4 DEF RowsOK

LEMMA MapRows ==
  ASSUME NEW all, RowsOK(all), NEW g, DOMAIN g = all, \A r \in all : Becomes(r, g[r])
  PROVE  RowsOK({g[r] : r \in all})
<1>. DEFINE new == {g[r] : r \in all}
<1>1. IsFiniteSet(new) /\ Cardinality(new) = Cardinality(all)
  <2>0. \A r, x \in all : g[r] = g[x] => r = x
    BY DEF RowsOK, Becomes
  <2>1. [r \in all |-> g[r]] \in Bijection(all, new)
    BY <2>0 DEF Bijection, Injection, Surjection, IsInjective
  <2>. QED
    BY <2>1, FS_Bijection DEF ExistsBijection, RowsOK
<1>2. \A x \in new : RowOK(x) /\ x.id \in 1..Cardinality(all)
  BY DEF RowsOK, Becomes
<1>3. \A r, x \in all : g[r].id = g[x].id \/ SameCharger(g[r], g[x]) => g[r] = g[x]
  <2>1. \A r, x \in all : SameCharger(g[r], g[x]) => SameCharger(r, x)
    BY DEF Becomes, SameCharger
  <2>. QED
    BY <2>1 DEF RowsOK, Becomes
<1>4. \A x, y \in new : x.id = y.id \/ SameCharger(x, y) => x = y
  BY <1>3
<1>. HIDE DEF new
<1>5. RowsOK(new)
  BY <1>1, <1>2, <1>4 DEF RowsOK
<1>. QED
  BY <1>5 DEF new

\* A connector's row is written over, or added.
LEMMA UpsertRows ==
  ASSUME NEW all, RowsOK(all), NEW s \in Sources, NEW c
  PROVE  /\ RowsOK(UpsertConnector(all, s, c))
         /\ \E r \in UpsertConnector(all, s, c) : Matching(UpsertConnector(all, s, c), s, c) = {r}
<1>. DEFINE old == Matching(all, s, c)
            kept == IF old # {} THEN CHOOSE r \in old : TRUE
                    ELSE [id |-> Cardinality(all) + 1, tariff |-> NoTariff, headline |-> Unset,
                          prices |-> << >>, versions |-> 0, retired |-> FALSE, superseded |-> FALSE]
            d == [id |-> kept.id, cpo |-> s, country |-> Country[s], evse |-> c.evse, connector |-> c.connector,
                  place |-> c.place, power |-> c.power, plug |-> c.plug, current |-> c.current,
                  name |-> c.name, status |-> c.status, tariff |-> kept.tariff, headline |-> kept.headline,
                  prices |-> kept.prices, versions |-> kept.versions, retired |-> kept.retired,
                  superseded |-> kept.superseded]
<1>1. UpsertConnector(all, s, c) = (all \ old) \cup {d}
  BY DEF UpsertConnector
<1>2. /\ DOMAIN d = RowFields /\ d.cpo = s /\ d.country = Country[s] /\ d.evse = c.evse
      /\ d.connector = c.connector /\ d.id = kept.id /\ d.tariff = kept.tariff
      /\ d.retired = kept.retired /\ d.superseded = kept.superseded
  BY DEF RowFields
<1>3. \A x \in all : x \in old <=> SameCharger(x, d)
  BY <1>2 DEF Matching, Key, SameCharger
<1>4. RowsOK((all \ old) \cup {d})
  <2>. HIDE DEF d
  <2>1. CASE old = {}
    <3>1. kept.id = Cardinality(all) + 1 /\ kept.tariff = NoTariff /\ kept.retired = FALSE /\ kept.superseded = FALSE
      BY <2>1
    <3>2. Whole(NoTariff)
      BY DEF Whole, NoTariff, Tariff
    <3>3. RowOK(d)
      BY <1>2, <3>1, <3>2 DEF RowOK
    <3>. QED
      BY <1>2, <1>3, <2>1, <3>1, <3>3, AddRow
  <2>2. CASE old # {}
    <3>1. kept \in old /\ old \subseteq all
      BY <2>2 DEF Matching
    <3>2. old = {kept}
      <4>1. \A x \in old : SameCharger(x, kept)
        BY <1>3, <3>1 DEF SameCharger
      <4>. QED
        BY <3>1, <4>1 DEF RowsOK
    <3>3. Becomes(kept, d)
      BY <1>2, <1>3, <3>1 DEF Becomes, RowsOK, RowOK
    <3>. HIDE DEF kept
    <3>. QED
      BY <3>1, <3>2, <3>3, ReplaceRow
  <2>. QED
    BY <2>1, <2>2
<1>. HIDE DEF d
<1>5. Matching((all \ old) \cup {d}, s, c) = {d}
  <2>1. d.cpo = s /\ Key(d) = Key(c)
    BY <1>2 DEF Key
  <2>2. \A x \in all \ old : ~(x.cpo = s /\ Key(x) = Key(c))
    BY DEF Matching
  <2>. HIDE DEF old
  <2>. QED
    BY <2>1, <2>2 DEF Matching
<1>. HIDE DEF old
<1>. QED
  BY <1>1, <1>4, <1>5

\* Its tariff is opened, filled or closed.
LEMMA TariffRows ==
  ASSUME NEW r, RowOK(r), NEW t, Whole(t), NEW fx
  PROVE  Becomes(r, r) /\ Becomes(r, ProcessTariff(r, t, fx)) /\ Becomes(r, CloseCurrentTariff(r))
<1>1. Becomes(r, r)
  BY DEF Becomes, SameCharger
<1>2. Becomes(r, ProcessTariff(r, t, fx))
  <2>. DEFINE euro == EuroPrices(t, r, fx)
  <2>1. CASE Hash(r.tariff) # Hash(t)
    <3>1. ProcessTariff(r, t, fx) = [r EXCEPT !.tariff = t, !.versions = @ + 1,
                                       !.headline = euro.headline, !.prices = euro.prices]
      BY <2>1 DEF ProcessTariff
    <3>. HIDE DEF euro
    <3>. QED
      BY <3>1 DEF Becomes, SameCharger, RowOK, RowFields
  <2>2. CASE Hash(r.tariff) = Hash(t) /\ r.headline = Unset /\ t.currency # "EUR"
    <3>1. ProcessTariff(r, t, fx) = [r EXCEPT !.headline = euro.headline, !.prices = euro.prices]
      BY <2>2 DEF ProcessTariff
    <3>. HIDE DEF euro
    <3>. QED
      BY <3>1 DEF Becomes, SameCharger, RowOK, RowFields
  <2>3. CASE Hash(r.tariff) = Hash(t) /\ ~(r.headline = Unset /\ t.currency # "EUR")
    <3>1. ProcessTariff(r, t, fx) = r
      BY <2>3 DEF ProcessTariff
    <3>. QED
      BY <1>1, <3>1
  <2>. QED
    BY <2>1, <2>2, <2>3
<1>3. Becomes(r, CloseCurrentTariff(r))
  <2>1. Whole(NoTariff)
    BY DEF Whole, NoTariff, Tariff
  <2>. QED
    BY <2>1 DEF CloseCurrentTariff, Becomes, SameCharger, RowOK, RowFields
<1>. QED
  BY <1>1, <1>2, <1>3

LEMMA ApplyFullIs ==
  ASSUME NEW all, RowsOK(all), NEW s \in Sources, NEW got, NEW closes, NEW fx, NEW c
  PROVE  LET t == TariffIn(c, got.tariffs)
             up == UpsertConnector(all, s, c)
         IN  \/ ApplyFull(s, got, closes, fx, all, c) = all
             \/ \E r \in up : \E done \in {r, ProcessTariff(r, t, fx), CloseCurrentTariff(r)} :
                  ApplyFull(s, got, closes, fx, all, c) = (up \ {r}) \cup {done}
<1>. DEFINE t == TariffIn(c, got.tariffs)
            up == UpsertConnector(all, s, c)
            r == CHOOSE x \in Matching(up, s, c) : TRUE
            done == IF t # NoTariff THEN ProcessTariff(r, t, fx)
                    ELSE IF closes THEN CloseCurrentTariff(r) ELSE r
<1>1. ApplyFull(s, got, closes, fx, all, c)
        = IF Signed(priceSigs[s], c, ConnectorSig(c, t)) THEN all ELSE (up \ {r}) \cup {done}
  BY DEF ApplyFull
<1>2. r \in up
  <2>1. PICK x \in up : Matching(up, s, c) = {x}
    BY UpsertRows
  <2>. HIDE DEF up
  <2>. QED
    BY <2>1
<1>3. done \in {r, ProcessTariff(r, t, fx), CloseCurrentTariff(r)}
  OBVIOUS
<1>. HIDE DEF up, r, done
<1>. QED
  BY <1>1, <1>2, <1>3 DEF up

LEMMA ApplyFullRows ==
  ASSUME NEW all, RowsOK(all), NEW s \in Sources, NEW got, NEW closes, NEW fx, NEW c,
         \A id \in DOMAIN got.tariffs : Whole(got.tariffs[id])
  PROVE  RowsOK(ApplyFull(s, got, closes, fx, all, c))
<1>. DEFINE t == TariffIn(c, got.tariffs)
            up == UpsertConnector(all, s, c)
<1>1. Whole(t)
  BY DEF TariffIn, Whole, NoTariff, Tariff
<1>2. RowsOK(up)
  BY UpsertRows
<1>3. ASSUME NEW r \in up, NEW done \in {r, ProcessTariff(r, t, fx), CloseCurrentTariff(r)}
      PROVE  RowsOK((up \ {r}) \cup {done})
  <2>. HIDE DEF up, t
  <2>1. Becomes(r, done)
    BY <1>1, <1>2, <1>3, TariffRows DEF RowsOK
  <2>. QED
    BY <1>2, <2>1, ReplaceRow
<1>4. \/ ApplyFull(s, got, closes, fx, all, c) = all
      \/ \E r \in up : \E done \in {r, ProcessTariff(r, t, fx), CloseCurrentTariff(r)} :
           ApplyFull(s, got, closes, fx, all, c) = (up \ {r}) \cup {done}
  BY ApplyFullIs
<1>. HIDE DEF up, t
<1>. QED
  BY <1>3, <1>4

-----------------------------------------------------------------------------
(* What the rows say.                                                      *)

\* A row says what it said before, or what a connector of the list says.
SaidBefore(x, base) == \E r \in base : r.id = x.id /\ r.status = x.status
SaidBy(x, s, conns) == x.cpo = s /\ \E c \in ToSet(conns) : x.evse = c.evse /\ x.status = c.status
Told(all, base, s, conns) == \A x \in all : SaidBefore(x, base) \/ SaidBy(x, s, conns)

\* d says of a charger what r says.
SameWord(r, d) == d.id = r.id /\ d.status = r.status /\ d.cpo = r.cpo /\ d.evse = r.evse

LEMMA UpsertTold ==
  ASSUME NEW all, NEW base, NEW s, NEW conns, NEW c \in ToSet(conns), Told(all, base, s, conns)
  PROVE  Told(UpsertConnector(all, s, c), base, s, conns)
<1>. DEFINE old == Matching(all, s, c)
            kept == IF old # {} THEN CHOOSE r \in old : TRUE
                    ELSE [id |-> Cardinality(all) + 1, tariff |-> NoTariff, headline |-> Unset,
                          prices |-> << >>, versions |-> 0, retired |-> FALSE, superseded |-> FALSE]
            d == [id |-> kept.id, cpo |-> s, country |-> Country[s], evse |-> c.evse, connector |-> c.connector,
                  place |-> c.place, power |-> c.power, plug |-> c.plug, current |-> c.current,
                  name |-> c.name, status |-> c.status, tariff |-> kept.tariff, headline |-> kept.headline,
                  prices |-> kept.prices, versions |-> kept.versions, retired |-> kept.retired,
                  superseded |-> kept.superseded]
<1>1. UpsertConnector(all, s, c) = (all \ old) \cup {d}
  BY DEF UpsertConnector
<1>. HIDE DEF kept
<1>2. d.cpo = s /\ d.evse = c.evse /\ d.status = c.status
  OBVIOUS
<1>. HIDE DEF d
<1>3. SaidBy(d, s, conns)
  BY <1>2 DEF SaidBy
<1>. QED
  BY <1>1, <1>3 DEF Told

LEMMA TariffWord ==
  ASSUME NEW r, RowOK(r), NEW t, NEW fx
  PROVE  SameWord(r, ProcessTariff(r, t, fx)) /\ SameWord(r, CloseCurrentTariff(r)) /\ SameWord(r, r)
<1>1. DOMAIN r = RowFields
  BY DEF RowOK
<1>2. SameWord(r, ProcessTariff(r, t, fx))
  <2>. DEFINE euro == EuroPrices(t, r, fx)
  <2>1. \/ ProcessTariff(r, t, fx) = r
        \/ ProcessTariff(r, t, fx) = [r EXCEPT !.tariff = t, !.versions = @ + 1,
                                        !.headline = euro.headline, !.prices = euro.prices]
        \/ ProcessTariff(r, t, fx) = [r EXCEPT !.headline = euro.headline, !.prices = euro.prices]
    BY DEF ProcessTariff
  <2>. HIDE DEF euro
  <2>. QED
    BY <1>1, <2>1 DEF SameWord, RowFields
<1>3. SameWord(r, CloseCurrentTariff(r)) /\ SameWord(r, r)
  BY <1>1 DEF SameWord, CloseCurrentTariff, RowFields
<1>. QED
  BY <1>2, <1>3

LEMMA ReplaceTold ==
  ASSUME NEW all, NEW base, NEW s, NEW conns, Told(all, base, s, conns), NEW r \in all, NEW d, SameWord(r, d)
  PROVE  Told((all \ {r}) \cup {d}, base, s, conns)
<1>1. SaidBefore(d, base) \/ SaidBy(d, s, conns)
  BY DEF Told, SaidBefore, SaidBy, SameWord
<1>. QED
  BY <1>1 DEF Told

LEMMA ApplyFullTold ==
  ASSUME NEW all, RowsOK(all), NEW s \in Sources, NEW got, NEW closes, NEW fx, NEW base, NEW conns,
         NEW c \in ToSet(conns), Told(all, base, s, conns)
  PROVE  Told(ApplyFull(s, got, closes, fx, all, c), base, s, conns)
<1>. DEFINE t == TariffIn(c, got.tariffs)
            up == UpsertConnector(all, s, c)
<1>1. RowsOK(up) /\ Told(up, base, s, conns)
  BY UpsertRows, UpsertTold
<1>2. ASSUME NEW r \in up, NEW done \in {r, ProcessTariff(r, t, fx), CloseCurrentTariff(r)}
      PROVE  Told((up \ {r}) \cup {done}, base, s, conns)
  <2>. HIDE DEF up, t
  <2>1. SameWord(r, done)
    BY <1>1, <1>2, TariffWord DEF RowsOK
  <2>. QED
    BY <1>1, <2>1, ReplaceTold
<1>3. \/ ApplyFull(s, got, closes, fx, all, c) = all
      \/ \E r \in up : \E done \in {r, ProcessTariff(r, t, fx), CloseCurrentTariff(r)} :
           ApplyFull(s, got, closes, fx, all, c) = (up \ {r}) \cup {done}
  BY ApplyFullIs
<1>. HIDE DEF up, t
<1>. QED
  BY <1>2, <1>3

-----------------------------------------------------------------------------
(* The passes and the snapshot.                                            *)

LEMMA PricesRows ==
  ASSUME NEW base, RowsOK(base), NEW s \in Sources, NEW got, NEW closes, NEW fx,
         NEW E, NEW seq \in Seq(E), \A id \in DOMAIN got.tariffs : Whole(got.tariffs[id])
  PROVE  /\ RowsOK(Prices(s, got, closes, fx, base, seq))
         /\ Told(Prices(s, got, closes, fx, base, seq), base, s, seq)
<1>. DEFINE a == [fold |-> "prices", s |-> s, got |-> got, closes |-> closes, fx |-> fx]
            n == Len(seq)
<1>1. n \in Nat /\ DOMAIN seq = 1..n
  OBVIOUS
<1>2. PICK f : Folding(f, a, base, seq, n) /\ Prices(s, got, closes, fx, base, seq) = f[1..n]
  BY <1>1, PricesFold
<1>3. \A v, x : Step(a, v, x) = ApplyFull(s, got, closes, fx, v, x)
  BY DEF Step
<1>. DEFINE K == {k \in Nat : k <= n => RowsOK(f[1..k]) /\ Told(f[1..k], base, s, seq)}
<1>. HIDE DEF a, n
<1>4. 0 \in K
  BY <1>1, <1>2, FoldingSteps DEF Told, SaidBefore
<1>5. ASSUME NEW k \in K PROVE k + 1 \in K
  <2>1. SUFFICES ASSUME k + 1 <= n
                 PROVE  RowsOK(f[1..(k + 1)]) /\ Told(f[1..(k + 1)], base, s, seq)
    OBVIOUS
  <2>2. k \in Nat /\ k < n /\ RowsOK(f[1..k]) /\ Told(f[1..k], base, s, seq)
    BY <1>1, <1>5, <2>1
  <2>4. seq[k + 1] \in ToSet(seq)
    <3>1. k + 1 \in DOMAIN seq
      BY <1>1, <2>2
    <3>. QED
      BY <3>1 DEF ToSet
  <2>3. f[1..(k + 1)] = ApplyFull(s, got, closes, fx, f[1..k], seq[k + 1])
    BY <1>1, <1>2, <1>3, <2>2, FoldingSteps
  <2>. QED
    BY <2>2, <2>3, <2>4, ApplyFullRows, ApplyFullTold
<1>6. K = Nat
  <2>. K \in SUBSET Nat
    OBVIOUS
  <2>. HIDE DEF K
  <2>. QED
    BY <1>4, <1>5, SetInduction
<1>. QED
  BY <1>1, <1>2, <1>6

LEMMA StatusesRows ==
  ASSUME NEW base, RowsOK(base), NEW s \in Sources, NEW E, NEW seq \in Seq(E)
  PROVE  RowsOK(Statuses(s, base, seq)) /\ Told(Statuses(s, base, seq), base, s, seq)
<1>. DEFINE a == [fold |-> "statuses", s |-> s]
            n == Len(seq)
<1>1. n \in Nat /\ DOMAIN seq = 1..n
  OBVIOUS
<1>2. PICK f : Folding(f, a, base, seq, n) /\ Statuses(s, base, seq) = f[1..n]
  BY <1>1, StatusesFold
<1>3. \A v, x : Step(a, v, x) = IF Signed(statusSigs[s], x, AvailabilitySig(x)) THEN v
                                ELSE UpsertConnector(v, s, x)
  BY DEF Step
<1>. DEFINE K == {k \in Nat : k <= n => RowsOK(f[1..k]) /\ Told(f[1..k], base, s, seq)}
<1>. HIDE DEF a, n
<1>4. 0 \in K
  BY <1>1, <1>2, FoldingSteps DEF Told, SaidBefore
<1>5. ASSUME NEW k \in K PROVE k + 1 \in K
  <2>1. SUFFICES ASSUME k + 1 <= n
                 PROVE  RowsOK(f[1..(k + 1)]) /\ Told(f[1..(k + 1)], base, s, seq)
    OBVIOUS
  <2>2. k \in Nat /\ k < n /\ RowsOK(f[1..k]) /\ Told(f[1..k], base, s, seq)
    BY <1>1, <1>5, <2>1
  <2>4. seq[k + 1] \in ToSet(seq)
    <3>1. k + 1 \in DOMAIN seq
      BY <1>1, <2>2
    <3>. QED
      BY <3>1 DEF ToSet
  <2>3. \/ f[1..(k + 1)] = f[1..k]
        \/ f[1..(k + 1)] = UpsertConnector(f[1..k], s, seq[k + 1])
    BY <1>1, <1>2, <1>3, <2>2, FoldingSteps
  <2>. QED
    BY <2>2, <2>3, <2>4, UpsertRows, UpsertTold
<1>6. K = Nat
  <2>. K \in SUBSET Nat
    OBVIOUS
  <2>. HIDE DEF K
  <2>. QED
    BY <1>4, <1>5, SetInduction
<1>. QED
  BY <1>1, <1>2, <1>6

LEMMA RetiredRows ==
  ASSUME NEW all, RowsOK(all), NEW s \in Sources, NEW listed
  PROVE  /\ RowsOK(ReconcileRetired(s, listed, all))
         /\ \A x \in ReconcileRetired(s, listed, all) : \E r \in all : SameWord(r, x)
<1>. DEFINE seen == {Key(listed[i]) : i \in DOMAIN listed}
            g == [r \in all |-> IF r.cpo = s THEN [r EXCEPT !.retired = Key(r) \notin seen] ELSE r]
            new == {r \in all : r.cpo # s} \cup {[r EXCEPT !.retired = Key(r) \notin seen] : r \in Of(all, s)}
<1>1. ReconcileRetired(s, listed, all) \in {all, new}
  BY DEF ReconcileRetired
<1>2. new = {g[r] : r \in all}
  <2>. DEFINE other == {r \in all : r.cpo # s}
              own == {[r EXCEPT !.retired = Key(r) \notin seen] : r \in Of(all, s)}
  <2>1. \A r \in all : r.cpo = s => r \in Of(all, s) /\ g[r] = [r EXCEPT !.retired = Key(r) \notin seen]
    BY DEF Of
  <2>2. \A r \in all : r.cpo # s => r \in other /\ g[r] = r
    OBVIOUS
  <2>3. \A r \in all : g[r] \in own \cup other
    BY <2>1, <2>2
  <2>4. \A x \in own : \E r \in all : x = g[r]
    BY <2>1 DEF Of
  <2>5. \A x \in other : x \in all /\ x = g[x]
    BY <2>2
  <2>. HIDE DEF g, own, other
  <2>6. {g[r] : r \in all} = other \cup own
    BY <2>3, <2>4, <2>5
  <2>. QED
    BY <2>6 DEF other, own
<1>3. \A r \in all : Becomes(r, g[r]) /\ SameWord(r, g[r])
  <2>. HIDE DEF seen
  <2>. SUFFICES ASSUME NEW r \in all PROVE Becomes(r, g[r]) /\ SameWord(r, g[r])
    OBVIOUS
  <2>1. RowOK(r)
    BY DEF RowsOK
  <2>2. (Key(r) \notin seen) \in BOOLEAN
    OBVIOUS
  <2>. QED
    BY <2>1, <2>2 DEF Becomes, SameCharger, SameWord, RowOK, RowFields
<1>4. RowsOK({g[r] : r \in all})
  <2>. DOMAIN g = all
    OBVIOUS
  <2>. HIDE DEF g
  <2>. QED
    BY <1>3, MapRows
<1>5. \A x \in all : SameWord(x, x)
  BY DEF SameWord
<1>. HIDE DEF g, new
<1>. QED
  BY <1>1, <1>2, <1>3, <1>4, <1>5

\* The same rows with other flags.
Reflagged(all, new) ==
  \E flag \in [all -> BOOLEAN] : new = {[r EXCEPT !.superseded = flag[r]] : r \in all}

LEMMA FlagsChange ==
  ASSUME RowsOK(rows), ClearSuperseded \/ MarkSuperseded
  PROVE  Reflagged(rows, rows')
<1>1. CASE ClearSuperseded
  <2>. DEFINE flag == [r \in rows |-> FALSE]
  <2>1. rows' = {[r EXCEPT !.superseded = flag[r]] : r \in rows} /\ flag \in [rows -> BOOLEAN]
    BY <1>1 DEF ClearSuperseded
  <2>. HIDE DEF flag
  <2>. QED
    BY <2>1 DEF Reflagged
<1>2. CASE MarkSuperseded
  <2>. DEFINE flag == [r \in rows |-> r.superseded \/ Covered(r, rows)]
  <2>1. rows' = {[r EXCEPT !.superseded = flag[r]] : r \in rows}
    BY <1>2 DEF MarkSuperseded
  <2>2. flag \in [rows -> BOOLEAN]
    BY DEF RowsOK, RowOK
  <2>. HIDE DEF flag
  <2>. QED
    BY <2>1, <2>2 DEF Reflagged
<1>. QED
  BY <1>1, <1>2

LEMMA SupersededRows ==
  ASSUME NEW all, RowsOK(all), NEW new, Reflagged(all, new)
  PROVE  RowsOK(new) /\ \A x \in new : \E r \in all : SameWord(r, x)
<1>0. PICK flag \in [all -> BOOLEAN] : new = {[r EXCEPT !.superseded = flag[r]] : r \in all}
  BY DEF Reflagged
<1>. DEFINE g == [r \in all |-> [r EXCEPT !.superseded = flag[r]]]
<1>1. new = {g[r] : r \in all}
  BY <1>0
<1>2. \A r \in all : Becomes(r, g[r]) /\ SameWord(r, g[r])
  <2>. SUFFICES ASSUME NEW r \in all PROVE Becomes(r, g[r]) /\ SameWord(r, g[r])
    OBVIOUS
  <2>1. RowOK(r) /\ flag[r] \in BOOLEAN
    BY DEF RowsOK
  <2>. QED
    BY <2>1 DEF Becomes, SameCharger, SameWord, RowOK, RowFields
<1>3. RowsOK({g[r] : r \in all})
  <2>. DOMAIN g = all
    OBVIOUS
  <2>. HIDE DEF g
  <2>. QED
    BY <1>2, MapRows
<1>. HIDE DEF g
<1>. QED
  BY <1>1, <1>2, <1>3

-----------------------------------------------------------------------------
(* The inductive invariant.                                                *)

WorldsOK ==
  /\ form \in Forms
  /\ DOMAIN world = Sources /\ \A s \in Sources : world[s] \in Worlds[s]
  /\ DOMAIN read = Sources /\ \A s \in Sources : read[s] \in Worlds[s] \cup {NoWorld}

JourneyInv == WorldsOK /\ RowsOK(rows)

LEMMA JourneyTypes == JourneyInv => TypeOK
<1>. SUFFICES ASSUME JourneyInv PROVE TypeOK
  OBVIOUS
<1>1. \A s \in Sources : world[s] \in Worlds[s] /\ read[s] \in Worlds[s] \cup {NoWorld}
  BY DEF JourneyInv, WorldsOK
<1>2. ASSUME NEW r \in rows
      PROVE  /\ r.cpo \in Sources /\ r.retired \in BOOLEAN /\ r.superseded \in BOOLEAN
             /\ Whole(r.tariff)
  BY DEF JourneyInv, RowsOK, RowOK
<1>3. ASSUME NEW r \in rows, NEW other \in rows,
             other.id = r.id \/ <<other.cpo, Key(other)>> = <<r.cpo, Key(r)>>
      PROVE  other = r
  <2>1. other.id = r.id \/ SameCharger(other, r)
    BY <1>3 DEF Key, SameCharger
  <2>. QED
    BY <2>1 DEF JourneyInv, RowsOK
<1>. QED
  BY <1>1, <1>2, <1>3 DEF TypeOK

LEMMA JourneyInit == Init => JourneyInv
<1>. SUFFICES ASSUME Init PROVE JourneyInv
  OBVIOUS
<1>1. WorldsOK
  BY JourneyAssumption DEF Init, WorldsOK
<1>2. RowsOK({})
  BY FS_EmptySet DEF RowsOK
<1>. QED
  BY <1>1, <1>2 DEF Init, JourneyInv

\* What a successful fetch returns.
LEMMA FetchedOK ==
  ASSUME JourneyInv, NEW s \in Enabled, NEW failing \in BOOLEAN, NEW statuses \in BOOLEAN
  PROVE  LET got == Fetched[form[s], world[s], failing, statuses]
         IN  /\ s \in Sources /\ form[s] \in FormNames /\ world[s] \in AllWorlds
             /\ ~got.failed => /\ got.connectors \in Seq(ToSet(got.connectors))
                               /\ \A id \in DOMAIN got.tariffs : Whole(got.tariffs[id])
<1>1. s \in Sources /\ form[s] \in FormNames
  BY JourneyAssumption DEF JourneyInv, WorldsOK, Enabled, FormNames
<1>2. world[s] \in AllWorlds
  BY <1>1 DEF JourneyInv, WorldsOK, AllWorlds
<1>. QED
  BY <1>1, <1>2, ReadersAssumption

LEMMA PricesInv ==
  ASSUME JourneyInv, NEW s \in Enabled, NEW failing \in BOOLEAN, NEW fx \in BOOLEAN,
         RunPrices(s, failing, fx)
  PROVE  JourneyInv'
<1>. DEFINE got == Fetched[form[s], world[s], failing, FALSE]
            closes == form[s] \in CompleteLists /\ DOMAIN got.tariffs # {}
<1>1. s \in Sources /\ got.connectors \in Seq(ToSet(got.connectors))
      /\ \A id \in DOMAIN got.tariffs : Whole(got.tariffs[id])
  BY FetchedOK DEF RunPrices, TakePrices
<1>2. rows' = ReconcileRetired(s, got.connectors, Prices(s, got, closes, fx, rows, got.connectors))
  BY DEF RunPrices, TakePrices, Prices, FoldLeft, MapThenFoldSet
<1>3. RowsOK(rows')
  <2>. HIDE DEF got, closes
  <2>1. RowsOK(Prices(s, got, closes, fx, rows, got.connectors))
    BY <1>1, PricesRows DEF JourneyInv
  <2>. QED
    BY <1>1, <1>2, <2>1, RetiredRows
<1>4. WorldsOK'
  BY <1>1 DEF RunPrices, JourneyInv, WorldsOK
<1>. QED
  BY <1>3, <1>4 DEF JourneyInv

LEMMA AvailabilityInv ==
  ASSUME JourneyInv, NEW s \in Enabled, NEW failing \in BOOLEAN, RunAvailability(s, failing)
  PROVE  JourneyInv'
<1>. DEFINE got == Fetched[form[s], world[s], failing, TRUE]
<1>1. s \in Sources /\ got.connectors \in Seq(ToSet(got.connectors))
  BY FetchedOK DEF RunAvailability, TakeStatuses
<1>2. rows' = Statuses(s, rows, got.connectors)
  BY DEF RunAvailability, TakeStatuses, Statuses, FoldLeft, MapThenFoldSet
<1>3. RowsOK(rows')
  <2>. HIDE DEF got
  <2>. QED
    BY <1>1, <1>2, StatusesRows DEF JourneyInv
<1>4. WorldsOK'
  BY DEF RunAvailability, JourneyInv, WorldsOK
<1>. QED
  BY <1>3, <1>4 DEF JourneyInv

LEMMA JourneyNext == JourneyInv /\ [Next]_vars => JourneyInv'
<1>. SUFFICES ASSUME JourneyInv, [Next]_vars PROVE JourneyInv'
  OBVIOUS
<1>1. ASSUME NEW s \in Enabled, NEW w \in Worlds[s], Edit(s, w) PROVE JourneyInv'
  BY <1>1 DEF Edit, JourneyInv, WorldsOK
<1>2. ASSUME NEW s \in Enabled, NEW failing \in BOOLEAN, NEW fx \in BOOLEAN, RunPrices(s, failing, fx)
      PROVE  JourneyInv'
  BY <1>2, PricesInv
<1>3. ASSUME NEW s \in Enabled, NEW failing \in BOOLEAN, RunAvailability(s, failing) PROVE JourneyInv'
  BY <1>3, AvailabilityInv
<1>4. ASSUME ClearSuperseded \/ MarkSuperseded PROVE JourneyInv'
  <2>1. RowsOK(rows)'
    BY <1>4, FlagsChange, SupersededRows DEF JourneyInv
  <2>. QED
    BY <1>4, <2>1 DEF ClearSuperseded, MarkSuperseded, JourneyInv, WorldsOK
<1>5. ASSUME Restart PROVE JourneyInv'
  BY <1>5 DEF Restart, JourneyInv, WorldsOK
<1>6. ASSUME UNCHANGED vars PROVE JourneyInv'
  BY <1>6 DEF vars, JourneyInv, WorldsOK
<1>. QED
  BY <1>1, <1>2, <1>3, <1>4, <1>5, <1>6 DEF Next

\* Every row is one charger's: none has two, and no id has two (ingest.go, upsertConnector).
THEOREM RowsTypeHolds == Spec => []TypeOK
<1>1. Spec => []JourneyInv
  BY JourneyInit, JourneyNext, PTL DEF Spec
<1>. QED
  BY <1>1, JourneyTypes, PTL

-----------------------------------------------------------------------------
(* Lists of a set, and joined lists.                                       *)

LEMMA SetToSeqIs ==
  ASSUME NEW S, IsFiniteSet(S)
  PROVE  /\ SetToSeq(S) \in Seq(S) /\ Len(SetToSeq(S)) = Cardinality(S)
         /\ \A x \in S : \E i \in DOMAIN SetToSeq(S) : SetToSeq(S)[i] = x
         /\ \A i, j \in DOMAIN SetToSeq(S) : SetToSeq(S)[i] = SetToSeq(S)[j] => i = j
<1>. DEFINE n == Cardinality(S)
            f == SetToSeq(S)
<1>1. n \in Nat /\ ExistsBijection(1..n, S)
  BY FS_CardinalityType
<1>2. \E h \in [1..n -> S] : IsInjective(h)
  BY <1>1 DEF ExistsBijection, Bijection, Injection
<1>3. f \in [1..n -> S] /\ IsInjective(f)
  BY <1>2 DEF SetToSeq
<1>. HIDE DEF f, n
<1>4. f \in Seq(S) /\ Len(f) = n
  BY <1>1, <1>3
<1>5. f \in Surjection(1..n, S)
  <2>1. Cardinality(1..n) = n
    BY <1>1, FS_Interval
  <2>2. f \in Injection(1..n, S)
    BY <1>3 DEF Injection
  <2>. QED
    BY <2>1, <2>2, FS_Injection DEF n
<1>6. \A x \in S : \E i \in DOMAIN f : f[i] = x
  BY <1>3, <1>5 DEF Surjection
<1>7. \A i, j \in DOMAIN f : f[i] = f[j] => i = j
  BY <1>3 DEF IsInjective
<1>. QED
  BY <1>4, <1>6, <1>7 DEF f, n

\* g[k] joins the first k of the lists.
Joins(g, lists) ==
  /\ g[0] = << >>
  /\ \A k \in Nat : k < Len(lists) => g[k + 1] = g[k] \o lists[k + 1]

FlattenFunction(f, lists, n) == f = [i \in 1..n |-> IF i = 1 THEN lists[i] ELSE f[i - 1] \o lists[i]]

LEMMA FlattenExists ==
  ASSUME NEW lists, NEW n \in Nat
  PROVE  \E f : FlattenFunction(f, lists, n)
<1>. DEFINE S == {m \in Nat : \E f : FlattenFunction(f, lists, m)}
<1>1. 0 \in S
  <2>1. FlattenFunction([i \in 1..0 |-> 0], lists, 0)
    BY DEF FlattenFunction
  <2>. QED
    BY <2>1
<1>2. ASSUME NEW m \in S PROVE m + 1 \in S
  <2>1. PICK f : FlattenFunction(f, lists, m)
    BY <1>2
  <2>2. m \in Nat
    BY <1>2
  <2>. DEFINE g == [i \in 1..(m + 1) |-> IF i = 1 THEN lists[i]
                                         ELSE IF i = m + 1 THEN f[m] \o lists[i] ELSE f[i]]
  <2>3. ASSUME NEW i \in 1..(m + 1) PROVE g[i] = IF i = 1 THEN lists[i] ELSE g[i - 1] \o lists[i]
    <3>1. CASE i = 1
      BY <3>1
    <3>2. CASE i # 1
      <4>1. i - 1 \in 1..m /\ g[i - 1] = f[i - 1]
        <5>1. i - 1 \in 1..m
          BY <2>2, <3>2
        <5>2. i - 1 = 1 => f[i - 1] = lists[i - 1]
          BY <2>1, <5>1 DEF FlattenFunction
        <5>. QED
          BY <5>1, <5>2
      <4>2. i # m + 1 => f[i] = f[i - 1] \o lists[i]
        <5>1. i # m + 1 => i \in 1..m
          BY <2>2
        <5>2. \A j \in 1..m : f[j] = IF j = 1 THEN lists[j] ELSE f[j - 1] \o lists[j]
          BY <2>1 DEF FlattenFunction
        <5>. HIDE DEF g
        <5>. QED
          BY <3>2, <5>1, <5>2
      <4>3. i = m + 1 => i - 1 = m
        BY <2>2
      <4>. QED
        BY <3>2, <4>1, <4>2, <4>3
    <3>. QED
      BY <3>1, <3>2
  <2>4. FlattenFunction(g, lists, m + 1)
    BY <2>3 DEF FlattenFunction
  <2>. QED
    BY <2>2, <2>4
<1>3. S = Nat
  <2>. S \in SUBSET Nat
    OBVIOUS
  <2>. HIDE DEF S
  <2>. QED
    BY <1>1, <1>2, SetInduction
<1>. QED
  BY <1>3

LEMMA FlattenJoins ==
  ASSUME NEW S, NEW lists \in Seq(Seq(S))
  PROVE  \E g : Joins(g, lists) /\ FlattenSeq(lists) = g[Len(lists)]
<1>. DEFINE n == Len(lists)
<1>1. n \in Nat /\ \A i \in 1..n : lists[i] \in Seq(S)
  OBVIOUS
<1>. DEFINE f == CHOOSE f : FlattenFunction(f, lists, n)
            g == [i \in 0..n |-> IF i = 0 THEN << >> ELSE f[i]]
<1>2. \A i \in 1..n : f[i] = IF i = 1 THEN lists[i] ELSE f[i - 1] \o lists[i]
  <2>1. FlattenFunction(f, lists, n)
    BY <1>1, FlattenExists
  <2>. HIDE DEF f, n
  <2>. QED
    BY <2>1 DEF FlattenFunction
<1>3. ASSUME NEW k \in Nat, k < n PROVE g[k + 1] = g[k] \o lists[k + 1]
  <2>. HIDE DEF n, f
  <2>1. g[k + 1] = f[k + 1] /\ k + 1 \in 1..n
    BY <1>1, <1>3
  <2>2. CASE k = 0
    <3>1. g[k + 1] = lists[1] /\ g[k] = << >> /\ lists[1] \in Seq(S)
      BY <1>1, <1>2, <2>1, <2>2
    <3>2. << >> \o lists[1] = lists[1]
      BY <3>1, ConcatEmptySeq
    <3>. HIDE DEF g
    <3>. QED
      BY <2>2, <3>1, <3>2
  <2>3. CASE k # 0
    <3>1. f[k + 1] = f[k] \o lists[k + 1]
      <4>1. k + 1 # 1 /\ (k + 1) - 1 = k
        BY <2>3
      <4>. QED
        BY <1>2, <2>1, <4>1
    <3>2. g[k] = f[k]
      BY <1>1, <1>3, <2>3
    <3>. QED
      BY <2>1, <3>1, <3>2
  <2>. QED
    BY <2>2, <2>3
<1>4. g[0] = << >>
  BY <1>1
<1>5. FlattenSeq(lists) = g[n]
  <2>1. CASE n = 0
    <3>1. lists = << >>
      BY <2>1
    <3>. QED
      BY <1>4, <2>1, <3>1 DEF FlattenSeq
  <2>2. CASE n # 0
    <3>1. FlattenSeq(lists) = f[n]
      BY <2>2 DEF FlattenSeq, FlattenFunction
    <3>. QED
      BY <1>1, <2>2, <3>1
  <2>. QED
    BY <2>1, <2>2
<1>. HIDE DEF g
<1>6. Joins(g, lists)
  BY <1>3, <1>4 DEF Joins
<1>. QED
  BY <1>5, <1>6

In(x, l) == \E j \in DOMAIN l : l[j] = x

LEMMA InConcat ==
  ASSUME NEW S, NEW l \in Seq(S), NEW m \in Seq(S), NEW x
  PROVE  In(x, l \o m) <=> In(x, l) \/ In(x, m)
<1>1. ASSUME NEW j \in DOMAIN l, l[j] = x PROVE In(x, l \o m)
  <2>1. j \in DOMAIN (l \o m) /\ (l \o m)[j] = x
    BY <1>1
  <2>. QED
    BY <2>1 DEF In
<1>2. ASSUME NEW j \in DOMAIN m, m[j] = x PROVE In(x, l \o m)
  <2>1. Len(l) + j \in DOMAIN (l \o m) /\ (l \o m)[Len(l) + j] = x
    BY <1>2
  <2>. QED
    BY <2>1 DEF In
<1>3. ASSUME NEW j \in DOMAIN (l \o m), (l \o m)[j] = x PROVE In(x, l) \/ In(x, m)
  <2>1. CASE j <= Len(l)
    BY <1>3, <2>1 DEF In
  <2>2. CASE j > Len(l)
    <3>1. j - Len(l) \in DOMAIN m /\ m[j - Len(l)] = x
      BY <1>3, <2>2
    <3>. QED
      BY <3>1 DEF In
  <2>. QED
    BY <2>1, <2>2
<1>. QED
  BY <1>1, <1>2, <1>3 DEF In

LEMMA FlattenIs ==
  ASSUME NEW S, NEW lists \in Seq(Seq(S))
  PROVE  /\ FlattenSeq(lists) \in Seq(S)
         /\ \A x : In(x, FlattenSeq(lists)) <=> \E i \in DOMAIN lists : In(x, lists[i])
<1>. DEFINE n == Len(lists)
<1>1. n \in Nat /\ DOMAIN lists = 1..n
  OBVIOUS
<1>2. PICK g : Joins(g, lists) /\ FlattenSeq(lists) = g[n]
  BY FlattenJoins
<1>. DEFINE Q(k) == g[k] \in Seq(S) /\ \A x : In(x, g[k]) <=> \E i \in 1..k : In(x, lists[i])
            K == {k \in Nat : k <= n => Q(k)}
<1>3. Q(0)
  <2>1. g[0] = << >>
    BY <1>2 DEF Joins
  <2>. QED
    BY <2>1 DEF In
<1>4. ASSUME NEW k \in Nat, k < n, Q(k) PROVE Q(k + 1)
  <2>1. g[k + 1] = g[k] \o lists[k + 1] /\ lists[k + 1] \in Seq(S)
    <3>. HIDE DEF Q
    <3>1. g[k + 1] = g[k] \o lists[k + 1]
      BY <1>2, <1>4, Zenon DEF Joins
    <3>2. k + 1 \in 1..n
      BY <1>1, <1>4
    <3>. QED
      BY <3>1, <3>2, ElementOfSeq, Zenon
  <2>2. \A x : In(x, g[k + 1]) <=> In(x, g[k]) \/ In(x, lists[k + 1])
    BY <1>4, <2>1, InConcat
  <2>3. 1..(k + 1) = 1..k \cup {k + 1}
    OBVIOUS
  <2>4. g[k + 1] \in Seq(S)
    BY <1>4, <2>1
  <2>. QED
    BY <1>4, <2>2, <2>3, <2>4
<1>5. K = Nat
  <2>. HIDE DEF Q
  <2>1. 0 \in K
    BY <1>3
  <2>2. \A k \in K : k + 1 \in K
    <3>. HIDE DEF n
    <3>. QED
      BY <1>1, <1>4
  <2>. K \in SUBSET Nat
    OBVIOUS
  <2>. HIDE DEF K
  <2>. QED
    BY <2>1, <2>2, SetInduction
<1>6. Q(n)
  <2>. HIDE DEF Q, n
  <2>. QED
    BY <1>1, <1>5
<1>. HIDE DEF n
<1>. QED
  BY <1>1, <1>2, <1>6

LEMMA FlattenAppend ==
  ASSUME NEW S, NEW lists \in Seq(Seq(S)), NEW l \in Seq(S)
  PROVE  FlattenSeq(Append(lists, l)) = FlattenSeq(lists) \o l
<1>. DEFINE n == Len(lists)
            more == Append(lists, l)
<1>1. n \in Nat /\ more \in Seq(Seq(S)) /\ Len(more) = n + 1 /\ more[n + 1] = l
      /\ \A i \in 1..n : more[i] = lists[i]
  OBVIOUS
<1>2. PICK g : Joins(g, lists) /\ FlattenSeq(lists) = g[n]
  BY FlattenJoins
<1>. HIDE DEF more
<1>3. PICK h : Joins(h, more) /\ FlattenSeq(more) = h[n + 1]
  BY <1>1, FlattenJoins
<1>. DEFINE K == {k \in Nat : k <= n => g[k] = h[k]}
<1>4. 0 \in K
  BY <1>2, <1>3 DEF Joins
<1>5. ASSUME NEW k \in Nat, k < n, g[k] = h[k] PROVE g[k + 1] = h[k + 1]
  <2>1. g[k + 1] = g[k] \o lists[k + 1]
    BY <1>2, <1>5, Zenon DEF Joins
  <2>2. k < Len(more)
    BY <1>1, <1>5
  <2>3. h[k + 1] = h[k] \o more[k + 1]
    BY <1>3, <2>2, Zenon DEF Joins
  <2>4. more[k + 1] = lists[k + 1]
    <3>1. k + 1 \in 1..n
      BY <1>1, <1>5
    <3>. QED
      BY <1>1, <3>1, Zenon
  <2>. QED
    BY <1>5, <2>1, <2>3, <2>4, Zenon
<1>6. K = Nat
  <2>1. \A k \in K : k + 1 \in K
    <3>. HIDE DEF n
    <3>. QED
      BY <1>1, <1>5
  <2>. K \in SUBSET Nat
    OBVIOUS
  <2>. HIDE DEF K
  <2>. QED
    BY <1>4, <2>1, SetInduction
<1>7. h[n + 1] = h[n] \o more[n + 1]
  <2>1. n < Len(more)
    BY <1>1
  <2>. HIDE DEF n
  <2>. QED
    BY <1>1, <1>3, <2>1, Zenon DEF Joins
<1>8. g[n] = h[n]
  <2>. HIDE DEF n
  <2>. QED
    BY <1>1, <1>6
<1>. HIDE DEF n
<1>. QED
  BY <1>1, <1>2, <1>3, <1>7, <1>8, Zenon DEF more

-----------------------------------------------------------------------------
(* The table of a snapshot.                                                *)

\* The rows of a country are next to each other.
Grouped(seq) ==
  \A i, j, k \in DOMAIN seq :
    i <= j /\ j <= k /\ seq[i].country = seq[k].country => seq[j].country = seq[i].country

LEMMA GroupedConcat ==
  ASSUME NEW S, NEW l \in Seq(S), NEW m \in Seq(S), Grouped(l), NEW c,
         \A j \in DOMAIN m : m[j].country = c, \A j \in DOMAIN l : l[j].country # c
  PROVE  Grouped(l \o m)
<1>. DEFINE n == Len(l)
            lm == l \o m
<1>1. n \in Nat /\ DOMAIN l = 1..n
  OBVIOUS
<1>2. \A j \in DOMAIN lm : /\ j \in Nat
                           /\ j <= n => j \in DOMAIN l /\ lm[j] = l[j]
                           /\ ~(j <= n) => lm[j].country = c
  <2>1. ASSUME NEW j \in DOMAIN lm, ~(j <= n) PROVE lm[j].country = c
    <3>1. j - n \in DOMAIN m /\ lm[j] = m[j - n]
      BY <2>1
    <3>. QED
      BY <3>1
  <2>. QED
    BY <2>1
<1>. HIDE DEF lm, n
<1>3. ASSUME NEW i \in DOMAIN lm, NEW j \in DOMAIN lm, NEW k \in DOMAIN lm,
             i <= j, j <= k, lm[i].country = lm[k].country
      PROVE  lm[j].country = lm[i].country
  <2>1. CASE k <= n
    <3>1. i <= n /\ j <= n
      BY <1>1, <1>2, <1>3, <2>1
    <3>. QED
      BY <1>2, <1>3, <2>1, <3>1 DEF Grouped
  <2>2. CASE ~(k <= n)
    <3>1. lm[i].country = c /\ ~(i <= n)
      BY <1>2, <1>3, <2>2
    <3>2. ~(j <= n)
      BY <1>1, <1>2, <1>3, <3>1
    <3>. QED
      BY <1>2, <3>1, <3>2
  <2>. QED
    BY <2>1, <2>2
<1>4. Grouped(lm)
  BY <1>3 DEF Grouped
<1>. QED
  BY <1>4 DEF lm

\* Each list has the rows of one country, and each country one list.
ByCountry(lists, countries) ==
  /\ \A i \in DOMAIN lists : \A j \in DOMAIN lists[i] : lists[i][j].country = countries[i]
  /\ \A i, j \in DOMAIN lists : countries[i] = countries[j] => i = j

LEMMA GroupedFlatten ==
  ASSUME NEW S, NEW lists \in Seq(Seq(S)), NEW countries, ByCountry(lists, countries)
  PROVE  Grouped(FlattenSeq(lists))
<1>. DEFINE n == Len(lists)
<1>1. n \in Nat /\ DOMAIN lists = 1..n
  OBVIOUS
<1>2. PICK g : Joins(g, lists) /\ FlattenSeq(lists) = g[n]
  BY FlattenJoins
<1>. DEFINE Q(k) == /\ g[k] \in Seq(S) /\ Grouped(g[k])
                    /\ \A x : In(x, g[k]) => \E i \in 1..k : x.country = countries[i]
            K == {k \in Nat : k <= n => Q(k)}
<1>3. Q(0)
  <2>1. g[0] = << >>
    BY <1>2 DEF Joins
  <2>. QED
    BY <2>1 DEF In, Grouped
<1>4. ASSUME NEW k \in Nat, k < n, Q(k) PROVE Q(k + 1)
  <2>. DEFINE m == lists[k + 1]
  <2>1. g[k + 1] = g[k] \o m /\ m \in Seq(S) /\ k + 1 \in DOMAIN lists
    <3>. HIDE DEF Q
    <3>1. g[k + 1] = g[k] \o lists[k + 1]
      BY <1>2, <1>4, Zenon DEF Joins
    <3>2. k + 1 \in 1..n
      BY <1>1, <1>4
    <3>. QED
      BY <1>1, <3>1, <3>2, ElementOfSeq, Zenon
  <2>2. \A j \in DOMAIN m : m[j].country = countries[k + 1]
    BY <2>1 DEF ByCountry
  <2>3. \A j \in DOMAIN g[k] : g[k][j].country # countries[k + 1]
    <3>1. SUFFICES ASSUME NEW j \in DOMAIN g[k] PROVE g[k][j].country # countries[k + 1]
      OBVIOUS
    <3>2. PICK i \in 1..k : g[k][j].country = countries[i]
      BY <1>4 DEF In
    <3>3. i \in DOMAIN lists /\ i # k + 1
      BY <1>1, <1>4
    <3>. QED
      BY <2>1, <3>2, <3>3 DEF ByCountry
  <2>. HIDE DEF m
  <2>4. Grouped(g[k] \o m)
    BY <1>4, <2>1, <2>2, <2>3, GroupedConcat
  <2>5. ASSUME NEW x, In(x, g[k + 1]) PROVE \E i \in 1..(k + 1) : x.country = countries[i]
    <3>1. In(x, g[k]) \/ In(x, m)
      BY <1>4, <2>1, <2>5, InConcat
    <3>2. In(x, m) => x.country = countries[k + 1]
      BY <2>2 DEF In
    <3>3. 1..k \subseteq 1..(k + 1) /\ k + 1 \in 1..(k + 1)
      OBVIOUS
    <3>. QED
      BY <1>4, <3>1, <3>2, <3>3
  <2>6. g[k + 1] \in Seq(S)
    BY <1>4, <2>1
  <2>. QED
    BY <2>1, <2>4, <2>5, <2>6
<1>5. K = Nat
  <2>. HIDE DEF Q
  <2>1. 0 \in K
    BY <1>3
  <2>2. \A k \in K : k + 1 \in K
    <3>. HIDE DEF n
    <3>. QED
      BY <1>1, <1>4
  <2>. K \in SUBSET Nat
    OBVIOUS
  <2>. HIDE DEF K
  <2>. QED
    BY <2>1, <2>2, SetInduction
<1>6. Q(n)
  <2>. HIDE DEF Q, n
  <2>. QED
    BY <1>1, <1>5
<1>. HIDE DEF n
<1>. QED
  BY <1>2, <1>6

\* It has the rows in service that nothing covers, by country.
LEMMA StreamIs ==
  ASSUME NEW all, RowsOK(all)
  PROVE  /\ ExportStream(all) \in Seq(all) /\ Grouped(ExportStream(all))
         /\ \A r \in all : In(r, ExportStream(all)) <=> ~r.superseded /\ ~r.retired
<1>. DEFINE shown == {r \in all : ~r.superseded /\ ~r.retired}
            C == {Country[s] : s \in Sources}
            countries == SetToSeq(C)
            Part(c) == {r \in shown : r.country = c}
            lists == [i \in DOMAIN countries |-> SetToSeq(Part(countries[i]))]
<1>1. IsFiniteSet(C)
  <2>1. [s \in Sources |-> Country[s]] \in Surjection(Sources, C)
    BY DEF Surjection
  <2>. QED
    BY <2>1, FS_Surjection, JourneyAssumption
<1>2. /\ countries \in Seq(C)
      /\ \A c \in C : \E i \in DOMAIN countries : countries[i] = c
      /\ \A i, j \in DOMAIN countries : countries[i] = countries[j] => i = j
  <2>. HIDE DEF C
  <2>. QED
    BY <1>1, SetToSeqIs
<1>3. ExportStream(all) = FlattenSeq(lists)
  BY DEF ExportStream
<1>. HIDE DEF countries
<1>4. ASSUME NEW c
      PROVE  SetToSeq(Part(c)) \in Seq(all) /\ \A x : In(x, SetToSeq(Part(c))) <=> x \in Part(c)
  <2>1. Part(c) \subseteq all
    OBVIOUS
  <2>. HIDE DEF Part
  <2>2. IsFiniteSet(Part(c))
    BY <2>1, FS_Subset DEF RowsOK
  <2>3. SetToSeq(Part(c)) \in Seq(Part(c)) /\ \A x \in Part(c) : In(x, SetToSeq(Part(c)))
    BY <2>2, SetToSeqIs DEF In
  <2>4. SetToSeq(Part(c)) \in Seq(all)
    BY <2>1, <2>3, SeqMonotonic
  <2>5. ASSUME NEW x, In(x, SetToSeq(Part(c))) PROVE x \in Part(c)
    BY <2>3, <2>5 DEF In
  <2>. QED
    BY <2>3, <2>4, <2>5
<1>5. lists \in Seq(Seq(all)) /\ DOMAIN lists = DOMAIN countries
  <2>. HIDE DEF Part
  <2>1. \A i \in DOMAIN countries : lists[i] \in Seq(all)
    BY <1>4
  <2>2. DOMAIN countries = 1..Len(countries) /\ Len(countries) \in Nat
    BY <1>2
  <2>. QED
    BY <2>1, <2>2
<1>6. \A i \in DOMAIN lists : \A j \in DOMAIN lists[i] : lists[i][j].country = countries[i]
  BY <1>4, <1>5 DEF In
<1>7. \A i \in DOMAIN lists : \A x : In(x, lists[i]) <=> x \in Part(countries[i])
  BY <1>4, <1>5
<1>. HIDE DEF lists
<1>8. FlattenSeq(lists) \in Seq(all) /\ Grouped(FlattenSeq(lists))
  BY <1>2, <1>5, <1>6, FlattenIs, GroupedFlatten DEF ByCountry
<1>9. ASSUME NEW r \in all PROVE In(r, FlattenSeq(lists)) <=> ~r.superseded /\ ~r.retired
  <2>1. In(r, FlattenSeq(lists)) <=> \E i \in DOMAIN lists : r \in Part(countries[i])
    <3>1. In(r, FlattenSeq(lists)) <=> \E i \in DOMAIN lists : In(r, lists[i])
      BY <1>5, FlattenIs
    <3>. HIDE DEF Part
    <3>. QED
      BY <1>7, <3>1
  <2>2. r.country \in C
    BY DEF RowsOK, RowOK
  <2>3. PICK i \in DOMAIN lists : countries[i] = r.country
    BY <1>2, <1>5, <2>2
  <2>. QED
    BY <2>1, <2>3
<1>. QED
  BY <1>3, <1>8, <1>9

-----------------------------------------------------------------------------
(* The region files are the table.                                         *)

Contents(files) == FlattenSeq([f \in DOMAIN files |-> files[f].rows])

Buckets(S) == {Bucket(r.country) : r \in S}
File(S) == [key : Buckets(S) \X Nat, rows : Seq(S)]

\* The files so far have up to a chunk of rows of one country, and the open
\* chunk is of the current one, whose numbers are up to seq.
FilesOK(files, S) ==
  /\ files \in Seq(File(S))
  /\ \A f \in DOMAIN files : /\ Len(files[f].rows) \in 1..ChunkRows
                             /\ \A j \in DOMAIN files[f].rows :
                                  Bucket(files[f].rows[j].country) = files[f].key[1]
  /\ \A f, g \in DOMAIN files : files[f].key = files[g].key => f = g
StreamOK(v, S) ==
  /\ DOMAIN v = {"country", "seq", "open", "files"}
  /\ v.seq \in Nat /\ v.open \in Seq(S) /\ Len(v.open) <= ChunkRows
  /\ FilesOK(v.files, S)
  /\ \A j \in DOMAIN v.open : Bucket(v.open[j].country) = v.country
  /\ \A f \in DOMAIN v.files : v.files[f].key[1] = v.country => v.files[f].key[2] <= v.seq

\* The countries of the files, and with those of the open chunk.
Begun(files) == {files[f].key[1] : f \in DOMAIN files}
Behind(v) == Begun(v.files) \cup {Bucket(v.open[j].country) : j \in DOMAIN v.open}

LEMMA FileIs ==
  ASSUME NEW S, NEW files \in Seq(File(S)), NEW f \in DOMAIN files
  PROVE  /\ files[f].rows \in Seq(S)
         /\ files[f].key \in Buckets(S) \X Nat
         /\ files[f].key[1] \in Buckets(S) /\ files[f].key[2] \in Nat
<1>1. files[f] \in File(S)
  OBVIOUS
<1>. QED
  BY <1>1 DEF File

LEMMA FileLists ==
  ASSUME NEW S, NEW files \in Seq(File(S))
  PROVE  [f \in DOMAIN files |-> files[f].rows] \in Seq(Seq(S))
<1>1. DOMAIN files = 1..Len(files) /\ Len(files) \in Nat
  OBVIOUS
<1>. QED
  BY <1>1, FileIs

LEMMA ContentsAppend ==
  ASSUME NEW S, NEW files \in Seq(File(S)), NEW file \in File(S)
  PROVE  Contents(Append(files, file)) = Contents(files) \o file.rows
<1>. DEFINE lists == [f \in DOMAIN files |-> files[f].rows]
            more == [f \in DOMAIN Append(files, file) |-> Append(files, file)[f].rows]
<1>1. lists \in Seq(Seq(S)) /\ file.rows \in Seq(S)
  BY FileLists DEF File
<1>2. more = Append(lists, file.rows)
  <2>1. Append(files, file) \in Seq(File(S)) /\ Len(Append(files, file)) = Len(files) + 1
    OBVIOUS
  <2>2. more \in Seq(Seq(S)) /\ Len(more) = Len(files) + 1
    <3>1. more \in Seq(Seq(S)) /\ DOMAIN more = DOMAIN Append(files, file)
      BY <2>1, FileLists
    <3>. HIDE DEF more
    <3>. QED
      BY <2>1, <3>1
  <2>3. Append(lists, file.rows) \in Seq(Seq(S)) /\ Len(Append(lists, file.rows)) = Len(files) + 1
    <3>1. Len(lists) = Len(files)
      <4>1. DOMAIN lists = DOMAIN files
        OBVIOUS
      <4>. HIDE DEF lists
      <4>. QED
        BY <1>1, <4>1
    <3>. HIDE DEF lists
    <3>. QED
      BY <1>1, <3>1
  <2>4. ASSUME NEW f \in 1..(Len(files) + 1) PROVE more[f] = Append(lists, file.rows)[f]
    <3>1. CASE f = Len(files) + 1
      BY <3>1
    <3>2. CASE f # Len(files) + 1
      <4>1. f \in 1..Len(files)
        BY <3>2
      <4>. QED
        BY <4>1
    <3>. QED
      BY <3>1, <3>2
  <2>. HIDE DEF lists, more
  <2>. QED
    BY <2>2, <2>3, <2>4, SeqEqual
<1>. QED
  BY <1>1, <1>2, FlattenAppend DEF Contents

LEMMA ContentsType ==
  ASSUME NEW S, NEW files \in Seq(File(S))
  PROVE  Contents(files) \in Seq(S)
BY FileLists, FlattenIs DEF Contents

LEMMA FlushOK ==
  ASSUME NEW S, NEW v, StreamOK(v, S)
  PROVE  /\ StreamOK(Flush(v), S)
         /\ Flush(v).open = << >> /\ Flush(v).country = v.country
         /\ Contents(Flush(v).files) = Contents(v.files) \o v.open
         /\ Contents(Flush(v).files) \in Seq(S) /\ Behind(Flush(v)) \subseteq Behind(v)
<1>1. CASE v.open = << >>
  <2>1. Flush(v) = v
    BY <1>1 DEF Flush
  <2>2. Contents(v.files) \in Seq(S)
    BY ContentsType DEF StreamOK, FilesOK
  <2>. QED
    BY <1>1, <2>1, <2>2, ConcatEmptySeq
<1>2. CASE v.open # << >>
  <2>. DEFINE file == [key |-> <<v.country, v.seq + 1>>, rows |-> v.open]
              w == Flush(v)
  <2>1. /\ DOMAIN w = {"country", "seq", "open", "files"}
        /\ w.country = v.country /\ w.seq = v.seq + 1 /\ w.open = << >>
        /\ w.files = Append(v.files, file)
    BY <1>2 DEF Flush, RegionKey, StreamOK
  <2>2. 1 \in DOMAIN v.open /\ v.country = Bucket(v.open[1].country) /\ v.open[1] \in S
    BY <1>2 DEF StreamOK
  <2>3. file \in File(S) /\ v.seq \in Nat
    BY <2>2 DEF File, Buckets, StreamOK
  <2>4. /\ file.rows = v.open /\ file.key = <<v.country, v.seq + 1>>
        /\ file.key[1] = v.country /\ file.key[2] = v.seq + 1
    OBVIOUS
  <2>. DEFINE n == Len(v.files)
  <2>5. /\ n \in Nat /\ v.files \in Seq(File(S)) /\ DOMAIN v.files = 1..n
        /\ w.files \in Seq(File(S)) /\ DOMAIN w.files = 1..(n + 1)
        /\ w.files[n + 1] = file /\ \A f \in 1..n : w.files[f] = v.files[f]
    <3>. HIDE DEF file, w
    <3>. QED
      BY <2>1, <2>3 DEF StreamOK, FilesOK
  <2>. HIDE DEF file, w, n
  <2>6. \A f \in 1..(n + 1) : f = n + 1 \/ f \in 1..n
    BY <2>5
  <2>7. \A f \in 1..n : v.files[f].key # file.key
    <3>1. SUFFICES ASSUME NEW f \in 1..n, v.files[f].key = file.key PROVE FALSE
      OBVIOUS
    <3>2. v.files[f].key[1] = v.country /\ v.files[f].key[2] = v.seq + 1
      BY <2>4, <3>1
    <3>3. v.files[f].key[2] <= v.seq
      BY <2>5, <3>2 DEF StreamOK
    <3>. QED
      BY <2>3, <3>2, <3>3
  <2>8. FilesOK(w.files, S)
    <3>1. ASSUME NEW f \in DOMAIN w.files
          PROVE  /\ Len(w.files[f].rows) \in 1..ChunkRows
                 /\ \A j \in DOMAIN w.files[f].rows :
                      Bucket(w.files[f].rows[j].country) = w.files[f].key[1]
      <4>1. CASE f = n + 1
        <5>1. Len(v.open) \in 1..ChunkRows
          BY <1>2, JourneyAssumption DEF StreamOK
        <5>2. \A j \in DOMAIN v.open : Bucket(v.open[j].country) = v.country
          BY DEF StreamOK
        <5>. QED
          BY <2>4, <2>5, <4>1, <5>1, <5>2
      <4>2. CASE f \in 1..n
        <5>1. f \in DOMAIN v.files /\ w.files[f] = v.files[f]
          BY <2>5, <4>2
        <5>. QED
          BY <5>1 DEF StreamOK, FilesOK
      <4>. QED
        BY <2>5, <2>6, <4>1, <4>2
    <3>2. ASSUME NEW f \in DOMAIN w.files, NEW g \in DOMAIN w.files, w.files[f].key = w.files[g].key
          PROVE  f = g
      <4>1. CASE f \in 1..n /\ g \in 1..n
        <5>1. f \in DOMAIN v.files /\ g \in DOMAIN v.files /\ v.files[f].key = v.files[g].key
          BY <2>5, <3>2, <4>1
        <5>. QED
          BY <5>1 DEF StreamOK, FilesOK
      <4>2. CASE f = n + 1 \/ g = n + 1
        BY <2>5, <2>6, <2>7, <3>2, <4>2
      <4>. QED
        BY <2>5, <2>6, <4>1, <4>2
    <3>. QED
      BY <2>5, <3>1, <3>2 DEF FilesOK
  <2>9. \A f \in DOMAIN w.files : w.files[f].key[1] = w.country => w.files[f].key[2] <= w.seq
    <3>1. SUFFICES ASSUME NEW f \in DOMAIN w.files, w.files[f].key[1] = w.country
                   PROVE  w.files[f].key[2] <= w.seq
      OBVIOUS
    <3>2. CASE f = n + 1
      BY <2>1, <2>3, <2>4, <2>5, <3>2
    <3>3. CASE f \in 1..n
      <4>1. v.files[f].key[2] \in Nat /\ v.files[f].key[2] <= v.seq
        BY <2>1, <2>5, <3>1, <3>3, FileIs DEF StreamOK
      <4>. QED
        BY <2>1, <2>3, <2>5, <3>3, <4>1
    <3>. QED
      BY <2>5, <2>6, <3>1, <3>2, <3>3
  <2>10. StreamOK(w, S)
    <3>1. w.seq \in Nat /\ w.open \in Seq(S) /\ Len(w.open) <= ChunkRows /\ DOMAIN w.open = {}
      BY <2>1, <2>3, JourneyAssumption
    <3>. QED
      BY <2>1, <2>8, <2>9, <3>1 DEF StreamOK
  <2>11. Contents(w.files) = Contents(v.files) \o v.open
    <3>1. Contents(Append(v.files, file)) = Contents(v.files) \o file.rows
      BY <2>3, <2>5, ContentsAppend
    <3>. QED
      BY <2>1, <2>4, <3>1, Zenon
  <2>12. Behind(w) \subseteq Behind(v)
    <3>1. SUFFICES ASSUME NEW f \in DOMAIN w.files PROVE w.files[f].key[1] \in Behind(v)
      BY <2>1 DEF Behind, Begun
    <3>2. CASE f = n + 1
      BY <2>2, <2>4, <2>5, <3>2 DEF Behind
    <3>3. CASE f \in 1..n
      BY <2>5, <3>3 DEF Behind, Begun
    <3>. QED
      BY <2>5, <2>6, <3>2, <3>3
  <2>13. Contents(w.files) \in Seq(S)
    BY <2>5, ContentsType
  <2>. QED
    BY <2>1, <2>10, <2>11, <2>12, <2>13 DEF w
<1>. QED
  BY <1>1, <1>2

\* A row is taken into the open chunk, after a flush when its country is
\* another and before one when the chunk is full.
Taken(v, row, w, S) ==
  /\ StreamOK(w, S) /\ Len(w.open) < ChunkRows /\ w.country = Bucket(row.country)
  /\ Contents(w.files) \o w.open = (Contents(v.files) \o v.open) \o <<row>>
  /\ Behind(w) \subseteq Behind(v) \cup {Bucket(row.country)}

LEMMA TakeOK ==
  ASSUME NEW S, NEW v, StreamOK(v, S), Len(v.open) < ChunkRows, NEW row \in S,
         Bucket(row.country) # v.country => Bucket(row.country) \notin Behind(v)
  PROVE  Taken(v, row, Take(v, row), S)
<1>. DEFINE c == Bucket(row.country)
            u == Flush(v)
            moved == IF c = v.country THEN v ELSE [u EXCEPT !.country = c, !.seq = 0]
            grown == [moved EXCEPT !.open = Append(@, row)]
            w == Take(v, row)
<1>1. w = IF Len(grown.open) >= ChunkRows THEN Flush(grown) ELSE grown
  BY DEF Take
<1>. HIDE DEF c, w
<1>2. /\ StreamOK(moved, S) /\ Len(moved.open) < ChunkRows /\ moved.country = c
      /\ Contents(moved.files) \o moved.open = Contents(v.files) \o v.open
      /\ Behind(moved) \subseteq Behind(v)
  <2>1. CASE c = v.country
    BY <2>1
  <2>2. CASE c # v.country
    <3>1. /\ StreamOK(u, S) /\ u.open = << >> /\ Behind(u) \subseteq Behind(v)
          /\ Contents(u.files) = Contents(v.files) \o v.open /\ Contents(u.files) \in Seq(S)
      BY FlushOK
    <3>. HIDE DEF u
    <3>2. /\ DOMAIN moved = {"country", "seq", "open", "files"} /\ moved.country = c /\ moved.seq = 0
          /\ moved.open = << >> /\ moved.files = u.files
      BY <2>2, <3>1 DEF StreamOK
    <3>. HIDE DEF moved
    <3>3. \A f \in DOMAIN u.files : u.files[f].key[1] # c
      BY <2>2, <3>1 DEF Behind, Begun, c
    <3>4. StreamOK(moved, S) /\ Len(moved.open) < ChunkRows
      BY <3>1, <3>2, <3>3, JourneyAssumption DEF StreamOK
    <3>5. Contents(moved.files) \o moved.open = Contents(v.files) \o v.open
      BY <3>1, <3>2, ConcatEmptySeq
    <3>. QED
      BY <3>1, <3>2, <3>4, <3>5 DEF Behind
  <2>. QED
    BY <2>1, <2>2
<1>. HIDE DEF moved
<1>3. /\ DOMAIN grown = {"country", "seq", "open", "files"} /\ grown.country = c /\ grown.seq = moved.seq
      /\ grown.open = Append(moved.open, row) /\ grown.files = moved.files
  BY <1>2 DEF StreamOK
<1>. HIDE DEF grown
<1>4. moved.open \in Seq(S) /\ Contents(moved.files) \in Seq(S) /\ grown.open = moved.open \o <<row>>
  <2>1. moved.open \in Seq(S) /\ Contents(moved.files) \in Seq(S)
    BY <1>2, ContentsType DEF StreamOK, FilesOK
  <2>. QED
    BY <1>3, <2>1, AppendIsConcat
<1>5. \A j \in DOMAIN grown.open : \/ j \in DOMAIN moved.open /\ grown.open[j] = moved.open[j]
                                   \/ grown.open[j] = row
  BY <1>3, <1>4
<1>6. StreamOK(grown, S)
  <2>1. grown.open \in Seq(S) /\ Len(grown.open) <= ChunkRows
    BY <1>2, <1>3, <1>4, JourneyAssumption
  <2>2. \A j \in DOMAIN grown.open : Bucket(grown.open[j].country) = c
    BY <1>2, <1>5 DEF StreamOK, c
  <2>. QED
    BY <1>2, <1>3, <2>1, <2>2 DEF StreamOK
<1>7. Contents(grown.files) \o grown.open = (Contents(v.files) \o v.open) \o <<row>>
  <2>1. <<row>> \in Seq(S)
    OBVIOUS
  <2>2. Contents(moved.files) \o (moved.open \o <<row>>) = (Contents(moved.files) \o moved.open) \o <<row>>
    <3>1. ASSUME NEW a \in Seq(S), NEW b \in Seq(S), NEW d \in Seq(S)
          PROVE  a \o (b \o d) = (a \o b) \o d
      BY ConcatAssociative
    <3>. QED
      BY <1>4, <2>1, <3>1
  <2>. QED
    BY <1>2, <1>3, <1>4, <2>2, Zenon
<1>8. Behind(grown) \subseteq Behind(v) \cup {c}
  BY <1>2, <1>3, <1>5 DEF Behind, c
<1>9. CASE Len(grown.open) >= ChunkRows
  <2>1. w = Flush(grown)
    BY <1>1, <1>9
  <2>2. /\ StreamOK(w, S) /\ w.open = << >> /\ w.country = c /\ Behind(w) \subseteq Behind(grown)
        /\ Contents(w.files) = Contents(grown.files) \o grown.open /\ Contents(w.files) \in Seq(S)
    BY <1>3, <1>6, <2>1, FlushOK
  <2>3. Contents(w.files) \o w.open = Contents(w.files) /\ Len(w.open) < ChunkRows
    BY <2>2, ConcatEmptySeq, JourneyAssumption
  <2>4. Behind(w) \subseteq Behind(v) \cup {c}
    BY <1>8, <2>2
  <2>. QED
    BY <1>7, <2>2, <2>3, <2>4, Zenon DEF Taken, w, c
<1>10. CASE ~(Len(grown.open) >= ChunkRows)
  <2>1. w = grown
    BY <1>1, <1>10
  <2>2. Len(w.open) < ChunkRows
    BY <1>6, <1>10, <2>1, JourneyAssumption DEF StreamOK
  <2>. QED
    BY <1>3, <1>6, <1>7, <1>8, <2>1, <2>2 DEF Taken, w, c
<1>. QED
  BY <1>9, <1>10

\* The stream after k rows of the table.
StreamAt(v, S, table, k) ==
  /\ StreamOK(v, S) /\ Len(v.open) < ChunkRows
  /\ Contents(v.files) \o v.open = SubSeq(table, 1, k)
  /\ Behind(v) \subseteq {Bucket(table[j].country) : j \in 1..k}
  /\ k # 0 => v.country = Bucket(table[k].country)

NoStream == [country |-> None, seq |-> 0, open |-> << >>, files |-> << >>]

LEMMA ChunksOK ==
  ASSUME NEW S, NEW table \in Seq(S), Grouped(table), \A r \in S : r.country # "XX"
  PROVE  StreamAt(Chunks(NoStream, table), S, table, Len(table))
<1>. DEFINE n == Len(table)
            a == [fold |-> "regions"]
<1>1. n \in Nat /\ DOMAIN table = 1..n
  OBVIOUS
<1>2. PICK f : Folding(f, a, NoStream, table, n) /\ Chunks(NoStream, table) = f[1..n]
  BY <1>1, ChunksFold
<1>3. \A x, y : Step(a, x, y) = Take(x, y)
  BY DEF Step
<1>. HIDE DEF a
<1>4. StreamAt(NoStream, S, table, 0)
  <2>1. Contents(<< >>) = << >>
    BY DEF Contents, FlattenSeq
  <2>2. << >> \in Seq(File(S)) /\ << >> \in Seq(S)
    BY EmptySeq
  <2>3. StreamOK(NoStream, S) /\ Len(NoStream.open) < ChunkRows
    BY <2>2, JourneyAssumption DEF NoStream, StreamOK, FilesOK
  <2>4. SubSeq(table, 1, 0) = << >> /\ << >> \o << >> = << >>
    BY SubSeqEmpty, ConcatEmptySeq, <2>2
  <2>5. Behind(NoStream) = {}
    BY DEF Behind, Begun, NoStream
  <2>. QED
    BY <2>1, <2>3, <2>4, <2>5 DEF StreamAt, NoStream
<1>5. ASSUME NEW k \in Nat, k < n, StreamAt(f[1..k], S, table, k) PROVE StreamAt(f[1..(k + 1)], S, table, k + 1)
  <2>. DEFINE v == f[1..k]
              w == f[1..(k + 1)]
              row == table[k + 1]
  <2>1. k + 1 \in 1..n /\ row \in S
    BY <1>1, <1>5
  <2>2. w = Take(v, row)
    BY <1>1, <1>2, <1>3, <1>5, FoldingSteps
  <2>3. Bucket(row.country) # v.country => Bucket(row.country) \notin Behind(v)
    <3>1. SUFFICES ASSUME Bucket(row.country) \in Behind(v) PROVE Bucket(row.country) = v.country
      OBVIOUS
    <3>2. PICK i \in 1..k : Bucket(table[i].country) = Bucket(row.country)
      BY <1>5, <3>1 DEF StreamAt
    <3>3. i \in 1..n /\ k \in 1..n /\ i <= k /\ k <= k + 1 /\ k # 0
      BY <1>1, <2>1, <3>2
    <3>4. table[i].country = row.country
      <4>1. table[i].country # "XX" /\ row.country # "XX"
        BY <2>1, <3>3
      <4>. QED
        BY <3>2, <4>1 DEF Bucket
    <3>5. table[k].country = row.country
      BY <1>1, <2>1, <3>3, <3>4 DEF Grouped
    <3>. QED
      BY <1>5, <3>3, <3>5 DEF StreamAt
  <2>. HIDE DEF v, w
  <2>4. Taken(v, row, w, S)
    <3>1. StreamOK(v, S) /\ Len(v.open) < ChunkRows
      BY <1>5 DEF StreamAt, v
    <3>. HIDE DEF row
    <3>. QED
      BY <2>1, <2>2, <2>3, <3>1, TakeOK
  <2>5. Contents(w.files) \o w.open = SubSeq(table, 1, k + 1)
    <3>1. 1 \in 1..Len(table) /\ k + 1 \in 1..Len(table)
      BY <2>1
    <3>2. SubSeq(table, 1, k + 1) = SubSeq(table, 1, (k + 1) - 1) \o <<table[k + 1]>>
      BY <3>1, SubSeqRecursiveSecond
    <3>3. (k + 1) - 1 = k
      OBVIOUS
    <3>. QED
      BY <1>5, <2>4, <3>2, <3>3 DEF StreamAt, Taken, v
  <2>6. Behind(w) \subseteq {Bucket(table[j].country) : j \in 1..(k + 1)}
    <3>1. 1..k \subseteq 1..(k + 1) /\ k + 1 \in 1..(k + 1)
      OBVIOUS
    <3>. QED
      BY <1>5, <2>4, <3>1 DEF StreamAt, Taken, v
  <2>. QED
    BY <2>4, <2>5, <2>6 DEF StreamAt, Taken, w
<1>. DEFINE K == {k \in Nat : k <= n => StreamAt(f[1..k], S, table, k)}
<1>6. K = Nat
  <2>1. 0 \in K
    BY <1>1, <1>2, <1>4, FoldingSteps
  <2>2. \A k \in K : k + 1 \in K
    <3>. HIDE DEF n
    <3>. QED
      BY <1>1, <1>5
  <2>. K \in SUBSET Nat
    OBVIOUS
  <2>. HIDE DEF K
  <2>. QED
    BY <2>1, <2>2, SetInduction
<1>7. StreamAt(f[1..n], S, table, n)
  <2>. HIDE DEF n
  <2>. QED
    BY <1>1, <1>6
<1>. QED
  BY <1>2, <1>7

LEMMA InvDumpWhole == JourneyInv => DumpWhole
<1>. SUFFICES ASSUME JourneyInv PROVE DumpWhole
  OBVIOUS
<1>. DEFINE S == rows
            table == ExportStream(rows)
            v == Chunks(NoStream, table)
            files == Regions(table)
<1>1. RowsOK(S)
  BY DEF JourneyInv
<1>2. table \in Seq(S) /\ Grouped(table)
  BY <1>1, StreamIs
<1>3. \A r \in S : r.country # "XX"
  BY <1>1, JourneyAssumption DEF RowsOK, RowOK
<1>4. files = Flush(v).files
  BY DEF Regions, Chunks, NoStream
<1>. HIDE DEF S, table, files
<1>5. StreamAt(v, S, table, Len(table))
  BY <1>2, <1>3, ChunksOK
<1>. HIDE DEF v
<1>6. /\ StreamOK(Flush(v), S)
      /\ Contents(files) = Contents(v.files) \o v.open
  BY <1>4, <1>5, FlushOK DEF StreamAt
<1>7. Contents(files) = table
  BY <1>2, <1>5, <1>6, SubSeqFull DEF StreamAt
<1>8. FilesOK(files, S)
  BY <1>4, <1>6 DEF StreamOK
<1>9. ASSUME NEW f \in DOMAIN files
      PROVE  /\ Len(files[f].rows) \in 1..ChunkRows
             /\ \A r \in ToSet(files[f].rows) : r.country = Head(files[f].rows).country
  <2>1. files[f].rows \in Seq(S) /\ Len(files[f].rows) \in 1..ChunkRows
    BY <1>8, FileIs DEF FilesOK
  <2>. DEFINE l == files[f].rows
  <2>2. \A j \in DOMAIN l : Bucket(l[j].country) = files[f].key[1] /\ l[j].country # "XX"
    BY <1>3, <1>8, <2>1 DEF FilesOK
  <2>. HIDE DEF l
  <2>3. Head(l) = l[1] /\ 1 \in DOMAIN l
    BY <2>1 DEF l
  <2>4. \A j \in DOMAIN l : l[j].country = Head(l).country
    BY <2>2, <2>3 DEF Bucket
  <2>. QED
    BY <2>1, <2>4 DEF ToSet, l
<1>10. \A f, g \in DOMAIN files : files[f].key = files[g].key => f = g
  BY <1>8 DEF FilesOK
<1>. QED
  BY <1>7, <1>9, <1>10, JourneyTypes DEF DumpWhole, Contents, files, table

\* The region files hold the table's rows in their order, each in a file of its
\* country, of at most a chunk, and no two files have one key
\* (export/snapshot.go, writeRegions).
THEOREM DumpWholeHolds == Spec => []DumpWhole
<1>1. Spec => []JourneyInv
  BY JourneyInit, JourneyNext, PTL DEF Spec
<1>. QED
  BY <1>1, InvDumpWhole, PTL


-----------------------------------------------------------------------------
(* No charger turns free unless its publisher said so.                     *)

FaithfulReaders == \A f \in FormNames : TellsFree(f)

LEMMA WordTold ==
  ASSUME NEW all, NEW base, NEW s, NEW conns, Told(all, base, s, conns),
         NEW new, \A x \in new : \E r \in all : SameWord(r, x)
  PROVE  Told(new, base, s, conns)
BY DEF Told, SaidBefore, SaidBy, SameWord

\* A step in which the rows say only what they said, or what a source says now.
LEMMA ToldStep ==
  ASSUME JourneyInv, FaithfulReaders, NEW s \in Enabled, NEW failing \in BOOLEAN, NEW statuses \in BOOLEAN,
         ~Fetched[form[s], world[s], failing, statuses].failed,
         Told(rows', rows, s, Fetched[form[s], world[s], failing, statuses].connectors),
         NEW n \in rows', n.status = "AVAILABLE", \A r \in rows : r.id = n.id => r.status # "AVAILABLE"
  PROVE  SaidFree(n.cpo, n.evse)
<1>. DEFINE got == Fetched[form[s], world[s], failing, statuses]
<1>1. n.cpo = s /\ \E c \in ToSet(got.connectors) : n.evse = c.evse /\ n.status = c.status
  BY DEF Told, SaidBefore, SaidBy
<1>2. PICK c \in ToSet(got.connectors) : n.evse = c.evse /\ n.status = c.status
  BY <1>1
<1>3. form[s] \in FormNames /\ world[s] \in AllWorlds
  BY FetchedOK
<1>4. \E p \in Listed[form[s], world[s]] :
        p.id = c.evse /\ p.status = "AVAILABLE" /\ (form[s] \in Dated => p.age <= 36)
  <2>1. ~got.failed /\ c.status = "AVAILABLE"
    BY <1>2
  <2>2. TellsFree(form[s])
    BY <1>3 DEF FaithfulReaders
  <2>3. ~got.failed => \A x \in ToSet(got.connectors) : x.status = "AVAILABLE" =>
          \E p \in Listed[form[s], world[s]] :
            p.id = x.evse /\ p.status = "AVAILABLE" /\ (form[s] \in Dated => p.age <= 36)
    BY <1>3, <2>2 DEF TellsFree
  <2>. HIDE DEF got
  <2>. QED
    BY <2>1, <2>3
<1>. QED
  BY <1>1, <1>2, <1>4 DEF SaidFree, PointsNow

QuietStep ==
  \A n \in rows' \ rows :
    n.status = "AVAILABLE" /\ (\A r \in rows : r.id = n.id => r.status # "AVAILABLE") => SaidFree(n.cpo, n.evse)

LEMMA NextQuiet == JourneyInv /\ FaithfulReaders /\ [Next]_vars => QuietStep
<1>. SUFFICES ASSUME JourneyInv, FaithfulReaders, [Next]_vars,
                     NEW n \in rows' \ rows, n.status = "AVAILABLE",
                     \A r \in rows : r.id = n.id => r.status # "AVAILABLE"
              PROVE  SaidFree(n.cpo, n.evse)
  BY DEF QuietStep
<1>1. ASSUME NEW s \in Enabled, NEW w \in Worlds[s], Edit(s, w) PROVE FALSE
  BY <1>1 DEF Edit
<1>2. ASSUME NEW s \in Enabled, NEW failing \in BOOLEAN, NEW fx \in BOOLEAN, RunPrices(s, failing, fx)
      PROVE  SaidFree(n.cpo, n.evse)
  <2>. DEFINE got == Fetched[form[s], world[s], failing, FALSE]
              closes == form[s] \in CompleteLists /\ DOMAIN got.tariffs # {}
              P == Prices(s, got, closes, fx, rows, got.connectors)
  <2>1. s \in Sources /\ ~got.failed /\ got.connectors \in Seq(ToSet(got.connectors))
        /\ \A id \in DOMAIN got.tariffs : Whole(got.tariffs[id])
    BY <1>2, FetchedOK DEF RunPrices, TakePrices
  <2>2. rows' = ReconcileRetired(s, got.connectors, P)
    BY <1>2 DEF RunPrices, TakePrices, Prices, FoldLeft, MapThenFoldSet
  <2>3. RowsOK(P) /\ Told(P, rows, s, got.connectors)
    <3>. HIDE DEF got, closes
    <3>. QED
      BY <2>1, PricesRows DEF JourneyInv
  <2>4. Told(rows', rows, s, got.connectors)
    <3>. HIDE DEF got, P
    <3>. QED
      BY <2>1, <2>2, <2>3, RetiredRows, WordTold
  <2>. QED
    BY <2>1, <2>4, ToldStep
<1>3. ASSUME NEW s \in Enabled, NEW failing \in BOOLEAN, RunAvailability(s, failing)
      PROVE  SaidFree(n.cpo, n.evse)
  <2>. DEFINE got == Fetched[form[s], world[s], failing, TRUE]
  <2>1. s \in Sources /\ ~got.failed /\ got.connectors \in Seq(ToSet(got.connectors))
    BY <1>3, FetchedOK DEF RunAvailability, TakeStatuses
  <2>2. rows' = Statuses(s, rows, got.connectors)
    BY <1>3 DEF RunAvailability, TakeStatuses, Statuses, FoldLeft, MapThenFoldSet
  <2>3. Told(rows', rows, s, got.connectors)
    <3>. HIDE DEF got
    <3>. QED
      BY <2>1, <2>2, StatusesRows DEF JourneyInv
  <2>. QED
    BY <2>1, <2>3, ToldStep
<1>4. ASSUME ClearSuperseded \/ MarkSuperseded PROVE FALSE
  <2>1. RowsOK(rows) /\ Reflagged(rows, rows')
    BY <1>4, FlagsChange DEF JourneyInv
  <2>2. PICK r \in rows : SameWord(r, n)
    BY <2>1, SupersededRows
  <2>. QED
    BY <2>2 DEF SameWord
<1>5. ASSUME Restart \/ UNCHANGED vars PROVE FALSE
  BY <1>5 DEF Restart, vars
<1>. QED
  BY <1>1, <1>2, <1>3, <1>4, <1>5 DEF Next

\* With readers that tell what the publishers say, nothing on the way to the
\* rows (remembered signatures, retirement and return, snapshots, restarts)
\* turns a charger free (ingest.go, RunAvailability and RunFull).
THEOREM NeverFalselyFreeHolds ==
  ASSUME FaithfulReaders
  PROVE  Spec => NeverFalselyFree
<1>1. Spec => []JourneyInv
  BY JourneyInit, JourneyNext, PTL DEF Spec
<1>2. JourneyInv /\ [Next]_vars => [QuietStep]_vars
  BY NextQuiet
<1>3. Spec => [][QuietStep]_vars
  BY <1>1, <1>2, PTL DEF Spec
<1>. QED
  BY <1>3 DEF NeverFalselyFree, QuietStep

-----------------------------------------------------------------------------
(* What a pass leaves of a charger's price.                                *)

\* A row of a source's charger k has the content h, unless that is none.
Stands(all, s, k, h) ==
  \E r \in all : r.cpo = s /\ Key(r) = k /\ (h # Hash(NoTariff) => Hash(r.tariff) = h)

\* x is r as far as its price goes.
Alike(r, x) ==
  /\ x.id = r.id /\ SameCharger(r, x)
  /\ x.tariff = r.tariff /\ x.headline = r.headline /\ x.prices = r.prices /\ x.versions = r.versions
Blank(x) == x.tariff = NoTariff /\ x.headline = Unset

\* d is u with the price of a connector read with tariff t: left or closed,
\* filled, opened.
Figured(d, t, c, fx) ==
  d.headline = EuroPrices(t, c, fx).headline /\ d.prices = EuroPrices(t, c, fx).prices
Left(u, d, t) == t = NoTariff /\ Alike(u, d)
Closed(u, d, t) == t = NoTariff /\ Blank(d) /\ d.versions = u.versions
Filled(u, d, t, c, fx) ==
  /\ t # NoTariff /\ Hash(u.tariff) = Hash(t) /\ d.tariff = u.tariff /\ d.versions = u.versions
  /\ \/ d.headline = u.headline /\ d.prices = u.prices
     \/ Figured(d, t, c, fx)
Opened(u, d, t, c, fx) == t # NoTariff /\ Hash(u.tariff) # Hash(t) /\ d.tariff = t /\ Figured(d, t, c, fx)
Writes(u, d, t, c, fx) ==
  /\ d.id = u.id /\ SameCharger(u, d)
  /\ Left(u, d, t) \/ Closed(u, d, t) \/ Filled(u, d, t, c, fx) \/ Opened(u, d, t, c, fx)

\* u is what the upsert makes of the connector's row in all.
Upserted(all, s, c, u) ==
  /\ u.cpo = s /\ Key(u) = Key(c)
  /\ \/ \E r \in all : Matching(all, s, c) = {r} /\ Alike(r, u)
     \/ Matching(all, s, c) = {} /\ Blank(u)
Replaced(all, new, s, c, t, fx, u, d) ==
  Upserted(all, s, c, u) /\ Writes(u, d, t, c, fx) /\ new = (all \ Matching(all, s, c)) \cup {d}

LEMMA UpsertIs ==
  ASSUME NEW all, RowsOK(all), NEW s \in Sources, NEW c
  PROVE  \E u : /\ Upserted(all, s, c, u) /\ u.power = c.power /\ u.current = c.current
                /\ UpsertConnector(all, s, c) = (all \ Matching(all, s, c)) \cup {u}
                /\ Matching(UpsertConnector(all, s, c), s, c) = {u}
<1>. DEFINE old == Matching(all, s, c)
            kept == IF old # {} THEN CHOOSE r \in old : TRUE
                    ELSE [id |-> Cardinality(all) + 1, tariff |-> NoTariff, headline |-> Unset,
                          prices |-> << >>, versions |-> 0, retired |-> FALSE, superseded |-> FALSE]
            u == [id |-> kept.id, cpo |-> s, country |-> Country[s], evse |-> c.evse, connector |-> c.connector,
                  place |-> c.place, power |-> c.power, plug |-> c.plug, current |-> c.current,
                  name |-> c.name, status |-> c.status, tariff |-> kept.tariff, headline |-> kept.headline,
                  prices |-> kept.prices, versions |-> kept.versions, retired |-> kept.retired,
                  superseded |-> kept.superseded]
<1>1. UpsertConnector(all, s, c) = (all \ old) \cup {u}
  BY DEF UpsertConnector
<1>2. /\ u.cpo = s /\ u.evse = c.evse /\ u.connector = c.connector /\ u.id = kept.id
      /\ u.tariff = kept.tariff /\ u.headline = kept.headline /\ u.prices = kept.prices
      /\ u.versions = kept.versions /\ u.power = c.power /\ u.current = c.current
  <2>. HIDE DEF kept
  <2>. QED
    OBVIOUS
<1>3. Key(u) = Key(c)
  <2>. HIDE DEF u
  <2>. QED
    BY <1>2 DEF Key
<1>4. CASE old = {}
  <2>1. kept.tariff = NoTariff /\ kept.headline = Unset
    BY <1>4
  <2>. HIDE DEF u, kept
  <2>2. Upserted(all, s, c, u)
    BY <1>2, <1>3, <1>4, <2>1 DEF Upserted, Blank
  <2>3. Matching((all \ old) \cup {u}, s, c) = {u}
    BY <1>2, <1>3 DEF Matching
  <2>. QED
    BY <1>1, <1>2, <2>2, <2>3
<1>5. CASE old # {}
  <2>1. kept \in old
    BY <1>5
  <2>. HIDE DEF u, kept
  <2>2. kept \in all /\ kept.cpo = s /\ Key(kept) = Key(c)
    BY <2>1 DEF Matching
  <2>3. old = {kept}
    <3>1. \A x \in old : x \in all /\ SameCharger(x, kept)
      BY <2>2 DEF Matching, SameCharger, Key
    <3>. QED
      BY <2>1, <2>2, <3>1 DEF RowsOK
  <2>4. Alike(kept, u)
    BY <1>2, <2>2 DEF Alike, SameCharger, Key
  <2>5. Upserted(all, s, c, u)
    BY <1>2, <1>3, <2>2, <2>3, <2>4 DEF Upserted
  <2>6. Matching((all \ old) \cup {u}, s, c) = {u}
    BY <1>2, <1>3 DEF Matching
  <2>. QED
    BY <1>1, <1>2, <2>5, <2>6
<1>. QED
  BY <1>4, <1>5

LEMMA ProcessIs ==
  ASSUME NEW u, RowOK(u), NEW t, t # NoTariff, NEW c, u.power = c.power, u.current = c.current, NEW fx
  PROVE  Writes(u, ProcessTariff(u, t, fx), t, c, fx)
<1>. DEFINE euro == EuroPrices(t, c, fx)
            d == ProcessTariff(u, t, fx)
<1>1. EuroPrices(t, u, fx) = euro
  BY DEF EuroPrices
<1>2. DOMAIN u = RowFields
  BY DEF RowOK
<1>3. CASE Hash(u.tariff) # Hash(t)
  <2>1. d = [u EXCEPT !.tariff = t, !.versions = @ + 1, !.headline = euro.headline, !.prices = euro.prices]
    BY <1>1, <1>3 DEF ProcessTariff
  <2>. HIDE DEF euro, d
  <2>2. /\ d.id = u.id /\ SameCharger(u, d)
        /\ d.tariff = t /\ d.headline = euro.headline /\ d.prices = euro.prices
    BY <1>2, <2>1 DEF SameCharger, RowFields
  <2>3. Opened(u, d, t, c, fx)
    BY <1>3, <2>2 DEF Opened, Figured, euro
  <2>. QED
    BY <2>2, <2>3 DEF Writes, d
<1>4. CASE Hash(u.tariff) = Hash(t) /\ u.headline = Unset /\ t.currency # "EUR"
  <2>1. d = [u EXCEPT !.headline = euro.headline, !.prices = euro.prices]
    BY <1>1, <1>4 DEF ProcessTariff
  <2>. HIDE DEF euro, d
  <2>2. /\ d.id = u.id /\ SameCharger(u, d) /\ d.tariff = u.tariff /\ d.versions = u.versions
        /\ d.headline = euro.headline /\ d.prices = euro.prices
    BY <1>2, <2>1 DEF SameCharger, RowFields
  <2>3. Filled(u, d, t, c, fx)
    BY <1>4, <2>2 DEF Filled, Figured, euro
  <2>. QED
    BY <2>2, <2>3 DEF Writes, d
<1>5. CASE Hash(u.tariff) = Hash(t) /\ ~(u.headline = Unset /\ t.currency # "EUR")
  <2>1. d = u
    BY <1>5 DEF ProcessTariff
  <2>. HIDE DEF d
  <2>2. Filled(u, d, t, c, fx)
    BY <1>5, <2>1 DEF Filled
  <2>. QED
    BY <2>1, <2>2 DEF Writes, SameCharger, d
<1>. QED
  BY <1>3, <1>4, <1>5

LEMMA ApplyFullWrites ==
  ASSUME NEW all, RowsOK(all), NEW s \in Sources, NEW got, NEW closes, NEW fx, NEW c
  PROVE  LET t == TariffIn(c, got.tariffs)
             new == ApplyFull(s, got, closes, fx, all, c)
         IN  \/ Signed(priceSigs[s], c, ConnectorSig(c, t)) /\ new = all
             \/ \E u, d : Replaced(all, new, s, c, t, fx, u, d)
<1>. DEFINE t == TariffIn(c, got.tariffs)
            up == UpsertConnector(all, s, c)
            r == CHOOSE x \in Matching(up, s, c) : TRUE
            done == IF t # NoTariff THEN ProcessTariff(r, t, fx)
                    ELSE IF closes THEN CloseCurrentTariff(r) ELSE r
            new == ApplyFull(s, got, closes, fx, all, c)
            old == Matching(all, s, c)
<1>1. new = IF Signed(priceSigs[s], c, ConnectorSig(c, t)) THEN all ELSE (up \ {r}) \cup {done}
  BY DEF ApplyFull
<1>2. PICK u : /\ Upserted(all, s, c, u) /\ u.power = c.power /\ u.current = c.current
               /\ up = (all \ old) \cup {u} /\ Matching(up, s, c) = {u}
  BY UpsertIs
<1>3. r = u
  BY <1>2
<1>4. RowOK(u)
  <2>1. RowsOK(up)
    BY UpsertRows
  <2>. HIDE DEF up, old
  <2>. QED
    BY <1>2, <2>1 DEF RowsOK
<1>5. (up \ {u}) \cup {done} = (all \ old) \cup {done}
  <2>1. u \notin all \ old
    BY <1>2 DEF Upserted, Matching
  <2>. HIDE DEF up, old, done
  <2>. QED
    BY <1>2, <2>1
<1>6. Writes(u, done, t, c, fx)
  <2>. HIDE DEF t, r
  <2>1. CASE t # NoTariff
    BY <1>2, <1>3, <1>4, <2>1, ProcessIs
  <2>2. CASE t = NoTariff /\ closes
    <3>1. done = [u EXCEPT !.tariff = NoTariff, !.headline = Unset, !.prices = << >>]
      BY <1>3, <2>2 DEF CloseCurrentTariff
    <3>2. DOMAIN u = RowFields
      BY <1>4 DEF RowOK
    <3>. HIDE DEF done
    <3>3. /\ done.id = u.id /\ SameCharger(u, done) /\ done.tariff = NoTariff /\ done.headline = Unset
          /\ done.versions = u.versions
      BY <3>1, <3>2 DEF SameCharger, RowFields
    <3>. QED
      BY <2>2, <3>3 DEF Writes, Closed, Blank
  <2>3. CASE t = NoTariff /\ ~closes
    <3>1. done = u
      BY <1>3, <2>3
    <3>. HIDE DEF done
    <3>. QED
      BY <2>3, <3>1 DEF Writes, Left, Alike, SameCharger
  <2>. QED
    BY <2>1, <2>2, <2>3
<1>7. CASE Signed(priceSigs[s], c, ConnectorSig(c, t))
  BY <1>1, <1>7
<1>8. CASE ~Signed(priceSigs[s], c, ConnectorSig(c, t))
  <2>1. new = (all \ old) \cup {done}
    BY <1>1, <1>3, <1>5, <1>8
  <2>2. Replaced(all, new, s, c, t, fx, u, done)
    <3>. HIDE DEF new, done, t
    <3>. QED
      BY <1>2, <1>6, <2>1 DEF Replaced
  <2>. QED
    BY <2>2
<1>. QED
  BY <1>7, <1>8

\* The rows that were there are still there, those of other sources untouched;
\* where the pass only repeats what a row has, and no list quotes its connector
\* twice, no version is opened.
Once(s, k) == k \in OncePriced(form[s])
Settled(r, Q) == \A q \in Q : Key(q.c) = Key(r) /\ ~Unpriced(q) => Hash(r.tariff) = Hash(q.t)
Keeps(all, base, s, Q) ==
  /\ \A x \in all : x.cpo # s => x \in base
  /\ \A r \in base : \E x \in all :
       /\ x.id = r.id /\ SameCharger(r, x) /\ (r.cpo # s => x = r)
       /\ r.cpo = s /\ Once(s, Key(r)) /\ Settled(r, Q) => x.versions = r.versions /\ Settled(x, Q)

LEMMA ReplacedStands ==
  ASSUME NEW all, NEW new, NEW s, NEW c, NEW t, NEW fx, NEW u, NEW d, Replaced(all, new, s, c, t, fx, u, d),
         NEW o, NEW k, NEW h, Stands(all, o, k, h), o = s /\ k = Key(c) => Alike(u, d) \/ h = Hash(t)
  PROVE  Stands(new, o, k, h)
<1>1. PICK r \in all : r.cpo = o /\ Key(r) = k /\ (h # Hash(NoTariff) => Hash(r.tariff) = h)
  BY DEF Stands
<1>2. new = (all \ Matching(all, s, c)) \cup {d}
  BY DEF Replaced
<1>3. CASE r \notin Matching(all, s, c)
  BY <1>1, <1>2, <1>3 DEF Stands
<1>4. CASE r \in Matching(all, s, c)
  <2>1. o = s /\ k = Key(c)
    BY <1>1, <1>4 DEF Matching
  <2>2. Alike(r, u)
    BY <1>4 DEF Replaced, Upserted
  <2>3. d.cpo = s /\ Key(d) = k
    <3>1. SameCharger(u, d) /\ u.cpo = s /\ Key(u) = Key(c)
      BY DEF Replaced, Upserted, Writes
    <3>. QED
      BY <2>1, <3>1 DEF SameCharger, Key
  <2>4. h # Hash(NoTariff) => Hash(d.tariff) = h
    <3>1. CASE Alike(u, d)
      BY <1>1, <2>2, <3>1 DEF Alike
    <3>2. CASE ~Alike(u, d)
      <4>1. h = Hash(t)
        BY <2>1, <3>2
      <4>2. Closed(u, d, t) \/ Filled(u, d, t, c, fx) \/ Opened(u, d, t, c, fx)
        BY <3>2 DEF Replaced, Writes, Left
      <4>. QED
        BY <4>1, <4>2 DEF Closed, Filled, Opened
    <3>. QED
      BY <3>1, <3>2
  <2>. QED
    BY <1>2, <2>1, <2>3, <2>4 DEF Stands
<1>. QED
  BY <1>3, <1>4

LEMMA ReplacedNow ==
  ASSUME NEW all, NEW new, NEW s, NEW c, NEW t, NEW fx, NEW u, NEW d, Replaced(all, new, s, c, t, fx, u, d)
  PROVE  Stands(new, s, Key(c), Hash(t))
<1>1. d \in new /\ SameCharger(u, d) /\ u.cpo = s /\ Key(u) = Key(c)
  BY DEF Replaced, Upserted, Writes
<1>2. d.cpo = s /\ Key(d) = Key(c)
  BY <1>1 DEF SameCharger, Key
<1>3. Hash(t) # Hash(NoTariff) => Hash(d.tariff) = Hash(t)
  BY DEF Replaced, Writes, Left, Closed, Filled, Opened
<1>. QED
  BY <1>1, <1>2, <1>3 DEF Stands

LEMMA ReplacedKeeps ==
  ASSUME NEW all, NEW new, NEW s, NEW c, NEW t, NEW fx, NEW u, NEW d, Replaced(all, new, s, c, t, fx, u, d),
         NEW base, NEW Q, Keeps(all, base, s, Q),
         Alike(u, d) \/ [c |-> c, t |-> t] \in Q, Once(s, Key(c)) => \A y \in Q : Key(y.c) = Key(c) => y.t = t
  PROVE  Keeps(new, base, s, Q)
<1>1. new = (all \ Matching(all, s, c)) \cup {d}
  BY DEF Replaced
<1>2. d.cpo = s /\ Key(d) = Key(c) /\ Key(u) = Key(c) /\ d.id = u.id
  <2>1. SameCharger(u, d) /\ u.cpo = s /\ Key(u) = Key(c) /\ d.id = u.id
    BY DEF Replaced, Upserted, Writes
  <2>. QED
    BY <2>1 DEF SameCharger, Key
<1>3. \A x \in new : x.cpo # s => x \in base
  BY <1>1, <1>2 DEF Keeps
<1>4. ASSUME NEW r \in base
      PROVE  \E x \in new : /\ x.id = r.id /\ SameCharger(r, x) /\ (r.cpo # s => x = r)
                            /\ r.cpo = s /\ Once(s, Key(r)) /\ Settled(r, Q) => x.versions = r.versions /\ Settled(x, Q)
  <2>1. PICK x \in all : /\ x.id = r.id /\ SameCharger(r, x) /\ (r.cpo # s => x = r)
                         /\ r.cpo = s /\ Once(s, Key(r)) /\ Settled(r, Q) => x.versions = r.versions /\ Settled(x, Q)
    BY DEF Keeps
  <2>2. CASE x \notin Matching(all, s, c)
    BY <1>1, <2>1, <2>2
  <2>3. CASE x \in Matching(all, s, c)
    <3>1. Alike(x, u) /\ x.cpo = s /\ Key(x) = Key(c)
      BY <2>3 DEF Replaced, Upserted, Matching
    <3>2. d.id = r.id /\ SameCharger(r, d) /\ r.cpo = s /\ Key(r) = Key(c)
      BY <1>2, <2>1, <3>1 DEF Alike, SameCharger, Key
    <3>3. ASSUME Once(s, Key(r)), Settled(r, Q) PROVE d.versions = r.versions /\ Settled(d, Q)
      <4>1. u.versions = r.versions /\ u.tariff = x.tariff /\ Settled(x, Q)
        BY <2>1, <3>1, <3>2, <3>3 DEF Alike
      <4>2. CASE Alike(u, d)
        <5>1. d.versions = u.versions /\ d.tariff = x.tariff /\ Key(d) = Key(x)
          BY <1>2, <3>1, <4>1, <4>2 DEF Alike
        <5>. QED
          BY <4>1, <5>1 DEF Settled
      <4>3. CASE ~Alike(u, d) /\ t = NoTariff
        <5>1. d.versions = u.versions
          BY <4>3 DEF Replaced, Writes, Left, Closed, Filled, Opened
        <5>2. Settled(d, Q)
          BY <1>2, <3>2, <3>3, <4>3 DEF Settled, Unpriced
        <5>. QED
          BY <4>1, <5>1, <5>2
      <4>4. CASE ~Alike(u, d) /\ t # NoTariff
        <5>1. [c |-> c, t |-> t] \in Q
          BY <4>4
        <5>2. Hash(u.tariff) = Hash(t)
          BY <3>1, <4>1, <4>4, <5>1 DEF Settled, Unpriced
        <5>3. d.versions = u.versions /\ d.tariff = u.tariff
          BY <4>4, <5>2 DEF Replaced, Writes, Left, Closed, Filled, Opened
        <5>4. Settled(d, Q)
          BY <1>2, <3>2, <3>3, <5>2, <5>3 DEF Settled
        <5>. QED
          BY <4>1, <5>3, <5>4
      <4>. QED
        BY <4>2, <4>3, <4>4
    <3>. QED
      BY <1>1, <3>2, <3>3
  <2>. QED
    BY <2>2, <2>3
<1>. QED
  BY <1>3, <1>4 DEF Keeps

\* A row has no price, or one that its source quoted.
QuotedAs(r, f) ==
  \/ Blank(r)
  \/ \E x \in QuotesOf(f), fx \in BOOLEAN :
       Key(x.c) = Key(r) /\ ~Unpriced(x) /\ Hash(r.tariff) = Hash(x.t) /\ Figured(r, x.t, x.c, fx)
Quoted(r) == r.cpo \in Enabled /\ QuotedAs(r, form[r.cpo])

LEMMA ReplacedQuoted ==
  ASSUME NEW all, NEW new, NEW s \in Enabled, NEW c, NEW t, NEW fx \in BOOLEAN, NEW u, NEW d,
         Replaced(all, new, s, c, t, fx, u, d), \A x \in all : Quoted(x),
         QuotesSomething(form[s]),
         t # NoTariff => [c |-> c, t |-> t] \in QuotesOf(form[s])
  PROVE  \A x \in new : Quoted(x)
<1>1. new = (all \ Matching(all, s, c)) \cup {d}
  BY DEF Replaced
<1>2. d.cpo = s /\ Key(d) = Key(c) /\ Key(u) = Key(c) /\ u.cpo = s
  <2>1. SameCharger(u, d) /\ u.cpo = s /\ Key(u) = Key(c)
    BY DEF Replaced, Upserted, Writes
  <2>. QED
    BY <2>1 DEF SameCharger, Key
<1>3. QuotedAs(u, form[s])
  <2>1. CASE Blank(u)
    BY <2>1 DEF QuotedAs
  <2>2. CASE ~Blank(u)
    <3>1. PICK r \in all : Matching(all, s, c) = {r} /\ Alike(r, u)
      BY <2>2 DEF Replaced, Upserted
    <3>2. Quoted(r) /\ r.cpo = s /\ Key(r) = Key(u)
      BY <1>2, <3>1 DEF Alike, SameCharger, Key
    <3>. QED
      BY <3>1, <3>2 DEF Quoted, QuotedAs, Alike, Blank, Figured
  <2>. QED
    BY <2>1, <2>2
<1>4. QuotedAs(d, form[s])
  <2>1. CASE Left(u, d, t)
    BY <1>2, <1>3, <2>1 DEF Left, Alike, QuotedAs, Blank, Figured
  <2>2. CASE Closed(u, d, t)
    BY <2>2 DEF Closed, QuotedAs
  <2>. DEFINE q == [c |-> c, t |-> t]
  <2>3. t # NoTariff => q \in QuotesOf(form[s]) /\ ~Unpriced(q) /\ Hash(t) # Hash(NoTariff)
    BY DEF QuotesSomething, Unpriced
  <2>4. t # NoTariff /\ Hash(d.tariff) = Hash(t) /\ Figured(d, t, c, fx) => QuotedAs(d, form[s])
    <3>1. q.c = c /\ q.t = t
      OBVIOUS
    <3>. HIDE DEF q
    <3>. QED
      BY <1>2, <2>3, <3>1 DEF QuotedAs
  <2>5. CASE Opened(u, d, t, c, fx)
    BY <2>4, <2>5 DEF Opened
  <2>6. CASE Filled(u, d, t, c, fx)
    <3>1. Hash(u.tariff) # Hash(NoTariff) /\ d.tariff = u.tariff
      BY <2>3, <2>6 DEF Filled
    <3>2. ~Blank(u)
      BY <3>1 DEF Blank
    <3>3. CASE d.headline = u.headline /\ d.prices = u.prices
      BY <1>2, <1>3, <3>1, <3>2, <3>3 DEF QuotedAs, Figured
    <3>4. CASE Figured(d, t, c, fx)
      BY <2>4, <2>6, <3>4 DEF Filled
    <3>. QED
      BY <2>6, <3>3, <3>4 DEF Filled
  <2>. QED
    BY <2>1, <2>2, <2>5, <2>6 DEF Replaced, Writes
<1>. QED
  BY <1>1, <1>2, <1>4 DEF Quoted

QuotesIn(seq, tariffs) == {[c |-> c, t |-> TariffIn(c, tariffs)] : c \in ToSet(seq)}
StandsAs(all, s, q) == Stands(all, s, Key(q.c), Hash(q.t))
SignedAs(s, q) == Signed(priceSigs[s], q.c, ConnectorSig(q.c, q.t))

\* What a price pass has made of base after the first k connectors.
PassedTo(all, base, s, seq, Q, k) ==
  /\ RowsOK(all) /\ Keeps(all, base, s, Q) /\ \A x \in all : Quoted(x)
  /\ \A q \in Q : Once(s, Key(q.c)) /\ (SignedAs(s, q) \/ \E i \in 1..k : q.c = seq[i]) => StandsAs(all, s, q)

LEMMA ApplyFullPasses ==
  ASSUME NEW s \in Enabled, s \in Sources, NEW got, NEW closes, NEW fx \in BOOLEAN, NEW seq, NEW base, NEW Q,
         Q = QuotesIn(seq, got.tariffs), Q \subseteq QuotesOf(form[s]),
         \A x, y \in Q : Key(x.c) = Key(y.c) /\ Once(s, Key(x.c)) => x.t = y.t,
         QuotesSomething(form[s]),
         \A id \in DOMAIN got.tariffs : Whole(got.tariffs[id]),
         NEW all, NEW k \in Nat, k + 1 \in DOMAIN seq, PassedTo(all, base, s, seq, Q, k)
  PROVE  PassedTo(ApplyFull(s, got, closes, fx, all, seq[k + 1]), base, s, seq, Q, k + 1)
<1>. DEFINE c == seq[k + 1]
            t == TariffIn(c, got.tariffs)
            q == [c |-> c, t |-> t]
            new == ApplyFull(s, got, closes, fx, all, c)
<1>0. c \in ToSet(seq)
  BY DEF ToSet
<1>1. q \in Q /\ q.c = c /\ q.t = t
  BY <1>0 DEF QuotesIn
<1>2. RowsOK(new)
  BY ApplyFullRows DEF PassedTo
<1>3. ASSUME NEW x \in Q, SignedAs(s, x) \/ (\E i \in 1..(k + 1) : x.c = seq[i])
      PROVE  x.c = c \/ SignedAs(s, x) \/ (\E i \in 1..k : x.c = seq[i])
  BY <1>3
<1>4. \A x \in Q : x.c = c => x = q
  BY DEF QuotesIn
<1>5. \/ SignedAs(s, q) /\ new = all
      \/ \E u, d : Replaced(all, new, s, c, t, fx, u, d)
  <2>1. RowsOK(all)
    BY DEF PassedTo
  <2>2. SignedAs(s, q) <=> Signed(priceSigs[s], c, ConnectorSig(c, t))
    BY <1>1 DEF SignedAs
  <2>. QED
    BY <2>1, <2>2, ApplyFullWrites
<1>. HIDE DEF c, q, t, new
<1>6. ASSUME SignedAs(s, q), new = all
      PROVE  PassedTo(new, base, s, seq, Q, k + 1)
  <2>1. Once(s, Key(q.c)) => StandsAs(new, s, q)
    BY <1>1, <1>6 DEF PassedTo
  <2>2. ASSUME NEW x \in Q, Once(s, Key(x.c)), SignedAs(s, x) \/ (\E i \in 1..(k + 1) : x.c = seq[i])
        PROVE  StandsAs(new, s, x)
    <3>1. x = q \/ SignedAs(s, x) \/ (\E i \in 1..k : x.c = seq[i])
      BY <1>3, <1>4, <2>2
    <3>. QED
      BY <1>6, <2>1, <2>2, <3>1 DEF PassedTo
  <2>. QED
    BY <1>2, <1>6, <2>2 DEF PassedTo
<1>7. ASSUME NEW u, NEW d, Replaced(all, new, s, c, t, fx, u, d)
      PROVE  PassedTo(new, base, s, seq, Q, k + 1)
  <2>0. [c |-> c, t |-> t] = q
    BY DEF q
  <2>1. Keeps(new, base, s, Q)
    BY <1>1, <1>7, <2>0, ReplacedKeeps DEF PassedTo
  <2>2. \A x \in new : Quoted(x)
    BY <1>1, <1>7, <2>0, ReplacedQuoted DEF PassedTo
  <2>3. StandsAs(new, s, q)
    BY <1>1, <1>7, ReplacedNow DEF StandsAs
  <2>4. ASSUME NEW x \in Q, Once(s, Key(x.c)), StandsAs(all, s, x) PROVE StandsAs(new, s, x)
    <3>1. Key(x.c) = Key(c) => Hash(x.t) = Hash(t)
      BY <1>1, <2>4
    <3>. QED
      BY <1>7, <2>4, <3>1, ReplacedStands DEF StandsAs
  <2>5. ASSUME NEW x \in Q, Once(s, Key(x.c)), SignedAs(s, x) \/ (\E i \in 1..(k + 1) : x.c = seq[i])
        PROVE  StandsAs(new, s, x)
    <3>1. x = q \/ SignedAs(s, x) \/ (\E i \in 1..k : x.c = seq[i])
      BY <1>3, <1>4, <2>5
    <3>2. x = q \/ StandsAs(all, s, x)
      BY <2>5, <3>1 DEF PassedTo
    <3>. QED
      BY <2>3, <2>4, <2>5, <3>2
  <2>. QED
    BY <1>2, <2>1, <2>2, <2>5 DEF PassedTo
<1>8. PassedTo(new, base, s, seq, Q, k + 1)
  BY <1>5, <1>6, <1>7
<1>. QED
  BY <1>8 DEF c, new

LEMMA KeepsSelf == ASSUME NEW base, NEW s, NEW Q PROVE Keeps(base, base, s, Q)
BY DEF Keeps, SameCharger

LEMMA PricesPass ==
  ASSUME NEW s \in Enabled, s \in Sources, NEW got, NEW closes, NEW fx \in BOOLEAN, NEW base, NEW Q,
         NEW E, NEW seq \in Seq(E),
         Q = QuotesIn(seq, got.tariffs), Q \subseteq QuotesOf(form[s]),
         \A x, y \in Q : Key(x.c) = Key(y.c) /\ Once(s, Key(x.c)) => x.t = y.t,
         QuotesSomething(form[s]),
         \A id \in DOMAIN got.tariffs : Whole(got.tariffs[id]),
         RowsOK(base), \A x \in base : Quoted(x), 
         \A q \in Q : Once(s, Key(q.c)) /\ SignedAs(s, q) => StandsAs(base, s, q)
  PROVE  PassedTo(Prices(s, got, closes, fx, base, seq), base, s, seq, Q, Len(seq))
<1>. DEFINE a == [fold |-> "prices", s |-> s, got |-> got, closes |-> closes, fx |-> fx]
            n == Len(seq)
<1>1. n \in Nat /\ DOMAIN seq = 1..n
  OBVIOUS
<1>2. PICK f : Folding(f, a, base, seq, n) /\ Prices(s, got, closes, fx, base, seq) = f[1..n]
  BY <1>1, PricesFold
<1>3. \A v, x : Step(a, v, x) = ApplyFull(s, got, closes, fx, v, x)
  BY DEF Step
<1>. DEFINE K == {k \in Nat : k <= n => PassedTo(f[1..k], base, s, seq, Q, k)}
<1>. HIDE DEF a, n
<1>4. 0 \in K
  <2>1. f[1..0] = base
    BY <1>1, <1>2, FoldingSteps
  <2>2. PassedTo(base, base, s, seq, Q, 0)
    BY KeepsSelf DEF PassedTo
  <2>. QED
    BY <2>1, <2>2
<1>5. ASSUME NEW k \in K PROVE k + 1 \in K
  <2>1. SUFFICES ASSUME k + 1 <= n PROVE PassedTo(f[1..(k + 1)], base, s, seq, Q, k + 1)
    OBVIOUS
  <2>2. k \in Nat /\ k < n /\ PassedTo(f[1..k], base, s, seq, Q, k)
    BY <1>1, <1>5, <2>1
  <2>3. k + 1 \in DOMAIN seq
    BY <1>1, <2>2
  <2>4. f[1..(k + 1)] = ApplyFull(s, got, closes, fx, f[1..k], seq[k + 1])
    BY <1>1, <1>2, <1>3, <2>2, FoldingSteps
  <2>. HIDE DEF K
  <2>5. PassedTo(ApplyFull(s, got, closes, fx, f[1..k], seq[k + 1]), base, s, seq, Q, k + 1)
    BY <2>2, <2>3, ApplyFullPasses
  <2>. QED
    BY <2>4, <2>5
<1>6. K = Nat
  <2>. K \in SUBSET Nat
    OBVIOUS
  <2>. HIDE DEF K
  <2>. QED
    BY <1>4, <1>5, SetInduction
<1>7. PassedTo(f[1..n], base, s, seq, Q, n)
  BY <1>1, <1>6
<1>. QED
  BY <1>2, <1>7 DEF n

\* An availability pass leaves what stands, and opens nothing.
Undisturbed(all, base, s) ==
  /\ RowsOK(all) /\ Keeps(all, base, s, {}) /\ \A x \in all : Quoted(x)
  /\ \A o, k, h : Stands(base, o, k, h) => Stands(all, o, k, h)

LEMMA UpsertUndisturbed ==
  ASSUME NEW s \in Enabled, s \in Sources, NEW base, NEW c, QuotesSomething(form[s]),
         NEW all, Undisturbed(all, base, s)
  PROVE  Undisturbed(UpsertConnector(all, s, c), base, s)
<1>. DEFINE new == UpsertConnector(all, s, c)
<1>1. RowsOK(all)
  BY DEF Undisturbed
<1>2. RowsOK(new)
  BY <1>1, UpsertRows
<1>3. PICK u : Upserted(all, s, c, u) /\ new = (all \ Matching(all, s, c)) \cup {u}
  BY <1>1, UpsertIs
<1>. HIDE DEF new
<1>4. Alike(u, u) /\ Replaced(all, new, s, c, NoTariff, TRUE, u, u)
  BY <1>3 DEF Replaced, Writes, Left, Alike, SameCharger
<1>5. Keeps(new, base, s, {})
  BY <1>4, ReplacedKeeps DEF Undisturbed
<1>6. \A x \in new : Quoted(x)
  BY <1>4, ReplacedQuoted DEF Undisturbed
<1>7. ASSUME NEW o, NEW k, NEW h, Stands(base, o, k, h) PROVE Stands(new, o, k, h)
  <2>1. Stands(all, o, k, h)
    BY <1>7 DEF Undisturbed
  <2>. QED
    BY <1>4, <2>1, ReplacedStands
<1>8. Undisturbed(new, base, s)
  BY <1>2, <1>5, <1>6, <1>7 DEF Undisturbed
<1>. QED
  BY <1>8 DEF new

LEMMA StatusesPass ==
  ASSUME NEW s \in Enabled, s \in Sources, NEW base, NEW E, NEW seq \in Seq(E),
         QuotesSomething(form[s]),
         RowsOK(base), \A x \in base : Quoted(x)
  PROVE  Undisturbed(Statuses(s, base, seq), base, s)
<1>. DEFINE a == [fold |-> "statuses", s |-> s]
            n == Len(seq)
<1>1. n \in Nat /\ DOMAIN seq = 1..n
  OBVIOUS
<1>2. PICK f : Folding(f, a, base, seq, n) /\ Statuses(s, base, seq) = f[1..n]
  BY <1>1, StatusesFold
<1>3. \A v, x : Step(a, v, x) = IF Signed(statusSigs[s], x, AvailabilitySig(x)) THEN v
                                ELSE UpsertConnector(v, s, x)
  BY DEF Step
<1>. DEFINE K == {k \in Nat : k <= n => Undisturbed(f[1..k], base, s)}
<1>. HIDE DEF a, n
<1>4. 0 \in K
  <2>1. f[1..0] = base
    BY <1>1, <1>2, FoldingSteps
  <2>2. Undisturbed(base, base, s)
    BY KeepsSelf DEF Undisturbed
  <2>. QED
    BY <2>1, <2>2
<1>5. ASSUME NEW k \in K PROVE k + 1 \in K
  <2>1. SUFFICES ASSUME k + 1 <= n PROVE Undisturbed(f[1..(k + 1)], base, s)
    OBVIOUS
  <2>2. k \in Nat /\ k < n /\ Undisturbed(f[1..k], base, s)
    BY <1>1, <1>5, <2>1
  <2>3. seq[k + 1] \in ToSet(seq)
    <3>1. k + 1 \in DOMAIN seq
      BY <1>1, <2>2
    <3>. QED
      BY <3>1 DEF ToSet
  <2>4. f[1..(k + 1)] \in {f[1..k], UpsertConnector(f[1..k], s, seq[k + 1])}
    BY <1>1, <1>2, <1>3, <2>2, FoldingSteps
  <2>. QED
    BY <2>2, <2>3, <2>4, UpsertUndisturbed
<1>6. K = Nat
  <2>. K \in SUBSET Nat
    OBVIOUS
  <2>. HIDE DEF K
  <2>. QED
    BY <1>4, <1>5, SetInduction
<1>. QED
  BY <1>1, <1>2, <1>6

\* Retirement and the flag of a snapshot leave every row its price.
Alikes(all, new) == (\A x \in new : \E r \in all : Alike(r, x)) /\ (\A r \in all : \E x \in new : Alike(r, x))

LEMMA RetiredAlike ==
  ASSUME NEW all, RowsOK(all), NEW s, NEW listed
  PROVE  Alikes(all, ReconcileRetired(s, listed, all))
<1>. DEFINE seen == {Key(listed[i]) : i \in DOMAIN listed}
            out(r) == [r EXCEPT !.retired = Key(r) \notin seen]
            new == {r \in all : r.cpo # s} \cup {[r EXCEPT !.retired = Key(r) \notin seen] : r \in Of(all, s)}
<1>1. ReconcileRetired(s, listed, all) \in {all, new}
  BY DEF ReconcileRetired
<1>2. \A r \in all : Alike(r, r)
  BY DEF Alike, SameCharger
<1>3. \A r \in all : Alike(r, out(r))
  <2>. HIDE DEF seen
  <2>1. \A r \in all : DOMAIN r = RowFields
    BY DEF RowsOK, RowOK
  <2>. QED
    BY <2>1 DEF Alike, SameCharger, RowFields
<1>4. \A r \in all : r \in Of(all, s) <=> r.cpo = s
  BY DEF Of
<1>5. new = {r \in all : r.cpo # s} \cup {out(r) : r \in Of(all, s)}
  OBVIOUS
<1>6. Alikes(all, all)
  BY <1>2 DEF Alikes
<1>7. Alikes(all, new)
  <2>. HIDE DEF out, new
  <2>1. Of(all, s) \subseteq all
    BY DEF Of
  <2>2. ASSUME NEW x \in new PROVE \E r \in all : Alike(r, x)
    BY <1>2, <1>3, <1>5, <2>1
  <2>3. ASSUME NEW r \in all PROVE \E x \in new : Alike(r, x)
    BY <1>2, <1>3, <1>4, <1>5
  <2>. QED
    BY <2>2, <2>3 DEF Alikes
<1>. HIDE DEF new
<1>. QED
  BY <1>1, <1>6, <1>7

LEMMA SupersededAlike ==
  ASSUME NEW all, RowsOK(all), NEW new, Reflagged(all, new)
  PROVE  Alikes(all, new)
<1>0. PICK flag \in [all -> BOOLEAN] : new = {[r EXCEPT !.superseded = flag[r]] : r \in all}
  BY DEF Reflagged
<1>. DEFINE out(r) == [r EXCEPT !.superseded = flag[r]]
<1>1. new = {out(r) : r \in all}
  BY <1>0
<1>2. \A r \in all : Alike(r, out(r))
  <2>1. \A r \in all : DOMAIN r = RowFields
    BY DEF RowsOK, RowOK
  <2>. QED
    BY <2>1 DEF Alike, SameCharger, RowFields
<1>. HIDE DEF out
<1>. QED
  BY <1>1, <1>2 DEF Alikes

LEMMA AlikesKeep ==
  ASSUME NEW all, NEW new, Alikes(all, new)
  PROVE  /\ \A o, k, h : Stands(all, o, k, h) => Stands(new, o, k, h)
         /\ (\A r \in all : Quoted(r)) => \A x \in new : Quoted(x)
<1>1. \A r \in all, x \in new : Alike(r, x) => x.cpo = r.cpo /\ Key(x) = Key(r)
  BY DEF Alike, SameCharger, Key
<1>2. ASSUME NEW o, NEW k, NEW h, Stands(all, o, k, h) PROVE Stands(new, o, k, h)
  <2>1. PICK r \in all : r.cpo = o /\ Key(r) = k /\ (h # Hash(NoTariff) => Hash(r.tariff) = h)
    BY <1>2 DEF Stands
  <2>2. PICK x \in new : Alike(r, x)
    BY DEF Alikes
  <2>3. x.cpo = o /\ Key(x) = k /\ (h # Hash(NoTariff) => Hash(x.tariff) = h)
    BY <1>1, <2>1, <2>2 DEF Alike
  <2>. QED
    BY <2>3 DEF Stands
<1>3. ASSUME \A r \in all : Quoted(r), NEW x \in new PROVE Quoted(x)
  <2>1. PICK r \in all : Alike(r, x)
    BY DEF Alikes
  <2>2. Quoted(r) /\ x.cpo = r.cpo /\ Key(x) = Key(r)
    BY <1>1, <1>3, <2>1
  <2>. QED
    BY <2>1, <2>2 DEF Quoted, QuotedAs, Blank, Figured, Alike
<1>. QED
  BY <1>2, <1>3

-----------------------------------------------------------------------------
(* What is remembered and what was read stands in the rows.                *)

\* Of a key listed more than once the last record is one of the list.
LEMMA LastIs ==
  ASSUME NEW E, NEW seq \in Seq(E), NEW k \in Keys(seq)
  PROVE  LastOf(seq, k) \in ToSet(seq) /\ Key(LastOf(seq, k)) = k
<1>. DEFINE at == {i \in DOMAIN seq : Key(seq[i]) = k}
            N == {n \in Nat : \A S \in SUBSET (1..n) : S # {} => \E x \in S : \A y \in S : x >= y}
<1>1. 0 \in N
  <2>1. \A S \in SUBSET (1..0) : S = {}
    OBVIOUS
  <2>. QED
    BY <2>1
<1>2. ASSUME NEW n \in N PROVE n + 1 \in N
  <2>1. SUFFICES ASSUME NEW S \in SUBSET (1..(n + 1)), S # {} PROVE \E x \in S : \A y \in S : x >= y
    OBVIOUS
  <2>2. CASE n + 1 \in S
    BY <2>2
  <2>3. CASE n + 1 \notin S
    BY <2>1, <2>3
  <2>. QED
    BY <2>2, <2>3
<1>3. N = Nat
  <2>. N \in SUBSET Nat
    OBVIOUS
  <2>. HIDE DEF N
  <2>. QED
    BY <1>1, <1>2, SetInduction
<1>4. Max(at) \in at
  <2>1. Len(seq) \in Nat /\ at \in SUBSET (1..Len(seq))
    OBVIOUS
  <2>2. at # {}
    BY DEF Keys
  <2>. HIDE DEF at
  <2>. QED
    BY <1>3, <2>1, <2>2 DEF Max
<1>. QED
  BY <1>4 DEF LastOf, ToSet

SigsTrue ==
  /\ DOMAIN priceSigs = Sources
  /\ \A s \in Enabled : \A k \in DOMAIN priceSigs[s] : Once(s, k) => Stands(rows, s, k, priceSigs[s][k][10])
ReadTrue ==
  \A s \in Enabled : read[s] # NoWorld =>
    /\ ~Fetched[form[s], read[s], FALSE, FALSE].failed
    /\ \A x \in Quotes[form[s], read[s], FALSE] : Once(s, Key(x.c)) => StandsAs(rows, s, x)
\* What a reader quotes is a price.
PricesQuoted == \A f \in FormNames : QuotesSomething(f)
ReadersInUse == \A s \in Enabled : QuotesSomething(form[s])
OfferInv == JourneyInv /\ ReadersInUse /\ SigsTrue /\ ReadTrue /\ \A r \in rows : Quoted(r)

LEMMA OfferInit == Init /\ PricesQuoted => OfferInv
<1>. SUFFICES ASSUME Init, PricesQuoted PROVE OfferInv
  OBVIOUS
<1>1. JourneyInv
  BY JourneyInit
<1>2. SigsTrue
  BY JourneyAssumption DEF Init, SigsTrue, Enabled
<1>3. ReadTrue
  BY JourneyAssumption DEF Init, ReadTrue, Enabled
<1>4. ReadersInUse
  BY DEF Init, PricesQuoted, ReadersInUse, Enabled, FormNames
<1>. QED
  BY <1>1, <1>2, <1>3, <1>4 DEF Init, OfferInv

\* What a list quotes is a quote of its form.
LEMMA QuotesAre ==
  ASSUME NEW f \in FormNames, NEW w \in AllWorlds, NEW failing \in BOOLEAN,
         ~Fetched[f, w, failing, FALSE].failed
  PROVE  LET got == Fetched[f, w, failing, FALSE]
         IN  /\ Quotes[f, w, failing] = QuotesIn(got.connectors, got.tariffs)
             /\ Quotes[f, w, failing] \subseteq QuotesOf(f)
             /\ \A x, y \in Quotes[f, w, failing] :
                  Key(x.c) = Key(y.c) /\ Key(x.c) \in OncePriced(f) => x.t = y.t
<1>1. <<f, w, failing>> \in FormNames \X AllWorlds \X BOOLEAN /\ <<f, w, failing>> \in {f} \X AllWorlds \X BOOLEAN
  OBVIOUS
<1>2. Quotes[<<f, w, failing>>] = Quoting(Fetched[f, w, failing, FALSE])
  BY <1>1 DEF Quotes
<1>3. Quotes[<<f, w, failing>>] \subseteq QuotesOf(f)
  BY <1>1 DEF QuotesOf
<1>4. ASSUME NEW x \in Quotes[f, w, failing], NEW y \in Quotes[f, w, failing],
             Key(x.c) = Key(y.c), Key(x.c) \in OncePriced(f)
      PROVE  x.t = y.t
  <2>1. Key(x.c) \notin KeysOf(Twice(Quotes[<<f, w, failing>>]))
    BY <1>1, <1>4 DEF OncePriced
  <2>. QED
    BY <1>4, <2>1 DEF KeysOf, Twice
<1>. QED
  BY <1>2, <1>3, <1>4 DEF Quoting, QuotesIn

\* A price pass makes of the rows what PricesPass says, and retires.
LEMMA RunPricesPasses ==
  ASSUME OfferInv, NEW s \in Enabled, NEW failing \in BOOLEAN, NEW fx \in BOOLEAN, RunPrices(s, failing, fx)
  PROVE  LET got == Fetched[form[s], world[s], failing, FALSE]
             Q == Quotes[form[s], world[s], failing]
         IN  /\ s \in Sources /\ form[s] \in FormNames /\ world[s] \in AllWorlds /\ ~got.failed
             /\ got.connectors \in Seq(ToSet(got.connectors)) /\ Q = QuotesIn(got.connectors, got.tariffs)
             /\ \E all : /\ PassedTo(all, rows, s, got.connectors, Q, Len(got.connectors))
                         /\ Alikes(all, rows')
<1>. DEFINE got == Fetched[form[s], world[s], failing, FALSE]
            Q == Quotes[form[s], world[s], failing]
            closes == form[s] \in CompleteLists /\ DOMAIN got.tariffs # {}
            P == Prices(s, got, closes, fx, rows, got.connectors)
<1>1. /\ s \in Sources /\ form[s] \in FormNames /\ world[s] \in AllWorlds /\ ~got.failed
      /\ got.connectors \in Seq(ToSet(got.connectors))
      /\ \A id \in DOMAIN got.tariffs : Whole(got.tariffs[id])
  BY FetchedOK DEF OfferInv, RunPrices, TakePrices
<1>2. rows' = ReconcileRetired(s, got.connectors, P)
  BY DEF RunPrices, TakePrices, Prices, FoldLeft, MapThenFoldSet
<1>3. Q = QuotesIn(got.connectors, got.tariffs) /\ Q \subseteq QuotesOf(form[s])
  BY <1>1, QuotesAre
<1>4. QuotesSomething(form[s])
  BY DEF OfferInv, ReadersInUse
<1>5. \A x, y \in Q : Key(x.c) = Key(y.c) /\ Once(s, Key(x.c)) => x.t = y.t
  BY <1>1, QuotesAre DEF Once
<1>6. \A q \in Q : Once(s, Key(q.c)) /\ SignedAs(s, q) => StandsAs(rows, s, q)
  <2>1. \A c, t : ConnectorSig(c, t)[10] = Hash(t)
    BY DEF ConnectorSig
  <2>. QED
    BY <1>1, <2>1 DEF OfferInv, SigsTrue, SignedAs, Signed, StandsAs
<1>. HIDE DEF got, Q, closes
<1>7. PassedTo(P, rows, s, got.connectors, Q, Len(got.connectors))
  BY <1>1, <1>3, <1>4, <1>5, <1>6, PricesPass DEF OfferInv, JourneyInv
<1>8. Alikes(P, rows')
  BY <1>2, <1>7, RetiredAlike DEF PassedTo
<1>. QED
  BY <1>1, <1>3, <1>7, <1>8 DEF got, Q

LEMMA PricesTrue ==
  ASSUME OfferInv, NEW s \in Enabled, NEW failing \in BOOLEAN, NEW fx \in BOOLEAN, RunPrices(s, failing, fx)
  PROVE  SigsTrue' /\ ReadTrue' /\ \A r \in rows' : Quoted(r)'
<1>. DEFINE got == Fetched[form[s], world[s], failing, FALSE]
            Q == Quotes[form[s], world[s], failing]
            seq == got.connectors
<1>1. /\ s \in Sources /\ ~got.failed /\ seq \in Seq(ToSet(seq)) /\ Q = QuotesIn(seq, got.tariffs)
      /\ \E all : PassedTo(all, rows, s, seq, Q, Len(seq)) /\ Alikes(all, rows')
  BY RunPricesPasses
<1>2. PICK all : PassedTo(all, rows, s, seq, Q, Len(seq)) /\ Alikes(all, rows')
  BY <1>1
<1>3. /\ form' = form /\ priceSigs' = [priceSigs EXCEPT ![s] = PriceSigs(seq, got.tariffs)]
      /\ read' = [read EXCEPT ![s] = IF failing THEN NoWorld ELSE world[s]]
  BY DEF RunPrices, TakePrices
<1>4. DOMAIN priceSigs = Sources /\ DOMAIN read = Sources /\ Enabled \subseteq Sources
  BY JourneyAssumption DEF OfferInv, SigsTrue, JourneyInv, WorldsOK, Enabled
<1>. HIDE DEF got, Q
<1>5. ASSUME NEW q \in Q, Once(s, Key(q.c)) PROVE StandsAs(rows', s, q)
  <2>1. PICK i \in 1..Len(seq) : q.c = seq[i]
    BY <1>1 DEF QuotesIn, ToSet
  <2>2. StandsAs(all, s, q)
    BY <1>2, <1>5, <2>1 DEF PassedTo
  <2>. QED
    BY <1>2, <2>2, AlikesKeep DEF StandsAs
<1>6. ASSUME NEW o, o # s, NEW k, NEW h, Stands(rows, o, k, h) PROVE Stands(rows', o, k, h)
  <2>1. Stands(all, o, k, h)
    BY <1>2, <1>6 DEF PassedTo, Keeps, Stands
  <2>. QED
    BY <1>2, <2>1, AlikesKeep
<1>7. SigsTrue'
  <2>1. ASSUME NEW o \in Enabled, NEW k \in DOMAIN priceSigs'[o], Once(o, k)
        PROVE  Stands(rows', o, k, priceSigs'[o][k][10])
    <3>1. CASE o # s
      BY <1>3, <1>4, <1>6, <2>1, <3>1 DEF OfferInv, SigsTrue
    <3>2. CASE o = s
      <4>. DEFINE c == LastOf(seq, k)
                  t == TariffIn(c, got.tariffs)
                  q == [c |-> c, t |-> t]
      <4>1. k \in Keys(seq) /\ priceSigs'[s][k] = ConnectorSig(c, t)
        BY <1>1, <1>3, <1>4, <2>1, <3>2 DEF PriceSigs
      <4>2. c \in ToSet(seq) /\ Key(c) = k
        BY <1>1, <4>1, LastIs
      <4>3. q \in Q /\ q.c = c /\ q.t = t
        BY <1>1, <4>2 DEF QuotesIn
      <4>4. priceSigs'[s][k][10] = Hash(t)
        BY <4>1 DEF ConnectorSig
      <4>. HIDE DEF c, t, q
      <4>. QED
        BY <1>5, <2>1, <3>2, <4>2, <4>3, <4>4 DEF StandsAs
    <3>. QED
      BY <3>1, <3>2
  <2>2. Enabled' = Enabled
    BY <1>3 DEF Enabled
  <2>. QED
    BY <1>3, <1>4, <2>1, <2>2 DEF SigsTrue, Stands, Once
<1>8. ReadTrue'
  <2>1. ASSUME NEW o \in Enabled, read'[o] # NoWorld
        PROVE  /\ ~Fetched[form[o], read'[o], FALSE, FALSE].failed
               /\ \A x \in Quotes[form[o], read'[o], FALSE] : Once(o, Key(x.c)) => StandsAs(rows', o, x)
    <3>1. CASE o # s
      <4>1. read'[o] = read[o]
        BY <1>3, <1>4, <3>1
      <4>. QED
        BY <1>6, <2>1, <3>1, <4>1 DEF OfferInv, ReadTrue, StandsAs
    <3>2. CASE o = s
      <4>1. failing = FALSE /\ read'[s] = world[s]
        BY <1>3, <1>4, <2>1, <3>2
      <4>. QED
        BY <1>1, <1>5, <3>2, <4>1 DEF got, Q
    <3>. QED
      BY <3>1, <3>2
  <2>2. Enabled' = Enabled
    BY <1>3 DEF Enabled
  <2>. QED
    BY <1>3, <2>1, <2>2 DEF ReadTrue, StandsAs, Stands, Once
<1>9. \A r \in rows' : Quoted(r)
  BY <1>2, AlikesKeep DEF PassedTo
<1>10. \A r \in rows' : Quoted(r)'
  BY <1>3, <1>9 DEF Quoted, Enabled
<1>. QED
  BY <1>7, <1>8, <1>10

\* A step that keeps what stands keeps what was remembered and read true.
LEMMA StandingTrue ==
  ASSUME OfferInv, UNCHANGED <<form, priceSigs, read>>,
         \A o, k, h : Stands(rows, o, k, h) => Stands(rows', o, k, h), \A r \in rows' : Quoted(r)
  PROVE  SigsTrue' /\ ReadTrue' /\ \A r \in rows' : Quoted(r)'
<1>1. SigsTrue'
  BY DEF OfferInv, SigsTrue, Stands, Once, Enabled
<1>2. ReadTrue'
  <2>1. ASSUME NEW s \in Enabled, read[s] # NoWorld
        PROVE  /\ ~Fetched[form[s], read[s], FALSE, FALSE].failed
               /\ \A x \in Quotes[form[s], read[s], FALSE] : Once(s, Key(x.c)) => StandsAs(rows', s, x)
    BY <2>1 DEF OfferInv, ReadTrue, StandsAs
  <2>. QED
    BY <2>1 DEF ReadTrue, StandsAs, Stands, Enabled, Once
<1>3. \A r \in rows' : Quoted(r)'
  BY DEF Quoted, Enabled
<1>. QED
  BY <1>1, <1>2, <1>3

LEMMA RunAvailabilityPasses ==
  ASSUME OfferInv, NEW s \in Enabled, NEW failing \in BOOLEAN, RunAvailability(s, failing)
  PROVE  Undisturbed(rows', rows, s)
<1>. DEFINE got == Fetched[form[s], world[s], failing, TRUE]
<1>1. /\ s \in Sources /\ form[s] \in FormNames /\ world[s] \in AllWorlds /\ ~got.failed
      /\ got.connectors \in Seq(ToSet(got.connectors))
  BY FetchedOK DEF OfferInv, RunAvailability, TakeStatuses
<1>2. rows' = Statuses(s, rows, got.connectors)
  BY DEF RunAvailability, TakeStatuses, Statuses, FoldLeft, MapThenFoldSet
<1>3. QuotesSomething(form[s]) /\ RowsOK(rows) /\ \A x \in rows : Quoted(x)
  BY DEF OfferInv, ReadersInUse, JourneyInv
<1>. HIDE DEF got
<1>. QED
  BY <1>1, <1>2, <1>3, StatusesPass

LEMMA OfferNext == OfferInv /\ [Next]_vars => OfferInv'
<1>. SUFFICES ASSUME OfferInv, [Next]_vars PROVE OfferInv'
  OBVIOUS
<1>1. JourneyInv'
  BY JourneyNext DEF OfferInv
<1>2. form' = form
  BY DEF Next, Edit, RunPrices, RunAvailability, ClearSuperseded, MarkSuperseded, Restart, vars
<1>3. ReadersInUse'
  BY <1>2 DEF OfferInv, ReadersInUse, Enabled
<1>4. SigsTrue' /\ ReadTrue' /\ \A r \in rows' : Quoted(r)'
  <2>1. ASSUME NEW s \in Enabled, NEW w \in Worlds[s], Edit(s, w)
        PROVE  SigsTrue' /\ ReadTrue' /\ \A r \in rows' : Quoted(r)'
    BY <2>1, StandingTrue DEF Edit, OfferInv
  <2>2. ASSUME NEW s \in Enabled, NEW failing \in BOOLEAN, NEW fx \in BOOLEAN, RunPrices(s, failing, fx)
        PROVE  SigsTrue' /\ ReadTrue' /\ \A r \in rows' : Quoted(r)'
    BY <2>2, PricesTrue
  <2>3. ASSUME NEW s \in Enabled, NEW failing \in BOOLEAN, RunAvailability(s, failing)
        PROVE  SigsTrue' /\ ReadTrue' /\ \A r \in rows' : Quoted(r)'
    <3>1. Undisturbed(rows', rows, s)
      BY <2>3, RunAvailabilityPasses
    <3>2. UNCHANGED <<form, priceSigs, read>>
      BY <2>3 DEF RunAvailability
    <3>. QED
      BY <3>1, <3>2, StandingTrue DEF Undisturbed
  <2>4. CASE ClearSuperseded \/ MarkSuperseded
    <3>1. Alikes(rows, rows')
      BY <2>4, FlagsChange, SupersededAlike DEF OfferInv, JourneyInv
    <3>2. UNCHANGED <<form, priceSigs, read>>
      BY <2>4 DEF ClearSuperseded, MarkSuperseded
    <3>. QED
      BY <3>1, <3>2, StandingTrue, AlikesKeep DEF OfferInv
  <2>5. CASE Restart
    <3>1. UNCHANGED <<form, rows, read>> /\ priceSigs' = [s \in Sources |-> << >>]
      BY <2>5 DEF Restart
    <3>2. SigsTrue'
      BY <1>2, <3>1, JourneyAssumption DEF SigsTrue, OfferInv, JourneyInv, WorldsOK, Enabled
    <3>3. ReadTrue'
      BY <3>1 DEF OfferInv, ReadTrue, StandsAs, Stands, Enabled, Once
    <3>4. \A r \in rows' : Quoted(r)
      BY <3>1 DEF OfferInv
    <3>5. \A r \in rows' : Quoted(r)'
      BY <1>2, <3>4 DEF Quoted, Enabled
    <3>. QED
      BY <3>2, <3>3, <3>5
  <2>6. CASE UNCHANGED vars
    BY <2>6, StandingTrue DEF vars, OfferInv
  <2>. QED
    BY <2>1, <2>2, <2>3, <2>4, <2>5, <2>6 DEF Next
<1>5. \A r \in rows' : (Quoted(r))'
  BY <1>4
<1>. QED
  BY <1>1, <1>3, <1>4, <1>5 DEF OfferInv

-----------------------------------------------------------------------------
(* What a driver pays.                                                     *)

LEMMA ReadIs ==
  ASSUME JourneyInv, NEW s \in Enabled, read[s] # NoWorld
  PROVE  s \in Sources /\ form[s] \in FormNames /\ read[s] \in AllWorlds
<1>1. s \in Sources /\ form[s] \in FormNames
  BY JourneyAssumption DEF JourneyInv, WorldsOK, Enabled, FormNames
<1>2. read[s] \in AllWorlds
  BY <1>1 DEF JourneyInv, WorldsOK, AllWorlds
<1>. QED
  BY <1>1, <1>2

\* The row of a connector that was read has the content that was read for it.
LEMMA RowRead ==
  ASSUME OfferInv, NEW s \in Enabled, NEW x \in QuotesRead(form[s], read[s]), ~Unpriced(x),
         NEW r \in Matching(rows, s, x.c), Once(s, Key(x.c))
  PROVE  Hash(r.tariff) = Hash(x.t) /\ Hash(x.t) # Hash(NoTariff) /\ x \in QuotesOf(form[s])
<1>1. read[s] # NoWorld /\ x \in Quotes[form[s], read[s], FALSE]
  BY DEF QuotesRead
<1>2. r \in rows /\ r.cpo = s /\ Key(r) = Key(x.c)
  BY DEF Matching
<1>3. s \in Sources /\ form[s] \in FormNames /\ read[s] \in AllWorlds
  BY <1>1, ReadIs DEF OfferInv
<1>4. QuotesSomething(form[s]) /\ RowsOK(rows)
  BY DEF OfferInv, ReadersInUse, JourneyInv
<1>5. ~Fetched[form[s], read[s], FALSE, FALSE].failed /\ StandsAs(rows, s, x)
  BY <1>1 DEF OfferInv, ReadTrue
<1>6. x \in QuotesOf(form[s])
  BY <1>1, <1>3, <1>5, QuotesAre
<1>7. Hash(x.t) # Hash(NoTariff)
  BY <1>4, <1>6 DEF QuotesSomething
<1>8. PICK n \in rows : n.cpo = s /\ Key(n) = Key(x.c) /\ Hash(n.tariff) = Hash(x.t)
  BY <1>5, <1>7 DEF StandsAs, Stands
<1>9. SameCharger(n, r)
  BY <1>2, <1>8 DEF SameCharger, Key
<1>10. n = r
  BY <1>2, <1>4, <1>9 DEF RowsOK
<1>. QED
  BY <1>6, <1>7, <1>8, <1>10

LEMMA InvChargedAsOffered == OfferInv /\ ReadersHonest => ChargedAsOffered
<1>. SUFFICES ASSUME OfferInv, ReadersHonest PROVE ChargedAsOffered
  OBVIOUS
<1>1. ASSUME NEW s \in Enabled, NEW p \in PointsRead(s), NEW x \in QuotesRead(form[s], read[s]),
             NEW r \in RowsOf(p, s), HasOffer(p), Key(r) = Key(x.c),
             Key(r) \in OncePriced(form[s]) \cap HashTold(form[s])
      PROVE  PricedAs(r, p)
  <2>1. /\ read[s] # NoWorld /\ p \in Listed[form[s], read[s]]
        /\ r \in rows /\ r.cpo = s /\ r.evse = p.id
    BY DEF PointsRead, RowsOf
  <2>2. s \in Sources /\ form[s] \in FormNames /\ read[s] \in AllWorlds
    BY <2>1, ReadIs DEF OfferInv
  <2>3. x \in QuotesFor(form[s], read[s], p)
    BY <1>1, <2>1 DEF QuotesRead, QuotesFor, Key
  <2>4. ReadsOffer(form[s]) /\ Quoted(r)
    BY <2>1, <2>2 DEF OfferInv, ReadersHonest, Honest
  <2>5. ~Unpriced(x) /\ \A fx \in BOOLEAN : Figures(EuroPrices(x.t, x.c, fx), p)
    BY <1>1, <2>1, <2>2, <2>3, <2>4 DEF ReadsOffer
  <2>6. r \in Matching(rows, s, x.c) /\ Once(s, Key(x.c))
    BY <1>1, <2>1 DEF Matching, Once
  <2>7. Hash(r.tariff) = Hash(x.t) /\ Hash(x.t) # Hash(NoTariff) /\ x \in QuotesOf(form[s])
    BY <2>5, <2>6, RowRead
  <2>8. ~Blank(r) /\ r.tariff # NoTariff
    BY <2>7 DEF Blank
  <2>9. PICK y \in QuotesOf(form[s]), fx \in BOOLEAN :
          Key(y.c) = Key(r) /\ ~Unpriced(y) /\ Hash(r.tariff) = Hash(y.t) /\ Figured(r, y.t, y.c, fx)
    BY <2>1, <2>4, <2>8 DEF Quoted, QuotedAs
  <2>10. EuroPrices(y.t, y.c, fx) = EuroPrices(x.t, x.c, fx)
    <3>1. x \notin Untold(QuotesOf(form[s]))
      BY <1>1 DEF HashTold, KeysOf
    <3>. QED
      BY <1>1, <2>5, <2>7, <2>9, <3>1 DEF Untold
  <2>11. Figures(r, p)
    BY <2>5, <2>9, <2>10 DEF Figured, Figures
  <2>. QED
    BY <2>8, <2>11 DEF PricedAs
<1>2. NeverGivenAway
  <2>1. ASSUME NEW r \in rows PROVE r.headline # 0
    <3>1. Quoted(r) /\ QuotesSomething(form[r.cpo])
      BY DEF OfferInv, ReadersInUse, Quoted
    <3>2. CASE Blank(r)
      BY <3>2 DEF Blank, Unset
    <3>3. CASE ~Blank(r)
      BY <3>1, <3>3 DEF Quoted, QuotedAs, QuotesSomething, Figured
    <3>. QED
      BY <3>2, <3>3
  <2>. QED
    BY <2>1 DEF NeverGivenAway
<1>. QED
  BY <1>1, <1>2 DEF ChargedAsOffered

\* With readers that read every offer at its price, whatever passes came
\* before (remembered signatures, parts that failed, closed and refilled
\* tariffs, retirement and return, restarts) a connector read by the last
\* complete pass is stored at what its driver pays, unless a list quotes it
\* twice or one of its quotes hashes like a dearer one; and nothing is ever
\* stored as free (ingest.go, RunPrices and processTariff).
THEOREM ChargedAsOfferedHolds ==
  ASSUME ReadersHonest
  PROVE  Spec => []ChargedAsOffered
<1>0. Init => OfferInv
  BY OfferInit DEF ReadersHonest, Honest, PricesQuoted
<1>1. Spec => []OfferInv
  BY <1>0, OfferNext, PTL DEF Spec
<1>2. OfferInv => ChargedAsOffered
  BY InvChargedAsOffered
<1>. QED
  BY <1>1, <1>2, PTL

-----------------------------------------------------------------------------
(* What is only written down anew.                                         *)

RestatedStep ==
  \A s \in Enabled : \A x \in QuotesRead(form[s], read[s]), y \in QuotesRead(form[s], read'[s]) :
    Key(x.c) = Key(y.c) =>
      \A r \in Matching(rows, s, x.c), n \in Of(rows, s)' : r.id = n.id /\ r.versions # n.versions =>
        ~Reordered(x.t, y.t) \/ Key(x.c) \notin OncePriced(form[s])

\* The hash knows no order of the elements.
LEMMA ReorderedHash ==
  ASSUME NEW t, NEW u, Reordered(t, u)
  PROVE  Hash(t) = Hash(u)
<1>1. ToBag(t.elements) = [e \in ToSet(t.elements) |-> Times(e, t)]
  BY DEF ToBag, Times, ToSet, Range
<1>2. ToBag(u.elements) = [e \in ToSet(u.elements) |-> Times(e, u)]
  BY DEF ToBag, Times, ToSet, Range
<1>3. ToBag(t.elements) = ToBag(u.elements)
  BY <1>1, <1>2 DEF Reordered
<1>. QED
  BY <1>3 DEF Reordered, Hash

\* A row whose quote a list repeats is settled for it.
LEMMA RepeatedSettled ==
  ASSUME OfferInv, NEW s \in Enabled, NEW v \in AllWorlds, ~Fetched[form[s], v, FALSE, FALSE].failed,
         NEW x \in QuotesRead(form[s], read[s]), NEW y \in Quotes[form[s], v, FALSE],
         Key(x.c) = Key(y.c), Reordered(x.t, y.t), Once(s, Key(x.c)),
         NEW r \in Matching(rows, s, x.c)
  PROVE  Settled(r, Quotes[form[s], v, FALSE])
<1>. SUFFICES ASSUME NEW q \in Quotes[form[s], v, FALSE], Key(q.c) = Key(r), ~Unpriced(q)
              PROVE  Hash(r.tariff) = Hash(q.t)
  BY DEF Settled
<1>1. form[s] \in FormNames /\ QuotesSomething(form[s]) /\ Key(r) = Key(x.c)
  BY ReadIs DEF OfferInv, ReadersInUse, QuotesRead, Matching
<1>2. q.t = y.t /\ q \in QuotesOf(form[s])
  <2>1. Key(q.c) = Key(y.c) /\ Key(q.c) \in OncePriced(form[s])
    BY <1>1 DEF Once
  <2>. QED
    BY <1>1, <2>1, QuotesAre
<1>3. Hash(x.t) = Hash(q.t)
  BY <1>2, ReorderedHash
<1>4. ~Unpriced(x)
  BY <1>1, <1>2, <1>3 DEF QuotesSomething, Unpriced
<1>. QED
  BY <1>3, <1>4, RowRead

\* The row that is left of a charger opened no version when one of it did not.
LEMMA SameVersions ==
  ASSUME JourneyInv', NEW all, Alikes(all, rows'), NEW r, NEW x \in all, x.id = r.id, x.versions = r.versions,
         NEW n \in rows', n.id = r.id
  PROVE  r.versions = n.versions
<1>1. PICK m \in rows' : Alike(x, m)
  BY DEF Alikes
<1>2. m = n
  BY <1>1 DEF Alike, JourneyInv, RowsOK
<1>. QED
  BY <1>1, <1>2 DEF Alike

LEMMA NextRestated == OfferInv /\ [Next]_vars => RestatedStep
<1>. SUFFICES ASSUME OfferInv, [Next]_vars, NEW s \in Enabled,
                     NEW q \in QuotesRead(form[s], read[s]), NEW y \in QuotesRead(form[s], read'[s]),
                     Key(q.c) = Key(y.c), Reordered(q.t, y.t), Once(s, Key(q.c)),
                     NEW r \in Matching(rows, s, q.c), NEW n \in Of(rows, s)', r.id = n.id
              PROVE  r.versions = n.versions
  BY DEF RestatedStep, Once
<1>0. /\ JourneyInv' /\ n \in rows' /\ RowsOK(rows) /\ RowsOK(rows')
      /\ r \in rows /\ r.cpo = s /\ Key(r) = Key(q.c) /\ Once(s, Key(r))
  BY JourneyNext DEF OfferInv, JourneyInv, Matching, Of
<1>1. ASSUME NEW all, Alikes(all, rows'), NEW x \in all, x.id = r.id, x.versions = r.versions
      PROVE  r.versions = n.versions
  BY <1>0, <1>1, SameVersions
<1>2. Alikes(rows', rows')
  BY DEF Alikes, Alike, SameCharger
<1>3. rows' = rows => r.versions = n.versions
  BY <1>0 DEF RowsOK
<1>4. ASSUME NEW o \in Enabled, NEW failing \in BOOLEAN, NEW fx \in BOOLEAN, RunPrices(o, failing, fx)
      PROVE  r.versions = n.versions
  <2>. DEFINE got == Fetched[form[o], world[o], failing, FALSE]
              Q == Quotes[form[o], world[o], failing]
  <2>1. PICK all : PassedTo(all, rows, o, got.connectors, Q, Len(got.connectors)) /\ Alikes(all, rows')
    BY <1>4, RunPricesPasses
  <2>2. PICK x \in all : /\ x.id = r.id /\ (r.cpo # o => x = r)
                         /\ r.cpo = o /\ Once(o, Key(r)) /\ Settled(r, Q) => x.versions = r.versions
    BY <1>0, <2>1 DEF PassedTo, Keeps
  <2>. HIDE DEF got, Q
  <2>3. CASE o # s
    <3>1. x = r
      BY <1>0, <2>2, <2>3
    <3>. QED
      BY <1>1, <2>1, <3>1
  <2>4. CASE o = s
    <3>1. read'[s] = (IF failing THEN NoWorld ELSE world[s]) /\ world[s] \in AllWorlds
      BY <1>4, <2>4, FetchedOK DEF RunPrices, OfferInv, JourneyInv, WorldsOK
    <3>2. failing = FALSE /\ y \in Quotes[form[s], world[s], FALSE]
      BY <3>1 DEF QuotesRead
    <3>3. ~Fetched[form[s], world[s], FALSE, FALSE].failed
      BY <1>4, <2>4, <3>2 DEF RunPrices, TakePrices
    <3>4. Settled(r, Q)
      BY <2>4, <3>1, <3>2, <3>3, RepeatedSettled DEF Q
    <3>5. x.versions = r.versions
      BY <1>0, <2>2, <2>4, <3>4
    <3>. QED
      BY <1>1, <2>1, <2>2, <3>5
  <2>. QED
    BY <2>3, <2>4
<1>5. ASSUME NEW o \in Enabled, NEW failing \in BOOLEAN, RunAvailability(o, failing) PROVE r.versions = n.versions
  <2>1. Keeps(rows', rows, o, {})
    BY <1>5, RunAvailabilityPasses DEF Undisturbed
  <2>2. PICK x \in rows' : x.id = r.id /\ (r.cpo # o => x = r) /\ (r.cpo = o => x.versions = r.versions)
    BY <1>0, <2>1 DEF Keeps, Settled
  <2>. QED
    BY <1>1, <1>2, <2>2
<1>6. CASE ClearSuperseded \/ MarkSuperseded
  <2>1. Alikes(rows, rows')
    BY <1>0, <1>6, FlagsChange, SupersededAlike
  <2>. QED
    BY <1>0, <1>1, <2>1
<1>7. CASE \E o \in Enabled : \E w \in Worlds[o] : Edit(o, w)
  BY <1>3, <1>7 DEF Edit
<1>8. CASE Restart \/ UNCHANGED vars
  BY <1>3, <1>8 DEF Restart, vars
<1>. QED
  BY <1>4, <1>5, <1>6, <1>7, <1>8 DEF Next

\* Whatever the readers make of an offer, as long as they quote a price where
\* they quote a tariff: a connector that the next pass quotes with the same
\* elements in another order, each with its components in their order, opens no
\* version (model.go, Tariff.Hash; ingest.go, processTariff).
THEOREM RestatedQuietlyHolds ==
  ASSUME PricesQuoted
  PROVE  Spec => RestatedQuietly
<1>0. Init => OfferInv
  BY OfferInit
<1>1. Spec => []OfferInv
  BY <1>0, OfferNext, PTL DEF Spec
<1>2. OfferInv /\ [Next]_vars => [RestatedStep]_vars
  BY NextRestated
<1>3. Spec => [][RestatedStep]_vars
  BY <1>1, <1>2, PTL DEF Spec
<1>. QED
  BY <1>3 DEF RestatedQuietly, RestatedStep

-----------------------------------------------------------------------------
(* The published statuses reach the points of the published table.         *)

\* Three more folds are such foldings.
UniqueFolding(f, seq, n) ==
  f = [t \in SUBSET (1..n) |->
         IF t = {} THEN << >>
         ELSE IF Contains(f[t \ {Max(t)}], seq[Max(t)]) THEN f[t \ {Max(t)}]
         ELSE Append(f[t \ {Max(t)}], seq[Max(t)])]
PayloadFolding(f, seq, n) ==
  f = [t \in SUBSET (1..n) |->
         IF t = {} THEN EmptyDoc
         ELSE TakePub(f[t \ {Max(t)}], seq[Max(t)])]
JoinFolding(f, base, seq, n) ==
  f = [t \in SUBSET (1..n) |-> IF t = {} THEN base ELSE JoinUpdate(f[t \ {Max(t)}], seq[Max(t)])]

LEMMA UniqueFold ==
  ASSUME NEW seq, NEW n \in Nat, DOMAIN seq = 1..n
  PROVE  \E f : Folding(f, [fold |-> "unique"], << >>, seq, n) /\ Dedupe(seq) = f[1..n]
<1>. DEFINE a == [fold |-> "unique"]
<1>1. Dedupe(seq) = (CHOOSE f : UniqueFolding(f, seq, n))[1..n]
  BY DEF Dedupe, FoldLeft, MapThenFoldSet, UniqueFolding
<1>2. \A v, x : Step(a, v, x) = IF Contains(v, x) THEN v ELSE Append(v, x)
  BY DEF Step
<1>3. ASSUME NEW f PROVE Folding(f, a, << >>, seq, n) <=> UniqueFolding(f, seq, n)
  <2>. HIDE DEF a
  <2>. QED
    BY <1>2 DEF Folding, UniqueFolding
<1>. QED
  BY <1>1, <1>3, FoldingExists

LEMMA PayloadFold ==
  ASSUME NEW doc, NEW n \in Nat, DOMAIN doc.pubs = 1..n
  PROVE  \E f : Folding(f, [fold |-> "payload"], EmptyDoc, doc.pubs, n) /\ ReadJson(doc) = f[1..n]
<1>. DEFINE a == [fold |-> "payload"]
            seq == doc.pubs
<1>1. ReadJson(doc) = (CHOOSE f : PayloadFolding(f, seq, n))[1..n]
  BY DEF ReadJson, FoldLeft, MapThenFoldSet, PayloadFolding
<1>2. \A v, x : Step(a, v, x) = TakePub(v, x)
  BY DEF Step
<1>3. ASSUME NEW f PROVE Folding(f, a, EmptyDoc, seq, n) <=> PayloadFolding(f, seq, n)
  <2>. HIDE DEF a, seq
  <2>. QED
    BY <1>2 DEF Folding, PayloadFolding
<1>. QED
  BY <1>1, <1>3, FoldingExists

LEMMA JoinFold ==
  ASSUME NEW table, NEW status, NEW n \in Nat, DOMAIN status.updates = 1..n
  PROVE  \E f : /\ Folding(f, [fold |-> "join"], Delivered(table.connectors, table.tariffs), status.updates, n)
                /\ JoinStatuses(table, status) = f[1..n]
<1>. DEFINE a == [fold |-> "join"]
            base == Delivered(table.connectors, table.tariffs)
            seq == status.updates
<1>1. JoinStatuses(table, status) = (CHOOSE f : JoinFolding(f, base, seq, n))[1..n]
  BY DEF JoinStatuses, FoldLeft, MapThenFoldSet, JoinFolding
<1>2. \A v, x : Step(a, v, x) = JoinUpdate(v, x)
  BY DEF Step
<1>3. ASSUME NEW f PROVE Folding(f, a, base, seq, n) <=> JoinFolding(f, base, seq, n)
  <2>. HIDE DEF a, seq, base
  <2>. QED
    BY <1>2 DEF Folding, JoinFolding
<1>. QED
  BY <1>1, <1>3, FoldingExists

\* Without its repetitions a list is still a list.
LEMMA DedupeIs ==
  ASSUME NEW S, NEW seq \in Seq(S)
  PROVE  Dedupe(seq) \in Seq(S)
<1>. DEFINE n == Len(seq)
            a == [fold |-> "unique"]
<1>1. n \in Nat /\ DOMAIN seq = 1..n
  OBVIOUS
<1>2. PICK f : Folding(f, a, << >>, seq, n) /\ Dedupe(seq) = f[1..n]
  BY <1>1, UniqueFold
<1>3. \A v, x : Step(a, v, x) = IF Contains(v, x) THEN v ELSE Append(v, x)
  BY DEF Step
<1>. DEFINE K == {k \in Nat : k <= n => f[1..k] \in Seq(S)}
<1>. HIDE DEF a
<1>4. 0 \in K
  BY <1>1, <1>2, FoldingSteps, EmptySeq
<1>5. ASSUME NEW k \in K PROVE k + 1 \in K
  <2>. HIDE DEF n
  <2>. SUFFICES ASSUME k < n PROVE f[1..(k + 1)] \in Seq(S)
    BY <1>1
  <2>1. f[1..(k + 1)] = Step(a, f[1..k], seq[k + 1])
    BY <1>1, <1>2, FoldingSteps
  <2>2. f[1..k] \in Seq(S) /\ seq[k + 1] \in S
    BY <1>1
  <2>3. f[1..(k + 1)] = f[1..k] \/ f[1..(k + 1)] = Append(f[1..k], seq[k + 1])
    BY <1>3, <2>1, Zenon
  <2>4. \A v \in Seq(S), x \in S : Append(v, x) \in Seq(S)
    OBVIOUS
  <2>. QED
    BY <2>2, <2>3, <2>4, Zenon
<1>6. K = Nat
  <2>. K \in SUBSET Nat
    OBVIOUS
  <2>. HIDE DEF K
  <2>. QED
    BY <1>4, <1>5, SetInduction
<1>. QED
  <2>. HIDE DEF n
  <2>. QED
    BY <1>1, <1>2, <1>6

\* A payload of one publication is read as that.
LEMMA ReadJsonOne ==
  ASSUME NEW doc, DOMAIN doc.pubs = 1..1
  PROVE  ReadJson(doc) = TakePub(EmptyDoc, doc.pubs[1])
<1>. DEFINE a == [fold |-> "payload"]
            n == 1
            base == EmptyDoc
            pubs == doc.pubs
<1>0. n \in Nat /\ DOMAIN doc.pubs = 1..n
  OBVIOUS
<1>a. n = 1
  OBVIOUS
<1>. HIDE DEF n
<1>1. PICK f : Folding(f, a, base, pubs, n) /\ ReadJson(doc) = f[1..n]
  BY <1>0, PayloadFold
<1>2. \A v, x : Step(a, v, x) = TakePub(v, x)
  BY DEF Step
<1>. HIDE DEF a
<1>. HIDE DEF base, pubs
<1>3. f[1..n] = Step(a, base, pubs[n])
  <2>1. /\ f[1..0] = base
        /\ \A k \in Nat : k < n => f[1..(k + 1)] = Step(a, f[1..k], pubs[k + 1])
    BY <1>0, <1>1, FoldingSteps
  <2>2. 0 \in Nat /\ 0 < n /\ 0 + 1 = n
    BY <1>a
  <2>3. f[1..(0 + 1)] = Step(a, f[1..0], pubs[0 + 1])
    BY <2>1, <2>2
  <2>. QED
    BY <2>1, <2>2, <2>3
<1>4. ReadJson(doc) = Step(a, base, pubs[n])
  BY <1>a, <1>1, <1>3, Zenon
<1>5. ReadJson(doc) = TakePub(base, pubs[n])
  BY <1>2, <1>4, Zenon
<1>. QED
  BY <1>5 DEF base, n, pubs

LEMMA ReadXmlOne ==
  ASSUME NEW doc, NEW pub, doc.pubs = <<pub>>
  PROVE  /\ pub.kind = "table"  => ReadXml(doc) = XmlTable(pub)
         /\ pub.kind = "status" => ReadXml(doc) = XmlStatuses(pub)
<1>1. DOMAIN doc.pubs = {1} /\ doc.pubs[1] = pub
  OBVIOUS
<1>2. Min({1}) = 1
  BY DEF Min
<1>3. ASSUME pub.kind = "table" PROVE {i \in DOMAIN doc.pubs : doc.pubs[i].kind = "table"} = {1}
                                 /\ {i \in DOMAIN doc.pubs : doc.pubs[i].kind = "status"} = {}
  BY <1>1, <1>3
<1>4. ASSUME pub.kind = "status" PROVE {i \in DOMAIN doc.pubs : doc.pubs[i].kind = "status"} = {1}
  BY <1>1, <1>4
<1>. QED
  BY <1>1, <1>2, <1>3, <1>4 DEF ReadXml

-----------------------------------------------------------------------------

\* The connectors of a table, and the points behind them.
Triples(A, B, P) == {[site |-> a, station |-> b, point |-> p] : a \in A, b \in B, p \in P}

LEMMA PointsAre ==
  ASSUME NEW A, NEW B, NEW P, NEW sites \in Seq(A),
         \A a \in A : a.stations \in Seq(B), \A b \in B : b.points \in Seq(P)
  PROVE  Points(sites) \in Seq(Triples(A, B, P))
<1>. DEFINE S == Triples(A, B, P)
            OfStation(a, b) == [k \in DOMAIN b.points |-> [site |-> a, station |-> b, point |-> b.points[k]]]
            Inner(a) == [j \in DOMAIN a.stations |-> OfStation(a, a.stations[j])]
            lists == [i \in DOMAIN sites |-> FlattenSeq(Inner(sites[i]))]
<1>1. ASSUME NEW a \in A, NEW b \in B PROVE OfStation(a, b) \in Seq(S)
  <2>1. b.points \in Seq(P)
    OBVIOUS
  <2>2. \A k \in DOMAIN b.points : b.points[k] \in P
    BY <2>1
  <2>3. \A k \in DOMAIN b.points : [site |-> a, station |-> b, point |-> b.points[k]] \in S
    BY <2>2 DEF Triples
  <2>. HIDE DEF S
  <2>4. DOMAIN b.points = 1..Len(b.points) /\ Len(b.points) \in Nat
    BY <2>1
  <2>. QED
    BY <2>3, <2>4
<1>. HIDE DEF S
<1>2. ASSUME NEW a \in A PROVE FlattenSeq(Inner(a)) \in Seq(S)
  <2>1. a.stations \in Seq(B)
    OBVIOUS
  <2>2. \A j \in DOMAIN a.stations : OfStation(a, a.stations[j]) \in Seq(S)
    BY <1>1, <2>1
  <2>3. DOMAIN a.stations = 1..Len(a.stations) /\ Len(a.stations) \in Nat
    BY <2>1
  <2>. HIDE DEF OfStation
  <2>4. Inner(a) \in Seq(Seq(S))
    BY <2>2, <2>3
  <2>. QED
    BY <2>4, FlattenIs
<1>3. lists \in Seq(Seq(S))
  <2>1. \A i \in DOMAIN sites : FlattenSeq(Inner(sites[i])) \in Seq(S)
    BY <1>2
  <2>2. DOMAIN sites = 1..Len(sites) /\ Len(sites) \in Nat
    OBVIOUS
  <2>. HIDE DEF Inner
  <2>. QED
    BY <2>1, <2>2
<1>4. Points(sites) = FlattenSeq(lists)
  BY DEF Points
<1>. QED
  BY <1>3, <1>4, FlattenIs DEF S

\* Every connector of a table read is one record for all readers.
ConnFields == {"evse", "connector", "place", "power", "plug", "current", "name", "tariff", "status"}
Joinable(conns) == \A i \in DOMAIN conns : DOMAIN conns[i] = ConnFields

LEMMA XmlJoinable == ASSUME NEW pub PROVE Joinable(XmlTable(pub).connectors)
BY DEF XmlTable, XmlConnector, Connector, Joinable, ConnFields, EmptyDoc

LEMMA JsonJoinable ==
  ASSUME NEW A, NEW B, NEW P, NEW pub, pub.sites \in Seq(A),
         \A a \in A : a.stations \in Seq(B), \A b \in B : b.points \in Seq(P),
         \A p \in P : \E n \in Nat : DOMAIN p.plugs = 1..n
  PROVE  Joinable(JsonTable(EmptyDoc, pub).connectors)
<1>. DEFINE all == Points(pub.sites)
            S == Triples(A, B, P)
            ConnsOf(x) == JsonConnectors(x.site, x.station, x.point)
            C == UNION {ToSet(ConnsOf(x)) : x \in S}
            lists == [i \in DOMAIN all |-> ConnsOf(all[i])]
<1>1. all \in Seq(S)
  BY PointsAre
<1>2. ASSUME NEW x \in S
      PROVE  ConnsOf(x) \in Seq(ToSet(ConnsOf(x))) /\ \A i \in DOMAIN ConnsOf(x) : DOMAIN ConnsOf(x)[i] = ConnFields
  <2>. DEFINE Made(y, i) == Connector(y.point.id, i, FirstOf(<<y.station.place, y.site.place, y.site.entrance>>),
                               (IF y.point.plugs[i].power = 0 THEN y.station.power
                                ELSE y.point.plugs[i].power) \div 1000,
                               JsonPlug[y.point.plugs[i].type], IF y.point.current = "dc" THEN "DC" ELSE "AC",
                               FirstOf(<<y.station.operator, y.station.brand, y.site.operator, y.site.brand>>),
                               IF JsonTariff(y.point) = NoTariff THEN None ELSE JsonTariff(y.point).id)
  <2>1. PICK p \in P : x.point = p
    BY DEF Triples
  <2>2. PICK n \in Nat : DOMAIN x.point.plugs = 1..n
    BY <2>1
  <2>3. CASE ConnsOf(x) = << >>
    BY <2>3, EmptySeq
  <2>4. CASE ConnsOf(x) # << >>
    <3>1. ConnsOf(x) = [i \in 1..n |-> Made(x, i)]
      <4>1. ConnsOf(x) = [i \in DOMAIN x.point.plugs |-> Made(x, i)]
        BY <2>4, Zenon DEF JsonConnectors
      <4>. QED
        BY <2>2, <4>1
    <3>2. \A i \in 1..n : DOMAIN Made(x, i) = ConnFields
      BY DEF Connector, ConnFields
    <3>. HIDE DEF ConnsOf, Made
    <3>3. \A i \in 1..n : ConnsOf(x)[i] = Made(x, i) /\ Made(x, i) \in ToSet(ConnsOf(x))
      BY <3>1 DEF ToSet
    <3>. QED
      BY <3>1, <3>2, <3>3
  <2>. QED
    BY <2>3, <2>4
<1>. HIDE DEF S, ConnsOf
<1>3. lists \in Seq(Seq(C)) /\ \A c \in C : DOMAIN c = ConnFields
  <2>1. \A x \in S : ConnsOf(x) \in Seq(C)
    <3>. SUFFICES ASSUME NEW x \in S PROVE ConnsOf(x) \in Seq(C)
      OBVIOUS
    <3>1. ToSet(ConnsOf(x)) \subseteq C
      OBVIOUS
    <3>2. ConnsOf(x) \in Seq(ToSet(ConnsOf(x)))
      BY <1>2
    <3>. HIDE DEF C
    <3>. QED
      BY <3>1, <3>2, SeqMonotonic
  <2>2. ASSUME NEW x \in S, NEW c \in ToSet(ConnsOf(x)) PROVE DOMAIN c = ConnFields
    BY <1>2 DEF ToSet
  <2>. HIDE DEF C, all
  <2>3. DOMAIN all = 1..Len(all) /\ Len(all) \in Nat /\ \A i \in DOMAIN all : ConnsOf(all[i]) \in Seq(C)
    BY <1>1, <2>1
  <2>4. \A c \in C : DOMAIN c = ConnFields
    BY <2>2 DEF C
  <2>. QED
    BY <2>3, <2>4
<1>4. FlattenSeq(lists) \in Seq(C)
  <2>. HIDE DEF C, lists
  <2>. QED
    BY <1>3, FlattenIs
<1>5. JsonTable(EmptyDoc, pub).connectors = << >> \o FlattenSeq(lists)
  BY DEF JsonTable, EmptyDoc, ConnsOf
<1>. HIDE DEF C, lists
<1>6. << >> \o FlattenSeq(lists) = FlattenSeq(lists)
  BY <1>4
<1>. QED
  BY <1>3, <1>4, <1>5, <1>6 DEF Joinable

-----------------------------------------------------------------------------

\* Connectors that have been told say what they were told.
Heard(conns, e, s) == \A i \in DOMAIN conns : conns[i].evse = e => conns[i].status = s

LEMMA JoinUpdateIs ==
  ASSUME NEW v, NEW u, NEW e, NEW s, DOMAIN v = {"failed", "connectors", "tariffs"}, Joinable(v.connectors),
         u.evse = e => u.status = s
  PROVE  LET w == JoinUpdate(v, u)
         IN  /\ DOMAIN w = {"failed", "connectors", "tariffs"} /\ Joinable(w.connectors)
             /\ u.evse = e \/ Heard(v.connectors, e, s) => Heard(w.connectors, e, s)
<1>. DEFINE conns == v.connectors
            Told1(c) == IF ~(c.evse = u.evse) THEN c
                        ELSE [c EXCEPT !.status = u.status,
                                !.tariff = IF u.tariff # NoTariff /\ @ = None THEN c.evse ELSE @]
            w == JoinUpdate(v, u)
<1>1. DOMAIN w = {"failed", "connectors", "tariffs"} /\ w.connectors = [i \in DOMAIN conns |-> Told1(conns[i])]
  BY DEF JoinUpdate
<1>2. ASSUME NEW c, DOMAIN c = ConnFields
      PROVE  /\ DOMAIN Told1(c) = ConnFields /\ Told1(c).evse = c.evse
             /\ Told1(c).status = IF c.evse = u.evse THEN u.status ELSE c.status
  BY <1>2 DEF ConnFields
<1>. HIDE DEF w, Told1
<1>3. Joinable(w.connectors)
  BY <1>1, <1>2 DEF Joinable
<1>4. ASSUME u.evse = e \/ Heard(conns, e, s) PROVE Heard(w.connectors, e, s)
  BY <1>1, <1>2, <1>4 DEF Heard, Joinable
<1>. QED
  BY <1>1, <1>3, <1>4 DEF w

LEMMA JoinIs ==
  ASSUME NEW table, NEW status, NEW U, NEW e, NEW s, Joinable(table.connectors), status.updates \in Seq(U),
         \A u \in ToSet(status.updates) : u.evse = e => u.status = s,
         \E u \in ToSet(status.updates) : u.evse = e
  PROVE  Heard(JoinStatuses(table, status).connectors, e, s)
<1>. DEFINE seq == status.updates
            n == Len(seq)
            a == [fold |-> "join"]
            base == Delivered(table.connectors, table.tariffs)
            Fields == {"failed", "connectors", "tariffs"}
<1>1. n \in Nat /\ DOMAIN seq = 1..n
  OBVIOUS
<1>2. PICK f : Folding(f, a, base, seq, n) /\ JoinStatuses(table, status) = f[1..n]
  <2>. HIDE DEF n
  <2>. QED
    BY <1>1, JoinFold
<1>3. \A v, x : Step(a, v, x) = JoinUpdate(v, x)
  BY DEF Step
<1>4. DOMAIN base = Fields /\ Joinable(base.connectors)
  BY DEF Delivered
<1>5. /\ \A u \in ToSet(seq) : u.evse = e => u.status = s
      /\ \E i \in 1..n : seq[i].evse = e
      /\ \A i \in 1..n : seq[i] \in ToSet(seq)
  <2>. HIDE DEF n
  <2>. QED
    BY <1>1 DEF ToSet
<1>. HIDE DEF seq, n, a, base
<1>. DEFINE Q(k) == /\ DOMAIN f[1..k] = Fields /\ Joinable(f[1..k].connectors)
                    /\ (\E i \in 1..k : seq[i].evse = e) => Heard(f[1..k].connectors, e, s)
            K == {k \in Nat : k <= n => Q(k)}
<1>6. /\ f[1..0] = base
      /\ \A k \in Nat : k < n => f[1..(k + 1)] = Step(a, f[1..k], seq[k + 1])
  BY <1>1, <1>2, FoldingSteps
<1>7. 0 \in K
  <2>1. 1..0 = {}
    OBVIOUS
  <2>. QED
    BY <1>4, <1>6, <2>1
<1>8. ASSUME NEW k \in K PROVE k + 1 \in K
  <2>. SUFFICES ASSUME k < n PROVE Q(k + 1)
    BY <1>1
  <2>. DEFINE v == f[1..k]
              u == seq[k + 1]
  <2>1. k \in Nat /\ Q(k) /\ k + 1 \in 1..n
    BY <1>1
  <2>2. f[1..(k + 1)] = JoinUpdate(v, u)
    BY <1>3, <1>6, <2>1
  <2>3. u.evse = e => u.status = s
    BY <1>5, <2>1
  <2>4. 1..(k + 1) = 1..k \cup {k + 1}
    BY <2>1
  <2>5. (\E i \in 1..(k + 1) : seq[i].evse = e) => u.evse = e \/ \E i \in 1..k : seq[i].evse = e
    BY <2>4
  <2>6. DOMAIN v = Fields /\ Joinable(v.connectors)
    BY <2>1
  <2>7. (\E i \in 1..k : seq[i].evse = e) => Heard(v.connectors, e, s)
    BY <2>1
  <2>. HIDE DEF v, u
  <2>8. /\ DOMAIN JoinUpdate(v, u) = Fields /\ Joinable(JoinUpdate(v, u).connectors)
        /\ u.evse = e \/ Heard(v.connectors, e, s) => Heard(JoinUpdate(v, u).connectors, e, s)
    BY <2>3, <2>6, JoinUpdateIs
  <2>. QED
    BY <2>2, <2>5, <2>7, <2>8
<1>9. K = Nat
  <2>. K \in SUBSET Nat
    OBVIOUS
  <2>. HIDE DEF K
  <2>. QED
    BY <1>7, <1>8, SetInduction
<1>10. Q(n)
  <2>. n \in K
    BY <1>1, <1>9
  <2>. QED
    BY <1>1
<1>. QED
  BY <1>2, <1>5, <1>10

-----------------------------------------------------------------------------

\* The entries of a status file are the rows with a status.
Entry(d) == [id |-> ToString(d.id), status |-> d.status]

LEMMA EntriesAre ==
  ASSUME NEW D, NEW delta \in Seq(D)
  PROVE  /\ BuildAFIRStatus(delta) \in Seq({Entry(d) : d \in D})
         /\ \A x : In(x, BuildAFIRStatus(delta)) <=>
                    \E i \in DOMAIN delta : delta[i].status # None /\ x = Entry(delta[i])
<1>. DEFINE S == {Entry(d) : d \in D}
            Said(d) == IF d.status = None THEN << >> ELSE <<Entry(d)>>
            lists == [i \in DOMAIN delta |-> Said(delta[i])]
<1>1. BuildAFIRStatus(delta) = FlattenSeq(lists)
  BY DEF BuildAFIRStatus, Entry
<1>2. ASSUME NEW d \in D PROVE Said(d) \in Seq(S) /\ \A x : In(x, Said(d)) <=> d.status # None /\ x = Entry(d)
  <2>1. Entry(d) \in S
    OBVIOUS
  <2>. HIDE DEF S
  <2>. QED
    BY <2>1 DEF In
<1>. HIDE DEF S, Said
<1>3. lists \in Seq(Seq(S))
  <2>1. DOMAIN delta = 1..Len(delta) /\ Len(delta) \in Nat /\ \A i \in DOMAIN delta : Said(delta[i]) \in Seq(S)
    BY <1>2
  <2>. QED
    BY <2>1
<1>4. /\ FlattenSeq(lists) \in Seq(S)
      /\ \A x : In(x, FlattenSeq(lists)) <=> \E i \in DOMAIN lists : In(x, lists[i])
  BY <1>3, FlattenIs
<1>5. DOMAIN lists = DOMAIN delta /\ \A i \in DOMAIN delta : lists[i] = Said(delta[i]) /\ delta[i] \in D
  OBVIOUS
<1>. HIDE DEF lists
<1>. QED
  BY <1>1, <1>2, <1>4, <1>5 DEF S

\* What either reader makes of a written entry.
Spoken(encoding, s) == IF encoding = "xml" THEN XmlStatus(WireStatus(s)) ELSE JsonStatus(WireStatus(s))
Wrote(x) == [id |-> x.id, status |-> WireStatus(x.status), prices |-> << >>, currency |-> None,
             mix |-> << >>, rates |-> << >>]

LEMMA SpokenAs ==
  ASSUME NEW encoding \in {"xml", "json"}, NEW s \in Expressible
  PROVE  Spoken(encoding, s) = s
BY DEF Spoken, Expressible, WireStatus, XmlStatus, JsonStatus

\* Z is what a reader makes of the entries, in that encoding.
Updates(Z, entries, encoding) ==
  /\ \E U : Z \in Seq(U)
  /\ \A z : In(z, Z) => \E x : In(x, entries) /\ z.evse = x.id /\ z.status = Spoken(encoding, x.status)
  /\ \A x : In(x, entries) => \E z : In(z, Z) /\ z.evse = x.id

\* A list of one list, and a list of lists of one.
LEMMA OneList ==
  ASSUME NEW U, NEW l \in Seq(U)
  PROVE  FlattenSeq(<<l>>) \in Seq(U) /\ \A z : In(z, FlattenSeq(<<l>>)) <=> In(z, l)
<1>. DEFINE lists == <<l>>
<1>1. lists \in Seq(Seq(U)) /\ DOMAIN lists = {1} /\ lists[1] = l
  OBVIOUS
<1>. HIDE DEF lists
<1>2. /\ FlattenSeq(lists) \in Seq(U)
      /\ \A z : In(z, FlattenSeq(lists)) <=> \E i \in DOMAIN lists : In(z, lists[i])
  BY <1>1, FlattenIs
<1>3. FlattenSeq(lists) \in Seq(U) /\ \A z : In(z, FlattenSeq(lists)) <=> In(z, l)
  BY <1>1, <1>2
<1>. QED
  BY <1>3 DEF lists

LEMMA Singles ==
  ASSUME NEW U, NEW seen \in Seq(U)
  PROVE  LET l == FlattenSeq([j \in DOMAIN seen |-> <<seen[j]>>])
         IN  l \in Seq(U) /\ \A z : In(z, l) <=> In(z, seen)
<1>. DEFINE lists == [j \in DOMAIN seen |-> <<seen[j]>>]
<1>1. DOMAIN seen = 1..Len(seen) /\ Len(seen) \in Nat /\ \A j \in DOMAIN seen : seen[j] \in U
  OBVIOUS
<1>2. \A y \in U : <<y>> \in Seq(U)
  OBVIOUS
<1>3. DOMAIN lists = DOMAIN seen /\ \A j \in DOMAIN seen : lists[j] \in Seq(U)
  BY <1>1, <1>2
<1>4. lists \in Seq(Seq(U))
  BY <1>1, <1>3
<1>5. \A j \in DOMAIN seen : \A z : In(z, lists[j]) <=> seen[j] = z
  BY DEF In
<1>. HIDE DEF lists
<1>6. /\ FlattenSeq(lists) \in Seq(U)
      /\ \A z : In(z, FlattenSeq(lists)) <=> \E i \in DOMAIN lists : In(z, lists[i])
  BY <1>4, FlattenIs
<1>7. \A z : In(z, FlattenSeq(lists)) <=> In(z, seen)
  BY <1>3, <1>5, <1>6 DEF In
<1>. QED
  BY <1>6, <1>7 DEF lists

\* Updates that are the entries, read one by one.
LEMMA UpdatesAre ==
  ASSUME NEW E, NEW entries \in Seq(E), NEW encoding, NEW seen, NEW U, NEW Z \in Seq(U),
         DOMAIN seen = DOMAIN entries,
         \A j \in DOMAIN entries : /\ seen[j].evse = entries[j].id
                                   /\ seen[j].status = Spoken(encoding, entries[j].status),
         \A z : In(z, Z) <=> In(z, seen)
  PROVE  Updates(Z, entries, encoding)
<1>1. ASSUME NEW z, In(z, Z)
      PROVE  \E x : In(x, entries) /\ z.evse = x.id /\ z.status = Spoken(encoding, x.status)
  <2>1. PICK j \in DOMAIN seen : seen[j] = z
    BY <1>1 DEF In
  <2>2. In(entries[j], entries)
    BY DEF In
  <2>. QED
    BY <2>1, <2>2
<1>2. ASSUME NEW x, In(x, entries) PROVE \E z : In(z, Z) /\ z.evse = x.id
  <2>1. PICK j \in DOMAIN entries : entries[j] = x
    BY <1>2 DEF In
  <2>2. In(seen[j], seen)
    BY DEF In
  <2>. QED
    BY <2>1, <2>2
<1>. QED
  BY <1>1, <1>2 DEF Updates

LEMMA UpdatesXml ==
  ASSUME NEW E, NEW entries \in Seq(E), \A x \in E : x.id # None
  PROVE  Updates(ParseAFIR(WriteStatus(entries, "us", "xml")).updates, entries, "xml")
<1>. DEFINE doc == WriteStatus(entries, "us", "xml")
            pub == doc.pubs[1]
            st == pub.stations[1]
            ups == [i \in DOMAIN entries |-> Wrote(entries[i])]
            U == {XmlUpdate(st, Wrote(x)) : x \in E}
            seen == [j \in DOMAIN entries |-> XmlUpdate(st, Wrote(entries[j]))]
            said == FlattenSeq([j \in DOMAIN seen |-> <<seen[j]>>])
<1>1. /\ doc.encoding = "xml" /\ doc.pubs = <<pub>> /\ pub.kind = "status"
      /\ pub.stations = <<st>> /\ st.updates = ups
  BY DEF WriteStatus, Wrote
<1>. HIDE DEF doc, pub
<1>2. ParseAFIR(doc).updates = XmlStatuses(pub).updates
  BY <1>1, ReadXmlOne DEF ParseAFIR
<1>. HIDE DEF st
<1>3. XmlStatuses(pub).updates = FlattenSeq([i \in DOMAIN pub.stations |->
        FlattenSeq([j \in DOMAIN pub.stations[i].updates |->
          IF pub.stations[i].updates[j].id = None THEN << >>
          ELSE <<XmlUpdate(pub.stations[i], pub.stations[i].updates[j])>>])])
  BY DEF XmlStatuses, EmptyDoc
<1>4. [i \in DOMAIN pub.stations |->
        FlattenSeq([j \in DOMAIN pub.stations[i].updates |->
          IF pub.stations[i].updates[j].id = None THEN << >>
          ELSE <<XmlUpdate(pub.stations[i], pub.stations[i].updates[j])>>])]
      = <<FlattenSeq([j \in DOMAIN st.updates |->
          IF st.updates[j].id = None THEN << >> ELSE <<XmlUpdate(st, st.updates[j])>>])>>
  <2>. DEFINE SaidIn(x) == FlattenSeq([j \in DOMAIN x.updates |->
                           IF x.updates[j].id = None THEN << >> ELSE <<XmlUpdate(x, x.updates[j])>>])
  <2>. HIDE DEF SaidIn
  <2>1. [i \in DOMAIN pub.stations |-> SaidIn(pub.stations[i])] = <<SaidIn(st)>>
    BY <1>1
  <2>. QED
    BY <2>1 DEF SaidIn
<1>5. \A j \in DOMAIN entries : entries[j] \in E
  OBVIOUS
<1>6. [j \in DOMAIN st.updates |->
          IF st.updates[j].id = None THEN << >> ELSE <<XmlUpdate(st, st.updates[j])>>]
      = [j \in DOMAIN seen |-> <<seen[j]>>]
  <2>1. DOMAIN st.updates = DOMAIN seen /\ DOMAIN seen = DOMAIN entries
    BY <1>1
  <2>2. ASSUME NEW j \in DOMAIN entries
        PROVE  /\ st.updates[j] = Wrote(entries[j]) /\ st.updates[j].id # None
               /\ seen[j] = XmlUpdate(st, Wrote(entries[j]))
    BY <1>1, <1>5 DEF Wrote
  <2>. HIDE DEF seen
  <2>. QED
    BY <2>1, <2>2
<1>7. ParseAFIR(doc).updates = FlattenSeq(<<said>>)
  BY <1>2, <1>3, <1>4, <1>6, Zenon
<1>8. seen \in Seq(U) /\ DOMAIN seen = DOMAIN entries
  <2>1. DOMAIN entries = 1..Len(entries) /\ Len(entries) \in Nat
    OBVIOUS
  <2>2. \A j \in DOMAIN entries : seen[j] \in U
    BY <1>5
  <2>3. DOMAIN seen = DOMAIN entries /\ seen = [j \in DOMAIN entries |-> seen[j]]
    OBVIOUS
  <2>. HIDE DEF seen, U
  <2>. QED
    BY <2>1, <2>2, <2>3
<1>9. \A j \in DOMAIN entries : /\ seen[j].evse = entries[j].id
                                /\ seen[j].status = Spoken("xml", entries[j].status)
  BY DEF XmlUpdate, Wrote, Spoken
<1>. HIDE DEF seen, U
<1>10. said \in Seq(U) /\ \A z : In(z, said) <=> In(z, seen)
  BY <1>8, Singles
<1>. HIDE DEF said
<1>11. FlattenSeq(<<said>>) \in Seq(U) /\ \A z : In(z, FlattenSeq(<<said>>)) <=> In(z, seen)
  BY <1>10, OneList
<1>12. Updates(FlattenSeq(<<said>>), entries, "xml")
  BY <1>8, <1>9, <1>11, UpdatesAre
<1>. QED
  BY <1>7, <1>12 DEF doc

LEMMA UpdatesJson ==
  ASSUME NEW E, NEW entries \in Seq(E)
  PROVE  Updates(ParseAFIR(WriteStatus(entries, "us", "json")).updates, entries, "json")
<1>. DEFINE doc == WriteStatus(entries, "us", "json")
            pub == doc.pubs[1]
            st == pub.stations[1]
            ups == [i \in DOMAIN entries |-> Wrote(entries[i])]
            U == {JsonUpdate(Wrote(x)) : x \in E}
            seen == [j \in DOMAIN entries |-> JsonUpdate(Wrote(entries[j]))]
<1>1. /\ doc.encoding = "json" /\ DOMAIN doc.pubs = 1..1 /\ pub.kind = "status"
      /\ pub.stations = <<st>> /\ st.updates = ups
  BY DEF WriteStatus, Wrote
<1>2. ParseAFIR(doc) = JsonStatuses(EmptyDoc, pub)
  <2>. HIDE DEF doc
  <2>. QED
    BY <1>1, ReadJsonOne DEF ParseAFIR, TakePub
<1>. HIDE DEF doc, pub
<1>3. ParseAFIR(doc).updates = << >> \o FlattenSeq([i \in DOMAIN pub.stations |->
        [j \in DOMAIN pub.stations[i].updates |-> JsonUpdate(pub.stations[i].updates[j])]])
  BY <1>2 DEF JsonStatuses, EmptyDoc
<1>. HIDE DEF st
<1>4. [i \in DOMAIN pub.stations |->
         [j \in DOMAIN pub.stations[i].updates |-> JsonUpdate(pub.stations[i].updates[j])]]
      = <<[j \in DOMAIN st.updates |-> JsonUpdate(st.updates[j])]>>
  BY <1>1
<1>5. \A j \in DOMAIN entries : entries[j] \in E
  OBVIOUS
<1>6. [j \in DOMAIN st.updates |-> JsonUpdate(st.updates[j])] = seen
  BY <1>1
<1>7. ParseAFIR(doc).updates = << >> \o FlattenSeq(<<seen>>)
  BY <1>3, <1>4, <1>6, Zenon
<1>8. seen \in Seq(U) /\ DOMAIN seen = DOMAIN entries
  <2>1. DOMAIN entries = 1..Len(entries) /\ Len(entries) \in Nat
    OBVIOUS
  <2>2. \A j \in DOMAIN entries : seen[j] \in U
    BY <1>5
  <2>3. DOMAIN seen = DOMAIN entries /\ seen = [j \in DOMAIN entries |-> seen[j]]
    OBVIOUS
  <2>. HIDE DEF seen, U
  <2>. QED
    BY <2>1, <2>2, <2>3
<1>9. \A j \in DOMAIN entries : /\ seen[j].evse = entries[j].id
                                /\ seen[j].status = Spoken("json", entries[j].status)
  BY DEF JsonUpdate, Wrote, Spoken
<1>. HIDE DEF seen, U
<1>10. FlattenSeq(<<seen>>) \in Seq(U) /\ \A z : In(z, FlattenSeq(<<seen>>)) <=> In(z, seen)
  BY <1>8, OneList
<1>11. ParseAFIR(doc).updates = FlattenSeq(<<seen>>)
  BY <1>7, <1>10
<1>12. Updates(FlattenSeq(<<seen>>), entries, "json")
  BY <1>8, <1>9, <1>10, UpdatesAre
<1>. QED
  BY <1>11, <1>12 DEF doc

LEMMA RowsAtIs ==
  ASSUME NEW D, NEW table \in Seq(D), NEW key
  PROVE  RowsAt(key, table) \in Seq(D)
<1>. DEFINE lists == [i \in DOMAIN table |-> IF LocationKey(table[i]) = key THEN <<table[i]>> ELSE << >>]
<1>1. DOMAIN table = 1..Len(table) /\ Len(table) \in Nat /\ \A i \in DOMAIN table : table[i] \in D
  OBVIOUS
<1>2. \A d \in D : <<d>> \in Seq(D)
  OBVIOUS
<1>3. << >> \in Seq(D)
  OBVIOUS
<1>4. DOMAIN lists = 1..Len(table) /\ \A i \in 1..Len(table) : lists[i] \in Seq(D)
  <2>. HIDE DEF LocationKey
  <2>. QED
    BY <1>1, <1>2, <1>3
<1>5. lists = [i \in 1..Len(table) |-> lists[i]]
  BY <1>1
<1>6. RowsAt(key, table) = FlattenSeq(lists)
  BY DEF RowsAt
<1>. HIDE DEF lists
<1>7. lists \in Seq(Seq(D))
  BY <1>1, <1>4, <1>5
<1>. QED
  BY <1>6, <1>7, FlattenIs

\* A site of the JSON profile, and what it holds.
LEMMA SiteIs ==
  ASSUME NEW D, NEW table \in Seq(D), NEW key
  PROVE  LET a == WireSite(AfirSite(key, table), "json")
             P == {WirePoint(AfirPoint(d), "json") : d \in D}
         IN  /\ a.stations \in Seq(ToSet(a.stations))
             /\ \A b \in ToSet(a.stations) : b.points \in Seq(P)
<1>. DEFINE of == RowsAt(key, table)
            points == [i \in DOMAIN of |-> AfirPoint(of[i])]
            site == AfirSite(key, table)
            P == {WirePoint(AfirPoint(d), "json") : d \in D}
            Pts == [j \in DOMAIN points |-> WirePoint(points[j], "json")]
            Stn(l) == [place |-> None, operator |-> None, brand |-> None, power |-> 0,
                       rates |-> << >>, product |-> << >>,
                       points |-> [j \in DOMAIN l |-> WirePoint(l[j], "json")]]
            a == WireSite(site, "json")
<1>1. of \in Seq(D)
  BY RowsAtIs
<1>2. site.stations = <<points>>
  BY DEF AfirSite
<1>3. a.stations = [i \in DOMAIN site.stations |-> Stn(site.stations[i])]
  BY DEF WireSite
<1>. HIDE DEF of
<1>4. Pts \in Seq(P)
  <2>1. DOMAIN of = 1..Len(of) /\ Len(of) \in Nat /\ \A i \in DOMAIN of : of[i] \in D
    BY <1>1
  <2>2. DOMAIN points = DOMAIN of /\ \A i \in DOMAIN of : points[i] = AfirPoint(of[i])
    OBVIOUS
  <2>3. \A i \in DOMAIN of : WirePoint(points[i], "json") \in P
    BY <2>1, <2>2
  <2>. HIDE DEF points, P
  <2>. QED
    BY <2>1, <2>2, <2>3
<1>5. Stn(points).points = Pts
  OBVIOUS
<1>. HIDE DEF points, P, Pts, Stn, site, a
<1>6. a.stations = <<Stn(points)>>
  BY <1>2, <1>3
<1>7. a.stations \in Seq(ToSet(a.stations)) /\ ToSet(a.stations) = {Stn(points)}
  BY <1>6 DEF ToSet
<1>. QED
  BY <1>4, <1>5, <1>7 DEF a, site, P

\* The table as a consumer reads it.
Base(table, encoding) == ParseAFIR(WriteTable(BuildAFIRTable(table), "us", encoding))

LEMMA BaseXml ==
  ASSUME NEW table
  PROVE  Joinable(Base(table, "xml").connectors)
<1>. DEFINE doc == WriteTable(BuildAFIRTable(table), "us", "xml")
            pub == doc.pubs[1]
<1>1. doc.encoding = "xml" /\ doc.pubs = <<pub>> /\ pub.kind = "table"
  BY DEF WriteTable
<1>. HIDE DEF doc, pub
<1>2. ParseAFIR(doc) = XmlTable(pub)
  BY <1>1, ReadXmlOne DEF ParseAFIR
<1>. QED
  BY <1>2, XmlJoinable DEF doc, Base

LEMMA BaseJson ==
  ASSUME NEW D, NEW table \in Seq(D)
  PROVE  Joinable(Base(table, "json").connectors)
<1>. DEFINE sites == BuildAFIRTable(table)
            doc == WriteTable(sites, "us", "json")
            pub == doc.pubs[1]
            places == [i \in DOMAIN table |-> LocationKey(table[i])]
            keys == Dedupe(places)
            K == {LocationKey(d) : d \in D}
            Written(k) == WireSite(AfirSite(k, table), "json")
            A == {Written(k) : k \in K}
            B == UNION {ToSet(a.stations) : a \in A}
            P == {WirePoint(AfirPoint(d), "json") : d \in D}
<1>1. /\ doc.encoding = "json" /\ DOMAIN doc.pubs = 1..1 /\ pub.kind = "table"
      /\ pub.sites = [i \in DOMAIN sites |-> WireSite(sites[i], "json")]
  BY DEF WriteTable
<1>2. sites = [i \in DOMAIN keys |-> AfirSite(keys[i], table)]
  BY DEF BuildAFIRTable
<1>3. keys \in Seq(K)
  <2>1. DOMAIN table = 1..Len(table) /\ Len(table) \in Nat /\ \A i \in DOMAIN table : LocationKey(table[i]) \in K
    OBVIOUS
  <2>. HIDE DEF K
  <2>2. places \in Seq(K)
    BY <2>1
  <2>. QED
    BY <2>2, DedupeIs
<1>4. pub.sites \in Seq(A)
  <2>. HIDE DEF doc, pub, keys, K
  <2>1. DOMAIN sites = DOMAIN keys /\ \A i \in DOMAIN keys : sites[i] = AfirSite(keys[i], table)
    BY <1>2
  <2>. HIDE DEF sites
  <2>2. DOMAIN pub.sites = DOMAIN keys /\ \A i \in DOMAIN keys : pub.sites[i] = Written(keys[i])
    BY <1>1, <2>1
  <2>3. DOMAIN keys = 1..Len(keys) /\ Len(keys) \in Nat /\ \A i \in DOMAIN keys : keys[i] \in K
    BY <1>3
  <2>4. pub.sites = [i \in DOMAIN sites |-> pub.sites[i]] /\ DOMAIN sites = DOMAIN keys
    BY <1>1, <2>1
  <2>. HIDE DEF Written
  <2>5. \A i \in DOMAIN keys : pub.sites[i] \in A
    BY <2>2, <2>3
  <2>. HIDE DEF A
  <2>. QED
    BY <2>2, <2>3, <2>4, <2>5
<1>5. ASSUME NEW a \in A
      PROVE  a.stations \in Seq(B) /\ \A b \in ToSet(a.stations) : b.points \in Seq(P)
  <2>1. PICK k \in K : a = Written(k)
    OBVIOUS
  <2>. HIDE DEF P, K
  <2>2. a.stations \in Seq(ToSet(a.stations)) /\ \A b \in ToSet(a.stations) : b.points \in Seq(P)
    BY <2>1, SiteIs DEF P
  <2>3. ToSet(a.stations) \subseteq B
    OBVIOUS
  <2>. HIDE DEF B, A
  <2>. QED
    BY <2>2, <2>3, SeqMonotonic
<1>6. \A b \in B : b.points \in Seq(P)
  BY <1>5
<1>7. \A p \in P : \E n \in Nat : DOMAIN p.plugs = 1..n
  <2>1. ASSUME NEW d \in D PROVE DOMAIN WirePoint(AfirPoint(d), "json").plugs = 1..1
    BY DEF WirePoint
  <2>. QED
    BY <2>1
<1>8. ParseAFIR(doc) = JsonTable(EmptyDoc, pub)
  <2>. HIDE DEF doc
  <2>. QED
    BY <1>1, ReadJsonOne DEF ParseAFIR, TakePub
<1>9. Joinable(JsonTable(EmptyDoc, pub).connectors)
  <2>1. \A a \in A : a.stations \in Seq(B)
    BY <1>5
  <2>. HIDE DEF doc, pub, A, B, P
  <2>. QED
    BY <1>4, <2>1, <1>6, <1>7, JsonJoinable
<1>. QED
  BY <1>8, <1>9 DEF Base

\* FormatInt writes every number in a way of its own, and never as nothing.
NumbersTold == \A i, j \in Nat : ToString(i) # None /\ (ToString(i) = ToString(j) => i = j)

LEMMA InvStatusesJoin == JourneyInv /\ NumbersTold => StatusesJoin
<1>. SUFFICES ASSUME JourneyInv, NumbersTold PROVE StatusesJoin
  OBVIOUS
<1>. DEFINE table == ExportStream(rows)
            Brief(r) == [id |-> r.id, evse |-> r.evse, status |-> r.status]
            active == {x \in rows : ~x.retired}
            D == {Brief(r) : r \in active}
            delta == ExportAvailability(rows)
            entries == BuildAFIRStatus(delta)
            E == {Entry(d) : d \in D}
            Statused(encoding) == ParseAFIR(WriteStatus(entries, "us", encoding))
            Joined(encoding) == JoinStatuses(Base(table, encoding), Statused(encoding))
<1>1. table \in Seq(rows)
  BY StreamIs DEF JourneyInv
<1>2. RowsOK(rows)
  BY DEF JourneyInv
<1>3. /\ IsFiniteSet(D) /\ \A d \in D : d.id \in Nat
      /\ \A d, o \in D : d.id = o.id => d = o
  <2>1. IsFiniteSet(D)
    <3>1. IsFiniteSet(active)
      BY <1>2, FS_Subset DEF RowsOK
    <3>. HIDE DEF active
    <3>2. [r \in active |-> Brief(r)] \in Surjection(active, D)
      BY DEF Surjection
    <3>. QED
      BY <3>1, <3>2, FS_Surjection
  <2>2. Cardinality(rows) \in Nat
    BY <1>2, FS_CardinalityType DEF RowsOK
  <2>3. \A r \in active : r.id \in Nat
    BY <1>2, <2>2 DEF RowsOK
  <2>4. \A r, x \in active : r.id = x.id => r = x
    BY <1>2 DEF RowsOK
  <2>. QED
    BY <2>1, <2>3, <2>4
<1>4. delta = SetToSeq(D)
  BY DEF ExportAvailability
<1>5. delta \in Seq(D) /\ ToSet(delta) = D
  <2>. HIDE DEF D, delta
  <2>1. delta \in Seq(D) /\ \A x \in D : \E i \in DOMAIN delta : delta[i] = x
    BY <1>3, <1>4, SetToSeqIs
  <2>. QED
    BY <2>1 DEF ToSet
<1>. HIDE DEF table, D, delta
<1>6. /\ entries \in Seq(E)
      /\ \A x : In(x, entries) <=> \E i \in DOMAIN delta : delta[i].status # None /\ x = Entry(delta[i])
  BY <1>5, EntriesAre
<1>7. \A x \in E : x.id # None
  BY <1>3 DEF NumbersTold, Entry
<1>. HIDE DEF entries, E
<1>8. SUFFICES ASSUME NEW encoding \in {"xml", "json"}, NEW d \in D, d.status \in Expressible
               PROVE  Heard(Joined(encoding).connectors, ToString(d.id), d.status)
  BY <1>5 DEF StatusesJoin, Base, Heard, table, delta, entries
<1>9. Joinable(Base(table, encoding).connectors)
  BY <1>1, BaseXml, BaseJson
<1>10. Updates(Statused(encoding).updates, entries, encoding)
  BY <1>6, <1>7, UpdatesXml, UpdatesJson
<1>. HIDE DEF Statused
<1>. DEFINE ups == Statused(encoding).updates
<1>11. PICK U : ups \in Seq(U)
  BY <1>10 DEF Updates
<1>12. \A u : u \in ToSet(ups) <=> In(u, ups)
  BY DEF ToSet, In
<1>13. ASSUME NEW u \in ToSet(ups), u.evse = ToString(d.id) PROVE u.status = d.status
  <2>1. PICK x : In(x, entries) /\ u.evse = x.id /\ u.status = Spoken(encoding, x.status)
    BY <1>10, <1>12 DEF Updates
  <2>2. PICK o \in D : x = Entry(o)
    BY <1>5, <1>6, <2>1
  <2>3. ToString(o.id) = ToString(d.id) /\ x.status = o.status
    BY <1>13, <2>1, <2>2 DEF Entry
  <2>4. o = d
    BY <1>3, <2>3 DEF NumbersTold
  <2>. QED
    BY <1>8, <2>1, <2>3, <2>4, SpokenAs
<1>14. \E u \in ToSet(ups) : u.evse = ToString(d.id)
  <2>1. d.status # None
    BY <1>8 DEF Expressible, None
  <2>2. \E i \in DOMAIN delta : delta[i] = d
    BY <1>5 DEF ToSet
  <2>3. In(Entry(d), entries)
    BY <1>6, <2>1, <2>2
  <2>4. Entry(d).id = ToString(d.id)
    BY DEF Entry
  <2>. QED
    BY <1>10, <1>12, <2>3, <2>4 DEF Updates
<1>. HIDE DEF Base
<1>. QED
  BY <1>9, <1>11, <1>13, <1>14, JoinIs

(* StatusesJoin: whatever passes, restarts and snapshots have made of the rows, *)
(* a consumer who joins the status file to the table by the id of the point has *)
(* each charger at its own status, in XML and in JSON.                     *)
THEOREM StatusesJoinHolds ==
  ASSUME NumbersTold
  PROVE  Spec => []StatusesJoin
<1>1. Spec => []JourneyInv
  BY JourneyInit, JourneyNext, PTL DEF Spec
<1>2. JourneyInv => StatusesJoin
  BY InvStatusesJoin
<1>. QED
  BY <1>1, <1>2, PTL
=============================================================================

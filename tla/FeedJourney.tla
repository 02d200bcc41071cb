------------------------------ MODULE FeedJourney ------------------------------
(***************************************************************************)
(* From a publisher's document to the open dataset and back: what becomes  *)
(* of a source's points in the database and in the published files         *)
(* (internal/ingest, internal/store, internal/export).                     *)
(*                                                                         *)
(* A publisher has points with statuses and offers, and writes them in the *)
(* form of its feed; Document stands for that.  A pass is one step here:   *)
(* PollPass models what may come between its statements.                   *)
(***************************************************************************)
EXTENDS NationalFeeds

CONSTANTS
  Sources,            \* the sources polled
  Forms,              \* which of them may be enabled, with which forms: functions on Sources' subsets
  Registers,          \* forms of the blanket, location-only registers
  CompleteLists,      \* forms that list every charger on every pass
  Country,            \* of a source
  Near,               \* pairs of places within 40 metres
  Rates,              \* euro for 100 units of a currency
  Worlds, Opening,    \* the states a source's publisher may be in; the first
  Listing(_, _),      \* the points of a form in a world
  Document(_, _, _),  \* what a fetch returns: form, world, whether a part fails
  MaxEdits            \* bound: changes of the worlds

\* "XX" is the bucket of the rows without a country, and of no other.
ASSUME JourneyAssumption ==
  /\ IsFiniteSet(Sources) /\ \A f \in Forms : DOMAIN f \subseteq Sources
  /\ \A s \in Sources : Opening \in Worlds[s] /\ Country[s] # "XX"
  /\ ChunkRows \in Nat \ {0}

VARIABLES
  form, world, edits, \* the publishers
  rows,               \* tables charger, charger_status and the open tariff_version
  priceSigs,          \* Engine.sigCache of the price and the availability passes
  statusSigs,
  dedup,              \* how far RecomputeSuperseded has come
  read                \* history: the world of the last complete price pass

vars == <<form, world, edits, rows, priceSigs, statusSigs, dedup, read>>

NoWorld == "unread"

Init ==
  /\ form \in Forms
  /\ world = [s \in Sources |-> Opening]
  /\ edits = 0
  /\ rows = {}
  /\ priceSigs = [s \in Sources |-> << >>]
  /\ statusSigs = [s \in Sources |-> << >>]
  /\ dedup = "idle"
  /\ read = [s \in Sources |-> NoWorld]

Edit(s, w) ==
  /\ edits < MaxEdits /\ w # world[s]
  /\ edits' = edits + 1
  /\ world' = [world EXCEPT ![s] = w]
  /\ UNCHANGED <<form, rows, priceSigs, statusSigs, dedup, read>>

-----------------------------------------------------------------------------
(* Reading a publisher.                                                    *)

FormNames == UNION {{f[s] : s \in DOMAIN f} : f \in Forms}
Enabled == DOMAIN form
AllWorlds == UNION {Worlds[s] : s \in Sources}

\* What a fetch comes to: of a form in a world, whether a part fails, of an
\* availability or a price pass.
Fetched == [f \in FormNames, w \in AllWorlds, failing, statuses \in BOOLEAN |->
              Read(Document(f, w, failing), statuses)]

\* A reader returns a list of connectors, and no tariff with an element that
\* charges for nothing.
Whole(t) == \A i \in DOMAIN t.elements : t.elements[i].comps # << >>
ASSUME ReadersAssumption ==
  \A f \in FormNames, w \in AllWorlds, failing, statuses \in BOOLEAN :
    LET got == Fetched[f, w, failing, statuses]
    IN  ~got.failed => /\ got.connectors \in Seq(ToSet(got.connectors))
                       /\ \A id \in DOMAIN got.tariffs : Whole(got.tariffs[id])

\* The points behind it.
Listed == [f \in FormNames, w \in AllWorlds |-> ToSet(Listing(f, w))]

-----------------------------------------------------------------------------
(* Writing a connector.                                                    *)

Of(all, s) == {r \in all : r.cpo = s}
Key(c) == <<c.evse, c.connector>>
Matching(all, s, c) == {r \in all : r.cpo = s /\ Key(r) = Key(c)}

\* Identity and status are overwritten; a new row is in service.
UpsertConnector(all, s, c) ==
  LET old == Matching(all, s, c)
      kept == IF old # {} THEN CHOOSE r \in old : TRUE
              ELSE [id |-> Cardinality(all) + 1, tariff |-> NoTariff, headline |-> Unset,
                    prices |-> << >>, versions |-> 0, retired |-> FALSE, superseded |-> FALSE]
  IN  (all \ old) \cup
      {[id |-> kept.id, cpo |-> s, country |-> Country[s], evse |-> c.evse, connector |-> c.connector,
        place |-> c.place, power |-> c.power, plug |-> c.plug, current |-> c.current,
        name |-> c.name, status |-> c.status, tariff |-> kept.tariff, headline |-> kept.headline,
        prices |-> kept.prices, versions |-> kept.versions, retired |-> kept.retired,
        superseded |-> kept.superseded]}

\* Euro figures, or none when the currency cannot be converted.
Convertible(t, fx) == t.currency = "EUR" \/ fx
EuroOf(amount, currency) ==
  IF currency = "EUR" THEN amount ELSE (amount * Rates[currency]) \div 100
EuroPrices(t, r, fx) ==
  LET all == AllPrices(t, r.power, r.current)
      headline == Headline(t, r.power, r.current)
  IN  IF ~Convertible(t, fx) THEN [headline |-> Unset, prices |-> << >>]
      ELSE [headline |-> IF headline = Unset THEN Unset ELSE EuroOf(headline, t.currency),
            prices |-> [k \in DOMAIN all |-> EuroOf(all[k], t.currency)]]

ProcessTariff_ById(r, t, fx) ==
  LET euro == EuroPrices(t, r, fx)
  IN  IF r.tariff.id # t.id
        THEN [r EXCEPT !.tariff = t, !.versions = @ + 1, !.headline = euro.headline, !.prices = euro.prices]
      ELSE r
ProcessTariff_AsWritten(r, t, fx) ==
  LET euro == EuroPrices(t, r, fx)
  IN  IF r.tariff # t
        THEN [r EXCEPT !.tariff = t, !.versions = @ + 1, !.headline = euro.headline, !.prices = euro.prices]
      ELSE r
\* A new content opens a version; of a known one missing figures are filled.
ProcessTariff(r, t, fx) ==
  LET euro == EuroPrices(t, r, fx)
  IN  IF Hash(r.tariff) # Hash(t)
        THEN [r EXCEPT !.tariff = t, !.versions = @ + 1, !.headline = euro.headline, !.prices = euro.prices]
      ELSE IF r.headline = Unset /\ t.currency # "EUR" THEN [r EXCEPT !.headline = euro.headline, !.prices = euro.prices]
      ELSE r
CloseCurrentTariff(r) == [r EXCEPT !.tariff = NoTariff, !.headline = Unset, !.prices = << >>]

\* What a pass remembers of a connector.
TariffIn(c, tariffs) == IF c.tariff \in DOMAIN tariffs THEN tariffs[c.tariff] ELSE NoTariff
ConnectorSig(c, t) ==
  <<c.evse, c.connector, c.status, c.power, c.plug, c.current, c.name, c.place, c.tariff, Hash(t)>>
AvailabilitySig(c) == c.status

Signed(sigs, c, sig) == Key(c) \in DOMAIN sigs /\ sigs[Key(c)] = sig

-----------------------------------------------------------------------------
(* Passes.                                                                 *)

\* One connector of a price pass; closes says that the pass got some tariff
\* from a source that lists all it has.
ApplyFull(s, got, closes, fx, all, c) ==
  LET t == TariffIn(c, got.tariffs)
      up == UpsertConnector(all, s, c)
      r == CHOOSE x \in Matching(up, s, c) : TRUE
      done == IF t # NoTariff THEN ProcessTariff(r, t, fx)
              ELSE IF closes THEN CloseCurrentTariff(r) ELSE r
  IN  IF Signed(priceSigs[s], c, ConnectorSig(c, t)) THEN all ELSE (up \ {r}) \cup {done}

\* Absent chargers leave service and listed ones return, unless the feed is
\* suspiciously small.
ReconcileRetired(s, listed, all) ==
  LET active == {r \in Of(all, s) : ~r.retired}
      seen == {Key(listed[i]) : i \in DOMAIN listed}
  IN  IF form[s] \notin CompleteLists \/ listed = << >> \/ Len(listed) * 2 < Cardinality(active)
        THEN all
        ELSE {r \in all : r.cpo # s} \cup {[r EXCEPT !.retired = Key(r) \notin seen] : r \in Of(all, s)}

\* What a pass leaves remembered: of a key listed twice the last.
LastOf(conns, k) == conns[Max({i \in DOMAIN conns : Key(conns[i]) = k})]
Keys(conns) == {Key(conns[i]) : i \in DOMAIN conns}
PriceSigs(conns, tariffs) ==
  [k \in Keys(conns) |-> ConnectorSig(LastOf(conns, k), TariffIn(LastOf(conns, k), tariffs))]
StatusSigs(conns) == [k \in Keys(conns) |-> AvailabilitySig(LastOf(conns, k))]

\* A mark is fresh until the next pass.
Outdated == dedup' = IF dedup = "marked" THEN "idle" ELSE dedup

\* Without exchange rates only foreign tariffs fare differently.
Foreign(tariffs) == \E id \in DOMAIN tariffs : tariffs[id].currency # "EUR"

TakePrices(s, got, fx) ==
  LET closes == form[s] \in CompleteLists /\ DOMAIN got.tariffs # {}
      apply(all, c) == ApplyFull(s, got, closes, fx, all, c)
  IN  /\ ~got.failed /\ (fx \/ Foreign(got.tariffs))
      /\ rows' = ReconcileRetired(s, got.connectors, FoldLeft(apply, rows, got.connectors))
      /\ priceSigs' = [priceSigs EXCEPT ![s] = PriceSigs(got.connectors, got.tariffs)]

RunPrices(s, failing, fx) ==
  /\ TakePrices(s, Fetched[form[s], world[s], failing, FALSE], fx)
  /\ read' = [read EXCEPT ![s] = IF failing THEN NoWorld ELSE world[s]]
  /\ Outdated
  /\ UNCHANGED <<form, world, edits, statusSigs>>

TakeStatuses_UnknownFree(s, got) ==
  LET free(c) == [c EXCEPT !.status = IF @ = "UNKNOWN" THEN "AVAILABLE" ELSE @]
      apply(all, c) ==
        IF Signed(statusSigs[s], c, AvailabilitySig(c)) THEN all ELSE UpsertConnector(all, s, free(c))
  IN  /\ ~got.failed
      /\ rows' = FoldLeft(apply, rows, got.connectors)
      /\ statusSigs' = [statusSigs EXCEPT ![s] = StatusSigs(got.connectors)]
TakeStatuses(s, got) ==
  LET apply(all, c) ==
        IF Signed(statusSigs[s], c, AvailabilitySig(c)) THEN all ELSE UpsertConnector(all, s, c)
  IN  /\ ~got.failed
      /\ rows' = FoldLeft(apply, rows, got.connectors)
      /\ statusSigs' = [statusSigs EXCEPT ![s] = StatusSigs(got.connectors)]

RunAvailability(s, failing) ==
  /\ TakeStatuses(s, Fetched[form[s], world[s], failing, TRUE])
  /\ Outdated
  /\ UNCHANGED <<form, world, edits, priceSigs, read>>

-----------------------------------------------------------------------------
(* Snapshots.                                                              *)

\* RecomputeSuperseded: the flags of an earlier round are taken back, then a
\* register's row next to a row of a richer source is flagged.  Either
\* statement may fail, which is only logged, and passes may come in between;
\* so what a snapshot reads are the rows of any state.
Richer(all) == {r \in all : form[r.cpo] \notin Registers}
Covered(r, all) ==
  form[r.cpo] \in Registers /\ \E x \in Richer(all) : <<x.place, r.place>> \in Near /\ x.plug = r.plug

ClearSuperseded ==
  /\ rows' = {[r EXCEPT !.superseded = FALSE] : r \in rows}
  /\ dedup' = "cleared"
  /\ UNCHANGED <<form, world, edits, priceSigs, statusSigs, read>>

MarkSuperseded ==
  /\ dedup = "cleared"
  /\ rows' = {[r EXCEPT !.superseded = @ \/ Covered(r, rows)] : r \in rows}
  /\ dedup' = "marked"
  /\ UNCHANGED <<form, world, edits, priceSigs, statusSigs, read>>

\* ExportStream: by country; within one any order serves here.
ExportStream(all) ==
  LET shown == {r \in all : ~r.superseded /\ ~r.retired}
      countries == SetToSeq({Country[s] : s \in Sources})
  IN  FlattenSeq([i \in DOMAIN countries |-> SetToSeq({r \in shown : r.country = countries[i]})])

ExportAvailability(all) == SetToSeq({[id |-> r.id, evse |-> r.evse, status |-> r.status] :
                                       r \in {x \in all : ~x.retired}})

\* The ingest process starts anew.
Restart ==
  /\ priceSigs' = [s \in Sources |-> << >>]
  /\ statusSigs' = [s \in Sources |-> << >>]
  /\ UNCHANGED <<form, world, edits, rows, dedup, read>>

Next ==
  \/ \E s \in Enabled : \/ \E w \in Worlds[s] : Edit(s, w)
                        \/ \E failing, fx \in BOOLEAN : RunPrices(s, failing, fx)
                        \/ \E failing \in BOOLEAN : RunAvailability(s, failing)
  \/ ClearSuperseded \/ MarkSuperseded \/ Restart

Spec == Init /\ [][Next]_vars
-----------------------------------------------------------------------------
(* Properties.                                                             *)

RowsOf(p, s) == {r \in rows : r.cpo = s /\ r.evse = p.id /\ ~r.retired}
PointsRead(s) == IF read[s] = NoWorld THEN {} ELSE Listed[form[s], read[s]]
PointsNow(s) == Listed[form[s], world[s]]

TypeOK ==
  /\ \A s \in Sources : world[s] \in Worlds[s] /\ read[s] \in Worlds[s] \cup {NoWorld}
  /\ \A r \in rows :
       /\ r.cpo \in Sources /\ r.retired \in BOOLEAN /\ r.superseded \in BOOLEAN
       /\ Whole(r.tariff)
       /\ \A other \in rows : other.id = r.id \/ <<other.cpo, Key(other)>> = <<r.cpo, Key(r)>> => other = r

(* What an offer comes to for so much energy in so many minutes.           *)
Cost(o, kwh, minutes) ==
  (o.energy * kwh) \div 100 + o.start
  + (IF minutes > o.grace THEN (o.hour * (minutes - o.grace)) \div 60 ELSE 0)
SessionCost(o, s) == Cost(o, s.kwh, (s.kwh * 60) \div (s.avg * 100))
TenToEighty(p) ==
  [kwh |-> (4200 * 100) \div (IF p.dc THEN 94 ELSE 89), avg |-> IF p.dc THEN (p.kw * 73) \div 100 ELSE p.kw]

(* What a list quotes for its connectors, and what the last complete price *)
(* pass was quoted.                                                        *)
Quoting(got) ==
  IF got.failed THEN {} ELSE {[c |-> c, t |-> TariffIn(c, got.tariffs)] : c \in ToSet(got.connectors)}
Quotes == [x \in FormNames \X AllWorlds \X BOOLEAN |-> Quoting(Fetched[x[1], x[2], x[3], FALSE])]
QuotesOf(f) == UNION {Quotes[x] : x \in {f} \X AllWorlds \X BOOLEAN}
QuotesFor(f, w, p) == {x \in Quotes[f, w, FALSE] : x.c.evse = p.id}
QuotesRead(f, w) == IF w = NoWorld THEN {} ELSE Quotes[f, w, FALSE]
Unpriced(x) == x.t = NoTariff

\* The connectors a form never quotes twice differently in one list, and those
\* whose quotes cost alike when they hash alike: not of another power, nor
\* with overlapping elements in another order.
KeysOf(Q) == {Key(x.c) : x \in Q}
Twice(Q) == {x \in Q : \E y \in Q : Key(x.c) = Key(y.c) /\ x.t # y.t}
Untold(Q) == {x \in Q : \E y \in Q : /\ Key(x.c) = Key(y.c) /\ ~Unpriced(x) /\ Hash(x.t) = Hash(y.t)
                                      /\ \E fx \in BOOLEAN : EuroPrices(x.t, x.c, fx) # EuroPrices(y.t, y.c, fx)}
OncePriced(f) ==
  KeysOf(QuotesOf(f)) \ UNION {KeysOf(Twice(Quotes[x])) : x \in {f} \X AllWorlds \X BOOLEAN}
HashTold(f) == KeysOf(QuotesOf(f)) \ KeysOf(Untold(QuotesOf(f)))

(* "Every other source we ingest quotes tax-inclusive ad-hoc prices"       *)
(* (fintraffic.go): in whichever form an offer is published (net or gross, *)
(* per minute or per hour, by point, station or status, in tiers or time   *)
(* bands), what is stored for a connector after a complete price pass is   *)
(* what a driver pays in euros, for the headline and for every session;    *)
(* and a charger whose statements price nothing never looks free (afir.go, *)
(* usableComponents).  It is not claimed of a connector that a list quotes *)
(* twice (OncePriced), nor where the hash does not tell prices apart       *)
(* (HashTold): those may keep an older figure.                             *)
Figures(e, p) ==
  LET o == p.offer
  IN  \/ e.headline = Unset /\ o.currency # "EUR"
      \/ /\ e.headline = EuroOf(SessionCost(o, TenToEighty(p)), o.currency)
         /\ \A k \in DOMAIN e.prices :
              e.prices[k] = EuroOf(SessionCost(o, Profiles[k]), o.currency)
PricedAs(r, p) == r.tariff # NoTariff /\ Figures(r, p)
HasOffer(p) == p.offer.energy # Unset
NeverGivenAway == \A r \in rows : r.headline # 0
ChargedAsOffered ==
  /\ \A s \in Enabled : \A p \in PointsRead(s), x \in QuotesRead(form[s], read[s]) : \A r \in RowsOf(p, s) :
       HasOffer(p) /\ Key(r) = Key(x.c) =>
         PricedAs(r, p) \/ Key(r) \notin OncePriced(form[s]) \cap HashTold(form[s])
  /\ NeverGivenAway

(* "independent of element ordering" (Tariff.Hash): a connector that the   *)
(* next pass quotes with the same elements in another order, under         *)
(* whatever tariff id, opens no version.  The components within an element *)
(* keep their order: turning those round does open one.                    *)
Times(e, t) == Cardinality({i \in DOMAIN t.elements : t.elements[i] = e})
Reordered(t, u) ==
  /\ t.currency = u.currency /\ ToSet(t.elements) = ToSet(u.elements)
  /\ \A e \in ToSet(t.elements) : Times(e, t) = Times(e, u)
RestatedQuietly ==
  [][\A s \in Enabled : \A x \in QuotesRead(form[s], read[s]), y \in QuotesRead(form[s], read'[s]) :
       Key(x.c) = Key(y.c) =>
         \A r \in Matching(rows, s, x.c), n \in Of(rows, s)' : r.id = n.id /\ r.versions # n.versions =>
           ~Reordered(x.t, y.t) \/ Key(x.c) \notin OncePriced(form[s])]_vars

(* A point turns AVAILABLE only when its publisher says it is free, and not*)
(* by a statement that has gone stale (irve.go, eipa.go).                  *)
Dated == {"irve", "eipa"}
SaidFree(s, evse) ==
  \E p \in PointsNow(s) : p.id = evse /\ p.status = "AVAILABLE" /\ (form[s] \in Dated => p.age <= 36)
NeverFalselyFree ==
  [][\A n \in rows' \ rows :
       n.status = "AVAILABLE" /\ (\A r \in rows : r.id = n.id => r.status # "AVAILABLE")
         => SaidFree(n.cpo, n.evse)]_vars

(* The half of the two above that is the readers' (normalize.go, afir.go,  *)
(* irve.go and the others), whatever the rows hold: a point is called free *)
(* when its publisher says so; a price is never nothing; and an offer is   *)
(* read at its price.                                                      *)
TellsFree(f) ==
  \A w \in AllWorlds, failing, statuses \in BOOLEAN :
    LET got == Fetched[f, w, failing, statuses]
    IN  ~got.failed => \A c \in ToSet(got.connectors) : c.status = "AVAILABLE" =>
          \E p \in Listed[f, w] : p.id = c.evse /\ p.status = "AVAILABLE" /\ (f \in Dated => p.age <= 36)
QuotesSomething(f) ==
  \A x \in QuotesOf(f) : ~Unpriced(x) =>
    Hash(x.t) # Hash(NoTariff) /\ \A fx \in BOOLEAN : EuroPrices(x.t, x.c, fx).headline # 0
ReadsOffer(f) ==
  \A w \in AllWorlds : \A p \in Listed[f, w] : \A x \in QuotesFor(f, w, p) :
    HasOffer(p) /\ Key(x.c) \in OncePriced(f) =>
      ~Unpriced(x) /\ \A fx \in BOOLEAN : Figures(EuroPrices(x.t, x.c, fx), p)

Honest(f) == TellsFree(f) /\ QuotesSomething(f) /\ ReadsOffer(f)
ReadersHonest == \A f \in FormNames : Honest(f)

(* Whoever reads a published file prices a charger as the database does:   *)
(* exactly from OCPI and the JSON profile, to the cent from XML.  OCPI and *)
(* DATEX cannot express a grace period, DATEX no restrictions.             *)
Graceless(r) == \A i \in DOMAIN r.tariff.elements :
                  \A j \in DOMAIN r.tariff.elements[i].comps : r.tariff.elements[i].comps[j].after = 0
Plain(r) == Graceless(r) /\ Len(r.tariff.elements) = 1
Priced(r) == r.tariff # NoTariff
ReadBack(got, evse, n) ==
  LET c == Head(SelectSeq(got.connectors, LAMBDA x : x.evse = evse /\ x.connector = n))
  IN  IF c.tariff = None THEN Unset ELSE Headline(got.tariffs[c.tariff], c.power, c.current)
Stored(r) == Headline(r.tariff, r.power, r.current)
Within1Cent(a, b) == a # Unset /\ a - b < 100 * 60 /\ b - a < 100 * 60    \* per kWh or minute
MirrorAgrees ==
  LET table == ExportStream(rows)
      written(encoding) == ParseAFIR(WriteTable(BuildAFIRTable(table), "us", encoding))
      files == Regions(table)
  IN  /\ \A r \in ToSet(table) : Priced(r) /\ Plain(r) =>
           /\ ReadBack(written("json"), ToString(r.id), 1) = Stored(r)
           /\ Within1Cent(ReadBack(written("xml"), ToString(r.id), 1), Stored(r))
      /\ \A f \in DOMAIN files : LET dump == BuildOCPI(files[f].rows)
                                     got == FromOCPI(dump.locations, dump.tariffs)
                                 IN  \A r \in ToSet(files[f].rows) : Priced(r) /\ Graceless(r) =>
                                       ReadBack(got, r.evse, r.connector) = Stored(r)

(* The table and the status file of one moment, which a consumer joins (export/datex.go: "the   *)
(* consumer joins by refill-point id") give every charger its own status,  *)
(* of those the publication has a word for.                                *)
Expressible == {"AVAILABLE", "CHARGING", "OUTOFORDER", "UNKNOWN"}
StatusesJoin ==
  \A encoding \in {"xml", "json"} :
    LET base == ParseAFIR(WriteTable(BuildAFIRTable(ExportStream(rows)), "us", encoding))
        delta == ExportAvailability(rows)
        statuses == ParseAFIR(WriteStatus(BuildAFIRStatus(delta), "us", encoding))
        joined == JoinStatuses(base, statuses)
    IN  \A i \in DOMAIN joined.connectors, d \in ToSet(delta) :
          joined.connectors[i].evse = ToString(d.id) /\ d.status \in Expressible =>
            joined.connectors[i].status = d.status

(* Every row of a snapshot is in one region file of its country and no file*)
(* is larger than a chunk, wherever the stream changes country or ends;    *)
(* the rows are well-formed, one for each charger (TypeOK).                *)
DumpWhole ==
  LET table == ExportStream(rows)
      files == Regions(table)
  IN  /\ TypeOK
      /\ FlattenSeq([f \in DOMAIN files |-> files[f].rows]) = table
      /\ \A f \in DOMAIN files : /\ Len(files[f].rows) \in 1..ChunkRows
                                 /\ \A r \in ToSet(files[f].rows) : r.country = Head(files[f].rows).country
      /\ \A f, g \in DOMAIN files : files[f].key = files[g].key => f = g

(* "so the open dumps don't double-count chargers that several feeds cover"*)
(* (dedup.go): a register's row is left out when a richer source "covers   *)
(* the same spot".  A charger that left service covers nothing: after a    *)
(* recomputation that came through, a listed charger of a register is      *)
(* shown, or one that is in service covers it.                             *)
Listings == {r \in rows : form[r.cpo] \in Registers /\ ~r.retired}
Exported(r) == \E i \in DOMAIN ExportStream(rows) : ExportStream(rows)[i].id = r.id
SpotKept ==
  dedup = "marked" => \A r \in Listings : Exported(r) \/ Covered(r, {x \in rows : ~x.retired})

=============================================================================

---------------------------- MODULE NationalFeeds ----------------------------
(***************************************************************************)
(* What the readers of national registers and paired publications make of  *)
(* them: internal/{fintraffic,eipa,econtrol,oicp,irve,bnetza,ecomovement}, *)
(* the older DATEX profile, and the joins of internal/ingest/feed.go and   *)
(* mobilithek.go.                                                          *)
(*                                                                         *)
(* A document holds what was fetched; a part that could not be fetched is  *)
(* Unavailable.  Prices are ticks (a hundredth of a cent), ages are hours. *)
(***************************************************************************)
EXTENDS OpenDump

CONSTANTS TolerablePercent,  \* requests of an E-Control level that may fail (5)
          Unavailable        \* a part that was not fetched

\* What a fetch delivers to a pass.
Delivered(connectors, tariffs) ==
  [failed |-> FALSE, connectors |-> connectors, tariffs |-> tariffs]
Failed == [failed |-> TRUE, connectors |-> << >>, tariffs |-> << >>]
NoTariffs == << >>

Tariff1(id, currency, comps) == Tariff(id, currency, <<Element(comps, Always)>>)
Located(items) == SelectSeq(items, LAMBDA x : x.place # None)

\* Every register has one cpo_id, so its operator goes into the name.
Label(operator, site) ==
  IF operator # None /\ site # None THEN operator \o " - " \o site ELSE FirstOf(<<site, operator>>)

\* A point may list many plugs; the one that defines it most is kept.
PlugRank(std) ==
  CASE std = "IEC_62196_T2_COMBO"                                                 -> 6
    [] std = "IEC_62196_T1_COMBO"                                                 -> 5
    [] std = "CHADEMO"                                                            -> 4
    [] std \in {"TESLA_S", "TESLA_R"}                                             -> 3
    [] std \in {"IEC_62196_T2", "IEC_62196_T1", "IEC_62196_T3C", "IEC_62196_T3A"} -> 2
    [] OTHER                                                                      -> 1
BestPlug(plugs) ==
  LET given == SelectSeq(plugs, LAMBDA p : p # None)
  IN  IF given = << >> THEN None
      ELSE FoldLeft(LAMBDA best, p : IF PlugRank(p) > PlugRank(best) THEN p ELSE best,
                    Head(given), given)

DcPlugs == {"IEC_62196_T2_COMBO", "IEC_62196_T1_COMBO", "CHADEMO"}
CurrentOf(types, plug) ==
  IF "DC" \in types \/ (types = {} /\ plug \in DcPlugs) THEN "DC" ELSE "AC"

\* Status words of the registers, as one vocabulary.
StatusIn(words, s) ==
  IF \E k \in DOMAIN words : s \in words[k] THEN CHOOSE k \in DOMAIN words : s \in words[k] ELSE "UNKNOWN"

\* A statement per point; a later one of a point replaces an earlier.
LastWord(statements) ==
  [id \in {statements[i].id : i \in DOMAIN statements} \ {None} |->
     Last(SelectSeq(statements, LAMBDA s : s.id = id)).status]

\* A point without a statement keeps the status it had.
WithStatus(connectors, status) ==
  [i \in DOMAIN connectors |->
     LET c == connectors[i]
     IN  IF c.evse \in DOMAIN status THEN [c EXCEPT !.status = status[c.evse]] ELSE c]

-----------------------------------------------------------------------------
(* FI, Fintraffic: OCPI in parts, prices mostly without tax.               *)

GrossTariff(t) ==
  LET gross(c) == IF t.taxIncluded = "NO" /\ t.vat > 0 THEN [c EXCEPT !.price = Nearest(@ * (1000 + t.vat), 1000)] ELSE c
  IN  Tariff(t.id, t.currency, [i \in DOMAIN t.elements |->
        [t.elements[i] EXCEPT !.comps = [j \in DOMAIN @ |-> gross(@[j])]]])

\* Connectors have no id of their own: they are numbered within their EVSE.
ToOCPI(locations, statuses) ==
  LET evse(e) == [uid |-> e.id, place |-> e.place,
                  status |-> IF e.id \in DOMAIN statuses THEN statuses[e.id] ELSE None,
                  connectors |-> [k \in DOMAIN e.connectors |-> [e.connectors[k] EXCEPT !.id = k]]]
  IN  [i \in DOMAIN locations |->
        LET l == locations[i]
        IN  [name |-> Label(l.operator, l.name), place |-> l.place,
             evses |-> [j \in DOMAIN l.evses |-> evse(l.evses[j])]]]

ReadFintraffic(doc) ==
  IF doc.locations = Unavailable \/ doc.statuses = Unavailable \/ doc.tariffs = Unavailable THEN Failed
  ELSE LET read == FromOCPI(ToOCPI(doc.locations, LastWord(doc.statuses)),
                            {GrossTariff(t) : t \in doc.tariffs})
       IN  Delivered(read.connectors, read.tariffs)

-----------------------------------------------------------------------------
(* PL, EIPA: a static and a dynamic half, zloty.                           *)

StatusMaxAge == 36
EipaStatus(s) ==
  IF s.age = Unset \/ s.age > StatusMaxAge THEN "UNKNOWN"
  ELSE IF ~s.ready THEN "OUTOFORDER" ELSE IF s.free THEN "AVAILABLE" ELSE "CHARGING"

\* An ad-hoc price, else the dearest; what is absurd or nothing is no price.
Ceiling(unit) == IF unit = "min" THEN 50000 ELSE 100000
PickPrice(prices, unit) ==
  LET sane == SelectSeq(prices, LAMBDA p : p.unit = unit /\ p.price > 0 /\ p.price <= Ceiling(unit))
      adHoc == SelectSeq(sane, LAMBDA p : p.adHoc)
  IN  IF adHoc # << >> THEN Head(adHoc).price
      ELSE FoldLeft(LAMBDA best, p : IF p.price > best THEN p.price ELSE best, 0, sane)

EipaComponents(prices) ==
  LET energy == PickPrice(prices, "kWh")
      minute == PickPrice(prices, "min")
  IN  (IF energy > 0 THEN <<Component("ENERGY", energy, 0)>> ELSE << >>)
      \o (IF minute > 0 THEN <<Component("TIME", Nearest(minute * 60, 100) * 100, 0)>> ELSE << >>)
EipaTariff(point) ==
  IF EipaComponents(point.prices) = << >> THEN NoTariff
  ELSE Tariff1(point.code, "PLN", EipaComponents(point.prices))

EipaPlug == ("IEC-62196-T2-F-NOCABLE" :> "IEC_62196_T2") @@ ("IEC-62196-T2-COMBO" :> "IEC_62196_T2_COMBO")
            @@ ("CHADEMO" :> "CHADEMO") @@ ("IEC-309-2-SINGLE-16" :> None)

SolutionPower(solutions) ==
  FoldLeft(LAMBDA best, s : IF s.power > best THEN s.power ELSE best, 0, solutions)

EipaConnectors(point) ==
  [i \in DOMAIN point.connectors |->
    LET c == point.connectors[i]
        plug == BestPlug([k \in DOMAIN c.interfaces |-> EipaPlug[c.interfaces[k]]])
        dc == plug \in DcPlugs \/ \E k \in DOMAIN point.solutions : point.solutions[k].dc
    IN  [Connector(point.code, i, FirstOf(<<point.place, point.pool>>),
                   IF c.power = 0 THEN SolutionPower(point.solutions) ELSE c.power,
                   plug, IF dc THEN "DC" ELSE "AC", Label(point.operator, point.site),
                   IF EipaTariff(point) = NoTariff THEN None ELSE point.code)
         EXCEPT !.status = EipaStatus(point.said)]]

\* Gas, suspended and non-charging sites are left out.
ReadEipa(doc) ==
  LET shown == SelectSeq(doc.points, LAMBDA p :
                 p.electric /\ ~p.suspended /\ p.charging /\ FirstOf(<<p.place, p.pool>>) # None)
      said(p) == [p EXCEPT !.said = doc.dynamic[p.code].said, !.prices = doc.dynamic[p.code].prices]
      points == [i \in DOMAIN shown |->
                   IF shown[i].code \in DOMAIN doc.dynamic THEN said(shown[i]) ELSE shown[i]]
  IN  IF doc.dynamic = Unavailable THEN Failed
      ELSE Delivered(FlattenSeq([i \in DOMAIN points |-> EipaConnectors(points[i])]),
                     Keyed([i \in DOMAIN points |->
                        IF points[i].connectors = << >> THEN NoTariff ELSE EipaTariff(points[i])]))

-----------------------------------------------------------------------------
(* AT, E-Control: a crawl of operators, stations and points; euro cents.   *)

TooManyFailed(failed, total) ==
  failed > 0 /\ (total = 0 \/ failed * 100 > total * TolerablePercent)
Answered(requests) == SelectSeq(requests, LAMBDA r : r # Unavailable)
Missed(requests) == Len(requests) - Len(Answered(requests))

EControlPlug == [CTYPE2 |-> "IEC_62196_T2", STYPE2 |-> "IEC_62196_T2", CCCS2 |-> "IEC_62196_T2_COMBO",
                 CG105 |-> "CHADEMO", CTESLA |-> "TESLA_S", PAN |-> None]
EControlWords == [AVAILABLE |-> {"AVAILABLE", "FREE"},
                  CHARGING |-> {"CHARGING", "OCCUPIED", "RESERVED", "BLOCKED"},
                  OUTOFORDER |-> {"OUTOFORDER", "OUT_OF_ORDER", "FAULTED", "INOPERATIVE", "UNAVAILABLE"}]

\* No amounts are no price unless the point says it is free; where it says
\* both, the amounts count.  A blocking fee is not part of a session.
MaxPricePerKWh == 30000
EControlComponents(p) ==
  LET amounts == SelectSeq(
        <<Component("ENERGY", IF p.kwh <= MaxPricePerKWh THEN p.kwh ELSE 0, 0),
          Component("TIME", Nearest(p.minute * 60, 100) * 100, 0),
          Component("FLAT", p.start, 0),
          Component("PARKING_TIME", Nearest(p.blocking * 60, 100) * 100, p.blockingFrom)>>,
        LAMBDA c : c.price > 0)
  IN  IF amounts = << >> /\ p.free THEN <<Component("ENERGY", 0, 0)>> ELSE amounts
EControlTariff(p) ==
  IF EControlComponents(p) = << >> THEN NoTariff ELSE Tariff1(p.id, "EUR", EControlComponents(p))

EControlConnector(station, p) ==
  LET plug == BestPlug([k \in DOMAIN p.plugs |-> EControlPlug[p.plugs[k]]])
  IN  [Connector(p.id, 1, FirstOf(<<p.place, station.place>>), p.power, plug,
                 CurrentOf(p.types, plug), Label(station.owner, station.label),
                 IF EControlTariff(p) = NoTariff THEN None ELSE p.id)
       EXCEPT !.status = StatusIn(EControlWords, p.status)]

\* Every operator's stations, then every active station's points.
ReadEControl(doc) ==
  LET stations == SelectSeq(FlattenSeq(Answered(doc.operators)), LAMBDA s : s.active)
      pages == [i \in DOMAIN stations |-> stations[i].points]
      points(i) == IF pages[i] = Unavailable THEN << >>
                   ELSE SelectSeq(pages[i], LAMBDA p : FirstOf(<<p.place, stations[i].place>>) # None)
  IN  IF \/ TooManyFailed(Missed(doc.operators), Len(doc.operators))
         \/ TooManyFailed(Missed(pages), Len(pages))
        THEN Failed
        ELSE Delivered(FlattenSeq([i \in DOMAIN stations |->
                         [k \in DOMAIN points(i) |-> EControlConnector(stations[i], points(i)[k])]]),
                       Keyed(FlattenSeq([i \in DOMAIN stations |->
                         [k \in DOMAIN points(i) |-> EControlTariff(points(i)[k])]])))

-----------------------------------------------------------------------------
(* CH, OICP: data and status, no prices.                                   *)

OicpPlug == ("Type 2 Outlet" :> "IEC_62196_T2") @@ ("CCS Combo 2 Plug (Cable Attached)" :> "IEC_62196_T2_COMBO")
            @@ ("CHAdeMO" :> "CHADEMO") @@ ("Type J Swiss Standard" :> "DOMESTIC_J")
            @@ ("Unspecified" :> None)
OicpWords == [AVAILABLE |-> {"Available"}, CHARGING |-> {"Occupied", "Reserved"}, OUTOFORDER |-> {"OutOfService"}]

\* The stated power, else voltage times current.
FacilityKW(f) ==
  IF f.power > 0 THEN f.power
  ELSE (f.voltage * f.amperage * (IF f.type = "AC_3_PHASE" THEN 3 ELSE 1)) \div 1000
NoFacility == [power |-> 0, voltage |-> 0, amperage |-> 0, type |-> None]
BestFacility(fs) ==
  FoldLeft(LAMBDA best, f : IF FacilityKW(f) > FacilityKW(best) THEN f ELSE best, NoFacility, fs)

OicpConnector(r) ==
  LET f == BestFacility(r.facilities)
      plug == BestPlug([k \in DOMAIN r.plugs |-> OicpPlug[r.plugs[k]]])
  IN  Connector(r.id, 1, r.place, FacilityKW(f), plug,
                CurrentOf({f.type} \ {None}, plug), Label(r.operator, r.site), None)

ReadOicp(doc) ==
  LET open == SelectSeq(Located(doc.data), LAMBDA r : r.access \notin {"Restricted access", "Test Station"})
      said == LastWord([i \in DOMAIN doc.statuses |->
                [doc.statuses[i] EXCEPT !.status = StatusIn(OicpWords, @)]])
      conns == [i \in DOMAIN open |-> OicpConnector(open[i])]
  IN  IF doc.data = Unavailable \/ doc.statuses = Unavailable THEN Failed
      ELSE Delivered(WithStatus(conns, said), NoTariffs)

-----------------------------------------------------------------------------
(* FR, IRVE: a static base and a file of statements, the freshest of a     *)
(* point not older than DynamicMaxAge counting.                            *)

DynamicMaxAge == 36
IrveStatus(r) ==
  IF r.state = "hors_service" THEN "OUTOFORDER"
  ELSE CASE r.occupation = "libre"                 -> "AVAILABLE"
         [] r.occupation \in {"occupe", "reserve"} -> "CHARGING"
         [] OTHER                                  -> "UNKNOWN"

ParseDynamic(rows) ==
  LET usable == SelectSeq(rows, LAMBDA r : r.id # None /\ r.age <= DynamicMaxAge)
      best(id) == FoldLeft(LAMBDA b, r : IF b.age <= r.age THEN b ELSE r,
                           Head(SelectSeq(usable, LAMBDA r : r.id = id)),
                           SelectSeq(usable, LAMBDA r : r.id = id))
  IN  [id \in {usable[i].id : i \in DOMAIN usable} |-> IrveStatus(best(id))]

IrvePlug(p) ==
  CASE "combo_ccs" \in p.plugs -> "IEC_62196_T2_COMBO"
    [] "chademo" \in p.plugs   -> "CHADEMO"
    [] "type_2" \in p.plugs    -> "IEC_62196_T2"
    [] "ef" \in p.plugs        -> "DOMESTIC_F"
    [] OTHER                   -> None

\* More than 1000 kW are watts.
IrveKW(power) == IF power > 1000 THEN power \div 1000 ELSE power
IrveId(p, row) ==
  IF FirstOf(<<p.id, p.local>>) # None THEN FirstOf(<<p.id, p.local>>) ELSE p.station \o "-" \o ToString(row)

IrveBase(static) ==
  FlattenSeq([i \in DOMAIN static |->
    LET p == static[i]
        plug == IrvePlug(p)
    IN  IF p.place = None THEN << >>
        ELSE <<Connector(IrveId(p, i), 1, p.place, IrveKW(p.power), plug,
                         IF plug \in DcPlugs THEN "DC" ELSE "AC", Label(p.operator, p.site), None)>>])

\* An identity pass does without the statements, an availability pass not.
ReadIrve(doc, dynamicRequired) ==
  IF doc.dynamic # Unavailable
    THEN Delivered(WithStatus(IrveBase(doc.static), ParseDynamic(doc.dynamic)), NoTariffs)
    ELSE IF dynamicRequired THEN Failed ELSE Delivered(IrveBase(doc.static), NoTariffs)

-----------------------------------------------------------------------------
(* DE, BNetzA, and the older DATEX profile: places only.                   *)

\* Plug texts are free; these are the ones the register uses.
BnetzaPlug == ("AC Typ 2 Steckdose" :> <<"IEC_62196_T2", "AC">>) @@ ("DC Typ 2" :> <<"IEC_62196_T2", "DC">>)
              @@ ("DC Kupplung Combo" :> <<"IEC_62196_T2_COMBO", "DC">>) @@ ("DC CHAdeMO" :> <<"CHADEMO", "DC">>)
              @@ ("AC Schuko" :> <<"DOMESTIC_F", "AC">>) @@ ("DC Tesla" :> <<"IEC_62196_T2_COMBO", "DC">>)

\* One row per station, with up to six plugs; an empty register is an error.
BnetzaConnectors(r) ==
  FlattenSeq([n \in DOMAIN r.plugs |->
    IF r.plugs[n].text = None THEN << >>
    ELSE <<Connector(r.id, n, r.place, IF r.plugs[n].power = Unset THEN r.power ELSE r.plugs[n].power,
                     BnetzaPlug[r.plugs[n].text][1], BnetzaPlug[r.plugs[n].text][2],
                     Label(r.operator, r.site), None)>>])
ReadBnetza(doc) ==
  LET rows == Located(doc.rows)
      conns == FlattenSeq([i \in DOMAIN rows |-> BnetzaConnectors(rows[i])])
  IN  IF conns = << >> THEN Failed ELSE Delivered(conns, NoTariffs)

\* The roaming id, else a name that looks like one, else the id attribute.
LegacyUid(p) == FirstOf(<<p.external, IF p.roamingName THEN p.name ELSE None, p.id>>)
ReadLegacy(doc) ==
  LET all == Points(doc.sites)
  IN  Delivered([i \in DOMAIN all |->
        LET x == all[i]
        IN  Connector(LegacyUid(x.point), 1, FirstOf(<<x.site.place, x.site.entrance>>),
                      x.point.power \div 1000, x.point.plug,
                      IF x.point.mode \in {"mode4", "dc"} THEN "DC" ELSE "AC",
                      Label(x.site.operator, x.site.name), None)], NoTariffs)

-----------------------------------------------------------------------------
(* A table and a status publication, polled or pulled (XML).               *)

\* The status publication wins for what it states; one that states a price
\* that prices nothing leaves the table's price standing.
JoinUpdate(read, u) ==
  LET here(c) == c.evse = u.evse
      conns == [i \in DOMAIN read.connectors |->
                 LET c == read.connectors[i]
                 IN  IF ~here(c) THEN c
                     ELSE [c EXCEPT !.status = u.status,
                             !.tariff = IF u.tariff # NoTariff /\ @ = None THEN c.evse ELSE @]]
      priced == {conns[i].tariff : i \in {j \in DOMAIN conns : here(conns[j])}}
  IN  [read EXCEPT !.connectors = conns,
         !.tariffs = IF u.tariff = NoTariff THEN @ ELSE [id \in priced |-> u.tariff] @@ @]

JoinStatuses(table, status) ==
  FoldLeft(JoinUpdate, Delivered(table.connectors, table.tariffs), status.updates)

\* An AFIR pair fails without its status and drops points without a place.
ReadPair(doc) ==
  IF doc.table = Unavailable \/ doc.status = Unavailable THEN Failed
  ELSE LET read == JoinStatuses(ReadXml(doc.table), ReadXml(doc.status))
       IN  [read EXCEPT !.connectors = Located(@)]

\* A Mobilithek pull makes do with the table.
ReadPull(doc) ==
  CASE doc.table = Unavailable  -> Failed
    [] doc.status = Unavailable -> Delivered(ReadXml(doc.table).connectors, ReadXml(doc.table).tariffs)
    [] OTHER                    -> JoinStatuses(ReadXml(doc.table), ReadXml(doc.status))

-----------------------------------------------------------------------------
(* BE, Eco-Movement: pages of JSON, each a table and its statuses; the same*)
(* EVSE may be listed twice.                                               *)

\* A connector's own id is its refill point's until it is keyed by roaming id.
PageUpdate(page, u) ==
  LET id == IF u.tariff = NoTariff \/ u.tariff.id = None THEN u.evse ELSE u.tariff.id
      touch(c) == [c EXCEPT !.status = u.status, !.at = u.at,
                            !.tariff = IF u.tariff = NoTariff THEN @ ELSE id]
      here(i) == page.connectors[i].evse = u.evse
  IN  [page EXCEPT
        !.connectors = [i \in DOMAIN @ |-> IF here(i) THEN touch(@[i]) ELSE @[i]],
        !.tariffs = IF u.tariff # NoTariff /\ \E i \in DOMAIN page.connectors : here(i)
                      THEN (id :> u.tariff) @@ @ ELSE @]

Stamped(updates, at) == [i \in DOMAIN updates |-> updates[i] @@ [at |-> at[i]]]
Unstamped(conns) == [i \in DOMAIN conns |-> conns[i] @@ [at |-> 0]]
Keyed_ByRoaming(conns, roaming) ==
  [i \in DOMAIN conns |->
     [conns[i] EXCEPT !.evse = IF @ \in DOMAIN roaming THEN roaming[@] ELSE @]]

\* The page's updates find its own connectors, over the tariffs read so far.
PageConnectors(doc, tariffs, at) ==
  LET page == FoldLeft(PageUpdate, [connectors |-> Unstamped(doc.connectors), tariffs |-> tariffs],
                       Stamped(doc.updates, at))
  IN  [connectors |-> Keyed_ByRoaming(page.connectors, doc.roaming),
       tariffs |-> page.tariffs @@ doc.tariffs]

RecordRank(c) ==
  (CASE c.status \in {"AVAILABLE", "CHARGING"} -> 4 [] c.status = "OUTOFORDER" -> 2 [] OTHER -> 1)
  + (IF c.tariff # None THEN 1 ELSE 0)

\* Usable first, then the tariff more of the fleet uses, then the fresher.
TariffSupport(conns, t) == Cardinality({i \in DOMAIN conns : conns[i].tariff = t /\ t # None})
BetterRecord(a, b, conns) ==
  LET support(c) == TariffSupport(conns, c.tariff)
  IN  CASE RecordRank(a) # RecordRank(b) -> RecordRank(a) > RecordRank(b)
        [] support(a) # support(b)       -> support(a) > support(b)
        [] OTHER                         -> a.at > b.at

CollapseDuplicates(conns) ==
  LET key(c) == <<c.evse, c.connector>>
      keys == Dedupe([i \in DOMAIN conns |-> key(conns[i])])
      best(k) == LET of == SelectSeq(conns, LAMBDA c : key(c) = k)
                 IN  FoldLeft(LAMBDA b, c : IF BetterRecord(c, b, conns) THEN c ELSE b, Head(of), of)
  IN  [i \in DOMAIN keys |-> best(keys[i])]

\* Pages are read up to the first without connectors.
WithPage(s, page) ==
  [s EXCEPT !.connectors = @ \o page.connectors, !.tariffs = page.tariffs]
TakePage(s, d, at) ==
  IF s.ended \/ d.connectors = << >> THEN [s EXCEPT !.ended = TRUE]
  ELSE WithPage(s, PageConnectors(d, s.tariffs, at))

Collapsed(all) == Delivered(CollapseDuplicates(all.connectors), all.tariffs)

ReadEcoMovement(doc) ==
  IF \E i \in DOMAIN doc.pages : doc.pages[i] = Unavailable THEN Failed
  ELSE Collapsed(FoldLeft(LAMBDA s, page : TakePage(s, ReadJson(page), page.at),
                          [ended |-> FALSE, connectors |-> << >>, tariffs |-> NoTariffs], doc.pages))

-----------------------------------------------------------------------------
\* A pass of either kind asks for a document and gets this.
\* (An availability pass insists on the statements of FR.)
Read(doc, availability) ==
  CASE doc.form = "ocpi"        -> LET r == FromOCPI(doc.locations, doc.tariffs)
                                   IN  Delivered(r.connectors, r.tariffs)
    [] doc.form = "afir"        -> ReadPair(doc)
    [] doc.form = "mobilithek"  -> ReadPull(doc)
    [] doc.form = "ecomovement" -> ReadEcoMovement(doc)
    [] doc.form = "fintraffic"  -> ReadFintraffic(doc)
    [] doc.form = "eipa"        -> ReadEipa(doc)
    [] doc.form = "econtrol"    -> ReadEControl(doc)
    [] doc.form = "oicp"        -> ReadOicp(doc)
    [] doc.form = "irve"        -> ReadIrve(doc, availability)
    [] doc.form = "bnetza"      -> ReadBnetza(doc)
    [] OTHER                    -> ReadLegacy(doc)
=============================================================================

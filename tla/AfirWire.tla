------------------------------- MODULE AfirWire -------------------------------
(***************************************************************************)
(* Reading and writing DATEX II AFIR publications (internal/datex).        *)
(*                                                                         *)
(* Both encodings, XML and JSON, are one record shape here: a site has     *)
(* stations, a station refill points, a point connectors, and each level   *)
(* may carry rates.  What differs is which parts each reader looks at and  *)
(* what it makes of them.  Coordinates stand for a place, a name or an     *)
(* address for itself.  A wire price is an integer number of 1/1000000;    *)
(* a tax rate is the published number times 100.                           *)
(***************************************************************************)
EXTENDS TariffPricing

None == "none"              \* an absent identifier, name, place or status

FirstOf(values) ==
  LET given == SelectSeq(values, LAMBDA v : v # None)
  IN  IF given = << >> THEN None ELSE Head(given)

\* The nearest multiple of b to a, in units of b.
Nearest(a, b) == (2 * a + b) \div (2 * b)

-----------------------------------------------------------------------------
(* Wire shapes.                                                            *)

Price(type, value) ==
  [type |-> type, value |-> value, taxIncluded |-> FALSE, taxRate |-> 0,
   fromMinute |-> 0, note |-> 0]           \* note: minutes stated in prose
Rate(id, policy, currency, prices) ==
  [id |-> id, policy |-> policy, currency |-> currency, prices |-> prices]
Plug(type, mode, power) == [type |-> type, mode |-> mode, power |-> power, roaming |-> None]

\* A connector as every reader delivers it.
Connector(evse, n, place, power, plug, current, name, tariff) ==
  [evse |-> evse, connector |-> n, place |-> place, power |-> power, plug |-> plug,
   current |-> current, name |-> name, tariff |-> tariff, status |-> None]

\* A document read: connectors and tariffs of a table, updates of a status.
EmptyDoc == [kind |-> None, creator |-> None, operator |-> None, connectors |-> << >>,
             tariffs |-> << >>, updates |-> << >>, roaming |-> << >>]

-----------------------------------------------------------------------------
(* Prices, common to both encodings.                                       *)

\* Repeated components are dropped.
Dedupe(comps) ==
  FoldLeft(LAMBDA kept, c : IF Contains(kept, c) THEN kept ELSE Append(kept, c), << >>, comps)

\* Of a schedule of TIME tiers the paid one that starts first is kept, and a
\* list in which nothing prices a session is no tariff.
KeptTier(comps) ==
  LET paid == {i \in DOMAIN comps : comps[i].type = "TIME" /\ comps[i].price > 0}
  IN  {i \in paid : \A j \in paid : \/ comps[i].after < comps[j].after
                                    \/ comps[i].after = comps[j].after /\ i <= j}

Usable(comps) ==
  LET keep == KeptTier(comps)
      kept == FlattenSeq([i \in DOMAIN comps |->
                IF comps[i].type = "TIME" /\ keep # {} /\ i \notin keep THEN << >> ELSE <<comps[i]>>])
  IN  IF \E i \in DOMAIN kept : kept[i].type = "ENERGY" \/ kept[i].price > 0
        THEN kept ELSE << >>

Grace(p) == IF p.fromMinute > 0 THEN p.fromMinute ELSE p.note

\* A published price to ticks per kWh, session or hour.
XmlAmount(p) == p.value \div 100
XmlTime(p) == Nearest(p.value * 60, 100000) * 1000      \* round1: to a tenth

\* The tax a JSON price states: a rate of more than 1 is a percentage.
TaxPercent(p) == IF p.taxRate > 100 THEN p.taxRate \div 100 ELSE p.taxRate
Gross(p) ==
  IF p.taxIncluded \/ p.taxRate <= 0 THEN p.value
  ELSE Nearest((p.value \div 100) * (100 + TaxPercent(p)), 100) * 100
JsonTime(p) == Nearest(Gross(p) * 60, 100)              \* round4: to a tick

ComponentsOf(p, amount, hourly) ==
  CASE p.type = "pricePerKWh"                 -> <<Component("ENERGY", amount, 0)>>
    [] p.type = "pricePerMinute"              -> <<Component("TIME", hourly, Grace(p))>>
    [] p.type \in {"flatRate", "basePrice"}   -> <<Component("FLAT", amount, 0)>>
    [] p.type = "free"                        -> <<Component("ENERGY", 0, 0)>>
    [] OTHER                                  -> << >>

Components(prices, amount, hourly) ==
  Usable(Dedupe(FlattenSeq([i \in DOMAIN prices |-> ComponentsOf(prices[i], amount[i], hourly[i])])))

XmlComponents(prices) ==
  Components(prices, [i \in DOMAIN prices |-> XmlAmount(prices[i])],
                     [i \in DOMAIN prices |-> XmlTime(prices[i])])
JsonComponents(prices) ==
  Components(prices, [i \in DOMAIN prices |-> Gross(prices[i]) \div 100],
                     [i \in DOMAIN prices |-> JsonTime(prices[i])])

\* Mobi.E states one policy per dimension; a fee of nothing is no price.
MixComponents(rates) ==
  Dedupe(FlattenSeq([i \in DOMAIN rates |->
    LET r == rates[i]
    IN  CASE r.value <= 0                                            -> << >>
          [] r.type = "pricePerDeliveryUnit"                         -> <<Component("ENERGY", XmlAmount(r), 0)>>
          [] r.type \in {"pricePerChargingTime", "pricePerMinute"}   -> <<Component("TIME", XmlTime(r), 0)>>
          [] r.type \in {"flatRate", "basePrice"}                    -> <<Component("FLAT", XmlAmount(r), 0)>>
          [] OTHER                                                   -> << >>]))

\* The ad-hoc rate, else the first.  XML takes any spelling of ad hoc.
PickRate(rates, spellings) ==
  LET adHoc == SelectSeq(rates, LAMBDA r : r.policy \in spellings)
  IN  Head(adHoc \o rates)

CurrencyOf(c) == IF c = None THEN "EUR" ELSE c
TariffOf(id, currency, comps) ==
  IF comps = << >> THEN NoTariff
  ELSE Tariff(id, CurrencyOf(currency), <<Element(comps, Always)>>)

-----------------------------------------------------------------------------
(* Reading XML.                                                            *)

\* Canonical names; what the table lacks is passed through in upper case.
XmlPlug == [iec62196T2 |-> "IEC_62196_T2", iec62196T2COMBO |-> "IEC_62196_T2_COMBO",
            iec62196T1 |-> "IEC_62196_T1", chademo |-> "CHADEMO", domesticF |-> "DOMESTIC_F",
            iec62196T1COMBO |-> "IEC62196T1COMBO", domesticFType |-> "DOMESTICFTYPE",
            teslaS |-> "TESLAS", teslaR |-> "TESLAR", other |-> "OTHER", none |-> None]

XmlCurrent(plug) ==
  IF plug.type \in {"iec62196T2COMBO", "iec62196T1COMBO", "chademo"} \/ plug.mode \in {"mode4", "dc"}
    THEN "DC" ELSE "AC"

\* Rates lie on a level itself or under its energy product.
RatesOn(level) == IF level.rates # << >> THEN level.rates ELSE level.product

\* The point's own rates, else its station's, else its site's.
NearestRates(site, station, point) ==
  LET levels == SelectSeq(<<RatesOn(point), RatesOn(station), RatesOn(site)>>, LAMBDA r : r # << >>)
  IN  IF levels = << >> THEN << >> ELSE Head(levels)

XmlTariff(site, station, point) ==
  LET rates == NearestRates(site, station, point)
      r == PickRate(rates, {"adHoc", "ad-hoc"})
  IN  IF rates = << >> THEN NoTariff ELSE TariffOf(point.id, r.currency, XmlComponents(r.prices))

\* Of several connectors of a point the XML reader sees the last.
XmlConnector(site, station, point) ==
  LET plug == Last(point.plugs)
  IN  Connector(point.id, 1, FirstOf(<<site.place, site.entrance>>), plug.power \div 1000,
                XmlPlug[plug.type], XmlCurrent(plug), FirstOf(<<site.name, site.operator, site.brand>>),
                IF XmlTariff(site, station, point) = NoTariff THEN None ELSE point.id)

\* Everything of a kind in a table, in document order.
Points(sites) ==
  FlattenSeq([i \in DOMAIN sites |-> FlattenSeq([j \in DOMAIN sites[i].stations |->
    [k \in DOMAIN sites[i].stations[j].points |->
       [site |-> sites[i], station |-> sites[i].stations[j],
        point |-> sites[i].stations[j].points[k]]]])])

\* Tariffs keyed by id; the last of two with one id stays.
Keyed(tariffs) ==
  [id \in {tariffs[i].id : i \in DOMAIN tariffs} \ {None} |->
     Last(SelectSeq(tariffs, LAMBDA t : t.id = id))]

FirstOperator(names) ==
  LET given == SelectSeq(names, LAMBDA n : n # None) IN IF given = << >> THEN None ELSE Head(given)

XmlTable(pub) ==
  LET all == Points(pub.sites)
      t(i) == XmlTariff(all[i].site, all[i].station, all[i].point)
  IN  [EmptyDoc EXCEPT
        !.kind = "table", !.creator = pub.creator,
        !.operator = FirstOperator([i \in DOMAIN pub.sites |-> pub.sites[i].operator]),
        !.connectors = [i \in DOMAIN all |-> XmlConnector(all[i].site, all[i].station, all[i].point)],
        !.tariffs = Keyed([i \in DOMAIN all |-> t(i)])]

XmlStatus(s) ==
  CASE s = "available"                                                         -> "AVAILABLE"
    [] s \in {"occupied", "charging", "reserved", "blocked"}                   -> "CHARGING"
    [] s \in {"outOfOrder", "faulted", "inoperative", "outOfStock", "unavailable"} -> "OUTOFORDER"
    [] OTHER                                                                   -> "UNKNOWN"

\* An update of a point: its own prices, else its station's, else Mobi.E's.
XmlUpdate(station, u) ==
  LET rates == IF u.prices # << >> THEN u.prices ELSE station.prices
      currency == IF u.prices # << >> THEN u.currency ELSE station.currency
      tariff == IF rates # << >> THEN TariffOf(u.id, currency, XmlComponents(rates))
                ELSE TariffOf(u.id, u.currency, MixComponents(u.mix))
  IN  [evse |-> u.id, status |-> XmlStatus(u.status), tariff |-> tariff,
       withdrawn |-> (rates # << >> \/ u.mix # << >>) /\ tariff = NoTariff]

XmlStatuses(pub) ==
  LET said(st, u) == IF u.id = None THEN << >> ELSE <<XmlUpdate(st, u)>>
  IN  [EmptyDoc EXCEPT !.kind = "status", !.creator = pub.creator,
         !.updates = FlattenSeq([i \in DOMAIN pub.stations |->
            FlattenSeq([j \in DOMAIN pub.stations[i].updates |->
              said(pub.stations[i], pub.stations[i].updates[j])])])]

\* An XML document with a status publication is read as that alone; of several
\* of a kind the first.
ReadXml(doc) ==
  LET of(kind) == {i \in DOMAIN doc.pubs : doc.pubs[i].kind = kind}
  IN  IF of("status") # {} THEN XmlStatuses(doc.pubs[Min(of("status"))])
      ELSE IF of("table") # {} THEN XmlTable(doc.pubs[Min(of("table"))]) ELSE EmptyDoc

-----------------------------------------------------------------------------
(* Reading JSON.                                                           *)

\* NormalizePlug knows every spelling but that of the domestic socket.
JsonPlug == [iec62196T2 |-> "IEC_62196_T2", iec62196T2COMBO |-> "IEC_62196_T2_COMBO",
             iec62196T1 |-> "IEC_62196_T1", iec62196T1COMBO |-> "IEC_62196_T1_COMBO",
             chademo |-> "CHADEMO", domesticF |-> "DOMESTIC_F", teslaS |-> "TESLA_S",
             teslaR |-> "TESLA_R", domesticFType |-> "domesticFType", other |-> "other",
             none |-> None]

\* Rates count on the refill point only, under an id of their own.
JsonTariff(point) ==
  LET r == PickRate(point.rates, {"adHoc"})
  IN  IF point.rates = << >> \/ r.id = None THEN NoTariff
      ELSE TariffOf(r.id, r.currency, JsonComponents(r.prices))

\* The roaming id: the point's own, else that of its first connector with one.
Roaming(point) ==
  FirstOf(<<point.roaming>> \o [i \in DOMAIN point.plugs |-> point.plugs[i].roaming])

JsonConnectors(site, station, point) ==
  LET place == FirstOf(<<station.place, site.place, site.entrance>>)
      operator == FirstOf(<<station.operator, station.brand, site.operator, site.brand>>)
      t == JsonTariff(point)
  IN  IF place = None \/ point.id = None THEN << >>
      ELSE [i \in DOMAIN point.plugs |->
              LET plug == point.plugs[i]
                  watts == IF plug.power = 0 THEN station.power ELSE plug.power
              IN  Connector(point.id, i, place, watts \div 1000, JsonPlug[plug.type],
                            IF point.current = "dc" THEN "DC" ELSE "AC", operator,
                            IF t = NoTariff THEN None ELSE t.id)]

JsonTable(doc, pub) ==
  LET all == Points(pub.sites)
      located == SelectSeq(all, LAMBDA x :
                   FirstOf(<<x.station.place, x.site.place, x.site.entrance>>) # None /\ x.point.id # None)
      operator(x) == FirstOf(<<x.station.operator, x.station.brand, x.site.operator, x.site.brand>>)
      ids == SelectSeq([i \in DOMAIN located |-> <<located[i].point.id, Roaming(located[i].point)>>],
                       LAMBDA pair : pair[2] # None)
  IN  [doc EXCEPT
        !.kind = "table", !.creator = pub.creator,
        !.operator = FirstOperator(<<@>> \o [i \in DOMAIN located |-> operator(located[i])]),
        !.connectors = @ \o FlattenSeq([i \in DOMAIN all |->
                         JsonConnectors(all[i].site, all[i].station, all[i].point)]),
        !.tariffs = Keyed([i \in DOMAIN located |-> JsonTariff(located[i].point)]) @@ @,
        !.roaming = [id \in {ids[i][1] : i \in DOMAIN ids} |->
                       Last(SelectSeq(ids, LAMBDA pair : pair[1] = id))[2]] @@ @]

JsonStatus(s) ==
  CASE s = "available"                                  -> "AVAILABLE"
    [] s \in {"charging", "occupied", "reserved"}       -> "CHARGING"
    [] s \in {"blocked", "outOfOrder", "faulted", "inoperative", "unavailable",
              "outOfStock", "removed"}                  -> "OUTOFORDER"
    [] OTHER                                            -> "UNKNOWN"

\* Of several rate updates the ad-hoc one, else the first.
JsonUpdate(u) ==
  LET r == PickRate(u.rates, {"adHoc"})
      tariff == IF u.rates = << >> THEN NoTariff
                ELSE TariffOf(r.id, r.currency, JsonComponents(r.prices))
  IN  [evse |-> u.id, status |-> JsonStatus(u.status), tariff |-> tariff,
       withdrawn |-> u.rates # << >> /\ tariff = NoTariff]

JsonStatuses(doc, pub) ==
  [doc EXCEPT
    !.kind = IF @ = None THEN "status" ELSE @,
    !.creator = IF @ = None THEN pub.creator ELSE @,
    !.updates = @ \o FlattenSeq([i \in DOMAIN pub.stations |->
                  [j \in DOMAIN pub.stations[i].updates |-> JsonUpdate(pub.stations[i].updates[j])]])]

\* A payload may hold several publications; one that is malformed is skipped.
TakePub(doc, pub) ==
  CASE pub.kind = "table"  -> JsonTable(doc, pub)
    [] pub.kind = "status" -> JsonStatuses(doc, pub)
    [] OTHER               -> doc
ReadJson(doc) == FoldLeft(TakePub, EmptyDoc, doc.pubs)

ParseAFIR(doc) == IF doc.encoding = "xml" THEN ReadXml(doc) ELSE ReadJson(doc)

-----------------------------------------------------------------------------
(* Writing: sites with points [id, current, plug, power, rate], a rate being *)
(* NoRate or [currency, prices] with a type and a price in ticks.            *)

WirePlug(plug) ==
  CASE plug = "IEC_62196_T2"       -> "iec62196T2"
    [] plug = "IEC_62196_T2_COMBO" -> "iec62196T2COMBO"
    [] plug = "IEC_62196_T1"       -> "iec62196T1"
    [] plug = "IEC_62196_T1_COMBO" -> "iec62196T1COMBO"
    [] plug = "CHADEMO"            -> "chademo"
    [] plug = "DOMESTIC_F"         -> "domesticFType"
    [] plug = "TESLA_S"            -> "teslaS"
    [] plug = "TESLA_R"            -> "teslaR"
    [] OTHER                       -> "other"

WireStatus(s) ==
  CASE s = "AVAILABLE"                   -> "available"
    [] s \in {"CHARGING", "OCCUPIED"}    -> "charging"
    [] s = "OUTOFORDER"                  -> "outOfOrder"
    [] OTHER                             -> "unknown"

\* Exact in JSON to six decimals, in XML to whole cents.
WirePrice_PerHour(c, unit) ==
  LET exact == c.price * 100
      priced(type, v) == <<Price(type, Nearest(v, unit) * unit)>>
  IN  CASE c.type = "ENERGY" -> priced("pricePerKWh", exact)
        [] c.type = "TIME"   -> priced("pricePerMinute", exact)
        [] c.type = "FLAT"   -> priced("flatRate", exact)
        [] OTHER             -> << >>
WirePrice(c, unit) ==
  LET exact == c.price * 100
      priced(type, v) == <<Price(type, Nearest(v, unit) * unit)>>
  IN  CASE c.type = "ENERGY" -> priced("pricePerKWh", exact)
        [] c.type = "TIME"   -> priced("pricePerMinute", Nearest(exact, 60))
        [] c.type = "FLAT"   -> priced("flatRate", exact)
        [] OTHER             -> << >>

NoRate == [currency |-> None, prices |-> << >>]

WireRates(id, rate, unit) ==
  LET prices == FlattenSeq([i \in DOMAIN rate.prices |-> WirePrice(rate.prices[i], unit)])
  IN  IF prices = << >> THEN << >> ELSE <<Rate("rate-" \o id, "adHoc", CurrencyOf(rate.currency), prices)>>

WirePoint(p, encoding) ==
  LET rates == WireRates(p.id, p.rate, IF encoding = "xml" THEN 10000 ELSE 1)
  IN  [id |-> p.id, roaming |-> None, current |-> IF p.current = "DC" THEN "dc" ELSE "ac",
       plugs |-> <<Plug(WirePlug(p.plug), None, p.power * 1000)>>,
       rates |-> IF encoding = "xml" THEN << >> ELSE rates,
       product |-> IF encoding = "xml" THEN rates ELSE << >>]

\* XML writes the site's name as its name, JSON as its operator.
WireSite(s, encoding) ==
  [place |-> s.place, entrance |-> None, brand |-> None, rates |-> << >>, product |-> << >>,
   name |-> IF encoding = "xml" THEN s.name ELSE None,
   operator |-> IF encoding = "xml" THEN None ELSE s.name,
   stations |-> [i \in DOMAIN s.stations |->
     [place |-> None, operator |-> None, brand |-> None, power |-> 0,
      rates |-> << >>, product |-> << >>,
      points |-> [j \in DOMAIN s.stations[i] |-> WirePoint(s.stations[i][j], encoding)]]]]

WriteTable(sites, creator, encoding) ==
  [encoding |-> encoding,
   pubs |-> <<[kind |-> "table", creator |-> creator,
               sites |-> [i \in DOMAIN sites |-> WireSite(sites[i], encoding)]]>>]

\* All statuses in one made-up station; the point's id joins them to the table.
WriteStatus(statuses, creator, encoding) ==
  [encoding |-> encoding,
   pubs |-> <<[kind |-> "status", creator |-> creator,
               stations |-> <<[prices |-> << >>, currency |-> None,
                 updates |-> [i \in DOMAIN statuses |->
                   [id |-> statuses[i].id, status |-> WireStatus(statuses[i].status),
                    prices |-> << >>, currency |-> None, mix |-> << >>, rates |-> << >>]]]>>]>>]

=============================================================================

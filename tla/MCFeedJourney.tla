----------------------------- MODULE MCFeedJourney -----------------------------
(***************************************************************************)
(* A small world for FeedJourney, and how its publishers write it down in  *)
(* each form of feed the readers know.                                     *)
(***************************************************************************)
EXTENDS FeedJourney

Worded(f) == f \in {"ocpi", "fintraffic"}      \* forms with time bands
Tiered(f) == f \in {"afir", "mobilithek", "ecomovement"}
Currency(f) == IF f = "eipa" THEN "PLN" ELSE "EUR"
PricedForms == {"ocpi", "afir", "mobilithek", "ecomovement", "fintraffic", "eipa", "econtrol"}
PlaceForms == {"oicp", "irve", "legacy"}

Offer(f, energy, start, hour, grace, night) ==
  [energy |-> IF f \in PlaceForms THEN Unset ELSE energy, start |-> IF f = "eipa" THEN 0 ELSE start, hour |-> hour,
   grace |-> IF Tiered(f) THEN grace ELSE 0,
   night |-> IF Worded(f) THEN night ELSE Unset, currency |-> Currency(f)]
NoOffer(f) == Offer(f, Unset, Unset, Unset, Unset, Unset)
Offered(p) == p.offer.energy # Unset

Point(id, place, kw, plugs, dc, status, age, offer) ==
  [id |-> id, place |-> place, kw |-> kw, plugs |-> plugs, dc |-> dc, status |-> status,
   age |-> age, offer |-> offer]

\* A fast charger and a slow one whose last statement is two days old; later
\* the fast one is dearer and busy and the slow one without a price, the fast
\* one stands elsewhere and was heard of a day and a half ago, or the slow one
\* is gone.
Fast(f, place, status, energy, age) ==
  Point("P1", place, 150, <<"CHADEMO", "IEC_62196_T2_COMBO">>, TRUE, status, age,
        Offer(f, energy, 10000, 0, 0, 4000))
Slow(f, offer) == Point("P2", "b", 11, <<"IEC_62196_T2">>, FALSE, "AVAILABLE", 48, offer)
SlowOffer(f) == Offer(f, 3000, 0, 30000, 60, Unset)

\* One by the hour, whose power is found to be another.
ByTheHour(kw) == Point("P3", "e", kw, <<"IEC_62196_T2_COMBO">>, TRUE, "CHARGING", 48,
                       Offer("ocpi", 1000, 0, 60000, 0, Unset))

RegisterPoints ==
  <<Point("R1", "a2", 150, <<"IEC_62196_T2_COMBO">>, TRUE, "AVAILABLE", 1, NoOffer("bnetza")),
    Point("R2", "d", 11, <<"IEC_62196_T2">>, FALSE, "AVAILABLE", 48, NoOffer("bnetza"))>>

MCListing(f, w) ==
  IF f = "bnetza" THEN RegisterPoints
  ELSE (CASE w = "busy"  -> <<Fast(f, "a", "CHARGING", 5015, 1), Slow(f, NoOffer(f))>>
          [] w = "moved" -> <<Fast(f, "c", "AVAILABLE", 6000, 36), Slow(f, SlowOffer(f))>>
          [] w = "fewer" -> <<Fast(f, "a", "AVAILABLE", 6000, 37)>>
          [] w = "gone"  -> <<Slow(f, SlowOffer(f))>>
          [] OTHER       -> <<Fast(f, "a", "AVAILABLE", 6000, 1), Slow(f, SlowOffer(f))>>)
       \o (IF f = "ocpi" THEN <<ByTheHour(IF w = "opening" THEN 50 ELSE 100)>> ELSE << >>)

MCNear == {<<"a", "a2">>, <<"a", "a">>, <<"b", "b">>, <<"c", "c">>, <<"d", "d">>}
SpotForms == {[op |-> "afir", reg |-> "bnetza"]}
MCForms == {[op |-> f] : f \in PricedForms \cup PlaceForms} \cup SpotForms
MCWorlds == [op |-> {"opening", "busy", "moved", "fewer"}, reg |-> {"opening"}]
SpotWorlds == [op |-> {"opening", "gone"}, reg |-> {"opening"}]
MCCountry == [op |-> "DE", reg |-> "FR"]
MCRates == [PLN |-> 25]
MCRegisters == {"bnetza", "irve"}
MCCompleteLists == {"ocpi", "legacy", "afir", "bnetza", "irve", "oicp", "fintraffic", "eipa",
                    "econtrol", "ecomovement"}

-----------------------------------------------------------------------------
(* Amounts as they are written: net of a tax of 25 %, per minute.          *)

Net(x) == (x * 4) \div 5
\* Where the fast one has moved the elements are listed the other way round.
Order(w, s) == IF w = "moved" THEN Reverse(s) ELSE s

\* OCPI elements: by day and by night, or one that always applies.
ElementsOf(o, Amount(_), w) ==
  LET comps == <<Component("ENERGY", Amount(o.energy), 0), Component("FLAT", Amount(o.start), 0),
                 Component("TIME", Amount(o.hour), 0)>>
  IN  IF o.night = Unset THEN <<Element(comps, Always)>>
      ELSE Order(w, <<Element(<<Component("ENERGY", Amount(o.night), 0)>>, [Always EXCEPT !.from = 1320, !.to = 360]),
                      Element(comps, [Always EXCEPT !.from = 360, !.to = 1320])>>)
OcpiLocation(p) ==
  [name |-> "site", operator |-> "op", place |-> p.place,
   evses |-> <<[id |-> p.id, uid |-> p.id, place |-> None, status |-> p.status,
     connectors |-> [k \in DOMAIN p.plugs |->
       [id |-> k, standard |-> p.plugs[k], powerType |-> IF p.dc THEN "DC" ELSE "AC_3_PHASE",
        watts |-> p.kw * 1000, voltage |-> 400, amperage |-> IF p.dc THEN 400 ELSE 16,
        tariff |-> None, tariffs |-> IF Offered(p) THEN <<"t-" \o p.id>> ELSE << >>]]]>>]

\* AFIR prices: a tier of nothing, and a dearer one nobody comes to, first.
AfirPrices(o, w, tax, Amount(_)) ==
  LET price(type, ticks) == [Price(type, Amount(ticks) * 100) EXCEPT !.taxRate = tax]
      minute(ticks, from) == [price("pricePerMinute", ticks \div 60) EXCEPT !.fromMinute = from]
  IN  IF o.energy = Unset THEN <<minute(0, 0)>>
      ELSE <<price("pricePerKWh", o.energy), price("flatRate", o.start)>>
           \o (IF o.hour = 0 THEN << >>
               ELSE Order(w, <<minute(2 * o.hour, 900), minute(0, 0), minute(o.hour, o.grace)>>))
Gross1(x) == x
XmlRates(p, w) == <<Rate("r-" \o p.id, "contract", None, <<Price("pricePerKWh", 10000)>>),
                    Rate("r-" \o p.id, "ad-hoc", None, AfirPrices(p.offer, w, 0, Gross1))>>
JsonRates(p, w) == <<Rate("r-" \o p.id, "adHoc", None, AfirPrices(p.offer, w, 25, Net))>>

WireWord == [AVAILABLE |-> "available", CHARGING |-> "occupied"]
WirePlugs(p) == [k \in DOMAIN p.plugs |-> Plug(WirePlug(p.plugs[k]), None, p.kw * 1000)]
Site(p, pointRates, stationRates, id, roaming) ==
  [place |-> p.place, entrance |-> None, name |-> "site", operator |-> "op", brand |-> None,
   rates |-> << >>, product |-> << >>,
   stations |-> <<[place |-> None, operator |-> None, brand |-> None, power |-> 0,
                   rates |-> << >>, product |-> stationRates,
     points |-> <<[id |-> id, roaming |-> roaming, current |-> IF p.dc THEN "dc" ELSE "ac",
                   plugs |-> WirePlugs(p), rates |-> pointRates, product |-> << >>]>>]>>]
Update(id, p, prices) ==
  [id |-> id, status |-> WireWord[p.status], prices |-> prices, currency |-> None, mix |-> << >>,
   rates |-> << >>]
Doc(encoding, pubs) == [encoding |-> encoding, pubs |-> pubs]
TablePub(sites) == [kind |-> "table", creator |-> "op", sites |-> sites]
StatusPub(updates) == [kind |-> "status", creator |-> "op",
                       stations |-> <<[prices |-> << >>, currency |-> None, updates |-> updates]>>]

\* The fast charger's price is its station's, the slow one's in its status.
InStatus(p) == ~p.dc
PairTable(ps, w) ==
  Doc("xml", <<TablePub([i \in DOMAIN ps |->
    Site(ps[i], << >>, IF InStatus(ps[i]) THEN << >> ELSE XmlRates(ps[i], w), ps[i].id, None)])>>)
PairStatus(ps, w) ==
  Doc("xml", <<StatusPub([i \in DOMAIN ps |->
    Update(ps[i].id, ps[i], IF InStatus(ps[i]) THEN AfirPrices(ps[i].offer, w, 0, Gross1) ELSE << >>)])>>)

\* Pages of JSON; the slow charger is listed twice, the newer record being of
\* no use.
Page(p, w, id, rates, status, at) ==
  Doc("json", <<TablePub(<<Site(p, rates, << >>, id, p.id)>>),
                StatusPub(<<[Update(id, p, << >>) EXCEPT !.status = status]>>)>>) @@ [at |-> <<at>>]
Pages(ps, w) ==
  [i \in DOMAIN ps |-> Page(ps[i], w, "local-" \o ps[i].id, JsonRates(ps[i], w), WireWord[ps[i].status], 1)]
  \o <<Page(ps[1], w, "copy-" \o ps[1].id, << >>, "unknown", 2)>>

-----------------------------------------------------------------------------
(* The national registers.                                                 *)

EipaWords == [IEC_62196_T2 |-> "IEC-62196-T2-F-NOCABLE", IEC_62196_T2_COMBO |-> "IEC-62196-T2-COMBO",
              CHADEMO |-> "CHADEMO"]
EipaPoint(p) ==
  [code |-> p.id, place |-> None, pool |-> p.place, operator |-> "op", site |-> "site",
   electric |-> TRUE, suspended |-> FALSE, charging |-> TRUE, said |-> [ready |-> TRUE, free |-> TRUE, age |-> Unset], prices |-> << >>,
   connectors |-> <<[interfaces |-> [k \in DOMAIN p.plugs |-> EipaWords[p.plugs[k]]], power |-> 0]>>,
   solutions |-> <<[power |-> p.kw, dc |-> p.dc], [power |-> 3, dc |-> p.dc]>>]
EipaPrice(unit, price, adHoc) == [unit |-> unit, price |-> price, adHoc |-> adHoc]
EipaSaid(p, w) ==
  [said |-> [ready |-> TRUE, free |-> p.status = "AVAILABLE", age |-> p.age],
   prices |-> IF ~Offered(p) THEN <<EipaPrice("min", 0, TRUE)>>
              ELSE Order(w, <<EipaPrice("kWh", 200000, TRUE), EipaPrice("kWh", p.offer.energy + 1, FALSE),
                              EipaPrice("kWh", p.offer.energy, TRUE),
                              EipaPrice("min", p.offer.hour \div 60, TRUE)>>)]

EControlNames == [IEC_62196_T2 |-> "CTYPE2", IEC_62196_T2_COMBO |-> "CCCS2", CHADEMO |-> "CG105"]
EControlStation(p) ==
  [active |-> TRUE, place |-> p.place, owner |-> "op", label |-> "site",
   points |-> <<[id |-> p.id, place |-> None, power |-> p.kw, free |-> p.dc, status |-> p.status,
                 plugs |-> [k \in DOMAIN p.plugs |-> EControlNames[p.plugs[k]]], types |-> {},
                 kwh |-> IF Offered(p) THEN p.offer.energy ELSE 0,
                 start |-> IF Offered(p) THEN p.offer.start ELSE 0,
                 minute |-> IF Offered(p) THEN p.offer.hour \div 60 ELSE 0,
                 blocking |-> 500, blockingFrom |-> 240]>>]

OicpNames == [IEC_62196_T2 |-> "Type 2 Outlet", CHADEMO |-> "CHAdeMO",
              IEC_62196_T2_COMBO |-> "CCS Combo 2 Plug (Cable Attached)"]
OicpRecord(p) ==
  [id |-> p.id, place |-> p.place, operator |-> "op", site |-> None, access |-> "Free publicly accessible",
   plugs |-> [k \in DOMAIN p.plugs |-> OicpNames[p.plugs[k]]],
   facilities |-> <<[power |-> 0, voltage |-> 230, amperage |-> 16, type |-> "AC_1_PHASE"],
                    [power |-> p.kw, voltage |-> 0, amperage |-> 0, type |-> IF p.dc THEN "DC" ELSE "AC_3_PHASE"]>>]

IrveRecord(p) ==
  [id |-> p.id, local |-> None, station |-> "s", place |-> p.place, operator |-> "op", site |-> "site",
   power |-> p.kw * 1000, plugs |-> IF p.dc THEN {"combo_ccs", "chademo"} ELSE {"type_2"}]
\* An older statement of every point says it is free.
IrveSaid(p) == <<[id |-> p.id, age |-> p.age, state |-> "en_service",
                  occupation |-> IF p.status = "AVAILABLE" THEN "libre" ELSE "occupe"],
                 [id |-> p.id, age |-> p.age + 2, state |-> "en_service", occupation |-> "libre"]>>

BnetzaWords == [IEC_62196_T2 |-> "AC Typ 2 Steckdose", IEC_62196_T2_COMBO |-> "DC Kupplung Combo",
                CHADEMO |-> "DC CHAdeMO"]
BnetzaRow(p) ==
  [id |-> p.id, place |-> p.place, operator |-> "op", site |-> "site", power |-> p.kw,
   plugs |-> [k \in DOMAIN p.plugs |-> [text |-> BnetzaWords[p.plugs[k]], power |-> Unset]]]

LegacySite(p) ==
  [place |-> None, entrance |-> p.place, operator |-> "op", name |-> "site",
   stations |-> <<[points |-> <<[external |-> None, roamingName |-> TRUE, name |-> p.id, id |-> "x",
     power |-> p.kw * 1000, plug |-> Last(p.plugs), mode |-> IF p.dc THEN "mode4" ELSE "mode3"]>>]>>]

-----------------------------------------------------------------------------
Each(ps, F(_)) == [i \in DOMAIN ps |-> F(ps[i])]
Said(p) == [id |-> p.id, status |-> p.status]
OcpiTariffs(ps, w) == {Tariff("t-" \o p.id, "EUR", ElementsOf(p.offer, Gross1, w)) :
                         p \in {ps[i] : i \in {j \in DOMAIN ps : Offered(ps[j])}}}
\* The fast charger's tariff has no tax in it, the others' has.
NetTariffs(ps, w) == {[id |-> "t-" \o p.id, currency |-> "EUR", vat |-> 250,
                       taxIncluded |-> IF p.dc THEN "NO" ELSE "YES",
                       elements |-> IF p.dc THEN ElementsOf(p.offer, Net, w) ELSE ElementsOf(p.offer, Gross1, w)] :
                         p \in {ps[i] : i \in {j \in DOMAIN ps : Offered(ps[j])}}}

Written(f, ps, w, failing) ==
  LET part(x) == IF failing THEN Unavailable ELSE x
      oicpSaid(p) == [id |-> p.id, status |-> IF p.status = "AVAILABLE" THEN "Available" ELSE "Occupied"]
  IN  CASE f = "ocpi"        -> [form |-> f, locations |-> Each(ps, OcpiLocation),
                                 tariffs |-> IF failing THEN {} ELSE OcpiTariffs(ps, w)]
        [] f \in {"afir", "mobilithek"} -> [form |-> f, table |-> PairTable(ps, w), status |-> part(PairStatus(ps, w))]
        [] f = "ecomovement" -> [form |-> f, pages |-> Pages(ps, w) \o (IF failing THEN <<Unavailable>> ELSE << >>)]
        [] f = "fintraffic"  -> [form |-> f, locations |-> Each(ps, OcpiLocation), statuses |-> Each(ps, Said),
                                 tariffs |-> part(NetTariffs(ps, w))]
        [] f = "eipa"        -> [form |-> f, points |-> Each(ps, EipaPoint),
                                 dynamic |-> part([id \in {ps[i].id : i \in DOMAIN ps} |->
                                   EipaSaid(Head(SelectSeq(ps, LAMBDA p : p.id = id)), w)])]
        [] f = "econtrol"    -> [form |-> f, operators |-> <<Each(ps, EControlStation), part(<< >>)>>]
        [] f = "oicp"        -> [form |-> f, data |-> Each(ps, OicpRecord), statuses |-> part(Each(ps, oicpSaid))]
        [] f = "irve"        -> [form |-> f, static |-> Each(ps, IrveRecord),
                                 dynamic |-> part(FlattenSeq(Each(ps, IrveSaid)))]
        [] f = "bnetza"      -> [form |-> f, rows |-> IF failing THEN << >> ELSE Each(ps, BnetzaRow)]
        [] OTHER             -> [form |-> f, sites |-> Each(ps, LegacySite)]
MCDocument(f, w, failing) == Written(f, MCListing(f, w), w, failing)

\* What the theorems about prices ask of the readers holds for these documents.
ASSUME MCReadersHonest == ReadersHonest
=============================================================================

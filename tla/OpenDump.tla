------------------------------- MODULE OpenDump -------------------------------
(***************************************************************************)
(* The open dataset (internal/export) and the OCPI reader that could take  *)
(* it in again (internal/normalize).                                       *)
(*                                                                         *)
(* A row is a connector with its open tariff and its status:               *)
(*   [id, cpo, country, evse, connector, place, power, plug, current, name,*)
(*    status, tariff]                                                      *)
(***************************************************************************)
EXTENDS AfirWire

CONSTANT ChunkRows          \* rows of a full region file (the code counts bytes)

-----------------------------------------------------------------------------
(* Region files: runs of rows of one country, of at most a chunk.          *)

Bucket(country) == IF country = None THEN "XX" ELSE country
RegionKey(country, seq) == <<country, seq>>

\* One step of the stream; files is what has been flushed, open the chunk in
\* memory.
Flush(s) ==
  IF s.open = << >> THEN s
  ELSE [s EXCEPT !.seq = @ + 1, !.open = << >>,
          !.files = Append(@, [key |-> RegionKey(s.country, s.seq + 1), rows |-> s.open])]

Take(s, row) ==
  LET c == Bucket(row.country)
      moved == IF c = s.country THEN s ELSE [Flush(s) EXCEPT !.country = c, !.seq = 0]
      grown == [moved EXCEPT !.open = Append(@, row)]
  IN  IF Len(grown.open) >= ChunkRows THEN Flush(grown) ELSE grown

Regions_LastOpen(rows) ==
  FoldLeft(Take, [country |-> None, seq |-> 0, open |-> << >>, files |-> << >>], rows).files
Regions(rows) ==
  Flush(FoldLeft(Take, [country |-> None, seq |-> 0, open |-> << >>, files |-> << >>], rows)).files

-----------------------------------------------------------------------------
(* OCPI.                                                                   *)

Alpha3 == [BE |-> "BEL", NL |-> "NLD", DE |-> "DEU", FR |-> "FRA", ES |-> "ESP", PT |-> "PRT",
           FI |-> "FIN", CH |-> "CHE", DK |-> "DNK", AT |-> "AUT", PL |-> "POL"]
CountryAlpha3(c) == IF c \in DOMAIN Alpha3 THEN Alpha3[c] ELSE None

\* One status for an EVSE: available if any connector is, else the first.
EvseStatus(statuses) ==
  IF statuses = << >> THEN "UNKNOWN"
  ELSE IF Contains(statuses, "AVAILABLE") THEN "AVAILABLE" ELSE Head(statuses)

DumpId(t) == IF t.id = None THEN "h_" \o ToString(Hash(t)) ELSE t.id

\* OCPI has no field for a grace period.
DumpTariff(t) ==
  [id |-> DumpId(t), currency |-> t.currency,
   elements |-> [i \in DOMAIN t.elements |->
     [t.elements[i] EXCEPT !.comps = [j \in DOMAIN @ |-> [@[j] EXCEPT !.after = 0]]]]]

DumpConnector(row) ==
  [id |-> row.connector, standard |-> row.plug,
   powerType |-> IF row.current = "DC" THEN "DC" ELSE "AC_3_PHASE",
   watts |-> row.power * 1000, voltage |-> 0, amperage |-> 0,
   tariff |-> IF row.tariff = NoTariff THEN None ELSE DumpId(row.tariff), tariffs |-> << >>]

LocationKey(row) == row.cpo \o "|" \o row.evse
\* The rows of one EVSE, in their order.
RowsAt(key, rows) ==
  FlattenSeq([i \in DOMAIN rows |-> IF LocationKey(rows[i]) = key THEN <<rows[i]>> ELSE << >>])

DumpLocation(key, rows) ==
  LET of == RowsAt(key, rows)
      first == Head(of)
      said == SelectSeq([i \in DOMAIN of |-> of[i].status], LAMBDA s : s # None)
  IN  [id |-> key, name |-> first.name, place |-> first.place, operator |-> first.cpo,
       country |-> CountryAlpha3(first.country),
       evses |-> <<[uid |-> first.evse, place |-> None, status |-> EvseStatus(said),
                    connectors |-> [i \in DOMAIN of |-> DumpConnector(of[i])]]>>]

\* Locations in the order of their first row; of tariffs with one id the first.
BuildOCPI(rows) ==
  LET keys == Dedupe([i \in DOMAIN rows |-> LocationKey(rows[i])])
      priced == SelectSeq(rows, LAMBDA r : r.tariff # NoTariff)
      ids == {DumpId(priced[i].tariff) : i \in DOMAIN priced}
  IN  [locations |-> [i \in DOMAIN keys |-> DumpLocation(keys[i], rows)],
       tariffs |-> {DumpTariff(Head(SelectSeq(priced, LAMBDA r : DumpId(r.tariff) = id)).tariff) : id \in ids}]

\* The rated power, unless voltage and current say it cannot be.
EstimatedKW(c) ==
  IF c.voltage <= 0 \/ c.amperage <= 0 THEN 0
  ELSE (c.voltage * c.amperage * (IF c.powerType = "AC_3_PHASE" THEN 3 ELSE 1)) \div 1000
ConnectorKW(c) ==
  LET rated == c.watts \div 1000
      estimate == EstimatedKW(c)
  IN  IF c.watts <= 0 \/ (estimate > 0 /\ rated > estimate * 4) THEN estimate ELSE rated

\* A connector's one tariff across OCPI versions.
TariffRef(c) == FirstOf(<<c.tariff>> \o c.tariffs)

FromOCPI(locations, tariffs) ==
  [connectors |-> FlattenSeq([i \in DOMAIN locations |->
     FlattenSeq([j \in DOMAIN locations[i].evses |->
       LET l == locations[i]
           e == l.evses[j]
       IN  [k \in DOMAIN e.connectors |->
             LET c == e.connectors[k]
             IN  [Connector(e.uid, c.id, FirstOf(<<e.place, l.place>>), ConnectorKW(c),
                            c.standard, IF c.powerType = "DC" THEN "DC" ELSE "AC",
                            l.name, TariffRef(c)) EXCEPT !.status = e.status]]])]),
   tariffs |-> [id \in {t.id : t \in tariffs} |-> CHOOSE t \in tariffs : t.id = id]]

-----------------------------------------------------------------------------
(* DATEX II: one site and station per EVSE, one point per row.              *)

\* All components of all elements, without their restrictions and grace.
PublishRate(t) ==
  LET comps == FlattenSeq([i \in DOMAIN t.elements |-> t.elements[i].comps])
  IN  IF comps = << >> THEN NoRate ELSE [currency |-> t.currency, prices |-> comps]

AfirPoint(row) ==
  [id |-> ToString(row.id), current |-> row.current, plug |-> row.plug, power |-> row.power,
   rate |-> PublishRate(row.tariff)]
AfirSite(key, rows) ==
  LET of == RowsAt(key, rows)
  IN  [id |-> key, name |-> Head(of).name, place |-> Head(of).place,
       stations |-> <<[i \in DOMAIN of |-> AfirPoint(of[i])]>>]
BuildAFIRTable(rows) ==
  LET keys == Dedupe([i \in DOMAIN rows |-> LocationKey(rows[i])])
  IN  [i \in DOMAIN keys |-> AfirSite(keys[i], rows)]

\* Keyed as the points of the table are; a row without a status says nothing.
BuildAFIRStatus_ByEvse(rows) ==
  FlattenSeq([i \in DOMAIN rows |-> IF rows[i].status = None THEN << >>
                                   ELSE <<[id |-> rows[i].evse, status |-> rows[i].status]>>])
BuildAFIRStatus(rows) ==
  FlattenSeq([i \in DOMAIN rows |-> IF rows[i].status = None THEN << >>
                                   ELSE <<[id |-> ToString(rows[i].id), status |-> rows[i].status]>>])

=============================================================================

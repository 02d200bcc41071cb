---------------------------- MODULE OcpiPartner ----------------------------
(***************************************************************************)
(* A CPO that pushes to us over OCPI (cmd/api/ocpi.go,                     *)
(* internal/ocpi/register.go): the handshake that exchanges the tokens,    *)
(* and the sink that links a location and the tariff it uses whichever     *)
(* comes first.  The sink's mutex covers its caches, not the ingest, so    *)
(* that handlers of several pushes overlap.                                *)
(*                                                                         *)
(* One location uses one tariff; the tariff's contents are numbered.       *)
(***************************************************************************)
EXTENDS Naturals

CONSTANTS
  MaxTariffs,     \* bound: contents of the tariff
  MaxArrivals,    \* bound: objects pushed
  MaxIngestFails, \* bound: ingests that fail
  MaxHandshakes   \* bound: handshakes begun

Nothing == 0

VARIABLES
  partner,        \* the tokens the CPO holds: ours for it (B), its for us (C)
  source,         \* our row of it: the tokens, and whether it is enabled
  handshake,      \* what the admin's request has got to
  handshakes,
  hasLocation,    \* ocpiSink.locs: whether the location is cached
  tariffCached,   \* ocpiSink.tars: the content cached, or Nothing
  handlers,       \* pushes whose handler has left the mutex, numbered
  rowPrice,       \* the content the charger's row is priced by, or Nothing
  told,           \* what the partner has been answered for: location, tariff
  overlapped,     \* history: two handlers have been at work at a time
  ingestFails, arrivals

partnerVars == <<partner, source, handshake, handshakes, hasLocation, tariffCached, handlers,
                 rowPrice, told, overlapped, ingestFails, arrivals>>
handshakeVars == <<partner, source, handshake, handshakes>>
sinkVars == <<hasLocation, tariffCached, handlers, rowPrice, told, overlapped, ingestFails, arrivals>>

PartnerInit ==
  /\ partner = [b |-> Nothing, c |-> Nothing]
  /\ source = [b |-> Nothing, c |-> Nothing, enabled |-> FALSE]
  /\ handshake = [pc |-> "rest", b |-> Nothing, c |-> Nothing] /\ handshakes = 0
  /\ hasLocation = FALSE /\ tariffCached = Nothing
  /\ handlers = {} /\ rowPrice = Nothing
  /\ told = [location |-> FALSE, tariff |-> Nothing]
  /\ overlapped = FALSE /\ ingestFails = 0 /\ arrivals = 0

-----------------------------------------------------------------------------
(* The handshake (opOCPIRegister, Register); one admin at a time.          *)

\* The CPO takes our token and issues one, both new with each handshake.
Register ==
  /\ handshake.pc = "rest" /\ handshakes < MaxHandshakes
  /\ handshakes' = handshakes + 1
  /\ partner' = [b |-> handshakes + 1, c |-> handshakes + 1]
  /\ handshake' = [pc |-> "token", b |-> handshakes + 1, c |-> handshakes + 1]
  /\ UNCHANGED <<source, sinkVars>>

SetToken ==
  /\ handshake.pc = "token"
  /\ source' = [source EXCEPT !.c = handshake.c]
  /\ handshake' = [handshake EXCEPT !.pc = "incoming"]
  /\ UNCHANGED <<partner, handshakes, sinkVars>>

SetOCPIIncomingToken ==
  /\ handshake.pc = "incoming"
  /\ source' = [source EXCEPT !.b = handshake.b]
  /\ handshake' = [handshake EXCEPT !.pc = "upsert"]
  /\ UNCHANGED <<partner, handshakes, sinkVars>>

\* Mutated UpsertCPO: the source is saved before its tokens are.
UpsertCPO_First ==
  /\ handshake.pc # "rest" /\ ~source.enabled
  /\ source' = [source EXCEPT !.enabled = TRUE]
  /\ UNCHANGED <<handshake, partner, handshakes, sinkVars>>

UpsertCPO ==
  /\ handshake.pc = "upsert"
  /\ source' = [source EXCEPT !.enabled = TRUE]
  /\ handshake' = [handshake EXCEPT !.pc = "rest"]
  /\ UNCHANGED <<partner, handshakes, sinkVars>>

\* A statement fails, the answer does not come, or the process dies.
GiveUp ==
  /\ handshake.pc # "rest"
  /\ handshake' = [handshake EXCEPT !.pc = "rest"]
  /\ UNCHANGED <<partner, source, handshakes, sinkVars>>

-----------------------------------------------------------------------------
(* The sink, for a partner whose token we know.                            *)

Authorized == partner.b # Nothing /\ source.b = partner.b

\* A handler leaves the mutex with what it is to ingest.
Leave(what, content, ingests, tariff) ==
  /\ arrivals < MaxArrivals /\ arrivals' = arrivals + 1
  /\ handlers' = handlers \cup {[n |-> arrivals + 1, what |-> what, content |-> content,
                                 ingests |-> ingests, tariff |-> tariff]}
  /\ overlapped' = (overlapped \/ handlers # {})

\* PutLocation ingests the location with the tariffs cached by then.
PutLocation ==
  /\ Authorized
  /\ hasLocation' = TRUE
  /\ Leave("location", Nothing, TRUE, tariffCached)
  /\ UNCHANGED <<handshakeVars, tariffCached, rowPrice, told, ingestFails>>

\* Mutated Cached: a tariff no cached location uses is not remembered.
Cached_IfUsed(v) == IF hasLocation THEN v ELSE tariffCached

\* PutTariff caches always and ingests the locations that use the tariff.
Cached(v) == v

PutTariff(v) ==
  /\ Authorized
  /\ tariffCached' = Cached(v)
  /\ Leave("tariff", v, hasLocation, v)
  /\ UNCHANGED <<handshakeVars, hasLocation, rowPrice, told, ingestFails>>

\* The rows are left to the next pull.  A partner deletes no object that it
\* has no answer for yet.
Delete(what) ==
  /\ Authorized /\ \A h \in handlers : h.what # what
  /\ IF what = "location" THEN hasLocation' = FALSE /\ UNCHANGED tariffCached
     ELSE tariffCached' = Nothing /\ UNCHANGED hasLocation
  /\ told' = IF what = "location" THEN [told EXCEPT !.location = FALSE]
             ELSE [told EXCEPT !.tariff = Nothing]
  /\ UNCHANGED <<handshakeVars, handlers, rowPrice, overlapped, ingestFails, arrivals>>

\* IngestOCPI and the answer; a location without its tariff keeps its price.
IngestPush(h) ==
  /\ h \in handlers /\ handlers' = handlers \ {h}
  /\ rowPrice' = IF h.ingests /\ h.tariff # Nothing THEN h.tariff ELSE rowPrice
  /\ told' = IF h.what = "location" THEN [told EXCEPT !.location = TRUE]
             ELSE [told EXCEPT !.tariff = h.content]
  /\ UNCHANGED <<handshakeVars, hasLocation, tariffCached, overlapped, ingestFails, arrivals>>

FailIngest(h) ==
  /\ h \in handlers /\ h.ingests /\ handlers' = handlers \ {h}
  /\ ingestFails < MaxIngestFails /\ ingestFails' = ingestFails + 1
  /\ UNCHANGED <<handshakeVars, hasLocation, tariffCached, rowPrice, told, overlapped, arrivals>>

PartnerNext ==
  \/ Register \/ SetToken \/ SetOCPIIncomingToken \/ UpsertCPO \/ GiveUp
  \/ PutLocation \/ (\E v \in 1..MaxTariffs : PutTariff(v))
  \/ (\E what \in {"location", "tariff"} : Delete(what))
  \/ (\E h \in handlers : IngestPush(h) \/ FailIngest(h))

-----------------------------------------------------------------------------
(* Properties.                                                             *)

\* Once a location and its tariff have both been answered for, the charger is
\* priced, in whichever order they came, overlapped or failed at first ("any
\* order", ocpiSink); pushes that never overlapped nor failed leave it priced
\* by the tariff's last content.
LinkedEitherOrder ==
  handlers = {} /\ told.location /\ told.tariff # Nothing =>
    /\ rowPrice # Nothing
    /\ ~overlapped /\ ingestFails = 0 => rowPrice = told.tariff

\* The handshake enables a source only with both tokens the CPO holds by then:
\* whatever statement fails or handshake was given up before, a source that is
\* enabled can be polled and can push (opOCPIRegister).
EnabledMeansWhole ==
  [][source'.enabled /\ ~source.enabled =>
       source'.b = partner'.b /\ source'.c = partner'.c]_partnerVars

=============================================================================

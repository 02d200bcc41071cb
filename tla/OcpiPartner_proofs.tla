------------------------- MODULE OcpiPartner_proofs -------------------------
(***************************************************************************)
(* The invariants behind EnabledMeansWhole (the handshake) and             *)
(* LinkedEitherOrder (the sink).                                           *)
(***************************************************************************)
EXTENDS OcpiPartner, TLAPS

\* What the handshake has written so far is what the CPO holds.
PartnerInv ==
  /\ source \in [b : Nat, c : Nat, enabled : BOOLEAN]
  /\ handshake \in [pc : {"rest", "token", "incoming", "upsert"}, b : Nat, c : Nat]
  /\ handshakes \in Nat
  /\ handshake.pc # "rest" => partner = [b |-> handshake.b, c |-> handshake.c]
  /\ handshake.pc \in {"incoming", "upsert"} => source.c = handshake.c
  /\ handshake.pc = "upsert" => source.b = handshake.b

\* No handshake has begun and no token is known.
LEMMA PartnerInitInv == PartnerInit => PartnerInv
  BY DEF PartnerInit, PartnerInv, Nothing

\* Every step of a handshake stores the token of the handshake it belongs to.
LEMMA PartnerStepInv == PartnerInv /\ [PartnerNext]_partnerVars => PartnerInv'
<1>. SUFFICES ASSUME PartnerInv, [PartnerNext]_partnerVars PROVE PartnerInv'
  OBVIOUS
<1>1. CASE Register
  BY <1>1 DEF PartnerInv, Register
<1>2. CASE SetToken
  BY <1>2 DEF PartnerInv, SetToken
<1>3. CASE SetOCPIIncomingToken
  BY <1>3 DEF PartnerInv, SetOCPIIncomingToken
<1>4. CASE UpsertCPO
  BY <1>4 DEF PartnerInv, UpsertCPO
<1>5. CASE GiveUp
  BY <1>5 DEF PartnerInv, GiveUp
<1>6. CASE UNCHANGED handshakeVars
  BY <1>6 DEF PartnerInv, handshakeVars
<1>7. ASSUME PutLocation \/ (\E v \in 1..MaxTariffs : PutTariff(v))
             \/ (\E what \in {"location", "tariff"} : Delete(what))
             \/ (\E h \in handlers : IngestPush(h) \/ FailIngest(h))
             \/ UNCHANGED partnerVars
      PROVE  UNCHANGED handshakeVars
  BY <1>7 DEF PutLocation, PutTariff, Delete, IngestPush, FailIngest, partnerVars, handshakeVars
<1>. QED
  BY <1>1, <1>2, <1>3, <1>4, <1>5, <1>6, <1>7 DEF PartnerNext

\* Only UpsertCPO enables a source, once both tokens are written.
LEMMA PartnerStepWhole ==
  PartnerInv /\ [PartnerNext]_partnerVars =>
    [source'.enabled /\ ~source.enabled =>
       source'.b = partner'.b /\ source'.c = partner'.c]_partnerVars
<1>. SUFFICES ASSUME PartnerInv, PartnerNext, source'.enabled, ~source.enabled
              PROVE  source'.b = partner'.b /\ source'.c = partner'.c
  BY DEF partnerVars
<1>1. UpsertCPO
  <2>1. ~Register /\ ~GiveUp
    BY DEF Register, GiveUp
  <2>2. ~SetToken /\ ~SetOCPIIncomingToken
    BY DEF SetToken, SetOCPIIncomingToken, PartnerInv
  <2>3. ~PutLocation /\ ~(\E v \in 1..MaxTariffs : PutTariff(v))
    BY DEF PutLocation, PutTariff, handshakeVars
  <2>4. /\ ~(\E what \in {"location", "tariff"} : Delete(what))
        /\ ~(\E h \in handlers : IngestPush(h) \/ FailIngest(h))
    BY DEF Delete, IngestPush, FailIngest, handshakeVars
  <2>. QED
    BY <2>1, <2>2, <2>3, <2>4 DEF PartnerNext
<1>. QED
  BY <1>1 DEF UpsertCPO, PartnerInv

-----------------------------------------------------------------------------
(* The sink: pushes of a location and its tariff, in any order.            *)

SinkTypeOK ==
  /\ hasLocation \in BOOLEAN /\ overlapped \in BOOLEAN
  /\ tariffCached \in Nat /\ rowPrice \in Nat /\ arrivals \in Nat /\ ingestFails \in Nat
  /\ told \in [location : BOOLEAN, tariff : Nat]
  /\ handlers \subseteq [n : Nat, what : {"location", "tariff"}, content : Nat,
                        ingests : BOOLEAN, tariff : Nat]

\* What was answered for is cached, and so is what a handler holds.
CachedFirst ==
  /\ told.location => hasLocation
  /\ told.tariff # Nothing => tariffCached # Nothing
  /\ \A h \in handlers :
       IF h.what = "location" THEN hasLocation /\ h.ingests
       ELSE tariffCached # Nothing /\ h.content # Nothing /\ h.tariff = h.content

\* A handler that will not price the row overlaps none of the other kind that
\* would have to, whichever of them was first in the mutex.
LinkedFirst ==
  /\ told.location /\ told.tariff # Nothing => rowPrice # Nothing
  /\ \A h \in handlers :
       h.what = "location" /\ h.tariff = Nothing => told.tariff = Nothing \/ rowPrice # Nothing
  /\ \A h \in handlers :
       h.what = "tariff" /\ ~h.ingests =>
         /\ told.location => rowPrice # Nothing
         /\ \A g \in handlers : g.what = "location" => g.tariff # Nothing

\* Without overlaps and failures the row follows what the partner was told.
InStep ==
  ~overlapped /\ ingestFails = 0 =>
    /\ \A h, g \in handlers : h = g
    /\ handlers = {} =>
         /\ (told.location <=> hasLocation) /\ told.tariff = tariffCached
         /\ hasLocation /\ tariffCached # Nothing => rowPrice = tariffCached
    /\ \A h \in handlers :
         IF h.what = "location"
         THEN told.tariff = tariffCached /\ (tariffCached # Nothing => h.tariff = tariffCached)
         ELSE (told.location <=> hasLocation) /\ tariffCached = h.content
              /\ (hasLocation => h.ingests)

SinkInv == SinkTypeOK /\ CachedFirst /\ LinkedFirst /\ InStep

\* Nothing is cached, pushed or answered for at first.
LEMMA SinkInitInv == PartnerInit => SinkInv
<1>. SUFFICES ASSUME PartnerInit PROVE SinkInv
  OBVIOUS
<1>1. SinkTypeOK
  BY DEF PartnerInit, SinkTypeOK, Nothing
<1>2. CachedFirst /\ LinkedFirst
  BY DEF PartnerInit, CachedFirst, LinkedFirst
<1>3. InStep
  BY DEF PartnerInit, InStep
<1>. QED
  BY <1>1, <1>2, <1>3 DEF SinkInv

\* The invariant is strong enough.
LEMMA SinkInvLinked == SinkInv => LinkedEitherOrder
  BY DEF SinkInv, SinkTypeOK, LinkedFirst, CachedFirst, InStep, LinkedEitherOrder

\* A location is pushed.
LEMMA PutLocationInv == SinkInv /\ PutLocation => SinkInv'
<1>. SUFFICES ASSUME SinkInv, PutLocation PROVE SinkInv'
  OBVIOUS
<1>. DEFINE h == [n |-> arrivals + 1, what |-> "location", content |-> Nothing,
                  ingests |-> TRUE, tariff |-> tariffCached]
<1>1. /\ hasLocation' = TRUE /\ handlers' = handlers \cup {h}
      /\ arrivals' = arrivals + 1 /\ overlapped' = (overlapped \/ handlers # {})
      /\ UNCHANGED <<tariffCached, rowPrice, told, ingestFails>>
  BY DEF PutLocation, Leave
<1>2. SinkTypeOK'
  <2>1. h \in [n : Nat, what : {"location", "tariff"}, content : Nat, ingests : BOOLEAN, tariff : Nat]
    BY DEF SinkInv, SinkTypeOK, Nothing
  <2>2. hasLocation' \in BOOLEAN /\ overlapped' \in BOOLEAN
    BY <1>1 DEF SinkInv, SinkTypeOK
  <2>. HIDE DEF h
  <2>. QED
    BY <1>1, <2>1, <2>2 DEF SinkInv, SinkTypeOK
<1>3. CachedFirst'
  BY <1>1 DEF SinkInv, CachedFirst
<1>4. LinkedFirst'
  BY <1>1 DEF SinkInv, CachedFirst, LinkedFirst
<1>5. InStep'
  <2>1. CASE handlers # {}
    BY <1>1, <2>1 DEF InStep
  <2>2. CASE handlers = {}
    <3>1. handlers' = {h} /\ (overlapped' <=> overlapped)
      BY <1>1, <2>2
    <3>2. h.what = "location" /\ h.tariff = tariffCached
      OBVIOUS
    <3>. HIDE DEF h
    <3>3. ASSUME ~overlapped', ingestFails' = 0
          PROVE  told'.tariff = tariffCached'
      BY <1>1, <2>2, <3>1, <3>3 DEF SinkInv, InStep
    <3>. QED
      BY <1>1, <3>1, <3>2, <3>3 DEF InStep
  <2>. QED
    BY <2>1, <2>2
<1>. QED
  BY <1>2, <1>3, <1>4, <1>5 DEF SinkInv

\* A tariff is pushed.
LEMMA PutTariffInv == ASSUME SinkInv, NEW v \in 1..MaxTariffs, PutTariff(v) PROVE SinkInv'
<1>. DEFINE h == [n |-> arrivals + 1, what |-> "tariff", content |-> v,
                  ingests |-> hasLocation, tariff |-> v]
<1>0. v \in Nat /\ v # Nothing
  BY DEF Nothing
<1>1. /\ tariffCached' = v /\ handlers' = handlers \cup {h}
      /\ arrivals' = arrivals + 1 /\ overlapped' = (overlapped \/ handlers # {})
      /\ UNCHANGED <<hasLocation, rowPrice, told, ingestFails>>
  BY DEF PutTariff, Leave, Cached
<1>2. SinkTypeOK'
  BY <1>0, <1>1 DEF SinkInv, SinkTypeOK
<1>3. CachedFirst'
  BY <1>0, <1>1 DEF SinkInv, CachedFirst
<1>4. LinkedFirst'
  BY <1>0, <1>1 DEF SinkInv, CachedFirst, LinkedFirst
<1>5. InStep'
  <2>1. CASE handlers # {}
    BY <1>1, <2>1 DEF InStep
  <2>2. CASE handlers = {}
    <3>1. handlers' = {h} /\ (overlapped' <=> overlapped)
      BY <1>1, <2>2
    <3>2. h.what = "tariff" /\ h.content = v /\ h.ingests = hasLocation
      OBVIOUS
    <3>. HIDE DEF h
    <3>3. ASSUME ~overlapped', ingestFails' = 0
          PROVE  told'.location <=> hasLocation'
      BY <1>1, <2>2, <3>1, <3>3 DEF SinkInv, InStep
    <3>. QED
      BY <1>1, <3>1, <3>2, <3>3 DEF InStep
  <2>. QED
    BY <2>1, <2>2
<1>. QED
  BY <1>2, <1>3, <1>4, <1>5 DEF SinkInv

\* An object is deleted.
LEMMA DeleteInv ==
  ASSUME SinkInv, NEW what \in {"location", "tariff"}, Delete(what)
  PROVE  SinkInv'
<1>1. /\ \A h \in handlers : h.what # what
      /\ UNCHANGED <<handlers, rowPrice, overlapped, ingestFails, arrivals>>
  BY DEF Delete
<1>2. CASE what = "location"
  <2>1. /\ hasLocation' = FALSE /\ tariffCached' = tariffCached
        /\ told' = [told EXCEPT !.location = FALSE]
    BY <1>2 DEF Delete
  <2>2. told'.location = FALSE /\ told'.tariff = told.tariff /\ SinkTypeOK'
    BY <1>1, <2>1 DEF SinkInv, SinkTypeOK
  <2>3. CachedFirst' /\ LinkedFirst' /\ InStep'
    BY <1>1, <1>2, <2>1, <2>2 DEF SinkInv, SinkTypeOK, CachedFirst, LinkedFirst, InStep
  <2>. QED
    BY <2>2, <2>3 DEF SinkInv
<1>3. CASE what = "tariff"
  <2>1. /\ hasLocation' = hasLocation /\ tariffCached' = Nothing
        /\ told' = [told EXCEPT !.tariff = Nothing]
    BY <1>3 DEF Delete
  <2>2. told'.location = told.location /\ told'.tariff = Nothing /\ SinkTypeOK'
    BY <1>1, <2>1 DEF SinkInv, SinkTypeOK, Nothing
  <2>3. CachedFirst' /\ LinkedFirst' /\ InStep'
    BY <1>1, <1>3, <2>1, <2>2 DEF SinkInv, SinkTypeOK, CachedFirst, LinkedFirst, InStep
  <2>. QED
    BY <2>2, <2>3 DEF SinkInv
<1>. QED
  BY <1>2, <1>3

\* A handler ingests what it took along, and answers.
LEMMA IngestPushInv == ASSUME SinkInv, NEW h \in handlers, IngestPush(h) PROVE SinkInv'
<1>1. /\ handlers' = handlers \ {h}
      /\ rowPrice' = IF h.ingests /\ h.tariff # Nothing THEN h.tariff ELSE rowPrice
      /\ UNCHANGED <<hasLocation, tariffCached, overlapped, ingestFails, arrivals>>
  BY DEF IngestPush
<1>2. /\ h \in [n : Nat, what : {"location", "tariff"}, content : Nat,
                ingests : BOOLEAN, tariff : Nat]
      /\ told \in [location : BOOLEAN, tariff : Nat]
  BY DEF SinkInv, SinkTypeOK
<1>3. /\ told'.location = (h.what = "location" \/ told.location)
      /\ told'.tariff = IF h.what = "tariff" THEN h.content ELSE told.tariff
      /\ told' \in [location : BOOLEAN, tariff : Nat]
  BY <1>2 DEF IngestPush
<1>4. SinkTypeOK'
  BY <1>1, <1>2, <1>3 DEF SinkInv, SinkTypeOK
<1>5. CachedFirst'
  BY <1>1, <1>2, <1>3 DEF SinkInv, CachedFirst
<1>6. LinkedFirst'
  BY <1>1, <1>2, <1>3 DEF SinkInv, CachedFirst, LinkedFirst
<1>7. InStep'
  BY <1>1, <1>2, <1>3 DEF SinkInv, SinkTypeOK, CachedFirst, InStep
<1>. QED
  BY <1>4, <1>5, <1>6, <1>7 DEF SinkInv

\* An ingest fails, and the partner is answered with an error.
LEMMA FailIngestInv == ASSUME SinkInv, NEW h \in handlers, FailIngest(h) PROVE SinkInv'
<1>1. /\ handlers' = handlers \ {h} /\ ingestFails' = ingestFails + 1
      /\ UNCHANGED <<hasLocation, tariffCached, rowPrice, told, overlapped, arrivals>>
  BY DEF FailIngest
<1>2. SinkTypeOK' /\ ingestFails' # 0
  BY <1>1 DEF SinkInv, SinkTypeOK
<1>3. CachedFirst' /\ LinkedFirst' /\ InStep'
  BY <1>1, <1>2 DEF SinkInv, CachedFirst, LinkedFirst, InStep
<1>. QED
  BY <1>2, <1>3 DEF SinkInv

\* Every step keeps the invariant.
LEMMA SinkStepInv == SinkInv /\ [PartnerNext]_partnerVars => SinkInv'
<1>. SUFFICES ASSUME SinkInv, [PartnerNext]_partnerVars PROVE SinkInv'
  OBVIOUS
<1>1. CASE UNCHANGED sinkVars
  BY <1>1 DEF SinkInv, SinkTypeOK, CachedFirst, LinkedFirst, InStep, sinkVars
<1>2. ASSUME Register \/ SetToken \/ SetOCPIIncomingToken \/ UpsertCPO \/ GiveUp
             \/ UNCHANGED partnerVars
      PROVE  UNCHANGED sinkVars
  BY <1>2 DEF Register, SetToken, SetOCPIIncomingToken, UpsertCPO, GiveUp, partnerVars, sinkVars
<1>. QED
  BY <1>1, <1>2, PutLocationInv, PutTariffInv, DeleteInv, IngestPushInv, FailIngestInv
     DEF PartnerNext

=============================================================================

----------------------------- MODULE MCPollPass -----------------------------
(* Small instances of PollPass. *)
EXTENDS PollPass, TLC

CONSTANTS
  c1, c2,                 \* connectors
  e1, e2,                 \* EVSEs
  avail, prices, admin,   \* the two scheduled passes, and one asked for
  ingest, api,            \* processes
  up, down, cheap, dear   \* statuses and tariffs

OwnEvse == (c1 :> e1) @@ (c2 :> e2)

Kinds == (avail :> "availability") @@ (prices :> "price") @@ (admin :> "price")
MCKindOf == [p \in Passes |-> Kinds[p]]
Engines == (avail :> ingest) @@ (prices :> ingest) @@ (admin :> api)
MCEngineOf == [p \in Passes |-> Engines[p]]

SharedEvse == [c \in Connectors |-> e1]

\* Everything a publisher could say of a connector.
AllOffers == [c \in Connectors |-> Entries \cup {Unlisted}]

\* The same, but one connector is always listed with a price.
PricedOffers ==
  [c \in Connectors |-> IF c = c1 THEN {e \in Entries : e.tariff # NoTariff}
                        ELSE Entries \cup {Unlisted}]

\* As little as has both statuses, a price and the lack of one.
FewOffers ==
  [c \in Connectors |->
     {Unlisted, [status |-> up, tariff |-> cheap], [status |-> down, tariff |-> cheap],
      [status |-> up, tariff |-> NoTariff]}]
=============================================================================

--------------------------- MODULE MCTariffHistory ---------------------------
(* Small instances of TariffHistory. *)
EXTENDS TariffHistory, TLC

CONSTANTS
  w1, w2,                 \* writers
  mob,                    \* a mobLocks key
  day, night, other, eliso, zloty,   \* tariff contents
  rate1, rate2, rateE, rateZ         \* published tariff ids

(* Two contents of one rate with the same headline (a table push's full    *)
(* schedule and the tier a status push carries), another rate, an overlay  *)
(* rate and one in a foreign currency.                                     *)
MCRateOf == (day :> rate1) @@ (night :> rate1) @@ (other :> rate2)
            @@ (eliso :> rateE) @@ (zloty :> rateZ)
MCHeadlineOf == (day :> 10) @@ (night :> 10) @@ (other :> 20)
                @@ (eliso :> 30) @@ (zloty :> 40)
AllTariffs == DOMAIN MCRateOf

(* Two Mobilithek workers on one CPO, behind its lock.                     *)
OneGuard == [w \in Writers |-> mob]
BrokerFeed == [w \in Writers |-> {day, night, zloty, other}]
PushJobs == [w \in Writers |-> Kinds]

(* Writers that share no lock: a pass that may also withdraw, and live     *)
(* lookups or the overlay.                                                 *)
Unguarded == [w \in Writers |-> NoGuard]
PairFeed == (w1 :> {day}) @@ (w2 :> {day, eliso})
PairJobs == (w1 :> {"pass", "withdraw"}) @@ (w2 :> {"live"})

(* Two live lookups of one charger.                                        *)
LiveFeed == [w \in Writers |-> {day, other}]
LiveJobs == [w \in Writers |-> {"live"}]
=============================================================================

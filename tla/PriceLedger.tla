----------------------------- MODULE PriceLedger -----------------------------
(***************************************************************************)
(* What the price history of one charger promises, whoever writes it.      *)
(*                                                                         *)
(* The ledger is the list of rows of table tariff_version that belong to   *)
(* one charger, in commit order.  A row is opened once, confirmed and      *)
(* priced while it is open, closed once, and never touched again: history  *)
(* is appended to, never rewritten.  The steps below say nothing of reads, *)
(* transactions, locks or writers; TariffHistory is shown to implement     *)
(* them.                                                                   *)
(***************************************************************************)
EXTENDS Integers, Sequences

CONSTANTS
  Tariffs,      \* published tariff contents (one per content hash)
  HeadlineOf,   \* the euro headline price a tariff content amounts to
  NoPrice       \* comparable_price_eur IS NULL

VARIABLES
  versions,     \* the charger's rows of tariff_version, in commit order
  clock         \* the database's clock

NULL == 0       \* observed_to IS NULL; stamps count from 1

Prices == {HeadlineOf[t] : t \in Tariffs} \cup {NoPrice}

\* One row: the content, the euro price derived from it, the validity
\* interval and the time it was last confirmed.
Version == [tariff : Tariffs, comparable : Prices,
            from : Nat, to : Nat, confirmed : Nat]

IsOpen(row) == row.to = NULL

OpenRows == {i \in DOMAIN versions : IsOpen(versions[i])}

\* The unique index: a charger has at most one open row.
AtMostOneOpen == \A i, j \in OpenRows : i = j

Init == versions = << >> /\ clock = 0

CloseAll(s) ==
  [i \in DOMAIN versions |->
     IF IsOpen(versions[i]) THEN [versions[i] EXCEPT !.to = s] ELSE versions[i]]

\* A new price: the open row, if any, ends at the instant the next begins.
Publish(t, p, s) ==
  versions' = Append(CloseAll(s),
                     [tariff |-> t, comparable |-> p,
                      from |-> s, to |-> NULL, confirmed |-> s])

\* The price is no longer published.
Withdraw(s) == versions' = CloseAll(s)

\* The price in force was seen again.
Confirm(s) ==
  versions' = [i \in DOMAIN versions |->
                 IF IsOpen(versions[i]) THEN [versions[i] EXCEPT !.confirmed = s]
                                        ELSE versions[i]]

\* The euro figures of the price in force become known.
FillPrice(p) ==
  versions' = [i \in DOMAIN versions |->
                 IF IsOpen(versions[i]) /\ versions[i].comparable = NoPrice
                   THEN [versions[i] EXCEPT !.comparable = p]
                   ELSE versions[i]]

\* A step bears a time that has passed, not always the latest: now() is
\* taken before the step takes effect.
Next ==
  /\ clock' \in Nat /\ clock <= clock'
  /\ \/ \E t \in Tariffs, p \in Prices, s \in 1..clock : Publish(t, p, s)
     \/ \E s \in 1..clock : Withdraw(s) \/ Confirm(s)
     \/ \E p \in Prices : FillPrice(p)
     \/ UNCHANGED versions

Spec == Init /\ [][Next]_<<versions, clock>>

=============================================================================

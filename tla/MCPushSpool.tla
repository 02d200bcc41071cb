----------------------------- MODULE MCPushSpool -----------------------------
(* Small instances of PushSpool. *)
EXTENDS PushSpool, TLC

CONSTANTS
  a, b,                       \* operators
  w1, w2,                     \* workers
  up, down, blank,            \* statuses
  cheap, dear, silent, withdrawn

Doc(k, c, s, p) == [kind |-> k, cpo |-> c, status |-> s, price |-> p]

(* Pushes two workers contend over, and junk: an operator's table, its     *)
(* status and a file that does not parse.                                  *)
ContendedStream ==
  (a :> <<Doc("table", a, blank, cheap), Doc("status", a, up, dear), Doc("bad", a, blank, silent)>>)

(* An operator's status pushes, one stating the price and one withdrawing  *)
(* it; beside them another operator's overlay, whose rows may fail.        *)
StatusStream ==
  (a :> <<Doc("status", a, up, cheap), Doc("status", a, down, withdrawn)>>)
  @@ (b :> <<Doc("eliso", b, down, dear)>>)

(* A status with a price, then one that is silent on it.                   *)
DeltaStream == (a :> <<Doc("status", a, up, cheap), Doc("status", a, down, silent)>>)

StaticTable == {Doc("table", a, blank, cheap)}
=============================================================================

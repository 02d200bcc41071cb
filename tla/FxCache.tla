------------------------------ MODULE FxCache ------------------------------
(***************************************************************************)
(* The exchange rates (internal/fx/fx.go): a lazily refreshed set, kept    *)
(* when a refresh fails and retried soon.  Callers queue behind the mutex, *)
(* which covers the fetch.                                                 *)
(*                                                                         *)
(* Time runs in quarters of an hour.                                       *)
(***************************************************************************)
EXTENDS Integers

CONSTANTS
  RefreshEvery,   \* refreshEvery (6 hours)
  RetryAfter,     \* retryAfter (15 minutes)
  MaxFxNow        \* bound: the clock

ASSUME Intervals == RefreshEvery \in Nat /\ RetryAfter \in Nat

NoRates == -1

VARIABLES
  fxNow,
  fetchedAt,      \* when the cached set was fetched, or NoRates
  nextTry,        \* Cache.nextTry
  failedAt,       \* history: when the latest fetch failed; NoRates if it did not
  answer          \* the last caller's: when it came, when its rates were fetched

fxVars == <<fxNow, fetchedAt, nextTry, failedAt, answer>>

FxInit ==
  /\ fxNow = 0
  /\ fetchedAt = NoRates /\ nextTry = 0 /\ failedAt = NoRates
  /\ answer = [at |-> NoRates, fetched |-> NoRates]

Due == fetchedAt = NoRates \/ fxNow >= nextTry

CallCached ==
  /\ ~Due
  /\ answer' = [at |-> fxNow, fetched |-> fetchedAt]
  /\ UNCHANGED <<fxNow, fetchedAt, nextTry, failedAt>>

CallFetches ==
  /\ Due
  /\ fetchedAt' = fxNow /\ failedAt' = NoRates
  /\ nextTry' = fxNow + RefreshEvery
  /\ answer' = [at |-> fxNow, fetched |-> fxNow]
  /\ UNCHANGED fxNow

\* Mutated CallFails: a failed fetch is as good as a successful one.
CallFails_Rests ==
  /\ Due
  /\ failedAt' = fxNow
  /\ nextTry' = fxNow + RefreshEvery
  /\ answer' = [at |-> fxNow, fetched |-> fetchedAt]
  /\ UNCHANGED <<fxNow, fetchedAt>>

\* The last good set goes on, if there is one.
CallFails ==
  /\ Due
  /\ failedAt' = fxNow
  /\ nextTry' = fxNow + RetryAfter
  /\ answer' = [at |-> fxNow, fetched |-> fetchedAt]
  /\ UNCHANGED <<fxNow, fetchedAt>>

FxTick ==
  /\ fxNow < MaxFxNow /\ fxNow' = fxNow + 1
  /\ UNCHANGED <<fetchedAt, nextTry, failedAt, answer>>

FxNext == CallCached \/ CallFetches \/ CallFails \/ FxTick

-----------------------------------------------------------------------------
(* Properties.                                                             *)

\* A caller gets rates fetched within the refresh interval, unless a fetch was
\* tried and failed within the retry interval: an outage of the feed neither
\* outlives itself by hours nor hides behind the last good set.
RetriesSoon ==
  answer.at = fxNow /\ answer.fetched # NoRates =>
    \/ fxNow - fetchedAt <= RefreshEvery
    \/ failedAt # NoRates /\ fxNow - failedAt <= RetryAfter

=============================================================================

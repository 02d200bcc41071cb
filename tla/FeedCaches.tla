----------------------------- MODULE FeedCaches -----------------------------
(***************************************************************************)
(* The caches of the feeds' static half (internal/ingest/feed.go: AFIR     *)
(* pairs, IRVE, EIPA, E-Control).                                          *)
(*                                                                         *)
(* An availability pass reuses the parsed static base while it is younger  *)
(* than its time to live; a price pass of all but the AFIR pairs reads it  *)
(* anew.  The mutex covers the lookup and the store, not the fetch between *)
(* them, so that the two passes of a source overlap freely.  A pass        *)
(* overlays live statuses on a copy of the base.                           *)
(*                                                                         *)
(* A base is the time at which it was read from the publisher.             *)
(***************************************************************************)
EXTENDS Integers

CONSTANTS
  Passes,         \* passes that may overlap
  StaticTTL,      \* afirStaticTTL, irveStaticTTL, eipaStaticTTL, econtrolTreeTTL
  MaxFetch,       \* bound: how long one fetch takes (the client's timeout)
  MaxNow          \* bound: the clock

ASSUME Durations == StaticTTL \in Nat /\ MaxFetch \in Nat

NotRead == -1

\* The status of a connector: what its base says, or a live one.
OfBase == NotRead

VARIABLES
  now,
  cache,          \* the entry of the source: its base, its age, its status
  feedPass        \* what each pass is doing

feedVars == <<now, cache, feedPass>>

NoPass == [pc |-> "rest", began |-> NotRead, asked |-> NotRead, fresh |-> FALSE,
           base |-> NotRead, status |-> OfBase]

FeedInit ==
  /\ now = 0
  /\ cache = [fetched |-> NotRead, base |-> NotRead, status |-> OfBase]
  /\ feedPass = [p \in Passes |-> NoPass]

-----------------------------------------------------------------------------
(* static, stations.                                                       *)

Usable == cache.fetched # NotRead /\ now - cache.fetched <= StaticTTL

\* The lookup; what is found is copied before the statuses are laid over it.
Begin(p, fresh) ==
  /\ feedPass[p].pc = "rest"
  /\ feedPass' = [feedPass EXCEPT ![p] =
       IF ~fresh /\ Usable
       THEN [NoPass EXCEPT !.pc = "overlay", !.began = now, !.asked = now,
                           !.base = cache.base, !.status = cache.status]
       ELSE [NoPass EXCEPT !.pc = "fetch", !.began = now, !.asked = now, !.fresh = fresh,
                           !.base = now]]
  /\ UNCHANGED <<now, cache>>

\* The fetched base is stored without another look at what is there by now.
Store(p) ==
  /\ feedPass[p].pc = "fetch"
  /\ cache' = [fetched |-> now, base |-> feedPass[p].base, status |-> OfBase]
  /\ feedPass' = [feedPass EXCEPT ![p].pc = "overlay", ![p].asked = now]
  /\ UNCHANGED now

\* A static fetch that fails ends the pass with an error.
FailStatic(p) ==
  /\ feedPass[p].pc = "fetch"
  /\ feedPass' = [feedPass EXCEPT ![p] = NoPass]
  /\ UNCHANGED <<now, cache>>

-----------------------------------------------------------------------------
(* load.                                                                   *)

\* Mutated Overlay: the statuses are laid over the cached slice itself.
Overlay_Shared(p, listed) ==
  /\ feedPass[p].pc = "overlay"
  /\ feedPass' = [feedPass EXCEPT ![p].pc = "ready",
                                  ![p].status = IF listed THEN feedPass[p].asked ELSE @]
  /\ cache' = [cache EXCEPT !.status = IF listed THEN feedPass[p].asked ELSE @]
  /\ UNCHANGED now

\* A connector the status publication does not list keeps its base's status.
Overlay(p, listed) ==
  /\ feedPass[p].pc = "overlay"
  /\ feedPass' = [feedPass EXCEPT ![p].pc = "ready",
                                  ![p].status = IF listed THEN feedPass[p].asked ELSE @]
  /\ UNCHANGED <<now, cache>>

\* Only a price pass that refreshes identity goes on without the statuses.
FailOverlay(p) ==
  /\ feedPass[p].pc = "overlay"
  /\ feedPass' = [feedPass EXCEPT ![p] = IF @.fresh THEN [@ EXCEPT !.pc = "ready"] ELSE NoPass]
  /\ UNCHANGED <<now, cache>>

Return(p) ==
  /\ feedPass[p].pc = "ready"
  /\ feedPass' = [feedPass EXCEPT ![p] = NoPass]
  /\ UNCHANGED <<now, cache>>

\* A request ends within its client's timeout.
FeedTick ==
  /\ now < MaxNow
  /\ \A p \in Passes : feedPass[p].pc \in {"fetch", "overlay"} => now - feedPass[p].asked < MaxFetch
  /\ now' = now + 1
  /\ UNCHANGED <<cache, feedPass>>

FeedNext ==
  \/ (\E p \in Passes, fresh \in BOOLEAN : Begin(p, fresh))
  \/ (\E p \in Passes : Store(p) \/ FailStatic(p))
  \/ (\E p \in Passes, listed \in BOOLEAN : Overlay(p, listed))
  \/ (\E p \in Passes : FailOverlay(p) \/ Return(p))
  \/ FeedTick

-----------------------------------------------------------------------------
(* Properties.                                                             *)

Ready(p) == feedPass[p].pc = "ready"

\* No base was read longer ago than the time to live and a fetch before the
\* pass began, and one asked for anew was read during it.
BaseFresh ==
  \A p \in Passes : Ready(p) =>
    feedPass[p].base >= feedPass[p].began - (IF feedPass[p].fresh THEN 0 ELSE StaticTTL + MaxFetch)

\* A live status in a pass's result was read by that pass.
StatusesNow ==
  \A p \in Passes : Ready(p) => feedPass[p].status = OfBase \/ feedPass[p].status >= feedPass[p].began

\* What a pass returns is as fresh as it asked for, base and statuses, however
\* the lookups, fetches and stores of other passes interleave: none outlives
\* its time, none reaches another pass through the cached base ("Copies protect
\* the cached slice/map from the status overlay", feed.go).
FreshAsAsked == BaseFresh /\ StatusesNow

=============================================================================

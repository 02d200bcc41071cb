--------------------------- MODULE Subscriptions ---------------------------
(***************************************************************************)
(* The DATEX II push: self-service registration of callbacks               *)
(* (cmd/api/datex.go, internal/store/datex_subscription.go) and the        *)
(* posting of each publication to them (internal/export/push.go).          *)
(*                                                                         *)
(* Every status pass starts a goroutine of its own that resolves the       *)
(* targets, takes them one after the other and posts what the published    *)
(* file holds then, with a few attempts each.  Registrations, deletions    *)
(* and several pushes run side by side, and full exports remove the status *)
(* file until the next status pass writes it again.  The tables' push of a *)
(* full export goes the same way, with the files that export has written.  *)
(*                                                                         *)
(* A callback stands for its URL and encoding.  Publications are numbered; *)
(* the export rotates on, with unchanged content too.                      *)
(***************************************************************************)
EXTENDS Naturals, Sequences, FiniteSets

CONSTANTS
  Callbacks,      \* callback URLs somebody may register
  Configured,     \* DATEX_PUSH_TARGETS, in order
  Answering,      \* callbacks that echo a challenge and accept posts
  Attempts,       \* attempts per file (3)
  MaxContents,    \* bound: publications of different content
  MaxRegistrations, \* bound: registrations begun
  MaxRefusals,    \* bound: posts an answering callback refuses, listings that fail
  PassesPerFull,  \* status passes between two full exports, at least
  MaxPushes       \* bound: pushes running at a time

Endpoints == Callbacks \cup {Configured[i] : i \in DOMAIN Configured}

ASSUME TargetsAreListed == Configured \in Seq(Endpoints)

\* The body of a push whose target's file is not read yet.
Unread == 0

VARIABLES
  contents,       \* the number of the last publication
  sinceFull,      \* status passes since a full export, up to PassesPerFull
  rows,           \* datex_subscription: sequence of [callback, secret], by id
  registering,    \* registrations: what each of them has done so far
  secrets,        \* registrations begun; a registration's number is its secret
  pushes,         \* the running pushes, oldest first
  refused,        \* posts refused by answering callbacks, listings failed
  received,       \* the last publication each endpoint accepted
  echoed, posted  \* endpoints that echoed a challenge; that a push was posted to

fileVars == <<contents, sinceFull>>
subVars == <<fileVars, rows, registering, secrets, pushes, refused, received, echoed, posted>>

\* A full export removes the status file, the next status pass writes it.
FileThere == sinceFull > 0

SubInit ==
  /\ contents = 1 /\ sinceFull = 1
  /\ rows = << >>
  /\ registering = {} /\ secrets = 0
  /\ pushes = << >> /\ refused = 0
  /\ received = [e \in Endpoints |-> Unread]
  /\ echoed = {} /\ posted = {}

-----------------------------------------------------------------------------
(* Registration.                                                           *)

Subscribe(c) ==
  /\ secrets < MaxRegistrations /\ secrets' = secrets + 1
  /\ registering' = registering \cup {[callback |-> c, secret |-> secrets + 1, pc |-> "verify"]}
  /\ UNCHANGED <<fileVars, rows, pushes, refused, received, echoed, posted>>

\* Mutated Verify: the row is stored first and activated at once.
Verify_Late(q) ==
  /\ q \in registering /\ q.pc = "verify"
  /\ registering' = (registering \ {q}) \cup {[q EXCEPT !.pc = "store"]}
  /\ UNCHANGED <<fileVars, rows, secrets, pushes, refused, received, echoed, posted>>

\* verifyCallback: without the echo the registration ends with a 422.
Verify(q) ==
  /\ q \in registering /\ q.pc = "verify"
  /\ IF q.callback \in Answering
     THEN /\ registering' = (registering \ {q}) \cup {[q EXCEPT !.pc = "store"]}
          /\ echoed' = echoed \cup {q.callback}
     ELSE /\ registering' = registering \ {q}
          /\ UNCHANGED echoed
  /\ UNCHANGED <<fileVars, rows, secrets, pushes, refused, received, posted>>

\* One row per callback and encoding; its secret is the last registrant's.
Upserted(q) ==
  IF \E i \in DOMAIN rows : rows[i].callback = q.callback
  THEN [i \in DOMAIN rows |-> IF rows[i].callback = q.callback
                               THEN [rows[i] EXCEPT !.secret = q.secret] ELSE rows[i]]
  ELSE Append(rows, [callback |-> q.callback, secret |-> q.secret])

StoreSubscription(q) ==
  /\ q \in registering /\ q.pc = "store"
  /\ rows' = Upserted(q)
  /\ registering' = registering \ {q}
  /\ UNCHANGED <<fileVars, secrets, pushes, refused, received, echoed, posted>>

\* The secret of an earlier registration of the row finds nothing to delete.
Unsubscribe(i, secret) ==
  /\ i \in DOMAIN rows /\ rows[i].secret = secret
  /\ rows' = [j \in 1..(Len(rows) - 1) |-> rows[IF j < i THEN j ELSE j + 1]]
  /\ UNCHANGED <<fileVars, registering, secrets, pushes, refused, received, echoed, posted>>

-----------------------------------------------------------------------------
(* Pushing.                                                                *)

\* resolveTargets; the listing may fail, which leaves the configured ones.
Targets == Configured \o [i \in DOMAIN rows |-> rows[i].callback]

Start(targets) == [targets |-> targets, body |-> Unread, tries |-> 0]

\* A status pass writes the file and starts a push.
Publish ==
  /\ Len(pushes) < MaxPushes
  /\ contents' \in {contents, contents + 1} /\ contents' <= MaxContents
  /\ sinceFull' = IF sinceFull < PassesPerFull THEN sinceFull + 1 ELSE sinceFull
  /\ \/ pushes' = Append(pushes, Start(Targets)) /\ UNCHANGED refused
     \/ /\ refused < MaxRefusals /\ refused' = refused + 1
        /\ pushes' = Append(pushes, Start(Configured))
  /\ UNCHANGED <<rows, registering, secrets, received, echoed, posted>>

\* pruneRegions of a full export removes the status file, which is not one of
\* those it has written.
Prune ==
  /\ sinceFull = PassesPerFull /\ sinceFull' = 0
  /\ UNCHANGED <<contents, rows, registering, secrets, pushes, refused, received, echoed, posted>>

Next_Target(p) == Start(Tail(p.targets))

\* pushFile reads the file when its target's turn has come, and gives the
\* target up if the file has gone.
ReadBody(k) ==
  /\ k \in DOMAIN pushes /\ pushes[k].targets # << >> /\ pushes[k].body = Unread
  /\ \/ FileThere /\ pushes' = [pushes EXCEPT ![k].body = contents]
     \/ ~FileThere /\ pushes' = [pushes EXCEPT ![k] = Next_Target(@)]
  /\ UNCHANGED <<fileVars, rows, registering, secrets, refused, received, echoed, posted>>

PostAccepted(k) ==
  /\ k \in DOMAIN pushes /\ pushes[k].body # Unread
  /\ Head(pushes[k].targets) \in Answering
  /\ received' = [received EXCEPT ![Head(pushes[k].targets)] = pushes[k].body]
  /\ posted' = posted \cup {Head(pushes[k].targets)}
  /\ pushes' = [pushes EXCEPT ![k] = Next_Target(@)]
  /\ UNCHANGED <<fileVars, rows, registering, secrets, refused, echoed>>

\* Mutated AfterRefusal: attempts have no end.
AfterRefusal_Forever(p) == p

\* After the last attempt the target's file is given up, not the push.
AfterRefusal(p) ==
  IF p.tries + 1 < Attempts THEN [p EXCEPT !.tries = @ + 1] ELSE Next_Target(p)

PostRefused(k) ==
  /\ k \in DOMAIN pushes /\ pushes[k].body # Unread
  /\ \/ Head(pushes[k].targets) \notin Answering /\ UNCHANGED refused
     \/ refused < MaxRefusals /\ refused' = refused + 1
  /\ posted' = posted \cup {Head(pushes[k].targets)}
  /\ pushes' = [pushes EXCEPT ![k] = AfterRefusal(@)]
  /\ UNCHANGED <<fileVars, rows, registering, secrets, received, echoed>>

EndPush(k) ==
  /\ k \in DOMAIN pushes /\ pushes[k].targets = << >>
  /\ pushes' = [j \in 1..(Len(pushes) - 1) |-> pushes[IF j < k THEN j ELSE j + 1]]
  /\ UNCHANGED <<fileVars, rows, registering, secrets, refused, received, echoed, posted>>

PushStep(k) == ReadBody(k) \/ PostAccepted(k) \/ PostRefused(k) \/ EndPush(k)

SubNext ==
  \/ (\E c \in Callbacks : Subscribe(c))
  \/ (\E q \in registering : Verify(q) \/ StoreSubscription(q))
  \/ (\E i \in DOMAIN rows, s \in 1..secrets : Unsubscribe(i, s))
  \/ Publish \/ Prune
  \/ (\E k \in 1..MaxPushes : PushStep(k))

-----------------------------------------------------------------------------
(* Properties.                                                             *)

\* A publication is posted only where the operator or the callback itself
\* wants it: a callback that never echoed a challenge is never posted to, with
\* registrations, deletions and pushes running side by side.
OnlyProven == posted \subseteq echoed \cup {Configured[i] : i \in DOMAIN Configured}

\* An answering target's last publication is again and again the current one:
\* targets that never answer do not keep those behind them from it, and a
\* dropped or reordered push, or one that found its file removed, is made good
\* by a later rotation ("self-heals on the next rotation", push.go).
SubscriberCurrent(e) ==
  \/ received[e] = contents
  \/ e \notin {Targets[i] : i \in DOMAIN Targets}

=============================================================================

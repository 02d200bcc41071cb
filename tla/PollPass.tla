------------------------------ MODULE PollPass ------------------------------
(***************************************************************************)
(* Polling one full-snapshot source (internal/ingest/ingest.go).           *)
(*                                                                         *)
(* A pass fetches the whole feed, then works through its connectors one by *)
(* one, skipping those whose signature is the one cached by the pass before*)
(* it.  A price pass goes on to confirm the prices it saw and to retire    *)
(* the chargers it did not.  Passes of the two kinds, passes of another    *)
(* process and pushes of the same source interleave at every step; a row's *)
(* statements may fail part-way; a process may die.                        *)
(*                                                                         *)
(* The price in force stands for a charger's open tariff_version, whose    *)
(* writing TariffHistory models.  A signature keeps the status and the     *)
(* tariff of a connector; identity fields change like a status does.       *)
(* The tariffs of a feed are those its connectors name.                    *)
(***************************************************************************)
EXTENDS Integers, FiniteSets, Sequences

CONSTANTS
  Connectors,     \* (evse_uid, connector_id) pairs of the source
  EvseOf,         \* the EVSE of a connector
  Statuses, NoStatus,
  Tariffs, NoTariff,
  Offers,         \* what the publisher may come to say of each connector
  Passes,         \* the (engine, kind) pairs that poll the source
  KindOf,         \* "availability" or "price"
  EngineOf,       \* the process whose Engine a pass belongs to
  Disturbances,   \* what may go wrong, a subset of AllDisturbances
  MaxEdits        \* bound: changes the publisher makes

AllDisturbances == {"rowerror", "outage", "crash", "push"}

ASSUME PollAssumption ==
  /\ NoStatus \notin Statuses /\ NoTariff \notin Tariffs
  /\ KindOf \in [Passes -> {"availability", "price"}]
  /\ Disturbances \subseteq AllDisturbances
  /\ \A c \in Connectors :
       Offers[c] \subseteq [status : Statuses, tariff : Tariffs \cup {NoTariff}]
                           \cup {[status |-> NoStatus, tariff |-> NoTariff]}
  /\ MaxEdits \in Nat

VARIABLES
  published,      \* what the publisher's feed says of each connector now
  edits,
  pushes,         \* pushed objects on their way to the OCPI sink
  row,            \* table charger: absent, active or retired
  status,         \* table charger_status
  price,          \* content of the open tariff_version
  confirmed,      \* rows whose price was confirmed since a price pass began
  phase,          \* where each pass is
  fetched,        \* the feed as the pass read it
  todo,           \* connectors the pass has not come to yet
  next,           \* signatures gathered by the running pass
  cache           \* signatures of the pass before it (Engine.sigCache)

source == <<published, edits, pushes>>
db == <<row, status, price, confirmed>>
run == <<phase, fetched, todo, next, cache>>
vars == <<source, db, run>>

Unlisted == [status |-> NoStatus, tariff |-> NoTariff]
Entries == [status : Statuses, tariff : Tariffs \cup {NoTariff}]
NoSig == Unlisted
Sigs == Entries

Listed(feed) == {c \in Connectors : feed[c] # Unlisted}
Priced(feed) == {c \in Connectors : feed[c].tariff # NoTariff}
Active == {c \in Connectors : row[c] = "active"}
IsPrice(p) == KindOf[p] = "price"

TypeOK ==
  /\ published \in [Connectors -> Entries \cup {Unlisted}]
  /\ \A c \in Connectors : published[c] \in Offers[c]
  /\ edits \in 0..MaxEdits
  /\ pushes \subseteq [connector : Connectors, entry : Entries]
  /\ row \in [Connectors -> {"absent", "active", "retired"}]
  /\ status \in [Connectors -> Statuses \cup {NoStatus}]
  /\ price \in [Connectors -> Tariffs \cup {NoTariff}]
  /\ confirmed \subseteq Connectors
  /\ phase \in [Passes -> {"idle", "rows", "confirm", "count", "prune", "revive"}]
  /\ fetched \in [Passes -> [Connectors -> Entries \cup {Unlisted}]]
  /\ todo \in [Passes -> SUBSET Connectors]
  /\ next \in [Passes -> [Connectors -> Sigs \cup {NoSig}]]
  /\ cache \in [Passes -> [Connectors -> Sigs \cup {NoSig}]]
  /\ \A c \in Connectors : row[c] = "absent" => status[c] = NoStatus /\ price[c] = NoTariff
  /\ \A c \in Connectors : status[c] = NoStatus => price[c] = NoTariff

NothingCached == [c \in Connectors |-> NoSig]

Init ==
  /\ published \in [Connectors -> Entries \cup {Unlisted}]
  /\ \A c \in Connectors : published[c] \in Offers[c]
  /\ edits = 0
  /\ pushes = {}
  /\ row = [c \in Connectors |-> "absent"]
  /\ status = [c \in Connectors |-> NoStatus]
  /\ price = [c \in Connectors |-> NoTariff]
  /\ confirmed = {}
  /\ phase = [p \in Passes |-> "idle"]
  /\ fetched = [p \in Passes |-> [c \in Connectors |-> Unlisted]]
  /\ todo = [p \in Passes |-> {}]
  /\ next = [p \in Passes |-> NothingCached]
  /\ cache = [p \in Passes |-> NothingCached]

-----------------------------------------------------------------------------
(* The publisher, and the objects an OCPI partner pushes besides.          *)

Publish(c, e) ==
  /\ edits < MaxEdits /\ published[c] # e /\ e \in Offers[c]
  /\ edits' = edits + 1
  /\ published' = [published EXCEPT ![c] = e]
  /\ pushes' = IF "push" \in Disturbances /\ e # Unlisted
                 THEN pushes \cup {[connector |-> c, entry |-> e]} ELSE pushes
  /\ UNCHANGED <<db, run>>

\* ocpiSink hands a pushed location to IngestOCPI, with the tariff if the
\* sink has been sent it.  Pushes may overtake each other and may be lost.
Deliver(m, known) ==
  /\ m \in pushes
  /\ pushes' = pushes \ {m}
  /\ LET c == m.connector
         carries == known /\ m.entry.tariff # NoTariff
     IN  /\ row' = [row EXCEPT ![c] = IF @ = "absent" THEN "active" ELSE @]
         /\ status' = [status EXCEPT ![c] = m.entry.status]
         /\ price' = [price EXCEPT ![c] = IF carries THEN m.entry.tariff ELSE @]
         /\ confirmed' = IF carries THEN confirmed \cup {c} ELSE confirmed
  /\ UNCHANGED <<published, edits, run>>

Lose(m) ==
  /\ m \in pushes
  /\ pushes' = pushes \ {m}
  /\ UNCHANGED <<published, edits, db, run>>

-----------------------------------------------------------------------------
(* One pass.                                                               *)

\* What a pass takes from the feed: an availability pass no prices; a price
\* pass none either when the separate tariff file or module did not answer.
Reading(p, came) ==
  [c \in Connectors |->
     IF came THEN published[c] ELSE [published[c] EXCEPT !.tariff = NoTariff]]

Fetch(p, came) ==
  /\ phase[p] = "idle"                     \* Engine.acquire
  /\ came => IsPrice(p)
  /\ ~came /\ IsPrice(p) => "outage" \in Disturbances
  /\ phase' = [phase EXCEPT ![p] = "rows"]
  /\ fetched' = [fetched EXCEPT ![p] = Reading(p, came)]
  /\ todo' = [todo EXCEPT ![p] = Listed(published)]
  /\ next' = [next EXCEPT ![p] = NothingCached]
  /\ confirmed' = IF IsPrice(p) THEN {} ELSE confirmed
  /\ UNCHANGED <<source, row, status, price, cache>>

\* connectorSig and availabilitySig: what was fetched is what is signed.
Sig(p, c) == fetched[p][c]

Unchanged_StatusOnly(p, c) ==
  cache[p][c] # NoSig /\ cache[p][c].status = Sig(p, c).status
Unchanged(p, c) == cache[p][c] = Sig(p, c)

Skip(p, c) ==
  /\ phase[p] = "rows" /\ c \in todo[p] /\ Unchanged(p, c)
  /\ todo' = [todo EXCEPT ![p] = @ \ {c}]
  /\ next' = [next EXCEPT ![p][c] = Sig(p, c)]
  /\ UNCHANGED <<source, db, phase, fetched, cache>>

\* Prices no longer named are closed by a pass that read a tariff at all: a
\* feed without any is taken for an outage, though it may be that the last
\* price was withdrawn.
ClosesWithdrawn_Never(p) == FALSE
ClosesWithdrawn(p) == IsPrice(p) /\ Priced(fetched[p]) # {}

\* The statements a changed connector takes, in order.

Statements(p, c) ==
  <<"charger", "status">> \o
  (IF Sig(p, c).tariff # NoTariff THEN <<"tariff">>
   ELSE IF ClosesWithdrawn(p) THEN <<"close">> ELSE << >>)

\* A row whose statements did not all succeed is tried again next time.
Remember_Failed(p, c, done) == Sig(p, c)
Remember(p, c, done) == IF done = Len(Statements(p, c)) THEN Sig(p, c) ELSE NoSig

Process(p, c, done) ==
  LET made == {Statements(p, c)[i] : i \in 1..done}
  IN  /\ phase[p] = "rows" /\ c \in todo[p] /\ ~Unchanged(p, c)
      /\ done < Len(Statements(p, c)) => "rowerror" \in Disturbances
      /\ row' = [row EXCEPT ![c] =
                   IF @ = "absent" /\ "charger" \in made THEN "active" ELSE @]
      /\ status' = [status EXCEPT ![c] = IF "status" \in made THEN Sig(p, c).status ELSE @]
      /\ price' = [price EXCEPT ![c] =
                     IF {"tariff", "close"} \cap made # {} THEN Sig(p, c).tariff ELSE @]
      /\ confirmed' = IF "tariff" \in made /\ price[c] # Sig(p, c).tariff
                        THEN confirmed \cup {c} ELSE confirmed
      /\ todo' = [todo EXCEPT ![p] = @ \ {c}]
      /\ next' = [next EXCEPT ![p][c] = Remember(p, c, done)]
      /\ UNCHANGED <<source, phase, fetched, cache>>

StoreSigs(p) ==
  /\ phase[p] = "rows" /\ todo[p] = {}
  /\ cache' = [cache EXCEPT ![p] = next[p]]
  /\ phase' = [phase EXCEPT ![p] = IF IsPrice(p) THEN "confirm" ELSE "idle"]
  /\ UNCHANGED <<source, db, fetched, todo, next>>

\* ConfirmTariffsSeen: the open versions of the EVSEs seen with a price.
Seen(p) == {c \in Connectors : \E d \in Priced(fetched[p]) : EvseOf[d] = EvseOf[c]}

Confirm(p) ==
  /\ phase[p] = "confirm"
  /\ phase' = [phase EXCEPT ![p] = "count"]
  /\ \/ confirmed' = confirmed \cup {c \in Seen(p) : price[c] # NoTariff}
     \/ "rowerror" \in Disturbances /\ UNCHANGED confirmed
  /\ UNCHANGED <<source, row, status, price, fetched, todo, next, cache>>

-----------------------------------------------------------------------------
(* reconcileRetired: three statements of their own.                        *)

TooSmall_Never(p) == FALSE
TooSmall(p) ==
  LET feed == Cardinality(Listed(fetched[p]))
  IN  feed = 0 \/ feed * 2 < Cardinality(Active)

Stop(p) == phase' = [phase EXCEPT ![p] = "idle"]

Count(p) ==
  /\ phase[p] = "count"
  /\ \/ TooSmall(p) /\ Stop(p)
     \/ ~TooSmall(p) /\ phase' = [phase EXCEPT ![p] = "prune"]
     \/ "rowerror" \in Disturbances /\ Stop(p)
  /\ UNCHANGED <<source, db, fetched, todo, next, cache>>

Prune(p) ==
  /\ phase[p] = "prune"
  /\ \/ /\ row' = [c \in Connectors |->
               IF row[c] = "active" /\ c \notin Listed(fetched[p]) THEN "retired" ELSE row[c]]
        /\ phase' = [phase EXCEPT ![p] = "revive"]
     \/ "rowerror" \in Disturbances /\ Stop(p) /\ UNCHANGED row
  /\ UNCHANGED <<source, status, price, confirmed, fetched, todo, next, cache>>

Revived_None(p) == {}
Revived(p) == {c \in Listed(fetched[p]) : row[c] = "retired"}

Revive(p) ==
  /\ phase[p] = "revive" /\ Stop(p)
  /\ \/ row' = [c \in Connectors |-> IF c \in Revived(p) THEN "active" ELSE row[c]]
     \/ "rowerror" \in Disturbances /\ UNCHANGED row
  /\ UNCHANGED <<source, status, price, confirmed, fetched, todo, next, cache>>

\* A process dies: its passes stop where they are and its cache is gone.
Crash(e) ==
  LET mine(p) == EngineOf[p] = e
  IN  /\ "crash" \in Disturbances
      /\ phase' = [p \in Passes |-> IF mine(p) THEN "idle" ELSE phase[p]]
      /\ cache' = [p \in Passes |-> IF mine(p) THEN NothingCached ELSE cache[p]]
      /\ todo' = [p \in Passes |-> IF mine(p) THEN {} ELSE todo[p]]
      /\ UNCHANGED <<source, db, fetched, next>>

-----------------------------------------------------------------------------
PassStep(p) ==
  \/ \E came \in BOOLEAN : Fetch(p, came)
  \/ \E c \in Connectors : Skip(p, c) \/ \E done \in 0..3 :
        done <= Len(Statements(p, c)) /\ Process(p, c, done)
  \/ StoreSigs(p) \/ Confirm(p) \/ Count(p) \/ Prune(p) \/ Revive(p)

Next ==
  \/ \E c \in Connectors, e \in Entries \cup {Unlisted} : Publish(c, e)
  \/ \E m \in pushes : Lose(m) \/ \E known \in BOOLEAN : Deliver(m, known)
  \/ \E p \in Passes : PassStep(p)
  \/ \E p \in Passes : Crash(EngineOf[p])

Spec == Init /\ [][Next]_vars

\* Cron fires each pass again and again; a pass that runs goes on.
FairSpec == Spec /\ \A p \in Passes : WF_vars(PassStep(p))

-----------------------------------------------------------------------------
(* Properties.                                                             *)

(* The signature a price pass would compare with next time.                *)
Remembered(p, c) == IF phase[p] = "rows" /\ c \notin todo[p] THEN next[p][c] ELSE cache[p][c]

(* "Unchanged signature => nothing to do for that row" (ingest.go): a      *)
(* remembered price is the price in force, whatever failed or crashed      *)
(* since, or the skip would leave a stale price and confirm it.  (The      *)
(* types of the variables are part of it.)                                 *)
PricesRemembered ==
  /\ TypeOK
  /\ \A p \in Passes, c \in Connectors :
       IsPrice(p) /\ Remembered(p, c) # NoSig /\ Remembered(p, c).tariff # NoTariff
         => price[c] = Remembered(p, c).tariff

(* "a charger this pass listed WITHOUT a usable tariff has no published    *)
(* price, and any version we still hold open for it is closed"             *)
(* (ingest.go): so it is once a pass that read some price is through its   *)
(* rows without error.                                                     *)
WithdrawnClosed ==
  [][\A p \in Passes, c \in Connectors :
       StoreSigs(p) /\ IsPrice(p) /\ Priced(fetched[p]) # {} /\ next[p][c] # NoSig
         /\ fetched[p][c].tariff = NoTariff
         => price[c] = NoTariff]_vars

(* ConfirmTariffsSeen says of the open prices of an EVSE that the source   *)
(* still publishes them, as soon as one connector of it was read with one. *)
(* Of a sibling the pass listed too, and did not fail on, that is true:    *)
(* what is confirmed is what was read, and a price the sibling no longer   *)
(* names has been closed before.                                           *)
ConfirmsSeen ==
  [][\A p \in Passes, c \in confirmed' \ confirmed :
       Confirm(p) /\ c \in Listed(fetched[p]) /\ cache[p][c] # NoSig
         => price[c] = fetched[p][c].tariff]_vars

(* "guarded so a truncated/empty feed can't wipe a source" (ingest.go): if *)
(* pruning leaves a source no charger in service, reviving brings one back.*)
NeverWiped ==
  [][\A p \in Passes :
       Prune(p) /\ Active # {} => Active' # {} \/ Revived(p)' # {}]_vars

(* "Periodic pull stays authoritative" (docs/ocpi.md): once the publisher  *)
(* rests, the database comes to say what it publishes, and keeps to it: of *)
(* every status and every price in the feed, and, as long as the feed has  *)
(* never been without any price, of the lack of one, too.                  *)
Agrees(c) ==
  published[c] # Unlisted =>
    /\ row[c] = "active"
    /\ status[c] = published[c].status
    /\ published[c].tariff # NoTariff => price[c] = published[c].tariff

Unpriced(c) == published[c] # Unlisted /\ published[c].tariff = NoTariff => price[c] = NoTariff

Converges ==
  /\ <>[](\A c \in Connectors : Agrees(c))
  /\ [](Priced(published) # {}) => <>[](\A c \in Connectors : Unpriced(c))

=============================================================================

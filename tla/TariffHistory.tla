---------------------------- MODULE TariffHistory ----------------------------
(***************************************************************************)
(* The tariff history of one charger under concurrent writers.             *)
(*                                                                         *)
(* Price passes, the Monta crawl, live lookups, OCPI and Mobilithek pushes *)
(* and the eliso overlay all reach Engine.processTariff                    *)
(* (internal/ingest/ingest.go), which reads the open version and then, in  *)
(* separate statements, decides and writes (internal/store/store.go).      *)
(* Each round trip to PostgreSQL is one action here.  Statements run at    *)
(* READ COMMITTED: an UPDATE picks its rows from a snapshot, waits for     *)
(* their locks and re-checks them; an INSERT waits for a transaction that  *)
(* holds a rival entry of the partial unique index tariff_current_ux.      *)
(* now() is the time of BEGIN, or of the statement outside a transaction.  *)
(*                                                                         *)
(* Rows of different chargers never meet in these statements, so one       *)
(* charger's rows are the whole state.                                     *)
(***************************************************************************)
EXTENDS Integers, Sequences

CONSTANTS
  Writers,        \* goroutines that process this charger's tariff
  GuardOf,        \* the in-process lock a writer holds while it works
  NoGuard,        \* GuardOf of a writer that takes none
  Feed,           \* the tariff contents each writer's source can carry
  Does,           \* the jobs each writer can be given
  Tariffs,        \* tariff contents: two are equal iff their hashes are
  NoTariff,
  RateOf,         \* the published id (ocpi_id) of a tariff content
  OverlayRates,   \* ids with the eliso prefix: the operator's own price
  HeadlineOf,     \* the euro headline of a content, NoPrice if it has none
  NoPrice,        \* comparable_price_eur IS NULL
  Foreign,        \* contents quoted in another currency than the euro
  MaxClock        \* bound: no job starts once this many stamps were taken

\* The kinds of job, by what follows the processing of the tariff:
\*  pass    RunPrices, applyTable: confirm even when processing failed
\*  live    RecordLive, the crawl, eliso: confirm on success
\*  status  a tariff carried on a status push (processStatusTariff)
\*  withdraw  the source lists the charger without a price
Observing == {"pass", "live", "status"}
Kinds == Observing \cup {"withdraw"}

ASSUME ConstantsAssumption ==
  /\ NoTariff \notin Tariffs
  /\ Feed \in [Writers -> SUBSET Tariffs]
  /\ Does \in [Writers -> SUBSET Kinds]
  /\ Foreign \subseteq Tariffs
  /\ MaxClock \in Nat

VARIABLES
  versions,       \* committed rows of tariff_version, in commit order
  clock,          \* the database's clock: the last stamp handed out
  pc,             \* where each writer is
  job,            \* the kind of job and the tariff it carries
  quote,          \* the euro price computed before BEGIN
  stamp,          \* now() of the open transaction or statement
  target          \* rows the UPDATE selected; locked once past "lock"

vars == <<versions, clock, pc, job, quote, stamp, target>>

Ledger == INSTANCE PriceLedger WITH versions <- versions, clock <- clock

NULL == Ledger!NULL
OpenRows == Ledger!OpenRows

Labels == {"idle", "rating", "hashing", "owning", "begin", "scan", "lock",
           "insert", "commit", "fill", "filling", "confirm", "confirming",
           "close", "closing"}

NoJob == [kind |-> "none", tariff |-> NoTariff]

TypeOK ==
  /\ versions \in Seq(Ledger!Version)
  /\ clock \in Nat
  /\ pc \in [Writers -> Labels]
  /\ job \in [Writers -> [kind : Kinds \cup {"none"}, tariff : Tariffs \cup {NoTariff}]]
  /\ quote \in [Writers -> Ledger!Prices]
  /\ stamp \in [Writers -> Nat]
  /\ target \in [Writers -> SUBSET (DOMAIN versions)]

Init ==
  /\ versions = << >>
  /\ clock = 0
  /\ pc = [w \in Writers |-> "idle"]
  /\ job = [w \in Writers |-> NoJob]
  /\ quote = [w \in Writers |-> NoPrice]
  /\ stamp = [w \in Writers |-> NULL]
  /\ target = [w \in Writers |-> {}]

-----------------------------------------------------------------------------
(* What the database lets a writer do.                                     *)

\* Engine.inflight and Engine.mobLocks admit one writer per key at a time.
GuardFree_Off(w) == TRUE
GuardFree(w) ==
  \/ GuardOf[w] = NoGuard
  \/ \A v \in Writers \ {w} : GuardOf[v] = GuardOf[w] => pc[v] = "idle"

InTransaction(v) == pc[v] \in {"insert", "commit"}

Unlocked(w) ==
  \A v \in Writers \ {w} : InTransaction(v) => target[v] \cap target[w] = {}

\* After waiting for a lock, an UPDATE looks at the rows again.
Recheck_Off(w) == target[w]
Recheck(w) == target[w] \cap OpenRows

\* v has an uncommitted entry in the unique index, made or being removed.
Touching_AnyInsert(v) == InTransaction(v)
Touching(v) == pc[v] = "commit" \/ (pc[v] = "insert" /\ target[v] # {})

IndexQuiet_Off(w) == TRUE
IndexQuiet(w) == \A v \in Writers \ {w} : ~Touching(v)

Goto(w, label) == pc' = [pc EXCEPT ![w] = label]

Finish(w) ==
  /\ Goto(w, "idle")
  /\ job' = [job EXCEPT ![w] = NoJob]
  /\ quote' = [quote EXCEPT ![w] = NoPrice]
  /\ stamp' = [stamp EXCEPT ![w] = NULL]
  /\ target' = [target EXCEPT ![w] = {}]

\* A writer took now() and a snapshot: the rows its UPDATE will address.
Snapshot(w, from, to) ==
  /\ pc[w] = from
  /\ Goto(w, to)
  /\ clock' = clock + 1
  /\ stamp' = [stamp EXCEPT ![w] = clock + 1]
  /\ target' = [target EXCEPT ![w] = OpenRows]
  /\ UNCHANGED <<versions, job, quote>>

-----------------------------------------------------------------------------
(* Jobs.                                                                   *)

Observe(w, k, t) ==
  /\ pc[w] = "idle" /\ GuardFree(w) /\ clock < MaxClock
  /\ k \in Does[w] \cap Observing /\ t \in Feed[w]
  /\ job' = [job EXCEPT ![w] = [kind |-> k, tariff |-> t]]
  /\ Goto(w, IF k = "status" THEN "rating" ELSE "hashing")
  /\ UNCHANGED <<versions, clock, quote, stamp, target>>

Withdraw(w) ==
  /\ pc[w] = "idle" /\ GuardFree(w) /\ clock < MaxClock
  /\ "withdraw" \in Does[w]
  /\ job' = [job EXCEPT ![w] = [kind |-> "withdraw", tariff |-> NoTariff]]
  /\ Goto(w, "close")
  /\ UNCHANGED <<versions, clock, quote, stamp, target>>

\* CurrentTariffRate in processStatusTariff: the headline already held?
SameHeadline(t, row) ==
  /\ RateOf[row.tariff] = RateOf[t]
  /\ row.comparable # NoPrice
  /\ row.comparable = HeadlineOf[t]

HeadlineHeld_Never(w) == FALSE
HeadlineHeld(w) == \E i \in OpenRows : SameHeadline(job[w].tariff, versions[i])

ReadRate(w) ==
  /\ pc[w] = "rating"
  /\ \/ HeadlineHeld(w) /\ Goto(w, "confirm")
     \/ /\ ~HeadlineHeld(w) \/ job[w].tariff \in Foreign  \* no rate: no headline
        /\ Goto(w, "hashing")
  /\ UNCHANGED <<versions, clock, job, quote, stamp, target>>

\* CurrentTariffHash in processTariff, and what follows from its answer.
ReadHash(w) ==
  LET t == job[w].tariff
      same == \E i \in OpenRows : versions[i].tariff = t
      rival == OpenRows # {} /\ ~same /\ RateOf[t] \notin OverlayRates
  IN  /\ pc[w] = "hashing"
      /\ \/ same /\ Goto(w, "confirm")
         \/ same /\ t \in Foreign /\ HeadlineOf[t] # NoPrice /\ Goto(w, "fill")
         \/ rival /\ Goto(w, "owning")
         \/ ~same /\ ~rival /\ Goto(w, "begin")
      /\ UNCHANGED <<versions, clock, job, quote, stamp, target>>

\* overlayOwned: an operator's own price is not replaced by a broker's.
CheckOwner(w) ==
  LET owned == \E i \in OpenRows : RateOf[versions[i].tariff] \in OverlayRates
  IN  /\ pc[w] = "owning"
      /\ Goto(w, IF owned THEN "confirm" ELSE "begin")
      /\ UNCHANGED <<versions, clock, job, quote, stamp, target>>

\* euroPrices, then BEGIN, whose time is now() for the whole transaction.
Quotes(t) == {HeadlineOf[t]} \cup {p \in {NoPrice} : t \in Foreign}

Begin(w) ==
  /\ pc[w] = "begin"
  /\ \E p \in Quotes(job[w].tariff) : quote' = [quote EXCEPT ![w] = p]
  /\ clock' = clock + 1
  /\ stamp' = [stamp EXCEPT ![w] = clock + 1]
  /\ Goto(w, "scan")
  /\ UNCHANGED <<versions, job, target>>

\* UPDATE ... WHERE observed_to IS NULL: first the snapshot ...
Scan(w) ==
  /\ pc[w] = "scan"
  /\ target' = [target EXCEPT ![w] = OpenRows]
  /\ Goto(w, "lock")
  /\ UNCHANGED <<versions, clock, job, quote, stamp>>

\* ... then the row locks, and the re-check of the rows that were waited for.
LockRows(w) ==
  /\ pc[w] = "lock" /\ Unlocked(w)
  /\ target' = [target EXCEPT ![w] = Recheck(w)]
  /\ Goto(w, "insert")
  /\ UNCHANGED <<versions, clock, job, quote, stamp>>

\* What follows an error out of processTariff: RunPrices and applyTable log
\* it and still confirm the EVSE's open version; the others give up.
Errored_Confirms(w) ==
  /\ Goto(w, "confirm")
  /\ target' = [target EXCEPT ![w] = {}]
  /\ UNCHANGED <<job, quote, stamp>>
Errored(w) ==
  IF job[w].kind = "pass"
  THEN /\ Goto(w, "confirm")
       /\ target' = [target EXCEPT ![w] = {}]
       /\ UNCHANGED <<job, quote, stamp>>
  ELSE Finish(w)

\* INSERT of the new open row, checked against the unique index.
Insert(w) ==
  /\ pc[w] = "insert" /\ IndexQuiet(w)
  /\ OpenRows \subseteq target[w]
  /\ Goto(w, "commit")
  /\ UNCHANGED <<versions, clock, job, quote, stamp, target>>

InsertDuplicate(w) ==
  /\ pc[w] = "insert" /\ IndexQuiet(w)
  /\ ~(OpenRows \subseteq target[w])
  /\ Errored(w)
  /\ UNCHANGED <<versions, clock>>

NewVersion(w) ==
  [tariff |-> job[w].tariff, comparable |-> quote[w],
   from |-> stamp[w], to |-> NULL, confirmed |-> stamp[w]]

CloseRows(w) ==
  [i \in DOMAIN versions |->
     IF i \in target[w] THEN [versions[i] EXCEPT !.to = stamp[w]] ELSE versions[i]]

Commit(w) ==
  /\ pc[w] = "commit"
  /\ versions' = Append(CloseRows(w), NewVersion(w))
  /\ target' = [target EXCEPT ![w] = {}]
  /\ Goto(w, "confirm")
  /\ UNCHANGED <<clock, job, quote, stamp>>

-----------------------------------------------------------------------------
(* The single-statement updates: snapshot, then lock, re-check and write.  *)

SendFill(w) == Snapshot(w, "fill", "filling")
SendConfirm(w) == Snapshot(w, "confirm", "confirming")
SendClose(w) == Snapshot(w, "close", "closing")

\* FillDerivedPrices: only where comparable_price_eur IS NULL.
Fillable_AnyVersion(w) == {i \in DOMAIN versions : versions[i].comparable = NoPrice}
Fillable(w) == {i \in Recheck(w) : versions[i].comparable = NoPrice}

ApplyFill(w) ==
  /\ pc[w] = "filling" /\ Unlocked(w)
  /\ versions' = [i \in DOMAIN versions |->
       IF i \in Fillable(w)
         THEN [versions[i] EXCEPT !.comparable = HeadlineOf[job[w].tariff]]
         ELSE versions[i]]
  /\ target' = [target EXCEPT ![w] = {}]
  /\ Goto(w, "confirm")
  /\ UNCHANGED <<clock, job, quote, stamp>>

\* ConfirmTariff, and ConfirmTariffsSeen for this charger's row: the one
\* statement updates the rows of all the chargers a pass saw, and locks them as
\* it comes to them.
ApplyConfirm(w) ==
  /\ pc[w] = "confirming" /\ Unlocked(w)
  /\ versions' = [i \in DOMAIN versions |->
       IF i \in Recheck(w)
         THEN [versions[i] EXCEPT !.confirmed = stamp[w]] ELSE versions[i]]
  /\ Finish(w)
  /\ UNCHANGED clock

\* CloseCurrentTariff.
ApplyClose(w) ==
  /\ pc[w] = "closing" /\ Unlocked(w)
  /\ versions' = [i \in DOMAIN versions |->
       IF i \in Recheck(w)
         THEN [versions[i] EXCEPT !.to = stamp[w]] ELSE versions[i]]
  /\ Finish(w)
  /\ UNCHANGED clock

\* A statement fails, or the process dies: the transaction is rolled back.
Fail(w) ==
  /\ pc[w] # "idle"
  /\ \/ Finish(w)
     \/ /\ pc[w] \notin {"confirm", "confirming", "close", "closing"}
        /\ Errored(w)
  /\ UNCHANGED <<versions, clock>>

-----------------------------------------------------------------------------
Start(w) ==
  \/ \E k \in Observing, t \in Tariffs : Observe(w, k, t)
  \/ Withdraw(w)

\* The steps the process and the database complete on their own.
Work(w) ==
  \/ ReadRate(w) \/ ReadHash(w) \/ CheckOwner(w)
  \/ Begin(w) \/ Scan(w) \/ LockRows(w)
  \/ Insert(w) \/ InsertDuplicate(w) \/ Commit(w)
  \/ SendFill(w) \/ SendConfirm(w) \/ SendClose(w)
  \/ ApplyFill(w) \/ ApplyConfirm(w) \/ ApplyClose(w)

\* The bound MaxClock is reached and every job is done.
Rest == /\ clock >= MaxClock /\ \A w \in Writers : pc[w] = "idle"
        /\ UNCHANGED vars

Next == (\E w \in Writers : Start(w) \/ Work(w) \/ Fail(w)) \/ Rest

Spec == Init /\ [][Next]_vars

FairSpec == Spec /\ \A w \in Writers : WF_vars(Work(w))

-----------------------------------------------------------------------------
(* Properties.                                                             *)

(* At most one version of a charger is open, although the decision to open *)
(* one is taken several round trips before it is written, by writers that  *)
(* do not know of each other (tariff_current_ux, ReplaceTariff).           *)
OneOpen == Ledger!AtMostOneOpen

(* What keeps it so: at most one transaction has an entry of the index in  *)
(* its hands, it has locked every open row it will close, and the rows it  *)
(* locked stay open until it commits.                                      *)
LockDiscipline ==
  /\ \A w \in Writers : InTransaction(w) => target[w] \subseteq OpenRows
  /\ \A w \in Writers : pc[w] = "commit" => OpenRows \subseteq target[w]
  /\ \A v, w \in Writers : v # w /\ pc[w] = "commit" => ~Touching(v)
  /\ \A v, w \in Writers :
       v # w /\ InTransaction(v) /\ InTransaction(w) => target[v] \cap target[w] = {}

Processing == {"rating", "hashing", "owning", "begin", "scan", "lock",
               "insert", "commit", "fill", "filling"}
Stamped == {"scan", "lock", "insert", "commit", "filling", "confirming", "closing"}

JobsInHand ==
  \A w \in Writers :
    /\ pc[w] \in Processing => job[w].tariff \in Tariffs
    /\ pc[w] \in Stamped => stamp[w] \in 1..clock

(* The inductive invariant of the proofs: a crash, a statement error or    *)
(* another writer's commit between any two round trips of the code         *)
(* preserves it.                                                           *)
IInv == TypeOK /\ JobsInHand /\ OneOpen /\ LockDiscipline

(* Every step of the transactions is a step of the ledger, or none: rows   *)
(* are only appended, closed once, confirmed and priced while open.        *)
Refines == Ledger!Spec

(* Writers behind one guard keep the history a timeline: a version ends    *)
(* no earlier than it began, and the next begins no earlier than that.     *)
HistoryOrdered ==
  \A i, j \in DOMAIN versions :
    /\ versions[i].to # NULL => versions[i].from <= versions[i].to
    /\ i < j => versions[i].to # NULL /\ versions[i].to <= versions[j].from

(* "A new tariff_version row is written only when the tariff content       *)
(* changes" (README.md): a version that takes over from another at the     *)
(* same instant has another content.                                       *)
ChangesOnly ==
  \A i, j \in DOMAIN versions :
    j = i + 1 /\ versions[i].to = versions[j].from
      => versions[i].tariff # versions[j].tariff

(* The euro price on a row was derived from that row's own tariff          *)
(* (FillDerivedPrices writes to whatever row is open by then).             *)
FillMatches ==
  \A i \in DOMAIN versions :
    versions[i].comparable \in {NoPrice, HeadlineOf[versions[i].tariff]}

Confirmed(i) == versions'[i].confirmed # versions[i].confirmed

Saw(w, i) ==
  job[w].kind # "none" /\ job[w].tariff # NoTariff
    /\ RateOf[job[w].tariff] = RateOf[versions[i].tariff]

(* last_confirmed_at moves only when that very rate was observed           *)
(* (ConfirmTariff: the live lookup, the crawl, status pushes) ...          *)
SuccessConfirmsSeen ==
  [][\A i \in DOMAIN versions : Confirmed(i) =>
       \E w \in Writers : pc[w] = "confirming" /\ pc'[w] = "idle"
                          /\ (Saw(w, i) \/ job[w].kind = "pass")]_vars

(* A status push of the rate and headline price already in force does not  *)
(* open a version, so table and status pushes cannot alternate             *)
(* (processStatusTariff, flap_test.go).                                    *)
StatusNeverFlaps ==
  [][\A w \in Writers, i \in OpenRows :
       pc[w] = "commit" /\ pc'[w] # "commit" /\ job[w].kind = "status"
         /\ job[w].tariff \notin Foreign /\ Len(versions') > Len(versions)
         => ~SameHeadline(job[w].tariff, versions[i])]_vars

(* Row locks and the waits for the unique index of one charger form no     *)
(* circle: while a job is under way one of the writers can go on           *)
(* (ReplaceTariff's transaction, ConfirmTariff, FillDerivedPrices,         *)
(* CloseCurrentTariff; ConfirmTariffsSeen as far as it meets this charger).*)
Waits(w) ==
  \/ pc[w] \in {"lock", "filling", "confirming", "closing"} /\ ~Unlocked(w)
  \/ pc[w] = "insert" /\ ~IndexQuiet(w)
NeverAllWait ==
  (\E w \in Writers : pc[w] # "idle") => \E w \in Writers : pc[w] # "idle" /\ ~Waits(w)

(* No writer waits for ever: row locks, index waits and guards always      *)
(* resolve.                                                                *)
JobsFinish == \A w \in Writers : pc[w] # "idle" ~> pc[w] = "idle"

=============================================================================

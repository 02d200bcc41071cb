# A TLA+ development of the charging price service

The repository is a Go service that collects where electric cars can be charged
and at what price, keeps the history of every price, and publishes both. Two
long-running processes share one PostgreSQL database: `cmd/ingest` polls the
sources on cron schedules, and `cmd/api` serves clients, receives pushes, and can
be asked to run a pass itself. This directory states what its parts must get
right, model-checks that on small instances, and proves the safety results about
the price history, the polling passes, the push spool and the services around them
for all instances.

## 1. The system

| component | source | state it keeps | operations | what is hard |
|---|---|---|---|---|
| tariff history | `internal/store/store.go`, `processTariff` and its neighbours in `internal/ingest/ingest.go` | rows of `tariff_version`: content, euro price, interval, last confirmation | read the open version, replace, fill in the euro price, confirm, close | read in one round trip, decided in Go, written in another; six kinds of caller, most without a common lock; `now()` is the time of BEGIN |
| polling passes | `RunPrices`, `RunAvailability`, `reconcileRetired`, `internal/store/retire.go` | `charger`, `charger_status`, the signature cache, the in-flight map | fetch, skip or write each row, confirm, retire, revive | a cache of what was *fetched*, rows written by others, rows that fail part-way, a second process |
| push spool | `internal/ingest/mobilithek_{spool,push,pull}.go`, `cmd/api/mobilithek.go` | files in `incoming/`, `processing/`, `failed/`; batches in a channel; per-operator locks | accept, claim, fold, apply, remove, recover | crash between any two, batches of one operator with different workers, partial failure |
| eliso overlay | `internal/ingest/eliso_push.go` | its rows in the above | status and price by EVSE, over another operator's chargers | ownership checked before the transaction |
| OCPI receiver, sink, handshake | `cmd/api/ocpi.go`, `internal/ocpi` | cached locations and tariffs, tokens | PUT and DELETE of objects, handshake | mutex released before the write; a handshake of several steps |
| live lookups, Monta crawl | `cmd/api/live.go`, `internal/ingest/monta_crawl.go`, `internal/monta` | a short cache, a rate budget | fetch, record | two lookups of one charger at once |
| scheduler | `internal/ingest/scheduler.go` | cron, the set of crawlers | catch-up, reload, reconcile | what a rebuild waits for, failed loads, jobs of two origins |
| feed adapters | `internal/{datex,irve,eipa,econtrol,oicp,bnetza,ecomovement,fintraffic}`, `internal/ingest/feed.go` | static caches | fetch, parse, join | units, tiers, taxes, stale statements, files fetched apart |
| pricing, normalisation, plugs, dedup | `internal/pricing`, `internal/normalize`, `internal/model`, `internal/store/dedup.go` | none | pure functions; one statement | boundaries of time, energy and power |
| export | `internal/export` | snapshot files, manifest, index | full and status generations, prune, serve | generations share files; a request reads tag and body apart |
| DATEX push | `internal/export/push.go`, `cmd/api/datex.go` | subscriptions | register, verify, delete, post | several pushes and registrations at a time, targets that never answer |
| caches | `cmd/api/statscache.go`, `internal/fx`, `internal/store/credentials.go` | entries and their age | get, refresh, evict, rotate | slow refreshes, retry times, files swapped while read |
| reports, analytics | `internal/report`, `internal/analytics` | reports, events | submit, review, flush | bounded buffer |
| API handlers, admin, CLI, web | `cmd/api`, `cmd/chargingctl`, `web` | none | single statements | (not modelled) |

How they interact: adapters hand connectors and tariffs to the passes; passes,
pushes, lookups and the crawl all end in `upsertConnector` (charger, status) and
`processTariff` (tariff history); the export and the API read what they wrote, and
subscribers are posted what the export wrote. The only mutual exclusion between
writers is inside a process: `Engine.inflight` per (source, kind) and
`Engine.mobLocks` per Mobilithek operator. Everything else is left to the database.

What makes each component correct:

* *tariff history*: at most one open version; versions are a timeline; a new
  version is a change; a euro price belongs to the tariff it stands by; a
  confirmation means the price was seen; writers do not block each other for ever.
* *passes*: what is skipped really is up to date; a withdrawn price is closed, an
  outage is not a withdrawal; what is confirmed is what was read; a short feed does
  not empty a source; the database converges to the feed.
* *spool*: an accepted push is never lost or worked on twice at once, is worked
  off in the end, and the newest information wins.
* *readers, pricing, export*: a driver pays what the database says, whichever form
  the offer came in, and whoever reads the dump back gets the same; a restatement
  is no change; a stale "free" is not a free charger; every row is in one file, and
  a spot covered by two sources stays on the map when one of them leaves.
* *publication*: a tag never vouches for a body older than itself; index and files
  agree at rest; clients and subscribers catch up; only callbacks that proved
  themselves are posted to.
* *caches*: nothing is older than it may be, nobody waits behind a flag nobody
  will reset, user and password are of one version of their file.
* *OCPI partner, scheduler*: location and tariff are linked in whichever order they
  come; a source is enabled whole; one pass of a kind at a time, and never the end
  of polling.

## 2. The modules

| module | what it is | extends |
|---|---|---|
| `PriceLedger` | abstract: the promise of a price history. Rows are appended, confirmed and priced while open, closed once, never rewritten | |
| `TariffHistory` | one charger's rows under concurrent writers; one action per round trip to PostgreSQL; refines `PriceLedger` | |
| `PollPass` | one full-snapshot source: feed, passes, signature cache, retirement, pushes beside it, several processes | |
| `PushSpool` | webhook, spool directories, scanner, workers, fold and apply | |
| `TariffPricing` | tariffs, what a session costs, the profiles and the headline | |
| `AfirWire` | AFIR documents in XML and JSON, read and written | `TariffPricing` |
| `OpenDump` | region files, the OCPI dump, the AFIR publications; reading OCPI | `AfirWire` |
| `NationalFeeds` | the readers of the other forms, joins of pairs and pages | `OpenDump` |
| `FeedJourney` | publishers, both passes in one step each, deduplication and retirement, the files read back | `NationalFeeds` |
| `Publication` | generation, pruning, manifest, index, one revalidating client | |
| `Subscriptions` | registration and posting | |
| `FeedCaches` | the static bases of the feeds | |
| `StatsCache`, `FxCache`, `DbCredentials` | the in-process caches | |
| `OcpiPartner` | handshake, tokens, the sink's caches and handlers | |
| `Scheduling` | cron jobs, catch-up, reloads, rebuilds, `acquire` | |
| `Services` | the eight modules above together, with the fairness and the liveness | all eight |
| `TariffHistory_proofs`, `PollPass_proofs`, `PushSpool_proofs`, `OcpiPartner_proofs`, `FeedJourney_proofs` | invariants and theorems | the module they are named for |
| `Export_proofs` | invariants of the exports | `Publication`, `Subscriptions` |
| `Caches_proofs` | invariants of the caches | `FeedCaches`, `StatsCache`, `FxCache`, `DbCredentials` |
| `Services_proofs` | the theorems about the composition | `Services` and the proof modules of its parts; the scheduler's invariant is in it |
| `MC...` | the constants of the small instances | |

`PollPass` and `FeedJourney` see the same passes from two sides: the first takes
them apart statement by statement over opaque contents, the second takes each as
one step over real contents. `PollPass.price` is written atomically: `TariffHistory`
is where that is taken apart.

### TariffHistory

`versions` is the rows of `tariff_version` of one charger in commit order (rows of
different chargers never meet in these statements). A writer is a goroutine with a
program counter `pc`; `job` is what it was asked to do; `quote` the euro price
computed before BEGIN; `stamp` its `now()`; `target` the rows its UPDATE selected,
and after `LockRows` the rows it holds locked.

| action | code |
|---|---|
| `Observe`, `Withdraw` | a caller comes with a tariff, or with its absence |
| `ReadRate` | `CurrentTariffRate` in `processStatusTariff`; same rate and headline: nothing to do |
| `ReadHash` | `CurrentTariffHash` in `processTariff`; unchanged, fill, or go on |
| `CheckOwner` | `overlayOwned` |
| `Begin`, `Scan`, `LockRows`, `Insert`/`InsertDuplicate`, `Commit` | `ReplaceTariff`: BEGIN; the UPDATE's snapshot; its row locks and the re-check; the INSERT against `tariff_current_ux`; COMMIT |
| `SendFill`/`ApplyFill` | `FillDerivedPrices` |
| `SendConfirm`/`ApplyConfirm` | `ConfirmTariff`, and `ConfirmTariffsSeen` for this charger's row (the statement locks those of all the chargers a pass saw, §3) |
| `SendClose`/`ApplyClose` | `CloseCurrentTariff` |
| `Fail` | a statement fails or the process dies; the transaction is rolled back |

PostgreSQL at READ COMMITTED is external and modelled from how the code relies on
it: an UPDATE picks rows from its snapshot, waits for their locks, re-checks its
WHERE clause (`Recheck`); an INSERT waits for uncommitted rivals in the unique
index (`IndexQuiet`) and then fails if one is there. `GuardOf` gives the
in-process lock of each writer. A tariff content stands for its hash; `RateOf` and
`HeadlineOf` are the id and the euro headline, constants of the content; `Foreign`
contents may find no exchange rate at one time and one at another. Differences
below `1e-4` in a headline are taken as equality.


### PollPass

Every row of `charger`, `charger_status` and the open price (`row`, `status`,
`price`) of one source, the feed (`published`), and each pass's `phase`, `fetched`,
`todo`, `next` and `cache`. `Process` writes the rows of one connector and may stop
after any of its statements; it leaves the connector out of the cache then, as the
`continue`s in the loop do. It closes a price the feed no longer names if the pass
has read any tariff (`ClosesWithdrawn`, ingest.go:218): a feed without one, an
outage or the last price withdrawn, closes nothing. `Confirm`, `Count`, `Prune`,
`Revive` are the statements after the loop. `Deliver` is an OCPI push; `Crash` ends
the passes of a process and empties its cache. A signature keeps what the properties
tell apart: status and tariff for a price pass, and for an availability pass the
status (it fetches no tariff). A change of the identity fields behaves like one of
the status. `EvseOf` says which connectors share an EVSE, and `Offers` what the
publisher may come to say of each. `confirmed` is bookkeeping: the rows confirmed
since the last price pass began.

### PushSpool

`place` is the directory of each file, `content` what is in it; `scanned`, `work` and
`worker` follow a claimed batch through scanner, channel and worker; `lock` is
`mobLocks`; `known`, `live`, `price` are an operator's charger row, status and price;
`stored` (bookkeeping) are the files whose status and price, or newer ones of their
kind, have been written: a price that is folded under a later silent document, and
the status of a charger nobody has listed, are not (`Carried`, `ApplyStatuses`). An
operator has one refill point; documents are tables, statuses, eliso overlays or
junk, with a price, a withdrawal or silence on prices. The broker sends an
operator's pushes in order, one request at a time, and again if it has no 202.
`Reconcile` is the static pull in the ingest process, whose lock is another one.
`Restart` is a crash and `recoverProcessing`; a file renamed back on an orderly
stop ends in the same state. The database may refuse rows of the operators in
`MayFail`.

### TariffPricing, AfirWire, OpenDump, NationalFeeds, FeedJourney

The first four hold no state: they are the pure algorithms between a publisher's
document and the rows, and between the rows and the published files. Amounts are
integers, in ten-thousandths of a currency unit; an amount on a feed is an
integer of that feed's own unit, and the rounding the code does on the way (to a
tick, a tenth, a cent) is modelled where it happens (`XmlTime`, `JsonTime`, `Gross`).
Strings of the formats stay only where the code tells them apart (plug standards,
status words, price types).

`dedup` (bookkeeping) says how far the last recomputation has come. What a snapshot
would publish is a function of the rows of any state, so exports and passes come in
any order.

`FeedJourney` puts them to work: a publisher has `Listing` points with statuses and
offers and writes them as its form's `Document` (in `MCFeedJourney`, written from
the formats themselves, not from the readers); `RunPrices` and `RunAvailability`
read it and apply it to `rows`; deduplication and retirement follow; the files are
built and read back by our own readers, which stand for any consumer.

| action | code |
|---|---|
| `Edit` | the publisher changes what it lists |
| `RunPrices` | fetch, `applyFull`: signatures, `upsertConnector`, `processTariff`, close, `reconcileRetired`, signatures kept |
| `RunAvailability` | fetch with the cached base, overlay, `charger_status` |
| `ClearSuperseded`, `MarkSuperseded` | the two statements of `RecomputeSuperseded`, before the export's stream; a step not taken is a statement that failed, after which the export goes on |
| `Restart` | the signature caches are lost |

### The services

`Publication`: `onDisk`, `manifest` and `index` are the three places that may
disagree; the content of a file is the version of the database it was generated
from. `pass` is the exporter's goroutine, which holds the mutex in a status pass
("locked") and takes it only to record in a full one. `PruneOne` is a step of the
directory walk, in any order. `reader` is one client: the tag it was given, the body
it has.

`Subscriptions`: `registering` is the registrations in their handlers, `pushes` the
goroutines of `PushStatus`, each with the targets it resolved. `Publish` is a status
pass, `Prune` the full export that removes the status file; a push that comes to a
target in between finds none and gives that target up (`ReadBody`). `sinceFull`
counts the status passes between two full exports. `echoed` and `posted` are
bookkeeping.

`FeedCaches`: a base is the time at which it was read. Lookup, store and overlay
are separate steps; `asked` bounds a request by the client's timeout.

`StatsCache`: the entries in the order of their last value, the flags, and the
refreshes and cold computations under way by key. `FxCache`: the time of the last
good set and `nextTry`, in quarters of an hour. `DbCredentials`: look, read,
remember and apply are the steps another process's rotation may come between. A
version may be malformed, or name one key only, for which the DSN's own stands in;
a re-read that fails leaves the connection with the DSN's own pair (`OwnPair`).

`OcpiPartner`: the tokens on both sides, one handshake, and the sink's two caches;
`handlers` have left the mutex and not yet ingested. `told` is what the partner has
been answered for.

`Scheduling`: `cronJobs` belong to the cron instance, which a rebuild waits for;
`catchUp` belong to the process. `Reloaded` is the comparison of fingerprints.

`Services` extends all eight. Their components share no state but the database,
of which each module holds the part its component reads, so that their interleaving
adds nothing to what each may do; a behaviour therefore chooses one component
(`focus`) and lets the others rest. It makes the state space the sum of the eight
and not the product, and gives them one specification with one fairness condition.
Where components do meet (pushes beside passes, catch-up beside cron jobs, exports
beside clients) the meeting is inside one module.


## 3. The runs

Bounds: `MaxClock` (no job starts once that many times were taken), `MaxEdits`
(changes a publisher makes), `MaxFiles`, `MaxCrashes`, `MaxDepth`, `SpoolBatch`, and
in `Services` the `Max...` constants, each named at its declaration.

| run | instance | properties | shows |
|---|---|---|---|
| `HistorySerial` | 2 writers behind one operator lock, all kinds of job, 4 contents (two of one rate and headline, two foreign), 4 stamps | `HistoryOrdered`, `ChangesOnly`, `FillMatches`, `SuccessConfirmsSeen`, `StatusNeverFlaps` | with the lock the history is a timeline of changes, whatever fails in between |
| `HistoryRaces` | 2 writers without a common lock: a pass that may withdraw, lookups and the overlay, 5 stamps, fair | `OneOpen`, `IInv`, `NeverAllWait`, `Refines`, `JobsFinish` | without it, still one open version, still the ledger, and no deadlock |
| `PollPrices` | 2 connectors of one EVSE, one of which always has a price (`PricedOffers`), 2 prices, a price pass; statements fail, the process crashes; 2 edits | `PricesRemembered`, `WithdrawnClosed`, `ConfirmsSeen` | a remembered signature never hides a stale price, and a confirmation is of the price that was read, of each of two siblings |
| `PollRetire` | a scheduled and an admin price pass in two processes, pushes, crashes | `NeverWiped` | retirement does not empty a source |
| `PollConverges` | availability and price pass, fair; a listed connector is up or down, and when up may have no price (`FewOffers`) | `Converges` | once the feed rests the database agrees with it for good: in every status and price, and in the lack of a price if the feed was never without any |
| `SpoolOrder` | one worker, 4 files, 2 crashes, lost answers; an operator whose pushes state and withdraw a price, beside the overlay, whose rows may fail | `NothingLost`, `StatusLatest`, `PriceLatest` | redelivery and repetition change nothing in the end, one operator's failing rows cost another nothing, and a price is lost only to a later document of its kind that is silent (`Excused`) |
| `SpoolDrains` | 2 workers contending for one operator, failing rows, junk, a crash, static pulls, fair | `OneOwner`, `Drains` | every accepted push has one owner and is worked off |
| `FeedJourney` | each of the ten pollable forms alone, AFIR beside the German register; two points, three or four worlds, failing parts, missing exchange rates, a restart at any point | `ChargedAsOffered`, `RestatedQuietly`, `NeverFalselyFree`, `MirrorAgrees`, `StatusesJoin`, `DumpWhole`; `ReadersHonest`, before the first state | prices and statuses survive from the publisher to the open data and back |
| `Services` | the eight services, each through all its interleavings (460 237 states) | `TagNeverAhead`, `PublishedSet`, `OnlyProven`, `FreshAsAsked`, `FlagMeansRunning`, `RetriesSoon`, `PairMatches`, `LinkedEitherOrder`, `OnePassPerKind`, `EnabledMeansWhole`, `ReadersCatchUp`, `SubscribersCatchUp`, `KeepsPolling` | published files, tags and clients; callbacks; caches; credentials; an OCPI partner; one pass of a kind and always another |

There is one type invariant per module at most; those of `PollPass`, `PushSpool` and
`FeedJourney` are conjuncts of `PricesRemembered`, `OneOwner` and `DumpWhole`, which
say nothing of a state that is not well-formed; the services' are conjuncts of the
inductive invariants of the proofs.

The bounds are small but past the point where the interesting cases happen.

* Two writers give every pairwise race in `HistoryRaces` (a third adds a longer
  queue for the same row lock; it was tried with two stamps and 447 702 states);
  five stamps allow two complete replacements and a confirmation between them.
* Two edits allow a price to vanish and come back, or both connectors to leave. With
  two connectors `TooSmall` is decided by the empty feed: half of two is one, and a
  charger never returns to a feed that is too small for it.
* Two crashes allow a second recovery of the same file; a batch of two lets pushes
  be both folded together and split.
* `FeedJourney`'s worlds differ in a price, a status, a place, the order of a
  tariff's elements and a point that leaves, and for OCPI in the power of a point under
  an unchanged tariff; the prices have a starting fee, an hourly
  fee after a grace period and a night tariff, and are chosen so that rounding to the
  wrong digit, a dropped tax or a wrong tier shows. A region file holds two rows, so
  that a country ends in the middle of a file and at its end.
* `ReadersHonest` says what the readers owe the passes: it speaks of documents and
  not of states, and `MCFeedJourney` states it as an assumption of the instance. A
  reader changed for the worse is reported there; the properties of the run
  are then about the passes, the rows and the files.
* `Services`: a region disappears between the two versions of the database; one
  failed pass and one restart; a configured target that never answers stands
  before one that registered, two pushes overlap, and a callback is registered twice;
  two passes of a feed over a time to live of two; three keys for a cache of two;
  five versions of the credentials, with a malformed one in the middle and two that
  name one key only; two handshakes, four pushed objects; two sources, one of them
  crawled, two changes of the registry and a failed load.
  A full export comes after at least three status passes (`PassesPerFull`), one more
  than pushes may run at a time, so that one push of each round finds its file; the
  settings' own proportion is five to one (config.go:123). With a full export after
  every status pass each push may come too late, and `SubscribersCatchUp` fails.

Runs that end in a violation, each by what the code does:

| run | property | what happens |
|---|---|---|
| `PollOutage` | `WithdrawnClosed` | a pass without tariffs caches the signature of a connector; when tariffs return but not for it, the signature is the same, and its price stays open |
| `SpoolWorkers` | `StatusLatest` | two batches of one operator go to two workers, and the newer is applied first |
| `JourneySpot` | `SpotKept` | a richer source's charger leaves service; its retired row still supersedes the register's row of the spot, so that the spot is in no file, also once both statements of a recomputation have come through |

### Other disagreements seen while modelling

Of these the first group follows from the modules by other constants; they are not
kept as runs.

* Without a common lock (`GuardOf` constantly `NoGuard`) `HistoryOrdered` fails: a
  transaction that began first and commits last ends a version before it began
  (`observed_to < observed_from`, store.go:412). So does `FillMatches`: the price
  of the tariff that was hashed is written to the version open by then
  (ingest.go:524). So does `ChangesOnly`: two live lookups (`LiveFeed`, `LiveJobs`)
  open the same content twice, where the repository's README (line 117) promises
  a version "only when the tariff content changes".
* A broker's status push and the overlay hold different locks; between
  `overlayOwned` and the transaction the overlay's version may be opened, and is
  then replaced by the broker's rate (ingest.go:470 says it must not be).
* A pass whose `processTariff` failed still confirms the old version
  (ingest.go:234, mobilithek_push.go:194).
* With a push among the `Disturbances` `Converges` fails: a push writes the rows
  and not the signature cache, so that one that lands late is not corrected by later
  pulls (ingest.go:239; docs/ocpi.md:49: "Periodic pull stays authoritative").
* The availability pass skips a connector whose row the price pass has changed
  since (ingest.go:110: "loses nothing"). Only until the status changes again or
  the next price pass sees a difference.
* Confirmation is by EVSE: a connector that dropped out of the feed is confirmed with
  its sibling on the same EVSE, though store.go:462 says "NOT falsely confirmed".
  `ConfirmsSeen` speaks of the connectors a pass has listed, and leaves that one out.
* When a source withdraws its last price, the pass that reads it has no tariffs,
  closes nothing (ingest.go:218) and remembers the signatures; later passes skip those
  connectors, so that the versions stay open. It is `PollOutage` without an outage,
  and why `PollPrices` always has one priced connector (`SomePriced`).
* A scheduled and an admin-triggered pass do run at the same time, since `inflight`
  belongs to a process (ingest.go:61).
* Two status pushes folded into one batch, the second silent on prices: the first's
  price is dropped with it (mobilithek_push.go:125; `DeltaStream`).
  `NothingLost` names that case among its excuses, and `PriceLatest` speaks only of
  an operator whose newest push states its price or withdraws it.
* A push may also be removed from the spool without being in the rows when a statement
  about it failed, which is logged (mobilithek_spool.go:272), or when it is the status
  of a charger no table has listed; :52 says "nothing is lost as long as the file was
  written before 202". `Excused` names these two as well.
* A table, pulled or pushed, carries no status, and `upsertConnector` writes that
  blank over the live one (mobilithek_pull.go:25 says status is not pulled). For an
  operator that sends a table after a status `StatusLatest` is therefore not proved.
* `RecomputeSuperseded` is two statements without a transaction (dedup.go:13), and an
  error between them is only logged (snapshot.go:140): the export goes on with every
  flag cleared, and lists covered spots twice until the next one.
* `pushFile` gives a target up when the file has gone (push.go:163), and a full
  export takes it away (`pruneRegions`), so that a push overlapping one loses
  targets until the next status pass.
* If the upserts of the listed rows fail, the guard of `reconcileRetired` still
  passes (it counts the feed, not what was stored) and the rest is retired, so
  `NeverWiped` is checked without failing rows.
* A second push of an OCPI object overlapping the first may be ingested before it;
  `LinkedEitherOrder` promises the last content only without overlap. The sink's
  caches are lost when the api restarts, which is left to the next pull.
* Registering an enabled OCPI source again and failing midway leaves tokens of two
  handshakes; `EnabledMeansWhole` is of the moment of enabling.

What the models leave aside, but reading the code for them showed:

* *Pricing and history*: the hash ignores the order of elements, though `Evaluate`
  takes the first that matches (model.go:84), so overlapping elements that change
  places are no new version; it does not ignore the order of components within an
  element (model.go:92 encodes an element as it stands; :84 says "independent of
  element ordering"), so that a reordering there is a new version at the same price.
  An element's end date is not looked at. When a charger's power changes under an
  unchanged tariff, the headline and the session prices stay those of the old power
  (ingest.go:544). A connector listed twice with two prices is stored at the later
  one after the first pass and at the earlier one after the second, which skips the
  later by its signature (ingest.go:270). A flat price of zero with a grace period
  is a price of zero. `ConfirmTariffsSeen` takes the rows of many chargers in one
  statement and in no order, so that the scheduled and an admin pass of one source
  may wait for each other until PostgreSQL aborts one (store.go:456); `NeverAllWait`
  is of one charger, among whose rows there is no circle. `fillMissingEuroPrices` is
  not reached for connectors the signature cache skips. api_ops.go:377 and
  live.go:129 serve `PriceEUR` in the tariff's own currency (docs/sources.md:77).
* *Readers*: the XML reader ignores taxes, and maps blocked and removed points
  differently from the JSON one (afir.go:648: identical). The joins of pairs ignore
  a status's withdrawn price. E-Control tolerates 5 % of failed requests and
  `reconcileRetired` retires what they would have listed (econtrol.go:176,
  ingest.go:284). A slower, older static fetch overwrites a newer cached base; the
  IRVE identity pass without statements overwrites statuses with none; after a price
  pass wrote a status, the availability pass's signature is not corrected.
* *Open data*: a grace period is lost in a round trip (publish_json.go:6:
  "round-trips"). Tariff ids of two operators collide within a region's file
  (build.go:113); the connectors of one EVSE may fall into two files; the status
  delta lists superseded chargers the table leaves out; a status AFIR has no word
  for (an OCPI RESERVED or BLOCKED) is published as unknown (publish.go:124).
* *Publication*: when a full export ends midway, region files and manifest are out
  of step until the next (snapshot.go:52), and if the content then returns to an
  earlier one the tag does too. Status files are missing between a full export and
  the next status pass (docs/export.md:20). An older publication's push may be
  retried after a newer one's (push.go:173; push.go:6: "self-superseding").
* *Scheduling*: `errgroup.WithContext` cancels every other pass when one fails
  (ingest.go:135: "never aborting the others"). A failed load is an empty schedule
  until the next reload. A crawl never stops when its source is disabled. The
  fingerprint (scheduler.go:242) leaves out the token's value, the base URL and the
  source type.
* *Caches and limits*: rates older than their maximum age are still served
  (cmd/api/fx.go), and with none at all every caller fetches. Credentials swapped
  between the read and the second look are remembered under the newer file's time.
  A re-read that fails leaves the connection with the DSN's own user and password
  (credentials.go:64 returns before they are set), where its comment (:57) and
  docs/db-credentials.md:60 have "the last known-good credential"; a file that names
  one key only is accepted (credentials.go:118) and the DSN's own used for the other.
  A key evicted and computed again may have two refreshes (statscache.go:10: "ONE
  background refresh"), and a slow cold computation overwrites a newer value. The
  Monta crawl's burst and the live lookups together exceed the partner's budget in
  the first ten minutes (monta_crawl.go, live.go:23). Without a spool directory a
  push is acknowledged before it is ingested (cmd/api/mobilithek.go:67); concurrent
  handlers overshoot the spool's bound (mobilithek_spool.go:70); the analytics
  recorder drops events when its buffer is full.

## 4. Fairness

Fair are only the system's own steps; never an edit of a publisher, an
administrator, a registration, a failure, a loss, a crash or restart, and each of
those is bounded or may simply not happen. A counterexample or a liveness result
under these conditions is therefore about what the code does by itself.

| module | fair | why the code justifies it |
|---|---|---|
| `TariffHistory` | weak, each writer's own steps | a goroutine in the middle of a job runs on; a row lock or an index wait ends when its holder commits, fails or dies |
| `PollPass` | weak, each pass's steps, the fetch included | cron fires again and again, and `acquire` frees the slot with a `defer` |
| `PushSpool` | weak, `Claim`, `HandOver` and each `Work(w)` | scanner, channel and workers are goroutines of a running process |
| `Publication` | weak: `WriteRegion`, `Commit`, `WriteStatus`, `FinishAvailability`, `PruneOne`, `Serve`; strong: `StartFull`, `StartAvailability`, `Ask` | a generation under way goes on; the two tickers each come round for ever although the other's pass may be in the way each time one looks |
| `Subscriptions` | weak: each push's steps and `Publish`; nothing is asked of `Prune` | every status pass starts a push; a post has a timeout |
| `Scheduling` | weak: a job's `Fire`, `BeginPass`, `EndPass`; the catch-up's; a reload or a rebuild | cron, goroutines, and the reconcile ticker |

Strong fairness stands only where a tick of a clock may be wasted because a mutex is
taken or a pass is running. The caches have no liveness of their own:
a refresh that fails leaves the entry for the next caller.

## 5. Proofs

What is proved holds for every value of the constants, from the assumptions the
modules name and nothing else.

`TariffHistory_proofs`, from `ConstantsAssumption` alone: for any set of writers, any
guards (none at all included), any feeds, jobs, contents and rates.

* `Invariance` (`Spec => []IInv`). `OneOpen` is not inductive: whether an INSERT
  leaves one open row depends on which rows the transaction has locked. `IInv` adds
  `LockDiscipline`: the rows a transaction has locked are still open; past its
  INSERT it has all the open rows; at most one transaction has an entry of the
  unique index in its hands; locked sets are disjoint. `JobsInHand` carries what the
  later steps need to know of the job and the stamp.
* `TypeCorrect`, `OneOpenHolds`: consequences.
* `NeverAllWaitHolds`: row locks and the waits for the unique index form no circle.
  A writer waits for its `INSERT` only on one that holds an open row or has inserted;
  there is at most one open row, so two of them cannot wait for each other.
* `Implements` (`Spec => Refines`): every step maps to a step of `PriceLedger` or
  stutters, with `versions` and `clock` mapped to themselves. A commit is `Publish`
  because the rows it closes are exactly the open ones, by the invariant.

The same module, with `OneLock` (all the writers are behind one in-process lock, as an
operator's pushes are behind `mobLocks`), from `SerialInv`:

* `HistoryOrderedHolds`, `ChangesOnlyHolds`, `FillMatchesHolds`: versions follow each
  other, each differs from the one before, and a price in euro is that of its own
  tariff.
* `StatusNeverFlapsHolds`: a status push replaces no price by one of the same headline
  (`Foreign` contents aside).
* `SuccessConfirmsSeenHolds`: what a job confirms is what it saw. It needs `NoOverlay`
  besides: a push that meets the overlay's version leaves it and confirms it, although
  it came with another rate.

None of them is inductive. What a job decided on was read several round trips earlier:
`Current` says that it is still true of the open row at each of its later steps,
and `Alone` why, at most one job is under way. A stamp is later than all
the rows' times (`RowsInOrder`, `Current`), because a job that draws one is
the only one that does. Without the lock the first three fail (§3), so that
`OneLock` is what the code needs and no convenience.

`PollPass_proofs`, from the assumptions of `PollPass` and the condition each theorem
states. The condition is what the code needs, and the runs are the same instances.

* `ReadInv` ties a pass to its source: a pass that has fetched holds what the feed
  can say, and the rows it has still to do are among those.
* `PricesRememberedHolds`, `WithdrawnClosedHolds` (`TrustInv`): a cache entry, and
  what a pass means to put there, is the open price. That alone is not inductive:
  the pass fills its cache at the end of the loop from what it wrote on the way, so
  `Trusted` speaks of both. The condition is one process running price passes and no
  pushes beside it. With a second writer the cache is of what was fetched and not of
  what is stored (§3: `Converges` with pushes). Withdrawals need, besides, that every price
  pass reads some price (`SomePriced`): no part of the feed is ever out, which
  `PollOutage` shows, and some connector is always listed with a tariff.
* `NeverWipedHolds` (`StoredInv`): by the time a pass prunes, each listed connector
  has a row, because every row it went through was written or was in the cache, and
  what is in the cache has a row. A statement that fails breaks that, so the
  condition excludes it. Pushes, edits, crashes and other processes are all allowed.
* `ConfirmsSeenHolds`: under the same conditions as withdrawals, and for any `EvseOf`,
  a confirmed connector that the pass listed stands at the price the pass read of it,
  also when it is confirmed through its sibling.

`PushSpool_proofs`, from `SpoolAssumption` and the condition a theorem names: any
operators, streams, workers, batch size, depth, failures and number of crashes.

* `NothingLostHolds` (`KeptInv`): what a worker has been through is in the rows, or is
  newer there, or is `Excused` (`Safe`). It is proved of each file of a batch as the
  batch is folded, applied and removed, and needs that a worker records as failed
  only operators that can.
* `StatusLatestHolds`, `PriceLatestHolds` (`LatestInv`): once the spool is drained, an
  operator's rows are as its last push has them. The property speaks of the end
  only, so the invariant has to follow the whole way there.
  `LineInv`: an operator's files stay in the order they came, through directory,
  scanner, channel and worker (`InLine`), also when `recoverProcessing` puts the
  claimed ones back; what the webhook is writing is the operator's newest
  file (`Writing`); a worker past reading has read all its files (`Progress`).
  `Fresh(c)`, for one operator: if the newest file is done, its content is in the
  rows (`Synced`); no file is removed before an older one (`Ordered`); the newest
  file is the last push the broker sent, or the one it may be sending again
  (`Delivered`).
  Both are about behaviours in which no two workers have files of one operator at once
  (`[]SerialWork`), with any number of workers. One worker makes it true; nothing in
  the code keeps several apart, and the default is eight (config.go:139): with two the
  newer batch may be applied first, which `SpoolWorkers` shows. Both
  are about operators that send overlays, or tables, or tables and after them
  statuses for a charger that exists (`Plain`): a later table blanks the status
  (`Sorted` follows that order through the spool), and a static pull holds another lock.
  The conjuncts of `LatestInv` were checked on the instance of `SpoolOrder` first, which
  satisfies all these conditions.
* `NeverStuckHolds`: while a push is in `incoming` or `processing`, the scanner or
  some worker can go on, with any finite number of workers. A worker that waits for an
  operator's lock waits for one that is applying, and that one waits for nobody
  (`Locks`); a file claimed is in somebody's hands (`Claimed`). It is the safety half
  of `Drains`, for every value of the constants.
* `OneOwnerHolds` (`OwnInv`): what is in `processing` is exactly what scanner,
  channel and workers hold (`Claimed`), no two hold the same file (`Apart`), nobody
  holds one twice (`Hands`), and a worker applies under its operator's lock
  (`Locks`). The claim needs that the oldest files, taken in order, are listed once
  each: `InOrderAll` counts them.

`FeedJourney_proofs`, from `JourneyAssumption` and `ReadersAssumption` (a reader returns
a list of connectors, and no tariff with an element that charges for nothing): any
number of sources, any forms, worlds and documents, any chunk size.

* `DumpWholeHolds` (`JourneyInv`): the invariant `RowsOK` says that the rows are one
  for each charger, numbered within their count. A pass writes its connectors with a
  fold, and a snapshot cuts its table with another, so both need an induction over
  data. The library's induction theorems cannot be instantiated; a set of numbers
  with 0 and every successor can be shown to be `Nat` from the well-foundedness of
  `<` (`SetInduction`), and that is enough: `Folding` is the function behind
  `FoldLeft`, `FoldingSteps` unrolls it by one element, `Joins` does the same for
  `FlattenSeq`. `StreamAt` is what holds after k rows of the table: the files
  written and the open chunk are those k rows in order, each file has one country,
  and the countries already begun are those of the k rows. Keys are distinct because
  the stream is `Grouped`: a country that has been left does not come back.
* `NeverFalselyFreeHolds` assumes `FaithfulReaders` besides, that every reader calls a
  connector free only when its publisher does (`TellsFree`). That half is the
  parsers'; the theorem is about what follows: `Told`, kept through the same folds, says
  that every row says what it said before the pass or what a connector of the list
  says.
* `ChargedAsOfferedHolds` assumes `ReadersHonest`, what the readers owe the passes:
  an offer is read at its price, and a tariff is never read as nothing. What the
  passes cannot do is excepted in the property itself, connector by connector: one
  that a list quotes twice (`OncePriced`), and one whose quotes hash alike and cost
  otherwise, by another power or by overlapping elements that changed places
  (`HashTold`; all in §3). In `MCFeedJourney` an OCPI point changes power, and its
  hourly fee makes it an exception; no list of the instance quotes a connector
  twice. `RestatedQuietlyHolds` assumes only that a tariff is never read as nothing
  (`PricesQuoted`), whatever else the readers do. TLC checks both assumptions of the
  modelled readers. Neither property is inductive. A pass skips a connector whose
  signature it remembers, so what the skipped row holds depends on an earlier pass
  and on everything that wrote the row since; and the last complete pass may be
  several passes back, with partial ones, failing parts, status passes and missing
  rates in between. `OfferInv` says so: a remembered signature tells what stands in
  the row (`SigsTrue`), whatever the last complete pass read still stands
  (`ReadTrue`), and the figures of every priced row are those of some quote for it.
  `ApplyFullPasses` and `PricesPass` carry that through the fold over a list, where
  a connector later in the list may not disturb an earlier one.
* `StatusesJoinHolds` assumes `NumbersTold`: no two ids print alike, and none as
  nothing. The ids of the rows are unique (`RowsOK`), `EntriesAre` and `UpdatesAre`
  follow an entry from row to file to reader in either encoding, `BaseXml` and
  `BaseJson` say that the table comes back as connectors whatever is in it, and
  `JoinIs` that an update reaches every connector of its point and is disturbed by
  no other: it is an induction over the updates.

`Services_proofs` has the theorems about the composition. Each component has an
inductive invariant of its own (in `Export_proofs`, `Caches_proofs`,
`OcpiPartner_proofs` or in the module itself), with an initial lemma and a step
lemma; `ServicesStep` says that a step of the whole is a step of each component or
leaves it alone, and carries them over.

| theorem | inductive invariant | why the property alone is not inductive |
|---|---|---|
| `TagNeverAheadHolds`, `PublishedSetHolds` | `PubInv` | what a running generation has written and pruned so far must agree with what it will record; each tag handed out stands for a content no newer than the file it is for |
| `OnlyProvenHolds` | `SubInv` | a push posts to targets it resolved earlier, so these must be proven already, and so must the rows they come from |
| `FreshAsAskedHolds` | `FeedInv` | a fetch under way began within its client's timeout, and a stored base has no overlay of any pass |
| `FlagMeansRunningHolds` | `StatInv` | keys of the entries are distinct, through eviction and re-insertion |
| `RetriesSoonHolds` | `FxInv` | `nextTry` by the outcome of the last attempt |
| `PairMatchesHolds` | `CredInv` | what is held between two connections is what one well-formed version names, also while a re-read is under way |
| `LinkedEitherOrderHolds` | `SinkInv` | what a handler took with it when it left the mutex covers what was answered since |
| `OnePassPerKindHolds` | `SchedInv` | who is in a pass has its slot, whichever cron instance it comes from |
| `EnabledMeansWholeHolds` | `PartnerInv` | what the handshake carries is what the CPO holds by that step |

They use `RegionsAreNamed`, `TargetsAreListed`, `Durations`, `Intervals` and
`FirstIsGood`, each at the declaration of the constants it is about.

Every property of the passing runs is proved but these, which TLC alone checks:

* Liveness (`JobsFinish`, `Drains`, `Converges`, `ReadersCatchUp`, `SubscribersCatchUp`,
  `KeepsPolling`) is out of the prover's reach. For the first two, deadlock
  freedom is proved (`NeverAllWaitHolds`, `NeverStuckHolds`).
* `MirrorAgrees`. It compares sums after rounding in two encodings, and needs that
  no two tariffs of a file share an id, which `DumpId` does not guarantee across
  operators (build.go:113): it is true of the instance's documents and no theorem.

## 6. Not modelled

| part | why |
|---|---|
| reports, analytics, statistics | single statements and aggregations in SQL; the one bounded buffer drops what does not fit, as its comment says |
| API handlers and admin | read one statement, write one row; the operations that start a pass are a pass of `PollPass` in another process |
| configuration, registry, metrics, CLI, migrations, web | start-up code, wrappers and pages; the registry's rows are the inputs of `Scheduling` |
| `RunAll` and the orderly stop of the scheduler | one sequence, then a crash of the models at worst |
| Mobilithek's reconcile timer, the crawl's own pages and budget | `Reconcile` of `PushSpool` may come at any time, which covers every timer; a crawl is one lookup after another, which `TariffHistory` has |
| several refill points per push; I/O errors of the spool | `PushSpool` would grow by a factor and no interleaving is added; `toFailed` drops what it cannot rename (mobilithek_spool.go:245) |
| the cache and the rate limit of live lookups | token bucket of wall-clock time |
| paging, HTTP, compression, certificates | transport; a request succeeds or fails |
| HTML and GeoJSON of E-Control and Ecomovement; formatting of names and addresses | no property tells them apart |

Components are therefore "partly" modelled where an operation of theirs is in this
table or a property of it is among the disagreements above.

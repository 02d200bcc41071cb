----------------------------- MODULE Scheduling -----------------------------
(***************************************************************************)
(* The scheduler (internal/ingest/scheduler.go, Engine.acquire and RunAll  *)
(* of ingest.go, resolveEnabled of cmd/ingest/main.go).                    *)
(*                                                                         *)
(* A cron instance fires an availability and a price job for each source,  *)
(* each skipped while its last one runs.  The registry is reloaded again   *)
(* and again; when it has changed, the instance is stopped, its jobs are   *)
(* waited for and another one is built.  The price passes of the start-up  *)
(* belong to no instance.  acquire keeps two passes of a kind apart.       *)
(***************************************************************************)
EXTENDS Naturals, FiniteSets

CONSTANTS
  Feeds,          \* sources that may be enabled, with a token
  Crawled,        \* those crawled in the background (Monta)
  MaxLoadFails,   \* bound: reloads that fail
  MaxRegistry     \* bound: changes of the registry

Kinds == {"availability", "price"}
JobsOf(S) == S \X Kinds

VARIABLES
  enabled,        \* the registry in the database
  scheduled,      \* the sources of the cron instance, and its fingerprint
  cronPc,         \* whether the instance runs, or is stopped for another one
  loaded,         \* the registry read by the reload under way
  cronJobs,       \* jobs of the instance under way: "trying" or "passing"
  catchUp,        \* price passes of the start-up: "trying", "passing", "over"
  inflight,       \* Engine.inflight
  crawlers,       \* crawls started, of each source
  loadFails, registryChanges

schedVars == <<enabled, scheduled, cronPc, loaded, cronJobs, catchUp, inflight, crawlers,
               loadFails, registryChanges>>

\* Run: the first registry is loaded and its catch-up begun.
SchedInit ==
  /\ enabled = Feeds /\ scheduled = Feeds
  /\ cronPc = "running" /\ loaded = {}
  /\ cronJobs = [j \in JobsOf(Feeds) |-> "rest"]
  /\ catchUp = [s \in Feeds |-> "trying"]
  /\ inflight = {}
  /\ crawlers = [s \in Feeds |-> IF s \in Crawled THEN 1 ELSE 0]
  /\ loadFails = 0 /\ registryChanges = 0

-----------------------------------------------------------------------------
(* Passes.                                                                 *)

\* SkipIfStillRunning: a job whose last run has not ended does not fire.
Fire(j) ==
  /\ cronPc = "running" /\ j[1] \in scheduled
  /\ cronJobs[j] = "rest"
  /\ cronJobs' = [cronJobs EXCEPT ![j] = "trying"]
  /\ UNCHANGED <<enabled, scheduled, cronPc, loaded, catchUp, inflight, crawlers,
                 loadFails, registryChanges>>

\* Mutated Acquire: nothing is reserved.
Acquire_Always(j) == TRUE

\* acquire: LoadOrStore.
Acquire(j) == j \notin inflight

BeginPass(j) ==
  /\ cronJobs[j] = "trying"
  /\ IF Acquire(j)
     THEN /\ inflight' = inflight \cup {j}
          /\ cronJobs' = [cronJobs EXCEPT ![j] = "passing"]
     ELSE /\ cronJobs' = [cronJobs EXCEPT ![j] = "rest"]
          /\ UNCHANGED inflight
  /\ UNCHANGED <<enabled, scheduled, cronPc, loaded, catchUp, crawlers,
                 loadFails, registryChanges>>

EndPass(j) ==
  /\ cronJobs[j] = "passing"
  /\ inflight' = inflight \ {j}
  /\ cronJobs' = [cronJobs EXCEPT ![j] = "rest"]
  /\ UNCHANGED <<enabled, scheduled, cronPc, loaded, catchUp, crawlers,
                 loadFails, registryChanges>>

BeginCatchUp(s) ==
  /\ catchUp[s] = "trying"
  /\ IF Acquire(<<s, "price">>)
     THEN /\ inflight' = inflight \cup {<<s, "price">>}
          /\ catchUp' = [catchUp EXCEPT ![s] = "passing"]
     ELSE /\ catchUp' = [catchUp EXCEPT ![s] = "over"]
          /\ UNCHANGED inflight
  /\ UNCHANGED <<enabled, scheduled, cronPc, loaded, cronJobs, crawlers,
                 loadFails, registryChanges>>

\* dueAtStartup: a source polled within its own interval is left out.
SkipCatchUp(s) ==
  /\ catchUp[s] = "trying"
  /\ catchUp' = [catchUp EXCEPT ![s] = "over"]
  /\ UNCHANGED <<enabled, scheduled, cronPc, loaded, cronJobs, inflight, crawlers,
                 loadFails, registryChanges>>

EndCatchUp(s) ==
  /\ catchUp[s] = "passing"
  /\ inflight' = inflight \ {<<s, "price">>}
  /\ catchUp' = [catchUp EXCEPT ![s] = "over"]
  /\ UNCHANGED <<enabled, scheduled, cronPc, loaded, cronJobs, crawlers,
                 loadFails, registryChanges>>

\* RunAll: the first error cancels the context of all of them.
FailCatchUp(s) ==
  /\ catchUp[s] = "passing"
  /\ inflight' = inflight \ {<<t, "price">> : t \in {x \in Feeds : catchUp[x] = "passing"}}
  /\ catchUp' = [t \in Feeds |-> "over"]
  /\ UNCHANGED <<enabled, scheduled, cronPc, loaded, cronJobs, crawlers,
                 loadFails, registryChanges>>

-----------------------------------------------------------------------------
(* The registry.                                                           *)

Administer(S) ==
  /\ registryChanges < MaxRegistry /\ registryChanges' = registryChanges + 1
  /\ S # enabled /\ enabled' = S
  /\ UNCHANGED <<scheduled, cronPc, loaded, cronJobs, catchUp, inflight, crawlers, loadFails>>

\* ensureCrawlers: a crawl is started once and never ends.
Crawling(next) ==
  [s \in Feeds |-> IF s \in Crawled \cap next /\ crawlers[s] = 0 THEN 1 ELSE crawlers[s]]

Reloaded(next) ==
  IF next # scheduled
  THEN /\ cronPc' = "stopping" /\ loaded' = next
       /\ UNCHANGED crawlers
  ELSE /\ crawlers' = Crawling(next)
       /\ UNCHANGED <<cronPc, loaded>>

Reload ==
  /\ cronPc = "running"
  /\ Reloaded(enabled)
  /\ UNCHANGED <<enabled, scheduled, cronJobs, catchUp, inflight, loadFails, registryChanges>>

\* A listing that fails is an empty registry.
FailReload ==
  /\ cronPc = "running"
  /\ loadFails < MaxLoadFails /\ loadFails' = loadFails + 1
  /\ Reloaded({})
  /\ UNCHANGED <<enabled, scheduled, cronJobs, catchUp, inflight, registryChanges>>

\* Mutated Started: the new instance is built but not started.
Started_Not == "built"

\* The instance's jobs have ended; the next one is built and started.
Started == "running"

Rebuild ==
  /\ cronPc = "stopping" /\ \A j \in JobsOf(Feeds) : cronJobs[j] = "rest"
  /\ scheduled' = loaded /\ loaded' = {}
  /\ cronPc' = Started
  /\ crawlers' = Crawling(loaded)
  /\ UNCHANGED <<enabled, cronJobs, catchUp, inflight, loadFails, registryChanges>>

SchedNext ==
  \/ (\E j \in JobsOf(Feeds) : Fire(j) \/ BeginPass(j) \/ EndPass(j))
  \/ (\E s \in Feeds : SkipCatchUp(s) \/ BeginCatchUp(s) \/ EndCatchUp(s) \/ FailCatchUp(s))
  \/ (\E S \in SUBSET Feeds : Administer(S))
  \/ Reload \/ FailReload \/ Rebuild

-----------------------------------------------------------------------------
(* Properties.                                                             *)

\* At most one pass of a source and kind is under way, the start-up's among
\* them, over any number of rebuilds, and each of them holds its reservation.
OnePassPerKind ==
  /\ \A s \in Feeds : ~(catchUp[s] = "passing" /\ cronJobs[s, "price"] = "passing")
  /\ inflight = {j \in JobsOf(Feeds) :
                   (cronJobs[j] = "passing") \/ (j[2] = "price" /\ catchUp[j[1]] = "passing")}

\* A source that stays enabled is polled again and again for its statuses and
\* its prices, although reloads fail, the registry changes around it and every
\* rebuild waits for the jobs under way.
Polled(j) == j[1] \in enabled => cronJobs[j] = "passing"

=============================================================================

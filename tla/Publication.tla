---------------------------- MODULE Publication ----------------------------
(***************************************************************************)
(* The published dumps (internal/export/snapshot.go) and a client that     *)
(* revalidates its copy of one of them (cmd/api/main.go).                  *)
(*                                                                         *)
(* One goroutine regenerates, in turn, the full export and the status      *)
(* files.  The full export writes region after region over the published   *)
(* files without a lock, removes what it did not write from the regions'   *)
(* directories, the status publication among it, and only then takes the   *)
(* mutex and records everything in the manifest.  The status pass records  *)
(* each file as it writes it and holds the mutex throughout.  A request    *)
(* takes the entity tag from the manifest and then the body from disk.     *)
(*                                                                         *)
(* Content is the version of the database it was generated from; a         *)
(* region's files are written one after the other like the regions         *)
(* themselves, so that one stands for them all.                            *)
(***************************************************************************)
EXTENDS Naturals, Sequences

CONSTANTS
  RegionNames,    \* regions a version of the database may have
  RegionsAt,      \* the regions of each version, in the order they are written
  MaxPubFails,    \* bound: passes that fail
  MaxPubRestarts  \* bound: times the process restarts

StatusNames == {"availability", "status"}
FileNames == RegionNames \cup StatusNames
Versions == DOMAIN RegionsAt

\* The files in the directories pruneRegions cleans.
RegionDirs == FileNames \ {"availability"}

NoContent == 0

ASSUME RegionsAreNamed ==
  /\ RegionNames \cap StatusNames = {} /\ "none" \notin RegionNames
  /\ RegionsAt \in Seq(Seq(RegionNames)) /\ RegionsAt # << >>

VARIABLES
  dbVersion,      \* what the database holds
  onDisk,         \* the content of each published file, or NoContent
  manifest,       \* Snapshotter.manifest: the content each tag is the hash of
  index,          \* index.json, as last written
  pass,           \* what the goroutine is doing
  reader,         \* a client: the file it follows, its copy, the tag it was given
  pubFails, pubRestarts

published == <<onDisk, manifest, index>>
pubVars == <<dbVersion, published, pass, reader, pubFails, pubRestarts>>

\* complete: the last full export was recorded and none has begun since.
Resting(stage, complete) ==
  [pc |-> "rest", stage |-> stage, version |-> NoContent, todo |-> << >>, wrote |-> {},
   complete |-> complete]

\* Run begins with a full export and a status pass, then follows two tickers.
Booting == Resting("boot", FALSE)

Over(complete) ==
  Resting(IF pass.pc = "write" /\ pass.stage = "boot" THEN "due" ELSE "ticking", complete)

Empty == [n \in FileNames |-> NoContent]

PubInit ==
  /\ dbVersion = 1
  /\ onDisk = Empty /\ manifest = Empty /\ index = Empty
  /\ pass = Booting
  /\ reader = [file |-> "none", tag |-> NoContent, body |-> NoContent, given |-> NoContent,
               pc |-> "rest"]
  /\ pubFails = 0 /\ pubRestarts = 0

-----------------------------------------------------------------------------
(* GenerateFull.                                                           *)

\* The rows are one statement's, so all regions are of one version.
StartFull ==
  /\ pass.pc = "rest" /\ pass.stage # "due"
  /\ pass' = [pass EXCEPT !.pc = "write", !.version = dbVersion, !.todo = RegionsAt[dbVersion],
                          !.complete = FALSE]
  /\ UNCHANGED <<dbVersion, published, reader, pubFails, pubRestarts>>

\* Mutated WriteRegion: the manifest entry is made before the file is renamed into place.
WriteRegion_TagFirst ==
  /\ pass.pc = "write" /\ pass.todo # << >>
  /\ IF manifest[Head(pass.todo)] = pass.version
     THEN /\ onDisk' = [onDisk EXCEPT ![Head(pass.todo)] = pass.version]
          /\ pass' = [pass EXCEPT !.todo = Tail(@), !.wrote = @ \cup {Head(pass.todo)}]
          /\ UNCHANGED manifest
     ELSE /\ manifest' = [manifest EXCEPT ![Head(pass.todo)] = pass.version]
          /\ UNCHANGED <<onDisk, pass>>
  /\ UNCHANGED <<dbVersion, index, reader, pubFails, pubRestarts>>

\* writeRegionFiles: a rename over the file that is being served.
WriteRegion ==
  /\ pass.pc = "write" /\ pass.todo # << >>
  /\ onDisk' = [onDisk EXCEPT ![Head(pass.todo)] = pass.version]
  /\ pass' = [pass EXCEPT !.todo = Tail(@), !.wrote = @ \cup {Head(pass.todo)}]
  /\ UNCHANGED <<dbVersion, manifest, index, reader, pubFails, pubRestarts>>

\* Mutated Stale: nothing is pruned.
Stale_None == {}

Stale == {n \in RegionDirs \ pass.wrote : onDisk[n] # NoContent}

\* pruneRegions knows the full export's files only: the statuses go too.
PruneOne(n) ==
  /\ pass.pc = "write" /\ pass.todo = << >>
  /\ n \in Stale
  /\ onDisk' = [onDisk EXCEPT ![n] = NoContent]
  /\ UNCHANGED <<dbVersion, manifest, index, pass, reader, pubFails, pubRestarts>>

\* Mutated Recorded: entries of files written before are kept.
Recorded_Kept ==
  [n \in FileNames |-> IF manifest[n] # NoContent \/ n \notin pass.wrote THEN manifest[n]
                       ELSE pass.version]

\* The entries of a finished full export: what it wrote, and the availability's.
Recorded ==
  [n \in FileNames |-> IF n \in pass.wrote THEN pass.version
                       ELSE IF n = "availability" THEN manifest[n] ELSE NoContent]

\* In the mutex; writing index.json may fail when the manifest is already set.
Commit ==
  /\ pass.pc = "write" /\ pass.todo = << >> /\ Stale = {}
  /\ manifest' = Recorded
  /\ \/ /\ index' = Recorded
        /\ pass' = Over(TRUE)
        /\ UNCHANGED pubFails
     \/ /\ pubFails < MaxPubFails /\ pubFails' = pubFails + 1
        /\ pass' = Over(FALSE)
        /\ UNCHANGED index
  /\ UNCHANGED <<dbVersion, onDisk, reader, pubRestarts>>

-----------------------------------------------------------------------------
(* GenerateAvailability.                                                   *)

\* The statuses are read before the mutex is taken.
StartAvailability ==
  /\ pass.pc = "rest" /\ pass.stage # "boot"
  /\ pass' = [pass EXCEPT !.pc = "locked", !.version = dbVersion,
                          !.todo = <<"availability", "status">>]
  /\ UNCHANGED <<dbVersion, published, reader, pubFails, pubRestarts>>

WriteStatus ==
  /\ pass.pc = "locked" /\ pass.todo # << >>
  /\ onDisk' = [onDisk EXCEPT ![Head(pass.todo)] = pass.version]
  /\ manifest' = [manifest EXCEPT ![Head(pass.todo)] = pass.version]
  /\ pass' = [pass EXCEPT !.todo = Tail(@)]
  /\ UNCHANGED <<dbVersion, index, reader, pubFails, pubRestarts>>

FinishAvailability ==
  /\ pass.pc = "locked" /\ pass.todo = << >>
  /\ index' = manifest
  /\ pass' = Over(pass.complete)
  /\ UNCHANGED <<dbVersion, onDisk, manifest, reader, pubFails, pubRestarts>>

-----------------------------------------------------------------------------
(* Failures and restarts.                                                  *)

\* A pass that fails is logged; the loop goes on with what is on disk.
FailPass ==
  /\ pass.pc \in {"write", "locked"} /\ pubFails < MaxPubFails
  /\ pubFails' = pubFails + 1
  /\ pass' = Over(pass.complete)
  /\ UNCHANGED <<dbVersion, published, reader, pubRestarts>>

\* The files outlive the process, the manifest does not.
Restart ==
  /\ pubRestarts < MaxPubRestarts /\ pubRestarts' = pubRestarts + 1
  /\ manifest' = Empty
  /\ pass' = Booting
  /\ reader' = [reader EXCEPT !.pc = "rest"]
  /\ UNCHANGED <<dbVersion, onDisk, index, pubFails>>

\* An ingest pass changes what the next export will say.
Ingest ==
  /\ dbVersion + 1 \in Versions
  /\ dbVersion' = dbVersion + 1
  /\ UNCHANGED <<published, pass, reader, pubFails, pubRestarts>>

-----------------------------------------------------------------------------
(* The client (exportCacheControl, FileETag, http.FileServer).             *)

Follow(n) ==
  /\ reader.file = "none"
  /\ reader' = [reader EXCEPT !.file = n]
  /\ UNCHANGED <<dbVersion, published, pass, pubFails, pubRestarts>>

\* FileETag waits for the mutex; a tag the client holds already is a 304.
Ask ==
  /\ reader.file # "none" /\ reader.pc = "rest"
  /\ pass.pc # "locked"
  /\ manifest[reader.file] = NoContent \/ manifest[reader.file] # reader.tag
  /\ reader' = [reader EXCEPT !.pc = "asked", !.given = manifest[reader.file]]
  /\ UNCHANGED <<dbVersion, published, pass, pubFails, pubRestarts>>

\* The body is whatever the file holds by now; a 404 carries no tag.
Serve ==
  /\ reader.pc = "asked"
  /\ reader' = [reader EXCEPT
       !.pc = "rest", !.given = NoContent, !.body = onDisk[reader.file],
       !.tag = IF onDisk[reader.file] = NoContent THEN NoContent ELSE reader.given]
  /\ UNCHANGED <<dbVersion, published, pass, pubFails, pubRestarts>>

PubNext ==
  \/ StartFull \/ WriteRegion \/ (\E n \in FileNames : PruneOne(n)) \/ Commit
  \/ StartAvailability \/ WriteStatus \/ FinishAvailability
  \/ FailPass \/ Restart \/ Ingest
  \/ (\E n \in FileNames : Follow(n)) \/ Ask \/ Serve

-----------------------------------------------------------------------------
(* Properties.                                                             *)

\* A client's copy is at least as new as the tag it came with, however the
\* tag's reading and the body's interleave with an export, so that a 304 never
\* confirms a copy older than what the manifest records (FileETag,
\* GenerateFull: files first, manifest after).
TagNeverAhead == reader.tag # NoContent => reader.body >= reader.tag

\* From the end of a full export to the next one's start, index.json and the
\* regions' directories agree on which regions there are and what they hold,
\* although regions disappear, passes fail and the process restarts.
PublishedSet == pass.complete => \A n \in RegionNames : onDisk[n] = index[n]

Latest(n) ==
  IF n \in RegionNames /\ n \notin {RegionsAt[dbVersion][i] : i \in DOMAIN RegionsAt[dbVersion]}
  THEN NoContent ELSE dbVersion

\* A client that revalidates the dump of a region or the availability again and
\* again is again and again up to date with the database: no tag is kept for
\* a content that has been replaced (exportCacheControl).
ReaderCurrent == reader.file \in {"none", "status"} \/ reader.body = Latest(reader.file)

\* The status publication, which every full export removes, is there again
\* after it, failed passes or not (Run).
StatusThere == onDisk["status"] # NoContent

=============================================================================

--------------------------- MODULE Export_proofs ---------------------------
(***************************************************************************)
(* What is published and to whom: no manifest entry, and no client's tag,  *)
(* is newer than the file, except where a running full export has already  *)
(* removed it or will write it again; and only proven callbacks are posted *)
(* to.                                                                     *)
(***************************************************************************)
EXTENDS Publication, Subscriptions, SequenceTheorems, TLAPS

-----------------------------------------------------------------------------
(* The files: the invariant behind TagNeverAhead and PublishedSet.         *)

PubTypeOK ==
  /\ dbVersion \in Versions
  /\ onDisk \in [FileNames -> Nat] /\ manifest \in [FileNames -> Nat] /\ index \in [FileNames -> Nat]
  /\ pass \in [pc : {"rest", "write", "locked"}, stage : {"boot", "due", "ticking"},
               version : Nat, todo : Seq(FileNames), wrote : SUBSET FileNames,
               complete : BOOLEAN]
  /\ reader \in [file : FileNames \cup {"none"}, tag : Nat, body : Nat, given : Nat,
                 pc : {"rest", "asked"}]

\* The newest version anything published can be of.
Horizon == IF pass.pc = "rest" THEN dbVersion ELSE pass.version

\* A tag is recorded for what is on disk or for something older.
TagsBehind ==
  /\ Horizon <= dbVersion
  /\ \A n \in FileNames :
       /\ onDisk[n] <= Horizon /\ manifest[n] <= Horizon
       /\ onDisk[n] = NoContent \/ manifest[n] <= onDisk[n]
  /\ pass.pc = "write" => \A n \in pass.wrote : onDisk[n] = pass.version
  /\ pass.pc # "write" => pass.wrote = {}

\* So is a tag a request has been given, and a tag a client has kept.
ReaderBehind ==
  /\ reader.given <= Horizon
  /\ reader.pc = "asked" =>
       /\ reader.file \in FileNames
       /\ onDisk[reader.file] = NoContent \/ reader.given <= onDisk[reader.file]
  /\ TagNeverAhead

\* After a full export files, manifest and index agree on the regions.
RegionsAgree ==
  /\ pass.pc = "write" => ~pass.complete
  /\ pass.pc = "locked" => \A i \in 1..Len(pass.todo) : pass.todo[i] \in StatusNames
  /\ pass.complete => \A n \in RegionNames : onDisk[n] = index[n] /\ manifest[n] = index[n]

PubInv == PubTypeOK /\ TagsBehind /\ ReaderBehind /\ RegionsAgree

\* The versions of the database are numbered from one.
LEMMA VersionsAreNat == Versions \subseteq Nat /\ 1 \in Versions
  BY RegionsAreNamed DEF Versions

\* Nothing is published at first.
LEMMA PubInitInv == PubInit => PubInv
<1>. SUFFICES ASSUME PubInit PROVE PubInv
  OBVIOUS
<1>. USE VersionsAreNat DEF PubInit, Empty, Booting, Resting, NoContent
<1>1. PubTypeOK
  BY DEF PubTypeOK
<1>2. TagsBehind
  BY DEF TagsBehind, Horizon
<1>3. ReaderBehind
  BY DEF ReaderBehind, Horizon, TagNeverAhead
<1>4. RegionsAgree
  BY DEF RegionsAgree, FileNames
<1>. QED
  BY <1>1, <1>2, <1>3, <1>4 DEF PubInv

\* What Over makes of the pass.
LEMMA OverRests ==
  ASSUME PubInv, NEW c \in BOOLEAN
  PROVE  /\ Over(c) \in [pc : {"rest", "write", "locked"}, stage : {"boot", "due", "ticking"},
                         version : Nat, todo : Seq(FileNames), wrote : SUBSET FileNames,
                         complete : BOOLEAN]
         /\ Over(c).pc = "rest" /\ Over(c).complete = c /\ Over(c).wrote = {}
  BY DEF Over, Resting, NoContent

\* A full export begins: what is on disk stays as it was recorded.
LEMMA StartFullInv == PubInv /\ StartFull => PubInv'
<1>. SUFFICES ASSUME PubInv, StartFull PROVE PubInv'
  OBVIOUS
<1>0. RegionsAt[dbVersion] \in Seq(FileNames) /\ dbVersion \in Nat
  BY RegionsAreNamed, VersionsAreNat DEF PubInv, PubTypeOK, Versions, FileNames
<1>1. /\ pass'.pc = "write" /\ pass'.version = dbVersion /\ ~pass'.complete
      /\ pass'.wrote = pass.wrote
      /\ UNCHANGED <<dbVersion, onDisk, manifest, index, reader>>
  BY DEF PubInv, PubTypeOK, StartFull, published
<1>2. PubTypeOK'
  BY <1>0 DEF PubInv, PubTypeOK, StartFull, published
<1>. QED
  BY <1>1, <1>2 DEF PubInv, TagsBehind, ReaderBehind, RegionsAgree, Horizon, TagNeverAhead, StartFull

\* A newer region file goes under the older entry, never the other way round.
LEMMA WriteRegionInv == PubInv /\ WriteRegion => PubInv'
<1>. SUFFICES ASSUME PubInv, WriteRegion PROVE PubInv'
  OBVIOUS
<1>. DEFINE h == Head(pass.todo)
<1>0. h \in FileNames /\ Tail(pass.todo) \in Seq(FileNames)
  BY DEF PubInv, PubTypeOK, WriteRegion
<1>1. PubTypeOK'
  BY <1>0 DEF PubInv, PubTypeOK, WriteRegion
<1>2. TagsBehind'
  BY <1>0, VersionsAreNat DEF PubInv, PubTypeOK, TagsBehind, Horizon, WriteRegion
<1>3. ReaderBehind'
  BY <1>0, VersionsAreNat DEF PubInv, PubTypeOK, ReaderBehind, Horizon, TagNeverAhead, WriteRegion
<1>4. RegionsAgree'
  BY DEF PubInv, PubTypeOK, RegionsAgree, WriteRegion
<1>. QED
  BY <1>1, <1>2, <1>3, <1>4 DEF PubInv

\* A file that this export did not write is removed.
LEMMA PruneOneInv == ASSUME PubInv, NEW n \in FileNames, PruneOne(n) PROVE PubInv'
<1>1. PubTypeOK'
  BY DEF PubInv, PubTypeOK, PruneOne, NoContent
<1>2. TagsBehind'
  BY VersionsAreNat DEF PubInv, PubTypeOK, TagsBehind, Horizon, PruneOne, NoContent, Stale
<1>3. ReaderBehind'
  BY DEF PubInv, PubTypeOK, ReaderBehind, Horizon, TagNeverAhead, PruneOne, NoContent
<1>4. RegionsAgree'
  BY DEF PubInv, PubTypeOK, RegionsAgree, PruneOne
<1>. QED
  BY <1>1, <1>2, <1>3, <1>4 DEF PubInv

\* The entries of a finished export are of the files it wrote, and of no
\* others; a failed index is not a complete export.
LEMMA CommitInv == PubInv /\ Commit => PubInv'
<1>. SUFFICES ASSUME PubInv, Commit PROVE PubInv'
  OBVIOUS
<1>1. Recorded \in [FileNames -> Nat]
  BY DEF PubInv, PubTypeOK, Recorded, NoContent
<1>2. PICK c \in BOOLEAN : pass' = Over(c) /\ (c => index' = Recorded)
  BY DEF Commit
<1>3. /\ manifest' = Recorded /\ index' \in {index, Recorded}
      /\ UNCHANGED <<dbVersion, onDisk, reader>>
  BY DEF Commit
<1>4. PubTypeOK'
  BY <1>1, <1>2, <1>3, OverRests DEF PubInv, PubTypeOK
<1>5. Horizon' = dbVersion /\ Horizon = pass.version /\ pass.version <= dbVersion
  BY <1>2, <1>3, OverRests DEF Horizon, PubInv, TagsBehind, Commit
<1>6. \A n \in FileNames : Recorded[n] <= pass.version /\ (onDisk[n] = NoContent \/ Recorded[n] <= onDisk[n])
  BY <1>5 DEF PubInv, PubTypeOK, TagsBehind, Recorded, NoContent, Commit
<1>7. TagsBehind'
  <2>1. pass'.pc = "rest" /\ pass'.wrote = {}
    BY <1>2, OverRests
  <2>2. \A n \in FileNames : onDisk[n] <= pass.version
    BY <1>5 DEF PubInv, TagsBehind
  <2>3. dbVersion \in Nat /\ pass.version \in Nat
    BY VersionsAreNat DEF PubInv, PubTypeOK
  <2>4. \A n \in FileNames : onDisk[n] \in Nat /\ Recorded[n] \in Nat
    BY <1>1 DEF PubInv, PubTypeOK
  <2>5. \A n \in FileNames : onDisk[n] <= dbVersion /\ Recorded[n] <= dbVersion
    BY <1>5, <1>6, <2>2, <2>3, <2>4
  <2>. QED
    BY <1>3, <1>5, <1>6, <2>1, <2>3, <2>5 DEF TagsBehind
<1>8. ReaderBehind'
  BY <1>3, <1>5, VersionsAreNat DEF PubInv, PubTypeOK, ReaderBehind, TagNeverAhead
<1>9. \A n \in RegionNames : onDisk[n] = Recorded[n]
  BY RegionsAreNamed DEF PubInv, PubTypeOK, TagsBehind, Recorded, Commit, Stale, RegionDirs,
     FileNames, StatusNames
<1>10. RegionsAgree'
  BY <1>2, <1>3, <1>9, OverRests DEF RegionsAgree
<1>. QED
  BY <1>4, <1>7, <1>8, <1>10 DEF PubInv

\* A status pass begins, and holds the mutex.
LEMMA StartAvailabilityInv == PubInv /\ StartAvailability => PubInv'
<1>. SUFFICES ASSUME PubInv, StartAvailability PROVE PubInv'
  OBVIOUS
<1>0. <<"availability", "status">> \in Seq(FileNames) /\ dbVersion \in Nat
  BY VersionsAreNat DEF FileNames, StatusNames, PubInv, PubTypeOK
<1>1. PubTypeOK'
  BY <1>0 DEF PubInv, PubTypeOK, StartAvailability, published
<1>2. TagsBehind' /\ ReaderBehind'
  BY <1>0 DEF PubInv, PubTypeOK, TagsBehind, ReaderBehind, Horizon, TagNeverAhead,
     StartAvailability, published
<1>3. RegionsAgree'
  BY DEF PubInv, PubTypeOK, RegionsAgree, StartAvailability, published, StatusNames
<1>. QED
  BY <1>1, <1>2, <1>3 DEF PubInv

\* A status file and its entry change together.
LEMMA WriteStatusInv == PubInv /\ WriteStatus => PubInv'
<1>. SUFFICES ASSUME PubInv, WriteStatus PROVE PubInv'
  OBVIOUS
<1>. DEFINE h == Head(pass.todo)
<1>0. /\ h \in StatusNames /\ h \in FileNames
      /\ Tail(pass.todo) \in Seq(FileNames)
      /\ \A i \in 1..Len(Tail(pass.todo)) : Tail(pass.todo)[i] \in StatusNames
  <2>1. pass.todo \in Seq(FileNames) /\ pass.todo # << >>
    BY DEF PubInv, PubTypeOK, WriteStatus
  <2>2. \A i \in 1..Len(pass.todo) : pass.todo[i] \in StatusNames
    BY DEF PubInv, RegionsAgree, WriteStatus
  <2>3. h = pass.todo[1] /\ 1 \in 1..Len(pass.todo) /\ Tail(pass.todo) \in Seq(FileNames)
    BY <2>1
  <2>4. /\ Len(Tail(pass.todo)) = Len(pass.todo) - 1
        /\ \A i \in 1..Len(Tail(pass.todo)) : Tail(pass.todo)[i] = pass.todo[i + 1]
    BY <2>1
  <2>5. Len(pass.todo) \in Nat
    BY <2>1
  <2>6. \A i \in 1..Len(Tail(pass.todo)) : i + 1 \in 1..Len(pass.todo)
    BY <2>4, <2>5
  <2>. QED
    BY <2>2, <2>3, <2>4, <2>6 DEF FileNames
<1>1. PubTypeOK'
  <2>1. /\ onDisk' \in [FileNames -> Nat] /\ manifest' \in [FileNames -> Nat]
    BY <1>0 DEF PubInv, PubTypeOK, WriteStatus
  <2>2. pass' \in [pc : {"rest", "write", "locked"}, stage : {"boot", "due", "ticking"},
                   version : Nat, todo : Seq(FileNames), wrote : SUBSET FileNames,
                   complete : BOOLEAN]
    BY <1>0 DEF PubInv, PubTypeOK, WriteStatus
  <2>3. UNCHANGED <<dbVersion, index, reader>>
    BY DEF WriteStatus
  <2>. QED
    BY <2>1, <2>2, <2>3 DEF PubInv, PubTypeOK
<1>2. TagsBehind'
  <2>1. /\ onDisk' = [n \in FileNames |-> IF n = h THEN pass.version ELSE onDisk[n]]
        /\ manifest' = [n \in FileNames |-> IF n = h THEN pass.version ELSE manifest[n]]
        /\ dbVersion' = dbVersion /\ pass.pc = "locked"
        /\ pass'.pc = "locked" /\ pass'.version = pass.version /\ pass'.wrote = pass.wrote
    BY <1>0 DEF PubInv, PubTypeOK, WriteStatus
  <2>2. pass.version \in Nat /\ pass.version <= dbVersion /\ Horizon = pass.version /\ Horizon' = pass.version
    BY <2>1 DEF PubInv, PubTypeOK, TagsBehind, Horizon
  <2>3. \A n \in FileNames : /\ onDisk'[n] <= Horizon' /\ manifest'[n] <= Horizon'
                             /\ onDisk'[n] = NoContent \/ manifest'[n] <= onDisk'[n]
    BY <2>1, <2>2 DEF PubInv, TagsBehind
  <2>. QED
    BY <2>1, <2>2, <2>3 DEF PubInv, TagsBehind
<1>3. ReaderBehind'
  BY <1>0, VersionsAreNat DEF PubInv, PubTypeOK, ReaderBehind, Horizon, TagNeverAhead, WriteStatus
<1>4. RegionsAgree'
  BY <1>0, RegionsAreNamed DEF PubInv, PubTypeOK, RegionsAgree, WriteStatus, FileNames
<1>. QED
  BY <1>1, <1>2, <1>3, <1>4 DEF PubInv

\* A pass that ends without another write, well or not.
LEMMA RestInv ==
  ASSUME PubInv, pass.pc = "locked" \/ pass.pc = "write", pass' = Over(pass.complete),
         UNCHANGED <<dbVersion, onDisk, manifest, reader>>,
         index' = index \/ (pass.pc = "locked" /\ index' = manifest)
  PROVE  PubInv'
<1>0. pass.complete \in BOOLEAN
  BY DEF PubInv, PubTypeOK
<1>1. PubTypeOK'
  BY <1>0, OverRests DEF PubInv, PubTypeOK
<1>2. Horizon' = dbVersion /\ Horizon = pass.version /\ pass.version <= dbVersion
  BY <1>0, OverRests DEF Horizon, PubInv, TagsBehind
<1>3. pass'.pc = "rest" /\ pass'.wrote = {} /\ dbVersion \in Nat /\ pass.version \in Nat
  BY <1>0, OverRests, VersionsAreNat DEF PubInv, PubTypeOK
<1>4. \A n \in FileNames : onDisk[n] \in Nat /\ manifest[n] \in Nat
  BY DEF PubInv, PubTypeOK
<1>5. TagsBehind'
  BY <1>2, <1>3, <1>4 DEF PubInv, TagsBehind
<1>6. ReaderBehind'
  BY <1>2, <1>3 DEF PubInv, PubTypeOK, ReaderBehind, TagNeverAhead
<1>7. RegionsAgree'
  BY <1>0, OverRests DEF PubInv, RegionsAgree
<1>. QED
  BY <1>1, <1>5, <1>6, <1>7 DEF PubInv

\* A restart forgets every tag the manifest held, and the running export.
LEMMA RestartInv == PubInv /\ Restart => PubInv'
<1>. SUFFICES ASSUME PubInv, Restart PROVE PubInv'
  OBVIOUS
<1>1. /\ pass'.pc = "rest" /\ ~pass'.complete /\ pass'.wrote = {}
      /\ pass' \in [pc : {"rest", "write", "locked"}, stage : {"boot", "due", "ticking"},
                    version : Nat, todo : Seq(FileNames), wrote : SUBSET FileNames,
                    complete : BOOLEAN]
  BY DEF Restart, Booting, Resting, NoContent
<1>2. /\ reader' = [reader EXCEPT !.pc = "rest"]
      /\ manifest' = [n \in FileNames |-> 0]
      /\ UNCHANGED <<dbVersion, onDisk, index>>
  BY DEF Restart, Empty, NoContent
<1>3. PubTypeOK'
  BY <1>1, <1>2 DEF PubInv, PubTypeOK
<1>4. Horizon' = dbVersion /\ Horizon <= dbVersion /\ dbVersion \in Nat /\ Horizon \in Nat
  BY <1>1, <1>2, VersionsAreNat DEF Horizon, PubInv, PubTypeOK, TagsBehind
<1>5. TagsBehind'
  <2>1. \A n \in FileNames : onDisk[n] \in Nat /\ onDisk[n] <= Horizon
    BY DEF PubInv, PubTypeOK, TagsBehind
  <2>2. \A n \in FileNames : 0 <= onDisk[n] /\ onDisk[n] <= dbVersion
    BY <1>4, <2>1
  <2>. QED
    BY <1>1, <1>2, <1>4, <2>2 DEF TagsBehind
<1>6. ReaderBehind'
  <2>1. /\ reader'.given = reader.given /\ reader'.pc = "rest"
        /\ reader'.tag = reader.tag /\ reader'.body = reader.body
    BY <1>2 DEF PubInv, PubTypeOK
  <2>2. reader.given \in Nat /\ reader.given <= Horizon
    BY DEF PubInv, PubTypeOK, ReaderBehind
  <2>. QED
    BY <1>4, <2>1, <2>2 DEF PubInv, ReaderBehind, TagNeverAhead
<1>7. RegionsAgree'
  BY <1>1 DEF RegionsAgree
<1>. QED
  BY <1>3, <1>5, <1>6, <1>7 DEF PubInv

\* The database moves on; nothing published changes.
LEMMA IngestInv == PubInv /\ Ingest => PubInv'
<1>. SUFFICES ASSUME PubInv, Ingest PROVE PubInv'
  OBVIOUS
<1>1. /\ dbVersion' = dbVersion + 1 /\ dbVersion' \in Versions
      /\ UNCHANGED <<onDisk, manifest, index, pass, reader>>
  BY DEF Ingest, published
<1>2. PubTypeOK'
  BY <1>1 DEF PubInv, PubTypeOK
<1>3. dbVersion \in Nat /\ pass.version \in Nat /\ Horizon <= Horizon' /\ Horizon' <= dbVersion'
  BY <1>1, VersionsAreNat DEF PubInv, PubTypeOK, TagsBehind, Horizon
<1>4. /\ Horizon \in Nat /\ Horizon' \in Nat /\ reader.given \in Nat
      /\ \A n \in FileNames : onDisk[n] \in Nat /\ manifest[n] \in Nat
  BY <1>1, <1>3 DEF Horizon, PubInv, PubTypeOK
<1>5. TagsBehind'
  <2>1. \A n \in FileNames : onDisk[n] <= Horizon' /\ manifest[n] <= Horizon'
    BY <1>3, <1>4 DEF PubInv, TagsBehind
  <2>. QED
    BY <1>1, <1>3, <2>1 DEF PubInv, TagsBehind
<1>6. ReaderBehind'
  BY <1>1, <1>3, <1>4 DEF PubInv, ReaderBehind, TagNeverAhead
<1>. QED
  BY <1>1, <1>2, <1>5, <1>6 DEF PubInv, RegionsAgree

\* The client's steps change nothing that is published.
LEMMA ReaderInv ==
  ASSUME PubInv, (\E n \in FileNames : Follow(n)) \/ Ask \/ Serve
  PROVE  PubInv'
<1>1. UNCHANGED <<dbVersion, onDisk, manifest, index, pass>>
  BY DEF Follow, Ask, Serve, published
<1>2. TagsBehind' /\ RegionsAgree' /\ Horizon' = Horizon
  BY <1>1 DEF PubInv, TagsBehind, RegionsAgree, Horizon
<1>3. CASE \E n \in FileNames : Follow(n)
  <2>1. PICK n \in FileNames : Follow(n)
    BY <1>3
  <2>2. PubTypeOK' /\ reader'.file \in FileNames
    BY <1>1, <2>1 DEF PubInv, PubTypeOK, Follow
  <2>3. /\ reader'.given = reader.given /\ reader'.pc = reader.pc
        /\ reader'.tag = reader.tag /\ reader'.body = reader.body
        /\ reader.file = "none"
    BY <2>1 DEF PubInv, PubTypeOK, Follow
  <2>4. reader.pc # "asked"
    BY <2>3, RegionsAreNamed DEF PubInv, ReaderBehind, FileNames, StatusNames
  <2>5. ReaderBehind'
    BY <1>1, <1>2, <2>3, <2>4 DEF PubInv, ReaderBehind, TagNeverAhead
  <2>. QED
    BY <1>2, <2>2, <2>5 DEF PubInv
<1>4. CASE Ask
  BY <1>1, <1>2, <1>4 DEF PubInv, PubTypeOK, TagsBehind, ReaderBehind, TagNeverAhead, Ask
<1>5. CASE Serve
  <2>1. PubTypeOK'
    BY <1>1, <1>5 DEF PubInv, PubTypeOK, ReaderBehind, Serve, NoContent
  <2>2. ReaderBehind'
    BY <1>1, <1>2, <1>5, VersionsAreNat
       DEF PubInv, PubTypeOK, ReaderBehind, TagNeverAhead, Serve, NoContent, Horizon
  <2>. QED
    BY <1>2, <2>1, <2>2 DEF PubInv
<1>. QED
  BY <1>3, <1>4, <1>5

\* One case for each action of the exporter, its failures and the client.
LEMMA PubStepInv == PubInv /\ [PubNext]_pubVars => PubInv'
<1>. SUFFICES ASSUME PubInv, [PubNext]_pubVars PROVE PubInv'
  OBVIOUS
<1>1. CASE FailPass \/ FinishAvailability
  <2>1. pass' = Over(pass.complete) /\ UNCHANGED <<dbVersion, onDisk, manifest, reader>>
    BY <1>1 DEF FailPass, FinishAvailability, published
  <2>2. pass.pc = "locked" \/ pass.pc = "write"
    BY <1>1 DEF FailPass, FinishAvailability
  <2>3. index' = index \/ (pass.pc = "locked" /\ index' = manifest)
    BY <1>1 DEF FailPass, FinishAvailability, published
  <2>. QED
    BY <2>1, <2>2, <2>3, RestInv
<1>2. CASE UNCHANGED pubVars
  BY <1>2 DEF PubInv, PubTypeOK, TagsBehind, ReaderBehind, RegionsAgree, Horizon, TagNeverAhead,
     pubVars, published
<1>. QED
  BY <1>1, <1>2, StartFullInv, WriteRegionInv, PruneOneInv, CommitInv, StartAvailabilityInv,
     WriteStatusInv, RestartInv, IngestInv, ReaderInv DEF PubNext

\* The invariant says what the two properties promise.
LEMMA PubInvSafe == PubInv => TagNeverAhead /\ PublishedSet
  BY DEF PubInv, ReaderBehind, RegionsAgree, PublishedSet

-----------------------------------------------------------------------------
(* The subscribers: the invariant behind OnlyProven.                       *)

\* Where a publication may go by now, and the rows and pushes that keep to it.
Proven == echoed \cup {Configured[i] : i \in DOMAIN Configured}
ProvenRow == [callback : echoed, secret : Nat]
ProvenPush == [targets : Seq(Proven), body : Nat, tries : Nat]

\* A row, a registration about to be stored and the targets a push has left
\* are all proven; a body is in hand for a target only.
SubInv ==
  /\ contents \in Nat /\ secrets \in Nat
  /\ rows \in Seq(ProvenRow)
  /\ registering \subseteq [callback : Callbacks, secret : Nat, pc : {"verify", "store"}]
  /\ \A q \in registering : q.pc = "store" => q.callback \in echoed
  /\ pushes \in Seq(ProvenPush)
  /\ \A k \in 1..Len(pushes) : pushes[k].body # Unread => pushes[k].targets # << >>
  /\ OnlyProven

\* The initial state: nothing is registered or under way.
LEMMA SubInitInv == SubInit => SubInv
  BY DEF SubInit, SubInv, OnlyProven

\* An echo is never taken back, so what was proven stays proven.
LEMMA ProvenGrows ==
  ASSUME echoed \subseteq echoed'
  PROVE  Seq(ProvenRow) \subseteq Seq(ProvenRow)' /\ Seq(ProvenPush) \subseteq Seq(ProvenPush)'
<1>1. ProvenRow \subseteq ProvenRow' /\ Proven \subseteq Proven'
  BY DEF ProvenRow, Proven
<1>2. Seq(Proven) \subseteq Seq(Proven')
  BY <1>1, SeqMonotonic
<1>3. ProvenPush \subseteq ProvenPush'
  BY <1>2 DEF ProvenPush
<1>4. Seq(ProvenRow) \subseteq Seq(ProvenRow')
  BY <1>1, SeqMonotonic
<1>5. Seq(ProvenPush) \subseteq Seq(ProvenPush')
  BY <1>3, SeqMonotonic
<1>. QED
  BY <1>4, <1>5

\* Storing a registration replaces the secret of its callback's row, or
\* appends one for it.
LEMMA UpsertedRows ==
  ASSUME rows \in Seq(ProvenRow), NEW q, q.callback \in echoed, q.secret \in Nat
  PROVE  Upserted(q) \in Seq(ProvenRow)
<1>1. DOMAIN rows = 1..Len(rows) /\ Len(rows) \in Nat /\ \A i \in 1..Len(rows) : rows[i] \in ProvenRow
  OBVIOUS
<1>. DEFINE u == [i \in 1..Len(rows) |-> IF rows[i].callback = q.callback
                                           THEN [rows[i] EXCEPT !.secret = q.secret] ELSE rows[i]]
<1>2. u \in [1..Len(rows) -> ProvenRow]
  BY <1>1 DEF ProvenRow
<1>3. u \in Seq(ProvenRow)
  BY <1>1, <1>2
<1>4. [callback |-> q.callback, secret |-> q.secret] \in ProvenRow
  BY DEF ProvenRow
<1>5. Append(rows, [callback |-> q.callback, secret |-> q.secret]) \in Seq(ProvenRow)
  BY <1>4
<1>6. CASE \E i \in DOMAIN rows : rows[i].callback = q.callback
  <2>1. Upserted(q) = u
    BY <1>1, <1>6 DEF Upserted
  <2>. QED
    BY <1>3, <2>1
<1>7. CASE ~\E i \in DOMAIN rows : rows[i].callback = q.callback
  BY <1>5, <1>7 DEF Upserted
<1>. QED
  BY <1>6, <1>7

\* Removing one element of a sequence.
LEMMA OneRemoved ==
  ASSUME NEW S, NEW s \in Seq(S), NEW i \in 1..Len(s)
  PROVE  LET w == [j \in 1..(Len(s) - 1) |-> s[IF j < i THEN j ELSE j + 1]]
         IN  /\ w \in Seq(S) /\ Len(w) = Len(s) - 1
             /\ \A j \in 1..Len(w) : \E k \in 1..Len(s) : w[j] = s[k]
<1>. DEFINE w == [j \in 1..(Len(s) - 1) |-> s[IF j < i THEN j ELSE j + 1]]
<1>1. Len(s) \in Nat /\ Len(s) - 1 \in Nat /\ \A k \in 1..Len(s) : s[k] \in S
  OBVIOUS
<1>2. \A j \in 1..(Len(s) - 1) : (IF j < i THEN j ELSE j + 1) \in 1..Len(s)
  BY <1>1
<1>3. w \in [1..(Len(s) - 1) -> S]
  BY <1>1, <1>2
<1>4. w \in Seq(S) /\ Len(w) = Len(s) - 1
  BY <1>1, <1>3
<1>5. \A j \in 1..(Len(s) - 1) : \E k \in 1..Len(s) : w[j] = s[k]
  BY <1>2
<1>. HIDE DEF w
<1>6. \A j \in 1..Len(w) : \E k \in 1..Len(s) : w[j] = s[k]
  BY <1>4, <1>5
<1>. QED
  BY <1>4, <1>6 DEF w

\* The targets a push starts with: the configured ones, then the rows'.
LEMMA StartedProven ==
  ASSUME SubInv
  PROVE  Targets \in Seq(Proven) /\ Configured \in Seq(Proven)
<1>1. Configured \in Seq(Proven)
  <2>1. Len(Configured) \in Nat /\ DOMAIN Configured = 1..Len(Configured)
        /\ Configured = [i \in 1..Len(Configured) |-> Configured[i]]
    BY TargetsAreListed
  <2>2. \A i \in 1..Len(Configured) : Configured[i] \in Proven
    BY <2>1 DEF Proven
  <2>. QED
    BY <2>1, <2>2
<1>. DEFINE r == [i \in DOMAIN rows |-> rows[i].callback]
<1>2. r \in Seq(Proven)
  <2>1. DOMAIN rows = 1..Len(rows) /\ Len(rows) \in Nat /\ \A i \in 1..Len(rows) : rows[i] \in ProvenRow
    BY DEF SubInv
  <2>2. \A i \in 1..Len(rows) : rows[i].callback \in Proven
    BY <2>1 DEF ProvenRow, Proven
  <2>3. r \in [1..Len(rows) -> Proven]
    BY <2>1, <2>2
  <2>. QED
    BY <2>1, <2>3
<1>. HIDE DEF r
<1>3. Configured \o r \in Seq(Proven)
  BY <1>1, <1>2
<1>. QED
  BY <1>1, <1>3 DEF Targets, r

\* The steps of registrations: the echo comes before the row.
LEMMA RegistrationSteps ==
  ASSUME SubInv,
         \/ \E c \in Callbacks : Subscribe(c)
         \/ \E q \in registering : Verify(q) \/ StoreSubscription(q)
         \/ \E i \in DOMAIN rows, s \in 1..secrets : Unsubscribe(i, s)
  PROVE  SubInv'
<1>0. UNCHANGED <<pushes, posted, contents>> /\ echoed \subseteq echoed'
  BY DEF Subscribe, Verify, StoreSubscription, Unsubscribe, fileVars
<1>1. /\ pushes' \in Seq(ProvenPush)' /\ rows \in Seq(ProvenRow)' /\ OnlyProven' /\ contents' \in Nat
      /\ \A k \in 1..Len(pushes') : pushes'[k].body # Unread => pushes'[k].targets # << >>
  <2>1. OnlyProven'
    BY <1>0 DEF SubInv, OnlyProven
  <2>. QED
    BY <1>0, <2>1, ProvenGrows DEF SubInv
<1>2. CASE \E c \in Callbacks : Subscribe(c)
  <2>1. UNCHANGED <<rows, echoed>> /\ secrets' = secrets + 1
    BY <1>2 DEF Subscribe
  <2>2. /\ registering' \subseteq [callback : Callbacks, secret : Nat, pc : {"verify", "store"}]
        /\ \A q \in registering' : q.pc = "store" => q.callback \in echoed
    BY <1>2 DEF SubInv, Subscribe
  <2>. QED
    BY <1>1, <2>1, <2>2 DEF SubInv
<1>3. CASE \E q \in registering : Verify(q)
  <2>1. PICK q \in registering : Verify(q)
    BY <1>3
  <2>2. registering' \subseteq [callback : Callbacks, secret : Nat, pc : {"verify", "store"}]
    BY <2>1 DEF SubInv, Verify
  <2>3. \A r \in registering' : r.pc = "store" => r.callback \in echoed'
    BY <1>0, <2>1 DEF SubInv, Verify
  <2>4. UNCHANGED <<rows, secrets>>
    BY <2>1 DEF Verify
  <2>. QED
    BY <1>1, <2>2, <2>3, <2>4 DEF SubInv
<1>4. CASE \E q \in registering : StoreSubscription(q)
  <2>1. PICK q \in registering : StoreSubscription(q)
    BY <1>4
  <2>2. q.callback \in echoed /\ q.secret \in Nat
    BY <2>1 DEF SubInv, StoreSubscription
  <2>3. rows' \in Seq(ProvenRow)
    BY <2>1, <2>2, UpsertedRows DEF SubInv, StoreSubscription
  <2>4. UNCHANGED <<secrets, echoed>> /\ registering' \subseteq registering
    BY <2>1 DEF StoreSubscription
  <2>5. ProvenRow' = ProvenRow
    BY <2>4 DEF ProvenRow
  <2>. QED
    BY <1>1, <2>3, <2>4, <2>5 DEF SubInv
<1>5. CASE \E i \in DOMAIN rows, s \in 1..secrets : Unsubscribe(i, s)
  <2>1. PICK i \in DOMAIN rows, s \in 1..secrets : Unsubscribe(i, s)
    BY <1>5
  <2>2. rows' \in Seq(ProvenRow)
    <3>1. i \in 1..Len(rows)
      BY DEF SubInv
    <3>. QED
      BY <2>1, <3>1, OneRemoved DEF SubInv, Unsubscribe
  <2>3. UNCHANGED <<registering, secrets, echoed>>
    BY <2>1 DEF Unsubscribe
  <2>4. ProvenRow' = ProvenRow
    BY <2>3 DEF ProvenRow
  <2>. QED
    BY <1>1, <2>2, <2>3, <2>4 DEF SubInv
<1>. QED
  BY <1>2, <1>3, <1>4, <1>5

\* A push that goes on to its next target has fewer left, all of them proven.
LEMMA NextTargetProven ==
  ASSUME NEW p \in ProvenPush, p.targets # << >>
  PROVE  /\ Next_Target(p) \in ProvenPush /\ Next_Target(p).body = Unread
         /\ Head(p.targets) \in Proven
<1>1. p.targets \in Seq(Proven) /\ Tail(p.targets) \in Seq(Proven) /\ Head(p.targets) \in Proven
  BY DEF ProvenPush
<1>2. Next_Target(p) = [targets |-> Tail(p.targets), body |-> Unread, tries |-> 0]
  BY DEF Next_Target, Start
<1>. QED
  BY <1>1, <1>2 DEF ProvenPush, Unread

\* A step that changes one push, and posts to its target if to any.
LEMMA OnePushChanged ==
  ASSUME SubInv, NEW k \in 1..Len(pushes), NEW p \in ProvenPush,
         p.body # Unread => p.targets # << >>,
         pushes' = [pushes EXCEPT ![k] = p],
         UNCHANGED <<contents, rows, registering, secrets, echoed>>,
         \/ posted' = posted
         \/ pushes[k].targets # << >> /\ posted' = posted \cup {Head(pushes[k].targets)}
  PROVE  SubInv'
<1>0. pushes \in Seq(ProvenPush) /\ pushes[k] \in ProvenPush
  BY DEF SubInv
<1>1. /\ pushes' \in Seq(ProvenPush) /\ Len(pushes') = Len(pushes)
      /\ \A j \in 1..Len(pushes) : pushes'[j] = IF j = k THEN p ELSE pushes[j]
  BY <1>0
<1>2. Proven' = Proven /\ ProvenPush' = ProvenPush /\ ProvenRow' = ProvenRow
  BY DEF Proven, ProvenPush, ProvenRow
<1>3. posted' \subseteq Proven
  BY <1>0, NextTargetProven DEF SubInv, OnlyProven, Proven
<1>4. \A j \in 1..Len(pushes') : pushes'[j].body # Unread => pushes'[j].targets # << >>
  BY <1>1 DEF SubInv
<1>5. OnlyProven'
  BY <1>3 DEF OnlyProven, Proven
<1>. QED
  BY <1>1, <1>2, <1>4, <1>5 DEF SubInv

\* The steps of a running push.
LEMMA PushSteps ==
  ASSUME SubInv, NEW k \in 1..MaxPushes, PushStep(k)
  PROVE  SubInv'
<1>1. k \in 1..Len(pushes) /\ pushes \in Seq(ProvenPush)
  <2>1. k \in DOMAIN pushes
    BY DEF PushStep, ReadBody, PostAccepted, PostRefused, EndPush
  <2>. QED
    BY <2>1 DEF SubInv
<1>2. /\ pushes[k] \in ProvenPush /\ contents \in Nat
      /\ pushes[k].body # Unread => pushes[k].targets # << >>
  BY <1>1 DEF SubInv
<1>3. CASE ReadBody(k)
  <2>. DEFINE p == [pushes[k] EXCEPT !.body = contents]
  <2>1. p \in ProvenPush /\ p.targets = pushes[k].targets
    BY <1>2 DEF ProvenPush
  <2>2. /\ pushes[k].targets # << >>
        /\ UNCHANGED <<contents, rows, registering, secrets, echoed, posted>>
        /\ \/ pushes' = [pushes EXCEPT ![k] = p]
           \/ pushes' = [pushes EXCEPT ![k] = Next_Target(pushes[k])]
    BY <1>3 DEF ReadBody, fileVars
  <2>3. CASE pushes' = [pushes EXCEPT ![k] = p]
    BY <1>1, <2>1, <2>2, <2>3, OnePushChanged
  <2>4. CASE pushes' = [pushes EXCEPT ![k] = Next_Target(pushes[k])]
    BY <1>1, <1>2, <2>2, <2>4, NextTargetProven, OnePushChanged
  <2>. QED
    BY <2>2, <2>3, <2>4
<1>4. CASE PostAccepted(k)
  <2>1. /\ pushes[k].targets # << >> /\ pushes' = [pushes EXCEPT ![k] = Next_Target(pushes[k])]
        /\ posted' = posted \cup {Head(pushes[k].targets)}
        /\ UNCHANGED <<contents, rows, registering, secrets, echoed>>
    BY <1>2, <1>4 DEF PostAccepted, fileVars
  <2>. QED
    BY <1>1, <1>2, <2>1, NextTargetProven, OnePushChanged
<1>5. CASE PostRefused(k)
  <2>1. /\ pushes[k].targets # << >> /\ pushes' = [pushes EXCEPT ![k] = AfterRefusal(pushes[k])]
        /\ posted' = posted \cup {Head(pushes[k].targets)}
        /\ UNCHANGED <<contents, rows, registering, secrets, echoed>>
    BY <1>2, <1>5 DEF PostRefused, fileVars
  <2>2. /\ AfterRefusal(pushes[k]) \in ProvenPush
        /\ AfterRefusal(pushes[k]).body # Unread => AfterRefusal(pushes[k]).targets # << >>
    <3>. DEFINE p == [pushes[k] EXCEPT !.tries = @ + 1]
    <3>1. p \in ProvenPush /\ p.targets = pushes[k].targets
      BY <1>2 DEF ProvenPush
    <3>2. AfterRefusal(pushes[k]) \in {p, Next_Target(pushes[k])}
      BY DEF AfterRefusal
    <3>. QED
      BY <1>2, <2>1, <3>1, <3>2, NextTargetProven
  <2>. QED
    BY <1>1, <2>1, <2>2, OnePushChanged
<1>6. CASE EndPush(k)
  <2>1. /\ pushes' \in Seq(ProvenPush)
        /\ \A j \in 1..Len(pushes') : \E i \in 1..Len(pushes) : pushes'[j] = pushes[i]
    BY <1>1, <1>6, OneRemoved DEF EndPush
  <2>2. UNCHANGED <<contents, rows, registering, secrets, echoed, posted>>
    BY <1>6 DEF EndPush, fileVars
  <2>3. Proven' = Proven /\ ProvenPush' = ProvenPush /\ ProvenRow' = ProvenRow /\ OnlyProven'
    BY <2>2 DEF Proven, ProvenPush, ProvenRow, SubInv, OnlyProven
  <2>. QED
    BY <2>1, <2>2, <2>3 DEF SubInv
<1>. QED
  BY <1>3, <1>4, <1>5, <1>6 DEF PushStep

\* A new push starts with proven targets.
LEMMA PublishStep == SubInv /\ Publish => SubInv'
<1>. SUFFICES ASSUME SubInv, Publish PROVE SubInv'
  OBVIOUS
<1>1. PICK t \in {Targets, Configured} : pushes' = Append(pushes, Start(t))
  BY DEF Publish
<1>2. UNCHANGED <<rows, registering, secrets, echoed, posted>> /\ contents' \in Nat
  BY DEF Publish, SubInv
<1>3. Start(t) \in ProvenPush /\ Start(t).body = Unread
  BY StartedProven DEF Start, Unread, ProvenPush
<1>4. pushes \in Seq(ProvenPush)
  BY DEF SubInv
<1>5. /\ pushes' \in Seq(ProvenPush) /\ Len(pushes') = Len(pushes) + 1
      /\ \A k \in 1..Len(pushes') : pushes'[k] = IF k <= Len(pushes) THEN pushes[k] ELSE Start(t)
  BY <1>1, <1>3, <1>4
<1>6. \A k \in 1..Len(pushes') : pushes'[k].body # Unread => pushes'[k].targets # << >>
  BY <1>3, <1>4, <1>5 DEF SubInv
<1>7. Proven' = Proven /\ ProvenPush' = ProvenPush /\ ProvenRow' = ProvenRow /\ OnlyProven'
  BY <1>2 DEF Proven, ProvenPush, ProvenRow, SubInv, OnlyProven
<1>. QED
  BY <1>2, <1>5, <1>6, <1>7 DEF SubInv

\* Removing the file touches no push and no row.
LEMMA PruneStep == SubInv /\ Prune => SubInv'
  BY DEF SubInv, OnlyProven, Proven, ProvenPush, ProvenRow, Prune

\* Every step keeps the invariant.
LEMMA SubStepInv == SubInv /\ [SubNext]_subVars => SubInv'
<1>. SUFFICES ASSUME SubInv, [SubNext]_subVars PROVE SubInv'
  OBVIOUS
<1>1. CASE UNCHANGED subVars
  BY <1>1 DEF SubInv, OnlyProven, Proven, ProvenPush, ProvenRow, subVars, fileVars
<1>. QED
  BY <1>1, RegistrationSteps, PublishStep, PruneStep, PushSteps DEF SubNext

=============================================================================

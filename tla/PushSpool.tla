----------------------------- MODULE PushSpool ------------------------------
(***************************************************************************)
(* The durable spool of Mobilithek pushes                                  *)
(* (internal/ingest/mobilithek_spool.go, mobilithek_push.go).              *)
(*                                                                         *)
(* The broker delivers each operator's pushes in order, one at a time,     *)
(* again if no 202 came back.  The webhook writes a push to a temporary    *)
(* file, renames it into incoming/ and answers 202.  One scanner renames   *)
(* the oldest files into processing/ and hands them as a batch to one of   *)
(* several workers, which parse the files, fold them per operator and      *)
(* apply the fold under the operator's lock; then the files are removed.   *)
(* The process may die at any step and then finds its files again.         *)
(*                                                                         *)
(* Each operator has one charger; files are named by their arrival, so a   *)
(* file is its number.                                                     *)
(***************************************************************************)
EXTENDS Integers, Sequences, FiniteSets

CONSTANTS
  Cpos,           \* operators
  Stream,         \* the pushes the broker has for each operator, in order
  Static,         \* the table each operator's static publication holds, if any
  Seeded,         \* operators whose charger is known to begin with
  Statuses,
  Blank,          \* the empty status a table push carries
  Prices, Silent, Withdrawn, NoPrice,
  Workers,
  NoWorker, NoCpo,
  SpoolBatch,     \* files one scan claims (500)
  MaxDepth,       \* maxSpoolDepth (20000)
  MayFail,        \* operators whose rows the database may refuse
  MaxFiles,       \* bound: files ever written
  MaxCrashes      \* bound: times the process dies

\* Only a status push can withdraw a price (applyStatuses).
Docs == {d \in [kind : {"table", "status", "eliso", "bad"}, cpo : Cpos,
                status : Statuses \cup {Blank}, price : Prices \cup {Silent, Withdrawn}] :
           d.price = Withdrawn => d.kind = "status"}

ASSUME SpoolAssumption ==
  /\ \A c \in Cpos : Stream[c] \in Seq(Docs) /\ \A i \in DOMAIN Stream[c] : Stream[c][i].cpo = c
  /\ Static \subseteq {d \in Docs : d.kind = "table"}
  /\ Seeded \subseteq Cpos
  /\ NoWorker \notin Workers /\ NoCpo \notin Cpos
  /\ {SpoolBatch, MaxDepth} \subseteq Nat \ {0}
  /\ {MaxFiles, MaxCrashes} \subseteq Nat
  /\ MayFail \subseteq Cpos

Names == 1..MaxFiles
NoName == 0

VARIABLES
  sent,           \* pushes of each operator the broker has a 202 for
  handler,        \* the file the webhook is writing for an operator, or NoName
  names,          \* file names handed out so far
  content,        \* the push in each file
  place,          \* the directory each file is in
  acked,          \* files answered with a 202
  scanned,        \* the batch the scanner has claimed and not handed over
  work,           \* the channel of batches
  worker,         \* what each worker is doing
  lock,           \* Engine.mobLocks: the worker holding an operator's lock
  known, live, price,  \* the operator's charger row, status and price
  stored,         \* files whose status and price, or newer ones, are in the rows
  crashes

broker == <<sent, handler, acked>>
spool == <<names, content, place>>
drainer == <<scanned, work, worker, lock>>
db == <<known, live, price>>
vars == <<broker, spool, drainer, db, stored, crashes>>

Idle == [pc |-> "idle", left |-> << >>, good |-> << >>, cpos |-> {}, cpo |-> NoCpo]

In(dir) == {n \in 1..names : place[n] = dir}

Init ==
  /\ sent = [c \in Cpos |-> 0]
  /\ handler = [c \in Cpos |-> NoName]
  /\ names = 0
  /\ content = [n \in Names |-> << >>]
  /\ place = [n \in Names |-> "none"]
  /\ acked = {}
  /\ scanned = << >> /\ work = << >>
  /\ worker = [w \in Workers |-> Idle]
  /\ lock = [c \in Cpos |-> NoWorker]
  /\ known = Seeded
  /\ live = [c \in Cpos |-> Blank]
  /\ price = [c \in Cpos |-> NoPrice]
  /\ stored = {}
  /\ crashes = 0

-----------------------------------------------------------------------------
(* The webhook (mobilithekPush, SpoolPush).                                *)

\* Beyond maxSpoolDepth the answer is 503, and the broker tries again.
Receive(c) ==
  /\ sent[c] < Len(Stream[c]) /\ handler[c] = NoName /\ names < MaxFiles
  /\ Cardinality(In("incoming")) < MaxDepth
  /\ names' = names + 1
  /\ content' = [content EXCEPT ![names + 1] = Stream[c][sent[c] + 1]]
  /\ place' = [place EXCEPT ![names + 1] = "tmp"]
  /\ handler' = [handler EXCEPT ![c] = names + 1]
  /\ UNCHANGED <<sent, acked, drainer, db, stored, crashes>>

Rename(c) ==
  /\ handler[c] # NoName /\ place[handler[c]] = "tmp"
  /\ place' = [place EXCEPT ![handler[c]] = "incoming"]
  /\ UNCHANGED <<broker, names, content, drainer, db, stored, crashes>>

\* The 202 may not reach the broker, which then sends the push again.
Accept(c) ==
  /\ handler[c] # NoName /\ place[handler[c]] # "tmp"
  /\ acked' = acked \cup {handler[c]}
  /\ handler' = [handler EXCEPT ![c] = NoName]
  /\ \/ sent' = [sent EXCEPT ![c] = @ + 1]
     \/ UNCHANGED sent
  /\ UNCHANGED <<spool, drainer, db, stored, crashes>>

-----------------------------------------------------------------------------
(* The scanner.                                                            *)

Oldest(k) == {n \in In("incoming") : Cardinality({m \in In("incoming") : m <= n}) <= k}

InOrder(S) == [i \in 1..Cardinality(S) |->
                 CHOOSE n \in S : Cardinality({m \in S : m <= n}) = i]

ClaimedTo_Copied == "incoming"
ClaimedTo == "processing"

Claim ==
  /\ scanned = << >> /\ In("incoming") # {}
  /\ scanned' = InOrder(Oldest(SpoolBatch))
  /\ place' = [n \in Names |-> IF n \in Oldest(SpoolBatch) THEN ClaimedTo ELSE place[n]]
  /\ UNCHANGED <<broker, names, content, work, worker, lock, db, stored, crashes>>

HandOver ==
  /\ scanned # << >> /\ Len(work) < 2 * Cardinality(Workers)
  /\ work' = Append(work, scanned)
  /\ scanned' = << >>
  /\ UNCHANGED <<broker, spool, worker, lock, db, stored, crashes>>

-----------------------------------------------------------------------------
(* A worker: processSpoolBatch.                                            *)

Take(w) ==
  /\ worker[w].pc = "idle" /\ work # << >>
  /\ worker' = [worker EXCEPT ![w] = [Idle EXCEPT !.pc = "read", !.left = Head(work)]]
  /\ work' = Tail(work)
  /\ UNCHANGED <<broker, spool, scanned, lock, db, stored, crashes>>

PriceAfter_NoEvidence(d, old) ==
  IF d.price \in {Silent, Withdrawn} THEN old ELSE d.price
PriceAfter(d, old) ==
  IF d.price = Silent THEN old ELSE IF d.price = Withdrawn THEN NoPrice ELSE d.price

\* Parse one file: overlays apply at once, junk goes to failed/, the rest
\* waits for the fold.
ReadBad(w) ==
  LET n == Head(worker[w].left)
  IN  /\ worker[w].pc = "read" /\ worker[w].left # << >> /\ content[n].kind = "bad"
      /\ place' = [place EXCEPT ![n] = "failed"]
      /\ worker' = [worker EXCEPT ![w].left = Tail(@)]
      /\ UNCHANGED <<broker, names, content, scanned, work, lock, db, stored, crashes>>

ReadOverlay(w) ==
  LET n == Head(worker[w].left)
      d == content[n]
  IN  /\ worker[w].pc = "read" /\ worker[w].left # << >> /\ d.kind = "eliso"
      /\ \/ /\ live' = IF d.cpo \in known THEN [live EXCEPT ![d.cpo] = d.status] ELSE live
            /\ price' = IF d.cpo \in known THEN [price EXCEPT ![d.cpo] = PriceAfter(d, @)] ELSE price
            /\ stored' = IF d.cpo \in known THEN stored \cup {n} ELSE stored
         \/ d.cpo \in MayFail /\ UNCHANGED <<live, price, stored>>
      /\ place' = [place EXCEPT ![n] = "gone"]
      /\ worker' = [worker EXCEPT ![w].left = Tail(@)]
      /\ UNCHANGED <<broker, names, content, scanned, work, lock, known, crashes>>

ReadDoc(w) ==
  LET n == Head(worker[w].left)
  IN  /\ worker[w].pc = "read" /\ worker[w].left # << >>
      /\ content[n].kind \in {"table", "status"}
      /\ worker' = [worker EXCEPT ![w].left = Tail(@), ![w].good = Append(@, n),
                                  ![w].cpos = @ \cup {content[n].cpo}]
      /\ UNCHANGED <<broker, spool, scanned, work, lock, db, stored, crashes>>

LockFree(c) == lock[c] = NoWorker

\* applyDocsBatch: one operator after the other, each under its lock.
LockCpo(w, c) ==
  /\ \/ worker[w].pc = "read" /\ worker[w].left = << >>
     \/ worker[w].pc = "apply"
  /\ c \in worker[w].cpos /\ LockFree(c)
  /\ lock' = [lock EXCEPT ![c] = w]
  /\ worker' = [worker EXCEPT ![w].pc = "table", ![w].cpo = c]
  /\ UNCHANGED <<broker, spool, scanned, work, db, stored, crashes>>

\* The fold: of the documents of one kind in the batch, the newest wins.
Newest_Oldest(w, kind) ==
  LET g == worker[w].good
      I == {i \in DOMAIN g : content[g[i]].cpo = worker[w].cpo /\ content[g[i]].kind = kind}
  IN  {content[g[i]] : i \in {j \in I : \A k \in I : j <= k}}
Newest(w, kind) ==
  LET g == worker[w].good
      I == {i \in DOMAIN g : content[g[i]].cpo = worker[w].cpo /\ content[g[i]].kind = kind}
  IN  {content[g[i]] : i \in {j \in I : \A k \in I : k <= j}}

\* The files whose content the rows have once the fold's newest is written:
\* a price is lost with its document when the newest one is silent.
Carried(w, kind) ==
  {n \in {worker[w].good[i] : i \in DOMAIN worker[w].good} :
     /\ content[n].cpo = worker[w].cpo /\ content[n].kind = kind
     /\ content[n].price = Silent \/ \E d \in Newest(w, kind) : d.price # Silent}

\* applyTable upserts the charger with its status, which a table leaves
\* blank.  A statement that failed is logged, and the batch goes on.
ApplyTable(w) ==
  LET c == worker[w].cpo
  IN  /\ worker[w].pc = "table"
      /\ worker' = [worker EXCEPT ![w].pc = "status"]
      /\ \/ \E d \in Newest(w, "table") :
              /\ known' = known \cup {c}
              /\ live' = [live EXCEPT ![c] = d.status]
              /\ price' = [price EXCEPT ![c] = PriceAfter(d, @)]
              /\ stored' = stored \cup Carried(w, "table")
         \/ /\ Newest(w, "table") = {} \/ c \in MayFail
            /\ UNCHANGED <<db, stored>>
      /\ UNCHANGED <<broker, spool, scanned, work, lock, crashes>>

\* applyStatuses: a charger nobody has listed yet takes no status.
ApplyStatuses(w) ==
  LET c == worker[w].cpo
  IN  /\ worker[w].pc = "status"
      /\ lock' = [lock EXCEPT ![c] = NoWorker]
      /\ worker' = [worker EXCEPT ![w].pc = "apply", ![w].cpos = @ \ {c}]
      /\ \/ \E d \in Newest(w, "status") :
              /\ c \in known
              /\ live' = [live EXCEPT ![c] = d.status]
              /\ price' = [price EXCEPT ![c] = PriceAfter(d, @)]
              /\ stored' = stored \cup Carried(w, "status")
              /\ UNCHANGED known
         \/ /\ Newest(w, "status") = {} \/ c \notin known \/ c \in MayFail
            /\ UNCHANGED <<db, stored>>
      /\ UNCHANGED <<broker, spool, scanned, work, crashes>>

Applied_OnRead(w) == worker[w].pc \in {"read", "apply"} /\ worker[w].left = << >>
Applied(w) == worker[w].pc \in {"read", "apply"} /\ worker[w].left = << >> /\ worker[w].cpos = {}

RemoveFiles(w) ==
  LET done == {worker[w].good[i] : i \in DOMAIN worker[w].good}
  IN  /\ Applied(w)
      /\ place' = [n \in Names |-> IF n \in done THEN "gone" ELSE place[n]]
      /\ worker' = [worker EXCEPT ![w] = Idle]
      /\ UNCHANGED <<broker, names, content, scanned, work, lock, db, stored, crashes>>

\* ReconcileMobilithekStatic: the ingest process pulls an operator's table
\* and applies it like a push, under its own process's lock.
Reconcile(d) ==
  /\ known' = known \cup {d.cpo}
  /\ live' = [live EXCEPT ![d.cpo] = d.status]
  /\ price' = [price EXCEPT ![d.cpo] = PriceAfter(d, @)]
  /\ UNCHANGED <<broker, spool, drainer, stored, crashes>>

-----------------------------------------------------------------------------
\* The process dies and starts again: recoverProcessing re-queues what was
\* claimed; a file not yet renamed stays hidden.  The broker has no 202 for
\* a push under way and sends it again.
Recovered_Nothing(n) == FALSE
Recovered(n) == place[n] = "processing"

Restart ==
  /\ crashes < MaxCrashes
  /\ crashes' = crashes + 1
  /\ place' = [n \in Names |-> IF Recovered(n) THEN "incoming" ELSE place[n]]
  /\ handler' = [c \in Cpos |-> NoName]
  /\ scanned' = << >> /\ work' = << >>
  /\ worker' = [w \in Workers |-> Idle]
  /\ lock' = [c \in Cpos |-> NoWorker]
  /\ UNCHANGED <<sent, acked, names, content, db, stored>>

Work(w) ==
  \/ Take(w) \/ ReadBad(w) \/ ReadOverlay(w) \/ ReadDoc(w)
  \/ \E c \in Cpos : LockCpo(w, c)
  \/ ApplyTable(w) \/ ApplyStatuses(w) \/ RemoveFiles(w)

Drained ==
  /\ \A c \in Cpos : sent[c] = Len(Stream[c])
  /\ In("incoming") \cup In("processing") = {}

\* Everything sent is dealt with, or the bound on files is reached.
Rest ==
  /\ In("incoming") \cup In("processing") = {}
  /\ \A c \in Cpos : handler[c] = NoName
  /\ Drained \/ names = MaxFiles
  /\ UNCHANGED vars

Next ==
  \/ \E c \in Cpos : Receive(c) \/ Rename(c) \/ Accept(c)
  \/ Claim \/ HandOver
  \/ \E w \in Workers : Work(w)
  \/ \E d \in Static : Reconcile(d)
  \/ Restart
  \/ Rest

Spec == Init /\ [][Next]_vars

\* The drainer's goroutines run; the broker and crashes do as they like.
FairSpec ==
  /\ Spec
  /\ WF_vars(Claim) /\ WF_vars(HandOver)
  /\ \A w \in Workers : WF_vars(Work(w))

-----------------------------------------------------------------------------
(* Properties.                                                             *)

BatchOf(s) == {s[i] : i \in DOMAIN s}

\* The batches in memory and who holds them.
Batches ==
  {<<"scanner", NoWorker, BatchOf(scanned)>>}
  \cup {<<"channel", i, BatchOf(work[i])>> : i \in DOMAIN work}
  \cup {<<"worker", w, BatchOf(worker[w].left) \cup BatchOf(worker[w].good)>> : w \in Workers}

TypeOK ==
  /\ sent \in [Cpos -> Nat] /\ \A c \in Cpos : sent[c] <= Len(Stream[c])
  /\ handler \in [Cpos -> 0..names]
  /\ names \in 0..MaxFiles /\ crashes \in 0..MaxCrashes
  /\ place \in [Names -> {"none", "tmp", "incoming", "processing", "failed", "gone"}]
  /\ \A n \in 1..names : content[n] \in Docs
  /\ acked \subseteq 1..names /\ stored \subseteq 1..names
  /\ known \subseteq Cpos
  /\ live \in [Cpos -> Statuses \cup {Blank}] /\ price \in [Cpos -> Prices \cup {NoPrice}]
  /\ \A w \in Workers : worker[w].pc \in {"idle", "read", "apply", "table", "status"}
  /\ \A c \in Cpos, w \in Workers :
       lock[c] = w <=> worker[w].pc \in {"table", "status"} /\ worker[w].cpo = c

(* Each claimed file is in the hands of the scanner, the channel or one    *)
(* worker, and in no other's, through crashes and re-queueing: no push is  *)
(* worked on twice at once, and none is stranded in processing/; and an    *)
(* operator's lock is held by the worker that applies its rows (TypeOK).   *)
OneOwner ==
  /\ TypeOK
  /\ \A h, k \in Batches : h # k => h[3] \cap k[3] = {}
  /\ UNION {h[3] : h \in Batches} = In("processing")

\* What may be given up after the 202: a push whose rows the database refuses,
\* which is only logged; the status of a charger nobody has listed; and a
\* price, if the operator's pushes of that kind do not all restate theirs.
Excused(d) ==
  \/ d.cpo \in MayFail
  \/ d.kind # "table" /\ d.cpo \notin Seeded
  \/ /\ d.price # Silent
     /\ \E i \in DOMAIN Stream[d.cpo] :
          Stream[d.cpo][i].kind = d.kind /\ Stream[d.cpo][i].price = Silent

(* "nothing is lost as long as the file was written before 202" (spool):   *)
(* a push answered with 202 is in a directory, quarantined, or its status  *)
(* and price, or newer ones of its kind, are in the rows, whatever was     *)
(* claimed, folded, or re-queued by a crash.  The excuses are spelled out  *)
(* (Excused); those of one operator lose nothing of another's.             *)
NothingLost ==
  \A n \in acked :
    \/ place[n] \in {"incoming", "processing", "failed"}
    \/ n \in stored
    \/ Excused(content[n])

(* Every accepted push is worked off in the end, whatever crashed while it *)
(* was claimed, locked or half applied.                                    *)
Drains == \A n \in Names : n \in acked ~> place[n] \in {"gone", "failed"}

(* What the database should say of an operator's charger once all its      *)
(* pushes are in.                                                          *)
Speaking(c, P(_)) == {i \in DOMAIN Stream[c] : P(Stream[c][i])}
Final(c, I) == Stream[c][CHOOSE i \in I : \A k \in I : k <= i]
HasStatus(d) == d.kind \in {"status", "eliso"}
HasPrice(d) == d.price # Silent
Parses(d) == d.kind # "bad"

(* "latest wins is truly the newest push" (applyDocsBatch).                *)
StatusLatest ==
  Drained => \A c \in Cpos \ MayFail : Speaking(c, HasStatus) # {} =>
               live[c] = Final(c, Speaking(c, HasStatus)).status

(* The same of the price: when the operator's newest push states one or    *)
(* withdraws it, that is how the charger ends, whatever it was folded      *)
(* with.  It says nothing of a newest push that is silent: folded with the *)
(* push that stated the price, it takes the price with it.                 *)
PriceLatest ==
  Drained => \A c \in Cpos \ MayFail : Speaking(c, Parses) # {} =>
               LET last == Final(c, Speaking(c, Parses))
               IN  HasPrice(last) =>
                     price[c] = IF last.price = Withdrawn THEN NoPrice ELSE last.price

=============================================================================

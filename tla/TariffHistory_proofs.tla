------------------------- MODULE TariffHistory_proofs -------------------------
(***************************************************************************)
(* Proofs about TariffHistory.  For any number of writers with any guards, *)
(* feeds and jobs: the type invariant, the unique open version, that no    *)
(* circle of waits forms, and that the transactions implement the ledger   *)
(* of PriceLedger.  For any number of writers behind one lock: the history *)
(* is a timeline of changes, and what a writer decided on is still so when *)
(* it writes.                                                              *)
(***************************************************************************)
EXTENDS TariffHistory, TLAPS

(* Rewriting the entries of a sequence within a set keeps it a sequence    *)
(* over that set, of the same length.                                      *)
LEMMA RewrittenSeq ==
  ASSUME NEW S, NEW s \in Seq(S), NEW f,
         f = [i \in DOMAIN s |-> f[i]],
         \A i \in DOMAIN s : f[i] \in S
  PROVE  /\ f \in Seq(S)
         /\ Len(f) = Len(s)
         /\ DOMAIN f = DOMAIN s
<1>1. DOMAIN s = 1..Len(s) /\ Len(s) \in Nat
  OBVIOUS
<1>2. f \in [1..Len(s) -> S]
  BY <1>1
<1>. QED
  BY <1>1, <1>2

(* Closing, confirming and pricing a row leave it a row.                   *)
LEMMA RowEdits ==
  ASSUME NEW row \in Ledger!Version, NEW s \in Nat, NEW p \in Ledger!Prices
  PROVE  /\ [row EXCEPT !.to = s] \in Ledger!Version
         /\ [row EXCEPT !.confirmed = s] \in Ledger!Version
         /\ [row EXCEPT !.comparable = p] \in Ledger!Version
BY DEF Ledger!Version

-----------------------------------------------------------------------------
\* No rows, no jobs.
LEMMA InitIInv == Init => IInv
<1>. SUFFICES ASSUME Init PROVE IInv
  OBVIOUS
<1>1. TypeOK
  BY DEF Init, TypeOK, Labels, NoJob, Kinds, Observing, NULL, Ledger!NULL, Ledger!Prices
<1>2. JobsInHand
  BY DEF Init, JobsInHand, Processing, Stamped
<1>3. OneOpen
  BY DEF Init, OneOpen, Ledger!AtMostOneOpen, Ledger!OpenRows
<1>4. LockDiscipline
  BY DEF Init, LockDiscipline, InTransaction, Touching
<1>. QED
  BY <1>1, <1>2, <1>3, <1>4 DEF IInv

(* A step of w that writes no row and leaves w outside a transaction.      *)
LEMMA OutsideTransaction ==
  ASSUME IInv, NEW w \in Writers, NEW l \in Labels,
         l \notin {"insert", "commit"},
         pc' = [pc EXCEPT ![w] = l],
         versions' = versions,
         \A v \in Writers \ {w} : target'[v] = target[v]
  PROVE  OneOpen' /\ LockDiscipline'
<1>1. OpenRows' = OpenRows
  BY DEF OpenRows, Ledger!OpenRows, Ledger!IsOpen, Ledger!NULL
<1>2. OneOpen'
  BY <1>1 DEF IInv, OneOpen, Ledger!AtMostOneOpen, OpenRows
<1>3. pc'[w] = l /\ \A v \in Writers \ {w} : pc'[v] = pc[v]
  BY DEF IInv, TypeOK
<1>4. LockDiscipline'
  BY <1>1, <1>3 DEF IInv, LockDiscipline, InTransaction, Touching
<1>. QED
  BY <1>2, <1>4

(* Giving a job back.                                                      *)
LEMMA FinishIInv ==
  ASSUME IInv, NEW w \in Writers, Finish(w), versions' = versions, clock' = clock
  PROVE  IInv'
<1>1. TypeOK'
  BY DEF IInv, TypeOK, Finish, Goto, Labels, NoJob, NULL, Ledger!NULL, Ledger!Prices
<1>2. JobsInHand'
  BY DEF IInv, TypeOK, Finish, Goto, JobsInHand, Processing, Stamped
<1>3. OneOpen' /\ LockDiscipline'
  <2>1. \A v \in Writers \ {w} : target'[v] = target[v]
    BY DEF Finish, IInv, TypeOK
  <2>. QED
    BY <2>1, OutsideTransaction DEF Finish, Goto, Labels
<1>. QED
  BY <1>1, <1>2, <1>3 DEF IInv

\* After an error a pass goes on to confirm and any other job ends, without locks.
LEMMA ErroredIInv ==
  ASSUME IInv, NEW w \in Writers, Errored(w), versions' = versions, clock' = clock
  PROVE  IInv'
<1>1. CASE job[w].kind # "pass"
  BY <1>1, FinishIInv DEF Errored
<1>2. CASE job[w].kind = "pass"
  <2>. USE <1>2 DEF Errored, Goto
  <2>1. TypeOK'
    BY DEF IInv, TypeOK, Labels
  <2>2. JobsInHand'
    BY DEF IInv, TypeOK, JobsInHand, Processing, Stamped
  <2>3. \A v \in Writers \ {w} : target'[v] = target[v]
    BY DEF IInv, TypeOK
  <2>4. OneOpen' /\ LockDiscipline'
    BY <2>3, OutsideTransaction DEF Labels
  <2>. QED
    BY <2>1, <2>2, <2>4 DEF IInv
<1>. QED
  BY <1>1, <1>2

-----------------------------------------------------------------------------
(* Reads and decisions: no row, stamp or target changes.                   *)
LEMMA DecideIInv ==
  ASSUME IInv, NEW w \in Writers, NEW l \in Labels,
         l \notin {"insert", "commit"} \cup Stamped,
         l \in Processing => job'[w].tariff \in Tariffs,
         pc' = [pc EXCEPT ![w] = l],
         job' \in [Writers -> [kind : Kinds \cup {"none"}, tariff : Tariffs \cup {NoTariff}]],
         \A v \in Writers \ {w} : job'[v] = job[v],
         UNCHANGED <<versions, clock, quote, stamp, target>>
  PROVE  IInv'
<1>1. TypeOK'
  BY DEF IInv, TypeOK
<1>2. JobsInHand'
  BY DEF IInv, TypeOK, JobsInHand
<1>3. OneOpen' /\ LockDiscipline'
  BY OutsideTransaction
<1>. QED
  BY <1>1, <1>2, <1>3 DEF IInv

\* A writer takes a job; it holds nothing yet.
LEMMA ObserveIInv ==
  ASSUME IInv, NEW w \in Writers, NEW k \in Observing, NEW t \in Tariffs, Observe(w, k, t)
  PROVE  IInv'
<1>1. PICK l \in {"rating", "hashing"} : pc' = [pc EXCEPT ![w] = l]
  BY DEF Observe, Goto
<1>2. job'[w].tariff = t /\ \A v \in Writers \ {w} : job'[v] = job[v]
  BY DEF Observe, IInv, TypeOK
<1>3. job' \in [Writers -> [kind : Kinds \cup {"none"}, tariff : Tariffs \cup {NoTariff}]]
  BY DEF Observe, IInv, TypeOK, Kinds
<1>. QED
  BY <1>1, <1>2, <1>3, DecideIInv DEF Observe, Labels, Stamped

\* A writer takes a withdrawal.
LEMMA WithdrawIInv ==
  ASSUME IInv, NEW w \in Writers, Withdraw(w)
  PROVE  IInv'
<1>1. \A v \in Writers \ {w} : job'[v] = job[v]
  BY DEF Withdraw, IInv, TypeOK
<1>2. job' \in [Writers -> [kind : Kinds \cup {"none"}, tariff : Tariffs \cup {NoTariff}]]
  BY DEF Withdraw, IInv, TypeOK, Kinds
<1>. QED
  BY <1>1, <1>2, DecideIInv DEF Withdraw, Goto, Labels, Stamped, Processing

\* The reads before a transaction change the program counter only.
LEMMA ReadIInv ==
  ASSUME IInv, NEW w \in Writers, ReadRate(w) \/ ReadHash(w) \/ CheckOwner(w)
  PROVE  IInv'
<1>1. PICK l \in {"confirm", "hashing", "fill", "owning", "begin"} : pc' = [pc EXCEPT ![w] = l]
  BY DEF ReadRate, ReadHash, CheckOwner, Goto
<1>2. UNCHANGED <<versions, clock, job, quote, stamp, target>>
  BY DEF ReadRate, ReadHash, CheckOwner
<1>3. job[w].tariff \in Tariffs
  BY DEF ReadRate, ReadHash, CheckOwner, IInv, JobsInHand, Processing
<1>4. job' \in [Writers -> [kind : Kinds \cup {"none"}, tariff : Tariffs \cup {NoTariff}]]
  BY <1>2 DEF IInv, TypeOK
<1>. QED
  BY <1>1, <1>2, <1>3, <1>4, DecideIInv DEF Labels, Stamped

(* BEGIN, and the snapshot of a single-statement update: a fresh stamp.    *)
LEMMA BeginIInv ==
  ASSUME IInv, NEW w \in Writers, Begin(w)
  PROVE  IInv'
<1>1. job[w].tariff \in Tariffs
  BY DEF Begin, IInv, JobsInHand, Processing
<1>2. quote' \in [Writers -> Ledger!Prices]
  BY <1>1 DEF Begin, Quotes, IInv, TypeOK, Ledger!Prices
<1>3. TypeOK'
  BY <1>2 DEF Begin, Goto, IInv, TypeOK, Labels
<1>4. JobsInHand'
  BY <1>1 DEF Begin, Goto, IInv, TypeOK, JobsInHand, Processing, Stamped
<1>5. OneOpen' /\ LockDiscipline'
  BY OutsideTransaction DEF Begin, Goto, Labels
<1>. QED
  BY <1>3, <1>4, <1>5 DEF IInv

\* A statement is on its way; it locks nothing yet.
LEMMA SendIInv ==
  ASSUME IInv, NEW w \in Writers, SendFill(w) \/ SendConfirm(w) \/ SendClose(w)
  PROVE  IInv'
<1>1. PICK from, l : /\ Snapshot(w, from, l)
                     /\ l \in {"filling", "confirming", "closing"}
                     /\ l = "filling" => from = "fill"
  BY DEF SendFill, SendConfirm, SendClose
<1>2. OpenRows \in SUBSET (DOMAIN versions)
  BY DEF OpenRows, Ledger!OpenRows
<1>3. TypeOK'
  BY <1>1, <1>2 DEF Snapshot, Goto, IInv, TypeOK, Labels
<1>4. JobsInHand'
  BY <1>1 DEF Snapshot, Goto, IInv, TypeOK, JobsInHand, Processing, Stamped
<1>5. \A v \in Writers \ {w} : target'[v] = target[v]
  BY <1>1 DEF Snapshot, IInv, TypeOK
<1>6. OneOpen' /\ LockDiscipline'
  BY <1>1, <1>5, OutsideTransaction DEF Snapshot, Goto, Labels
<1>. QED
  BY <1>3, <1>4, <1>6 DEF IInv

\* The snapshot picks rows without locking them.
LEMMA ScanIInv ==
  ASSUME IInv, NEW w \in Writers, Scan(w)
  PROVE  IInv'
<1>1. OpenRows \in SUBSET (DOMAIN versions)
  BY DEF OpenRows, Ledger!OpenRows
<1>2. TypeOK'
  BY <1>1 DEF Scan, Goto, IInv, TypeOK, Labels
<1>3. JobsInHand'
  BY DEF Scan, Goto, IInv, TypeOK, JobsInHand, Processing, Stamped
<1>4. \A v \in Writers \ {w} : target'[v] = target[v]
  BY DEF Scan, IInv, TypeOK
<1>5. OneOpen' /\ LockDiscipline'
  BY <1>4, OutsideTransaction DEF Scan, Goto, Labels
<1>. QED
  BY <1>2, <1>3, <1>5 DEF IInv

-----------------------------------------------------------------------------
(* Row locks: w gets the rows nobody else holds and that are still open.   *)
LEMMA LockRowsIInv ==
  ASSUME IInv, NEW w \in Writers, LockRows(w)
  PROVE  IInv'
<1>. USE DEF LockRows, Goto, Recheck
<1>1. TypeOK'
  BY DEF IInv, TypeOK, Labels
<1>2. JobsInHand'
  BY DEF IInv, TypeOK, JobsInHand, Processing, Stamped
<1>3. OpenRows' = OpenRows
  BY DEF OpenRows, Ledger!OpenRows, Ledger!IsOpen, Ledger!NULL
<1>4. OneOpen'
  BY <1>3 DEF IInv, OneOpen, Ledger!AtMostOneOpen, OpenRows
<1>5. /\ pc'[w] = "insert" /\ target'[w] = target[w] \cap OpenRows
      /\ \A v \in Writers \ {w} : pc'[v] = pc[v] /\ target'[v] = target[v]
  BY DEF IInv, TypeOK
<1>6. \A v \in Writers \ {w} : InTransaction(v) => target[v] \cap target'[w] = {}
  BY <1>5 DEF Unlocked
<1>7. LockDiscipline'
  <2>1. \A v \in Writers : (InTransaction(v) => target[v] \subseteq OpenRows)'
    BY <1>3, <1>5 DEF IInv, LockDiscipline, InTransaction
  <2>2. \A v \in Writers : (pc[v] = "commit" => OpenRows \subseteq target[v])'
    BY <1>3, <1>5 DEF IInv, LockDiscipline
  <2>3. ASSUME NEW u \in Writers, NEW v \in Writers, u # v, pc'[v] = "commit"
        PROVE  ~Touching(u)'
    <3>1. v # w /\ pc[v] = "commit"
      BY <1>5, <2>3
    <3>2. CASE u = w
      <4>1. OpenRows \subseteq target[v]
        BY <3>1 DEF IInv, LockDiscipline
      <4>2. target'[w] = {}
        BY <1>5, <1>6, <3>1, <4>1 DEF InTransaction
      <4>. QED
        BY <1>5, <3>2, <4>2 DEF Touching
    <3>3. CASE u # w
      BY <1>5, <2>3, <3>1, <3>3 DEF IInv, LockDiscipline, Touching
    <3>. QED
      BY <3>2, <3>3
  <2>4. \A u, v \in Writers :
          (u # v /\ InTransaction(u) /\ InTransaction(v) => target[u] \cap target[v] = {})'
    BY <1>5, <1>6 DEF IInv, LockDiscipline, InTransaction
  <2>. QED
    BY <2>1, <2>2, <2>3, <2>4 DEF LockDiscipline
<1>. QED
  BY <1>1, <1>2, <1>4, <1>7 DEF IInv

(* The insert goes through only while nobody else touches the index.       *)
LEMMA InsertIInv ==
  ASSUME IInv, NEW w \in Writers, Insert(w)
  PROVE  IInv'
<1>. USE DEF Insert, Goto
<1>1. TypeOK'
  BY DEF IInv, TypeOK, Labels
<1>2. JobsInHand'
  BY DEF IInv, TypeOK, JobsInHand, Processing, Stamped
<1>3. OpenRows' = OpenRows
  BY DEF OpenRows, Ledger!OpenRows, Ledger!IsOpen, Ledger!NULL
<1>4. OneOpen'
  BY <1>3 DEF IInv, OneOpen, Ledger!AtMostOneOpen, OpenRows
<1>5. pc'[w] = "commit" /\ \A v \in Writers \ {w} : pc'[v] = pc[v]
  BY DEF IInv, TypeOK
<1>6. \A v \in Writers \ {w} : ~Touching(v)
  BY DEF IndexQuiet
<1>7. LockDiscipline'
  <2>1. \A v \in Writers : (InTransaction(v) => target[v] \subseteq OpenRows)'
    BY <1>3, <1>5 DEF IInv, LockDiscipline, InTransaction
  <2>2. \A v \in Writers : (pc[v] = "commit" => OpenRows \subseteq target[v])'
    BY <1>3, <1>5 DEF IInv, LockDiscipline
  <2>3. \A u, v \in Writers : (u # v /\ pc[v] = "commit" => ~Touching(u))'
    BY <1>5, <1>6 DEF IInv, LockDiscipline, Touching
  <2>4. \A u, v \in Writers :
          (u # v /\ InTransaction(u) /\ InTransaction(v) => target[u] \cap target[v] = {})'
    BY <1>5 DEF IInv, LockDiscipline, InTransaction
  <2>. QED
    BY <2>1, <2>2, <2>3, <2>4 DEF LockDiscipline
<1>. QED
  BY <1>1, <1>2, <1>4, <1>7 DEF IInv

(* Errors: a violated index, a failed statement, a crash.                  *)
LEMMA FailIInv ==
  ASSUME IInv, NEW w \in Writers, InsertDuplicate(w) \/ Fail(w)
  PROVE  IInv'
BY FinishIInv, ErroredIInv DEF InsertDuplicate, Fail

-----------------------------------------------------------------------------
(* A single-statement update of w keeps the discipline if it closes only   *)
(* rows that no transaction has locked.                                    *)
LEMMA UpdateDiscipline ==
  ASSUME IInv, NEW w \in Writers, NEW l \in {"confirm", "idle"},
         Unlocked(w), pc' = [pc EXCEPT ![w] = l], target' = [target EXCEPT ![w] = {}],
         OpenRows' \subseteq OpenRows,
         OpenRows \ OpenRows' \subseteq target[w]
  PROVE  OneOpen' /\ LockDiscipline'
<1>1. OneOpen'
  BY DEF IInv, OneOpen, Ledger!AtMostOneOpen, OpenRows
<1>2. /\ pc'[w] = l /\ target'[w] = {}
      /\ \A v \in Writers \ {w} : pc'[v] = pc[v] /\ target'[v] = target[v]
  BY DEF IInv, TypeOK
<1>3. ASSUME NEW v \in Writers, InTransaction(v)'
      PROVE  target'[v] \subseteq OpenRows'
  <2>1. v # w /\ InTransaction(v) /\ target'[v] = target[v]
    BY <1>2, <1>3 DEF InTransaction
  <2>2. target[v] \subseteq OpenRows /\ target[v] \cap target[w] = {}
    BY <2>1 DEF IInv, LockDiscipline, Unlocked
  <2>. QED
    BY <2>1, <2>2
<1>4. \A v \in Writers : pc'[v] = "commit" => OpenRows' \subseteq target'[v]
  BY <1>2 DEF IInv, LockDiscipline
<1>5. \A u, v \in Writers : (u # v /\ pc[v] = "commit" => ~Touching(u))'
  BY <1>2 DEF IInv, LockDiscipline, Touching
<1>6. \A u, v \in Writers :
        (u # v /\ InTransaction(u) /\ InTransaction(v) => target[u] \cap target[v] = {})'
  BY <1>2 DEF IInv, LockDiscipline, InTransaction
<1>. QED
  BY <1>1, <1>3, <1>4, <1>5, <1>6 DEF LockDiscipline

\* Filling in the euro price changes neither openness nor locks.
LEMMA ApplyFillIInv ==
  ASSUME IInv, NEW w \in Writers, ApplyFill(w)
  PROVE  IInv'
<1>1. job[w].tariff \in Tariffs
  BY DEF ApplyFill, IInv, JobsInHand, Processing
<1>2. /\ versions' \in Seq(Ledger!Version)
      /\ DOMAIN versions' = DOMAIN versions
  <2>1. \A i \in DOMAIN versions : versions[i] \in Ledger!Version
    BY DEF IInv, TypeOK
  <2>2. HeadlineOf[job[w].tariff] \in Ledger!Prices
    BY <1>1 DEF Ledger!Prices
  <2>3. \A i \in DOMAIN versions : versions'[i] \in Ledger!Version
    BY <2>1, <2>2, RowEdits DEF ApplyFill
  <2>. QED
    BY <2>3, RewrittenSeq DEF ApplyFill, IInv, TypeOK
<1>3. OpenRows' = OpenRows
  BY <1>2 DEF ApplyFill, OpenRows, Ledger!OpenRows, Ledger!IsOpen, Ledger!Version, IInv, TypeOK
<1>4. TypeOK'
  BY <1>2 DEF ApplyFill, Goto, IInv, TypeOK, Labels
<1>5. JobsInHand'
  BY DEF ApplyFill, Goto, IInv, TypeOK, JobsInHand, Processing, Stamped
<1>6. OneOpen' /\ LockDiscipline'
  BY <1>3, UpdateDiscipline DEF ApplyFill, Goto
<1>. QED
  BY <1>4, <1>5, <1>6 DEF IInv

(* Confirming and closing end the writer's job.                            *)
LEMMA ApplyIInv ==
  ASSUME IInv, NEW w \in Writers, ApplyConfirm(w) \/ ApplyClose(w)
  PROVE  IInv'
<1>1. stamp[w] \in 1..clock /\ stamp[w] \in Nat
  BY DEF ApplyConfirm, ApplyClose, IInv, TypeOK, JobsInHand, Stamped
<1>2. /\ versions' \in Seq(Ledger!Version)
      /\ DOMAIN versions' = DOMAIN versions
  <2>1. \A i \in DOMAIN versions : versions[i] \in Ledger!Version
    BY DEF IInv, TypeOK
  <2>2. NoPrice \in Ledger!Prices
    BY DEF Ledger!Prices
  <2>3. \A i \in DOMAIN versions : versions'[i] \in Ledger!Version
    <3>1. ASSUME NEW i \in DOMAIN versions
          PROVE  versions'[i] \in {versions[i], [versions[i] EXCEPT !.confirmed = stamp[w]],
                                   [versions[i] EXCEPT !.to = stamp[w]]}
      BY DEF ApplyConfirm, ApplyClose
    <3>2. ASSUME NEW i \in DOMAIN versions
          PROVE  /\ [versions[i] EXCEPT !.confirmed = stamp[w]] \in Ledger!Version
                 /\ [versions[i] EXCEPT !.to = stamp[w]] \in Ledger!Version
      BY <1>1, <2>1, <2>2, RowEdits
    <3>. QED
      BY <2>1, <3>1, <3>2
  <2>4. versions' = [i \in DOMAIN versions |-> versions'[i]]
    BY DEF ApplyConfirm, ApplyClose
  <2>. QED
    BY <2>3, <2>4, RewrittenSeq DEF IInv, TypeOK
<1>3. /\ OpenRows' \subseteq OpenRows
      /\ OpenRows \ OpenRows' \subseteq target[w]
  <2>1. CASE ApplyConfirm(w)
    <3>1. \A i \in DOMAIN versions : versions[i] \in Ledger!Version
      BY DEF IInv, TypeOK
    <3>2. \A i \in DOMAIN versions : versions'[i].to = versions[i].to
      BY <2>1, <3>1 DEF ApplyConfirm, Ledger!Version
    <3>. QED
      BY <1>2, <3>2 DEF OpenRows, Ledger!OpenRows, Ledger!IsOpen
  <2>2. CASE ApplyClose(w)
    <3>1. \A i \in DOMAIN versions :
            versions'[i].to = IF i \in Recheck(w) THEN stamp[w] ELSE versions[i].to
      BY <1>1, <2>2 DEF ApplyClose, Ledger!Version, IInv, TypeOK
    <3>2. stamp[w] # Ledger!NULL
      BY <1>1 DEF Ledger!NULL, IInv, TypeOK
    <3>3. Recheck(w) \subseteq target[w]
      BY DEF Recheck
    <3>4. \A i : i \in OpenRows <=> i \in DOMAIN versions /\ versions[i].to = Ledger!NULL
      BY DEF OpenRows, Ledger!OpenRows, Ledger!IsOpen
    <3>5. \A i : i \in OpenRows' <=> i \in DOMAIN versions /\ versions'[i].to = Ledger!NULL
      BY <1>2 DEF OpenRows, Ledger!OpenRows, Ledger!IsOpen
    <3>. QED
      BY <3>1, <3>2, <3>3, <3>4, <3>5
  <2>. QED
    BY <2>1, <2>2
<1>4. Finish(w) /\ Unlocked(w) /\ clock' = clock
  BY DEF ApplyConfirm, ApplyClose
<1>5. TypeOK'
  BY <1>2, <1>4 DEF IInv, TypeOK, Finish, Goto, Labels, NoJob, NULL, Ledger!NULL, Ledger!Prices
<1>6. JobsInHand'
  BY <1>4 DEF IInv, TypeOK, Finish, Goto, JobsInHand, Processing, Stamped
<1>7. OneOpen' /\ LockDiscipline'
  BY <1>3, <1>4, UpdateDiscipline DEF Finish, Goto
<1>. QED
  BY <1>5, <1>6, <1>7 DEF IInv

-----------------------------------------------------------------------------
(* What a commit leaves: every row there was is closed, the new one open.  *)
LEMMA CommitRows ==
  ASSUME IInv, NEW w \in Writers, Commit(w)
  PROVE  /\ target[w] = OpenRows
         /\ CloseRows(w) \in Seq(Ledger!Version)
         /\ Len(CloseRows(w)) = Len(versions)
         /\ NewVersion(w) \in Ledger!Version
         /\ versions' \in Seq(Ledger!Version)
         /\ DOMAIN versions \subseteq DOMAIN versions'
         /\ OpenRows' = {Len(versions) + 1}
<1>1. stamp[w] \in 1..clock /\ stamp[w] \in Nat /\ job[w].tariff \in Tariffs
  BY DEF Commit, IInv, TypeOK, JobsInHand, Stamped, Processing
<1>2. target[w] = OpenRows
  BY DEF Commit, IInv, LockDiscipline, InTransaction
<1>3. \A i \in DOMAIN versions : versions[i] \in Ledger!Version
  BY DEF IInv, TypeOK
<1>4. /\ CloseRows(w) \in Seq(Ledger!Version)
      /\ Len(CloseRows(w)) = Len(versions)
      /\ DOMAIN CloseRows(w) = DOMAIN versions
  <2>1. NoPrice \in Ledger!Prices
    BY DEF Ledger!Prices
  <2>2. \A i \in DOMAIN versions : CloseRows(w)[i] \in Ledger!Version
    BY <1>1, <1>3, <2>1, RowEdits DEF CloseRows
  <2>3. CloseRows(w) = [i \in DOMAIN versions |-> CloseRows(w)[i]]
    BY DEF CloseRows
  <2>. QED
    BY <2>2, <2>3, RewrittenSeq DEF IInv, TypeOK
<1>5. NewVersion(w) \in Ledger!Version
  BY <1>1 DEF NewVersion, Ledger!Version, IInv, TypeOK, NULL, Ledger!NULL
<1>6. \A i \in DOMAIN versions : CloseRows(w)[i].to # NULL
  BY <1>1, <1>2, <1>3 DEF CloseRows, OpenRows, Ledger!OpenRows, Ledger!IsOpen, NULL, Ledger!NULL, Ledger!Version
<1>7. Len(versions) \in Nat /\ DOMAIN versions = 1..Len(versions)
  BY DEF IInv, TypeOK
<1>8. /\ versions' \in Seq(Ledger!Version)
      /\ DOMAIN versions' = 1..(Len(versions) + 1)
      /\ \A i \in 1..Len(versions) : versions'[i] = CloseRows(w)[i]
      /\ versions'[Len(versions) + 1] = NewVersion(w)
  BY <1>4, <1>5, <1>7 DEF Commit
<1>9. versions'[Len(versions) + 1].to = NULL
  BY <1>8 DEF NewVersion
<1>10. OpenRows' = {Len(versions) + 1}
  BY <1>6, <1>7, <1>8, <1>9 DEF OpenRows, Ledger!OpenRows, Ledger!IsOpen, NULL
<1>. QED
  BY <1>2, <1>4, <1>5, <1>7, <1>8, <1>10

\* The rows the transaction locked close and its own opens.
LEMMA CommitIInv ==
  ASSUME IInv, NEW w \in Writers, Commit(w)
  PROVE  IInv'
<1>1. TypeOK'
  BY CommitRows DEF Commit, Goto, IInv, TypeOK, Labels
<1>2. JobsInHand'
  BY DEF Commit, Goto, IInv, TypeOK, JobsInHand, Processing, Stamped
<1>3. OneOpen'
  BY CommitRows DEF OneOpen, Ledger!AtMostOneOpen, OpenRows
<1>4. /\ pc'[w] = "confirm"
      /\ \A v \in Writers \ {w} : pc'[v] = pc[v] /\ target'[v] = target[v]
  BY DEF Commit, Goto, IInv, TypeOK
<1>5. \A v \in Writers : InTransaction(v)' => pc'[v] = "insert" /\ target'[v] = {}
  BY <1>4 DEF Commit, IInv, LockDiscipline, InTransaction, Touching
<1>6. LockDiscipline'
  BY <1>5 DEF LockDiscipline, InTransaction, Touching
<1>. QED
  BY <1>1, <1>2, <1>3, <1>6 DEF IInv

(* Steps that change nothing.                                              *)
LEMMA StutterIInv ==
  ASSUME IInv, UNCHANGED vars
  PROVE  IInv'
<1>1. OpenRows' = OpenRows
  BY DEF vars, OpenRows, Ledger!OpenRows, Ledger!IsOpen, Ledger!NULL
<1>2. OneOpen' /\ LockDiscipline'
  BY <1>1 DEF vars, IInv, OneOpen, Ledger!AtMostOneOpen, OpenRows, LockDiscipline,
              InTransaction, Touching
<1>. QED
  BY <1>2 DEF vars, IInv, TypeOK, JobsInHand

\* One case for each action.
LEMMA NextIInv == IInv /\ [Next]_vars => IInv'
<1>. SUFFICES ASSUME IInv, [Next]_vars PROVE IInv'
  OBVIOUS
<1>1. CASE Rest \/ UNCHANGED vars
  BY <1>1, StutterIInv DEF Rest
<1>2. ASSUME NEW w \in Writers, Start(w) PROVE IInv'
  BY <1>2, ObserveIInv, WithdrawIInv DEF Start
<1>3. ASSUME NEW w \in Writers, Work(w) PROVE IInv'
  BY <1>3, ReadIInv, BeginIInv, ScanIInv, LockRowsIInv, InsertIInv, FailIInv, CommitIInv,
     SendIInv, ApplyFillIInv, ApplyIInv DEF Work
<1>4. ASSUME NEW w \in Writers, Fail(w) PROVE IInv'
  BY <1>4, FailIInv
<1>. QED
  BY <1>1, <1>2, <1>3, <1>4 DEF Next

-----------------------------------------------------------------------------
(* The inductive invariant holds whatever the writers, their guards, their *)
(* feeds and the interleaving of their statements.                         *)
THEOREM Invariance == Spec => []IInv
<1>. QED
  BY InitIInv, NextIInv, PTL DEF Spec

(* Every variable keeps its type; in particular the rows are well-formed   *)
(* versions and a lock is never held on a row that does not exist.         *)
THEOREM TypeCorrect == Spec => []TypeOK
<1>1. IInv => TypeOK
  BY DEF IInv
<1>. QED
  BY <1>1, Invariance, PTL

(* processTariff and ReplaceTariff never leave a charger with two open     *)
(* prices, although they decide on state read in an earlier statement.     *)
THEOREM OneOpenHolds == Spec => []OneOpen
<1>1. IInv => OneOpen
  BY DEF IInv
<1>. QED
  BY <1>1, Invariance, PTL
-----------------------------------------------------------------------------
(* Nobody waits for ever.                                                  *)

(* Row locks and the waits for the unique index form no circle: as long as *)
(* a job is under way one of the writers can go on (ReplaceTariff's        *)
(* transaction, ConfirmTariff, FillDerivedPrices, CloseCurrentTariff).     *)
THEOREM NeverAllWaitHolds == Spec => []NeverAllWait
<1>1. ASSUME IInv, NEW w \in Writers, pc[w] # "idle"
      PROVE  \E v \in Writers : pc[v] # "idle" /\ ~Waits(v)
  <2>1. CASE \E v \in Writers : pc[v] = "commit"
    BY <2>1 DEF Waits
  <2>2. ASSUME NEW v \in Writers, pc[v] = "insert", target[v] # {}, \A u \in Writers : pc[u] # "commit"
        PROVE  ~Waits(v)
    \* Two transactions cannot each have locked the one open row.
    <3>1. ASSUME NEW u \in Writers \ {v} PROVE ~Touching(u)
      <4>1. CASE pc[u] = "insert" /\ target[u] # {}
        <5>1. target[u] \subseteq OpenRows /\ target[v] \subseteq OpenRows
              /\ target[u] \cap target[v] = {}
          BY <1>1, <2>2, <4>1 DEF IInv, LockDiscipline, InTransaction
        <5>2. \A i, j \in OpenRows : i = j
          BY <1>1 DEF IInv, OneOpen, Ledger!AtMostOneOpen, OpenRows
        <5>. QED
          BY <2>2, <4>1, <5>1, <5>2
      <4>. QED
        BY <2>2, <4>1 DEF Touching
    <3>. QED
      BY <2>2, <3>1 DEF Waits, IndexQuiet
  <2>3. CASE \A v \in Writers : ~Touching(v)
    <3>1. \A v \in Writers : InTransaction(v) => target[v] = {}
      BY <2>3 DEF Touching, InTransaction
    <3>2. Unlocked(w) /\ IndexQuiet(w)
      BY <2>3, <3>1 DEF Unlocked, IndexQuiet
    <3>. QED
      BY <1>1, <3>2 DEF Waits
  <2>. QED
    BY <2>1, <2>2, <2>3 DEF Touching
<1>2. IInv => NeverAllWait
  BY <1>1 DEF NeverAllWait
<1>. QED
  BY <1>2, Invariance, PTL

-----------------------------------------------------------------------------
(* Refinement: what each kind of step is to the ledger.                    *)
LEMMA CommitPublishes ==
  ASSUME IInv, NEW w \in Writers, Commit(w)
  PROVE  \E t \in Tariffs, p \in Ledger!Prices, s \in 1..clock : Ledger!Publish(t, p, s)
<1>1. /\ job[w].tariff \in Tariffs
      /\ quote[w] \in Ledger!Prices
      /\ stamp[w] \in 1..clock
  BY DEF Commit, IInv, TypeOK, JobsInHand, Stamped, Processing
<1>2. CloseRows(w) = Ledger!CloseAll(stamp[w])
  <2>1. \A i \in DOMAIN versions : i \in target[w] <=> Ledger!IsOpen(versions[i])
    BY CommitRows DEF OpenRows, Ledger!OpenRows
  <2>. QED
    BY <2>1 DEF CloseRows, Ledger!CloseAll
<1>3. Ledger!Publish(job[w].tariff, quote[w], stamp[w])
  BY <1>2 DEF Commit, Ledger!Publish, NewVersion, NULL
<1>. QED
  BY <1>1, <1>3

(* The rows an update locked and re-checked are the open ones, or none: a  *)
(* version that took over in between is not in its snapshot.               *)
LEMMA RecheckedRows ==
  ASSUME IInv, NEW w \in Writers
  PROVE  Recheck(w) = {} \/ Recheck(w) = OpenRows
BY DEF IInv, OneOpen, Ledger!AtMostOneOpen, OpenRows, Recheck

\* Filling in a euro price is the ledger's FillPrice, or a stutter.
LEMMA FillIsFill ==
  ASSUME IInv, NEW w \in Writers, ApplyFill(w)
  PROVE  (\E p \in Ledger!Prices : Ledger!FillPrice(p)) \/ UNCHANGED versions
<1>1. HeadlineOf[job[w].tariff] \in Ledger!Prices
  BY DEF ApplyFill, IInv, JobsInHand, Processing, Ledger!Prices
<1>2. CASE Recheck(w) = {}
  <2>1. Fillable(w) = {}
    BY <1>2 DEF Fillable
  <2>. QED
    BY <2>1 DEF ApplyFill, IInv, TypeOK
<1>3. CASE Recheck(w) = OpenRows
  <2>1. \A i \in DOMAIN versions :
          i \in Fillable(w) <=> Ledger!IsOpen(versions[i]) /\ versions[i].comparable = NoPrice
    BY <1>3 DEF Fillable, OpenRows, Ledger!OpenRows
  <2>2. Ledger!FillPrice(HeadlineOf[job[w].tariff])
    BY <2>1 DEF ApplyFill, Ledger!FillPrice
  <2>. QED
    BY <1>1, <2>2
<1>. QED
  BY <1>2, <1>3, RecheckedRows

\* A confirmation or a close is the ledger's, or a stutter.
LEMMA ApplyIsConfirmOrWithdraw ==
  ASSUME IInv, NEW w \in Writers, ApplyConfirm(w) \/ ApplyClose(w)
  PROVE  (\E s \in 1..clock : Ledger!Withdraw(s) \/ Ledger!Confirm(s)) \/ UNCHANGED versions
<1>1. stamp[w] \in 1..clock
  BY DEF ApplyConfirm, ApplyClose, IInv, JobsInHand, Stamped
<1>2. CASE Recheck(w) = {}
  BY <1>2 DEF ApplyConfirm, ApplyClose, IInv, TypeOK
<1>3. CASE Recheck(w) = OpenRows
  <2>1. \A i \in DOMAIN versions : i \in Recheck(w) <=> Ledger!IsOpen(versions[i])
    BY <1>3 DEF OpenRows, Ledger!OpenRows
  <2>2. Ledger!Confirm(stamp[w]) \/ Ledger!Withdraw(stamp[w])
    BY <2>1 DEF ApplyConfirm, ApplyClose, Ledger!Confirm, Ledger!Withdraw, Ledger!CloseAll
  <2>. QED
    BY <1>1, <2>2
<1>. QED
  BY <1>2, <1>3, RecheckedRows

\* The clock only moves forward.
LEMMA ClockAdvances ==
  ASSUME IInv, [Next]_vars
  PROVE  clock' \in Nat /\ clock <= clock'
<1>1. clock' = clock \/ clock' = clock + 1
  BY DEF Next, Rest, vars, Start, Work, Fail, Observe, Withdraw, ReadRate, ReadHash, CheckOwner,
         Begin, Scan, LockRows, Insert, InsertDuplicate, Commit, SendFill, SendConfirm,
         SendClose, Snapshot, ApplyFill, ApplyConfirm, ApplyClose
<1>. QED
  BY <1>1 DEF IInv, TypeOK

\* Every step is a step of the ledger or a stutter.
LEMMA StepRefines == IInv /\ [Next]_vars => [Ledger!Next]_<<versions, clock>>
<1>. SUFFICES ASSUME IInv, [Next]_vars PROVE Ledger!Next
  OBVIOUS
<1>. USE ClockAdvances DEF Ledger!Next
<1>1. CASE UNCHANGED vars \/ Rest
  BY <1>1 DEF vars, Rest
<1>2. ASSUME NEW w \in Writers, Start(w) \/ Fail(w) PROVE UNCHANGED versions
  BY <1>2 DEF Start, Observe, Withdraw, Fail
<1>3. ASSUME NEW w \in Writers, Work(w) PROVE Ledger!Next
  <2>1. CASE Commit(w)
    BY <2>1, CommitPublishes
  <2>2. CASE ApplyFill(w)
    BY <2>2, FillIsFill
  <2>3. CASE ApplyConfirm(w) \/ ApplyClose(w)
    BY <2>3, ApplyIsConfirmOrWithdraw
  <2>4. CASE ~(Commit(w) \/ ApplyFill(w) \/ ApplyConfirm(w) \/ ApplyClose(w))
    <3>1. UNCHANGED versions
      BY <1>3, <2>4 DEF Work, ReadRate, ReadHash, CheckOwner, Begin, Scan, LockRows, Insert,
                        InsertDuplicate, SendFill, SendConfirm, SendClose, Snapshot
    <3>. QED
      BY <3>1
  <2>. QED
    BY <2>1, <2>2, <2>3, <2>4
<1>. QED
  BY <1>1, <1>2, <1>3 DEF Next

(* The transactions of any number of unsynchronised writers implement the  *)
(* ledger: a price row is opened once, confirmed and priced while open,    *)
(* closed once and never rewritten.                                        *)
THEOREM Implements == Spec => Refines
<1>1. Init => Ledger!Init
  BY DEF Init, Ledger!Init
<1>. QED
  BY <1>1, Invariance, StepRefines, PTL DEF Spec, Refines, Ledger!Spec

-----------------------------------------------------------------------------
(* One lock: the writers of an operator's charger are its own pushes,      *)
(* behind Engine.mobLocks.                                                 *)

OneLock == \A v, w \in Writers : GuardOf[v] = GuardOf[w] /\ GuardOf[w] # NoGuard

\* None of them brings an operator's own price, which the overlay does.
NoOverlay == \A w \in Writers : \A t \in Feed[w] : RateOf[t] \notin OverlayRates

Alone == \A v, w \in Writers : v # w /\ pc[v] # "idle" => pc[w] = "idle"

\* The rows: a timeline that has come up to the clock.
RowsInOrder ==
  /\ \A i \in DOMAIN versions :
       /\ versions[i].from <= clock /\ versions[i].to <= clock
       /\ \E w \in Writers : versions[i].tariff \in Feed[w]
  /\ HistoryOrdered /\ ChangesOnly /\ FillMatches

Replacing == {"scan", "lock", "insert", "commit"}
Deciding == {"hashing", "owning", "begin"} \cup Replacing

\* What the writer at work has seen of the open row is still so.
Current(w) ==
  /\ pc[w] \notin {"idle", "close", "closing"} =>
       job[w].kind \in Observing /\ job[w].tariff \in Feed[w]
  /\ pc[w] \in Stamped =>
       \A i \in DOMAIN versions : versions[i].from < stamp[w] /\ versions[i].to < stamp[w]
  /\ pc[w] \in Replacing => quote[w] \in {NoPrice, HeadlineOf[job[w].tariff]}
  /\ \A i \in OpenRows :
       /\ pc[w] \in {"owning", "begin"} \cup Replacing => versions[i].tariff # job[w].tariff
       /\ pc[w] \in {"fill", "filling"} => versions[i].tariff = job[w].tariff
       /\ pc[w] \in {"confirm", "confirming"} /\ job[w].kind # "pass" /\ NoOverlay =>
            RateOf[versions[i].tariff] = RateOf[job[w].tariff]
       /\ pc[w] \in Deciding /\ job[w].kind = "status" /\ job[w].tariff \notin Foreign =>
            ~SameHeadline(job[w].tariff, versions[i])

SerialInv == IInv /\ Alone /\ RowsInOrder /\ \A w \in Writers : Current(w)

-----------------------------------------------------------------------------
(* The stamps of the rows are instants.                                    *)
LEMMA RowStamps ==
  ASSUME IInv
  PROVE  /\ clock \in Nat /\ NULL = 0
         /\ Len(versions) \in Nat /\ DOMAIN versions = 1..Len(versions)
         /\ \A i \in DOMAIN versions : versions[i].from \in Nat /\ versions[i].to \in Nat
<1>1. \A i \in DOMAIN versions : versions[i] \in Ledger!Version
  BY DEF IInv, TypeOK
<1>2. clock \in Nat /\ Len(versions) \in Nat /\ DOMAIN versions = 1..Len(versions)
  BY DEF IInv, TypeOK
<1>. QED
  BY <1>1, <1>2 DEF Ledger!Version, NULL, Ledger!NULL

\* One more position.
LEMMA OneMore ==
  ASSUME NEW n \in Nat
  PROVE  /\ \A i \in 1..(n + 1) : i \in 1..n \/ i = n + 1
         /\ \A i, j \in 1..(n + 1) : i < j => i \in 1..n
         /\ \A i, j \in 1..(n + 1) : j = i + 1 => i \in 1..n /\ (j \in 1..n \/ (j = n + 1 /\ i = n))
<1>1. \A i \in 1..(n + 1) : i \in 1..n \/ i = n + 1
  OBVIOUS
<1>2. \A i, j \in 1..(n + 1) : i < j => i \in 1..n
  OBVIOUS
<1>3. ASSUME NEW i \in 1..(n + 1), NEW j \in 1..(n + 1), j = i + 1
      PROVE  i \in 1..n /\ (j \in 1..n \/ (j = n + 1 /\ i = n))
  BY <1>3
<1>. QED
  BY <1>1, <1>2, <1>3

(* Whoever has a job to do is the only one.                                *)
LEMMA OthersIdle ==
  ASSUME SerialInv, OneLock, NEW w \in Writers, Start(w) \/ Work(w) \/ Fail(w)
  PROVE  \A v \in Writers \ {w} : pc[v] = "idle"
<1>1. CASE Start(w)
  <2>1. GuardFree(w)
    BY <1>1 DEF Start, Observe, Withdraw
  <2>. QED
    BY <2>1 DEF GuardFree, OneLock
<1>2. CASE Work(w) \/ Fail(w)
  <2>1. pc[w] # "idle"
    BY <1>2 DEF Work, Fail, ReadRate, ReadHash, CheckOwner, Begin, Scan, LockRows, Insert,
                InsertDuplicate, Commit, SendFill, SendConfirm, SendClose, Snapshot,
                ApplyFill, ApplyConfirm, ApplyClose
  <2>. QED
    BY <2>1 DEF SerialInv, Alone
<1>. QED
  BY <1>1, <1>2

\* An idle writer has seen nothing.
LEMMA IdleCurrent == ASSUME NEW w, pc[w] = "idle" PROVE Current(w)
  BY DEF Current, Stamped, Replacing, Deciding

\* So it is enough to look at the rows and at the writer at work.
LEMMA SerialFrom ==
  ASSUME SerialInv, IInv', NEW w \in Writers, \A v \in Writers \ {w} : pc[v] = "idle",
         NEW l, pc' = [pc EXCEPT ![w] = l], RowsInOrder', Current(w)'
  PROVE  SerialInv'
<1>1. \A v \in Writers \ {w} : pc'[v] = "idle"
  OBVIOUS
<1>2. \A v \in Writers : Current(v)'
  BY <1>1 DEF Current, Stamped, Replacing, Deciding
<1>3. Alone'
  BY <1>1 DEF Alone
<1>. QED
  BY <1>2, <1>3 DEF SerialInv

\* Rows that are left alone stay in order.
LEMMA RowsKept ==
  ASSUME SerialInv, versions' = versions, clock' \in {clock, clock + 1}
  PROVE  RowsInOrder' /\ OpenRows' = OpenRows
<1>1. /\ clock \in Nat
      /\ \A i \in DOMAIN versions : versions[i].from \in Nat /\ versions[i].to \in Nat
  BY RowStamps DEF SerialInv
<1>2. HistoryOrdered' /\ ChangesOnly' /\ FillMatches'
  BY DEF SerialInv, RowsInOrder, HistoryOrdered, ChangesOnly, FillMatches
<1>3. \A i \in DOMAIN versions' : versions'[i].from <= clock' /\ versions'[i].to <= clock'
  BY <1>1 DEF SerialInv, RowsInOrder
<1>4. \A i \in DOMAIN versions' : \E w \in Writers : versions'[i].tariff \in Feed[w]
  BY DEF SerialInv, RowsInOrder
<1>. QED
  BY <1>2, <1>3, <1>4 DEF RowsInOrder, OpenRows, Ledger!OpenRows, Ledger!IsOpen, Ledger!NULL

\* Giving up leaves nothing to be current.
LEMMA FinishSerial ==
  ASSUME SerialInv, IInv', NEW w \in Writers, \A v \in Writers \ {w} : pc[v] = "idle",
         Finish(w), versions' = versions, clock' = clock
  PROVE  SerialInv'
<1>1. pc' = [pc EXCEPT ![w] = "idle"] /\ pc'[w] = "idle"
  BY DEF Finish, Goto, SerialInv, IInv, TypeOK
<1>2. Current(w)'
  BY <1>1 DEF Current, Stamped, Replacing, Deciding
<1>. QED
  BY <1>1, <1>2, RowsKept, SerialFrom

\* A pass that fails has its confirmation to do, of whatever is open.
LEMMA FailSerial ==
  ASSUME SerialInv, IInv', NEW w \in Writers, \A v \in Writers \ {w} : pc[v] = "idle",
         InsertDuplicate(w) \/ Fail(w)
  PROVE  SerialInv'
<1>1. CASE Finish(w)
  BY <1>1, FinishSerial DEF InsertDuplicate, Fail
<1>2. CASE ~Finish(w)
  <2>1. /\ pc[w] \notin {"idle", "close", "closing"} /\ job[w].kind = "pass"
        /\ pc' = [pc EXCEPT ![w] = "confirm"]
        /\ UNCHANGED <<versions, clock, job>>
    BY <1>2 DEF InsertDuplicate, Fail, Errored, Goto
  <2>2. pc'[w] = "confirm"
    BY <2>1 DEF SerialInv, IInv, TypeOK
  <2>3. Current(w)'
    BY <2>1, <2>2 DEF SerialInv, Current, Stamped, Replacing, Deciding
  <2>. QED
    BY <2>1, <2>3, RowsKept, SerialFrom
<1>. QED
  BY <1>1, <1>2

-----------------------------------------------------------------------------
(* Jobs and decisions.                                                     *)
LEMMA StartSerial ==
  ASSUME SerialInv, IInv', NEW w \in Writers, \A v \in Writers \ {w} : pc[v] = "idle", Start(w)
  PROVE  SerialInv'
<1>1. CASE Withdraw(w)
  <2>1. pc' = [pc EXCEPT ![w] = "close"] /\ pc'[w] = "close"
    BY <1>1 DEF Withdraw, Goto, SerialInv, IInv, TypeOK
  <2>2. Current(w)'
    BY <2>1 DEF Current, Stamped, Replacing, Deciding
  <2>. QED
    BY <1>1, <2>1, <2>2, RowsKept, SerialFrom DEF Withdraw
<1>2. ASSUME NEW k \in Observing, NEW t \in Tariffs, Observe(w, k, t) PROVE SerialInv'
  <2>1. PICK l \in {"rating", "hashing"} :
          pc' = [pc EXCEPT ![w] = l] /\ (l = "hashing" => k # "status")
    BY <1>2 DEF Observe, Goto
  <2>2. pc'[w] = l /\ job'[w] = [kind |-> k, tariff |-> t] /\ t \in Feed[w]
    BY <1>2, <2>1 DEF Observe, SerialInv, IInv, TypeOK
  <2>3. Current(w)'
    BY <2>1, <2>2 DEF Current, Stamped, Replacing, Deciding
  <2>. QED
    BY <1>2, <2>1, <2>3, RowsKept, SerialFrom DEF Observe
<1>. QED
  BY <1>1, <1>2 DEF Start

LEMMA ReadSerial ==
  ASSUME SerialInv, IInv', NEW w \in Writers, \A v \in Writers \ {w} : pc[v] = "idle",
         ReadRate(w) \/ ReadHash(w) \/ CheckOwner(w)
  PROVE  SerialInv'
<1>. DEFINE t == job[w].tariff
<1>1. PICK l \in {"confirm", "hashing", "fill", "owning", "begin"} : pc' = [pc EXCEPT ![w] = l]
  BY DEF ReadRate, ReadHash, CheckOwner, Goto
<1>2. pc'[w] = l /\ UNCHANGED <<versions, clock, job, quote, stamp, target>>
  BY <1>1 DEF ReadRate, ReadHash, CheckOwner, SerialInv, IInv, TypeOK
<1>3. job[w].kind \in Observing /\ job[w].tariff \in Feed[w]
  BY DEF ReadRate, ReadHash, CheckOwner, SerialInv, Current
<1>4. OpenRows' = OpenRows /\ RowsInOrder'
  BY <1>2, RowsKept
<1>5. \A i, j \in OpenRows : i = j
  BY DEF SerialInv, IInv, OneOpen, Ledger!AtMostOneOpen, OpenRows
<1>6. ASSUME NEW i \in OpenRows
      PROVE  /\ l \in {"owning", "begin"} => versions[i].tariff # t
             /\ l = "fill" => versions[i].tariff = t
             /\ l = "confirm" /\ NoOverlay => RateOf[versions[i].tariff] = RateOf[t]
             /\ l \in {"hashing", "owning", "begin"} /\ job[w].kind = "status" /\ t \notin Foreign
                  => ~SameHeadline(t, versions[i])
  <2>1. CASE ReadRate(w)
    <3>1. HeadlineHeld(w) => SameHeadline(t, versions[i])
      BY <1>5 DEF HeadlineHeld
    <3>2. l = "confirm" => HeadlineHeld(w)
      BY <1>2, <2>1 DEF ReadRate, Goto, SerialInv, IInv, TypeOK
    <3>3. l = "hashing" => ~HeadlineHeld(w) \/ t \in Foreign
      BY <1>2, <2>1 DEF ReadRate, Goto, SerialInv, IInv, TypeOK
    <3>4. l \in {"confirm", "hashing"}
      BY <1>2, <2>1 DEF ReadRate, Goto, SerialInv, IInv, TypeOK
    <3>. QED
      BY <3>1, <3>2, <3>3, <3>4 DEF HeadlineHeld, SameHeadline
  <2>2. CASE ReadHash(w)
    <3>. DEFINE same == \E k \in OpenRows : versions[k].tariff = t
    <3>1. pc[w] = "hashing" /\ l \in {"confirm", "fill", "owning", "begin"}
          /\ (l \in {"confirm", "fill"} <=> same)
      BY <1>2, <2>2 DEF ReadHash, Goto, SerialInv, IInv, TypeOK
    <3>2. same => versions[i].tariff = t
      BY <1>5
    <3>3. job[w].kind = "status" /\ t \notin Foreign => ~SameHeadline(t, versions[i])
      BY <3>1 DEF SerialInv, Current, Deciding
    <3>. QED
      BY <3>1, <3>2, <3>3
  <2>3. CASE CheckOwner(w)
    <3>1. pc[w] = "owning" /\ l \in {"confirm", "begin"}
          /\ (l = "confirm" => \E k \in OpenRows : RateOf[versions[k].tariff] \in OverlayRates)
      BY <1>2, <2>3 DEF CheckOwner, Goto, SerialInv, IInv, TypeOK
    <3>2. versions[i].tariff # t
      BY <3>1 DEF SerialInv, Current
    <3>3. job[w].kind = "status" /\ t \notin Foreign => ~SameHeadline(t, versions[i])
      BY <3>1 DEF SerialInv, Current, Deciding
    <3>4. NoOverlay => \A k \in OpenRows : RateOf[versions[k].tariff] \notin OverlayRates
      BY DEF NoOverlay, SerialInv, RowsInOrder, OpenRows, Ledger!OpenRows
    <3>. QED
      BY <3>1, <3>2, <3>3, <3>4
  <2>. QED
    BY <2>1, <2>2, <2>3
<1>7. Current(w)'
  BY <1>2, <1>3, <1>4, <1>6 DEF Current, Stamped, Replacing, Deciding, SameHeadline
<1>. QED
  BY <1>1, <1>4, <1>7, SerialFrom

-----------------------------------------------------------------------------
(* The transaction.                                                        *)

\* now() is later than anything in the rows.
LEMMA BeginSerial ==
  ASSUME SerialInv, IInv', NEW w \in Writers, \A v \in Writers \ {w} : pc[v] = "idle", Begin(w)
  PROVE  SerialInv'
<1>1. /\ pc[w] = "begin" /\ pc' = [pc EXCEPT ![w] = "scan"] /\ pc'[w] = "scan"
      /\ quote'[w] \in {NoPrice, HeadlineOf[job[w].tariff]}
      /\ stamp'[w] = clock + 1 /\ clock' = clock + 1
      /\ UNCHANGED <<versions, job>>
  BY DEF Begin, Quotes, Goto, SerialInv, IInv, TypeOK
<1>2. OpenRows' = OpenRows /\ RowsInOrder'
  BY <1>1, RowsKept
<1>3. \A i \in DOMAIN versions : versions[i].from < stamp'[w] /\ versions[i].to < stamp'[w]
  BY <1>1, RowStamps DEF SerialInv, RowsInOrder
<1>4. Current(w)'
  BY <1>1, <1>2, <1>3 DEF SerialInv, Current, Replacing, Deciding, SameHeadline
<1>. QED
  BY <1>1, <1>2, <1>4, SerialFrom

\* Its statements before the commit find what was read.
LEMMA TransactionSerial ==
  ASSUME SerialInv, IInv', NEW w \in Writers, \A v \in Writers \ {w} : pc[v] = "idle",
         Scan(w) \/ LockRows(w) \/ Insert(w)
  PROVE  SerialInv'
<1>1. PICK l \in {"lock", "insert", "commit"} : pc' = [pc EXCEPT ![w] = l]
  BY DEF Scan, LockRows, Insert, Goto
<1>2. /\ pc[w] \in {"scan", "lock", "insert"} /\ pc'[w] = l
      /\ UNCHANGED <<versions, clock, job, quote, stamp>>
  BY <1>1 DEF Scan, LockRows, Insert, SerialInv, IInv, TypeOK
<1>3. OpenRows' = OpenRows /\ RowsInOrder'
  BY <1>2, RowsKept
<1>4. Current(w)'
  BY <1>2, <1>3 DEF SerialInv, Current, Stamped, Replacing, Deciding, SameHeadline
<1>. QED
  BY <1>1, <1>3, <1>4, SerialFrom

\* A row and what becomes of it when it is closed.
LEMMA ClosedRow ==
  ASSUME NEW row \in Ledger!Version, NEW s
  PROVE  /\ [row EXCEPT !.to = s].to = s
         /\ [row EXCEPT !.to = s].from = row.from
         /\ [row EXCEPT !.to = s].tariff = row.tariff
         /\ [row EXCEPT !.to = s].comparable = row.comparable
         /\ [row EXCEPT !.to = s].confirmed = row.confirmed
         /\ row.from \in Nat /\ row.to \in Nat
BY DEF Ledger!Version

\* And when it is priced, or confirmed.
LEMMA FilledRow ==
  ASSUME NEW row \in Ledger!Version, NEW p
  PROVE  /\ [row EXCEPT !.comparable = p].to = row.to
         /\ [row EXCEPT !.comparable = p].from = row.from
         /\ [row EXCEPT !.comparable = p].tariff = row.tariff
         /\ [row EXCEPT !.comparable = p].comparable = p
BY DEF Ledger!Version

LEMMA ConfirmedRow ==
  ASSUME NEW row \in Ledger!Version, NEW s
  PROVE  /\ [row EXCEPT !.confirmed = s].to = row.to
         /\ [row EXCEPT !.confirmed = s].from = row.from
         /\ [row EXCEPT !.confirmed = s].tariff = row.tariff
         /\ [row EXCEPT !.confirmed = s].comparable = row.comparable
BY DEF Ledger!Version

\* The rows after a commit, one by one.
LEMMA CommittedRows ==
  ASSUME IInv, NEW w \in Writers, Commit(w)
  PROVE  /\ Len(versions) \in Nat /\ DOMAIN versions = 1..Len(versions)
         /\ DOMAIN versions' = 1..(Len(versions) + 1)
         /\ \A i \in DOMAIN versions :
              /\ versions'[i].to = IF i \in OpenRows THEN stamp[w] ELSE versions[i].to
              /\ versions'[i].from = versions[i].from
              /\ versions'[i].tariff = versions[i].tariff
              /\ versions'[i].comparable = versions[i].comparable
              /\ versions'[i].confirmed = versions[i].confirmed
         /\ versions'[Len(versions) + 1] = NewVersion(w)
<1>1. Len(versions) \in Nat /\ DOMAIN versions = 1..Len(versions)
  BY DEF IInv, TypeOK
<1>2. \A i \in DOMAIN versions : versions[i] \in Ledger!Version
  BY DEF IInv, TypeOK
<1>3. target[w] = OpenRows /\ CloseRows(w) \in Seq(Ledger!Version) /\ Len(CloseRows(w)) = Len(versions)
      /\ NewVersion(w) \in Ledger!Version
  BY CommitRows
<1>4. /\ DOMAIN versions' = 1..(Len(versions) + 1)
      /\ \A i \in DOMAIN versions : versions'[i] = CloseRows(w)[i]
      /\ versions'[Len(versions) + 1] = NewVersion(w)
  BY <1>1, <1>3 DEF Commit
<1>5. \A i \in DOMAIN versions :
        CloseRows(w)[i] = IF i \in OpenRows THEN [versions[i] EXCEPT !.to = stamp[w]] ELSE versions[i]
  BY <1>3 DEF CloseRows
<1>6. ASSUME NEW i \in DOMAIN versions
      PROVE  /\ versions'[i].to = IF i \in OpenRows THEN stamp[w] ELSE versions[i].to
             /\ versions'[i].from = versions[i].from
             /\ versions'[i].tariff = versions[i].tariff
             /\ versions'[i].comparable = versions[i].comparable
             /\ versions'[i].confirmed = versions[i].confirmed
  <2>1. CASE i \in OpenRows
    <3>1. versions'[i] = [versions[i] EXCEPT !.to = stamp[w]] /\ versions[i] \in Ledger!Version
      BY <1>2, <1>4, <1>5, <2>1
    <3>. QED
      BY <2>1, <3>1, ClosedRow
  <2>2. CASE i \notin OpenRows
    BY <1>4, <1>5, <2>2
  <2>. QED
    BY <2>1, <2>2
<1>. QED
  BY <1>1, <1>4, <1>6

\* The new row continues the timeline with another content.
LEMMA CommitSerial ==
  ASSUME SerialInv, IInv', NEW w \in Writers, \A v \in Writers \ {w} : pc[v] = "idle", Commit(w)
  PROVE  SerialInv'
<1>. DEFINE n == Len(versions)
            s == stamp[w]
<1>1. /\ n \in Nat /\ DOMAIN versions = 1..n /\ DOMAIN versions' = 1..(n + 1)
      /\ \A i \in 1..n : /\ versions'[i].to = IF i \in OpenRows THEN s ELSE versions[i].to
                         /\ versions'[i].from = versions[i].from
                         /\ versions'[i].tariff = versions[i].tariff
                         /\ versions'[i].comparable = versions[i].comparable
      /\ versions'[n + 1] = NewVersion(w)
  BY CommittedRows DEF SerialInv
<1>2. /\ pc[w] = "commit" /\ pc' = [pc EXCEPT ![w] = "confirm"] /\ pc'[w] = "confirm"
      /\ UNCHANGED <<clock, job, quote, stamp>>
  BY DEF Commit, Goto, SerialInv, IInv, TypeOK
<1>3. /\ versions'[n + 1].tariff = job[w].tariff /\ versions'[n + 1].comparable = quote[w]
      /\ versions'[n + 1].from = s /\ versions'[n + 1].to = NULL
  BY <1>1 DEF NewVersion
<1>4. /\ s \in 1..clock /\ s \in Nat /\ clock \in Nat /\ s # NULL /\ NULL = 0
      /\ \A i \in 1..n : versions[i].from \in Nat /\ versions[i].to \in Nat
  <2>1. s \in 1..clock
    BY <1>2 DEF SerialInv, IInv, JobsInHand, Stamped
  <2>2. clock \in Nat /\ NULL = 0
        /\ \A i \in 1..n : versions[i].from \in Nat /\ versions[i].to \in Nat
    BY <1>1, RowStamps DEF SerialInv
  <2>. QED
    BY <2>1, <2>2
<1>5. \A i \in 1..n : versions[i].from < s /\ versions[i].to < s
  BY <1>1, <1>2 DEF SerialInv, Current, Stamped
<1>6. /\ job[w].tariff \in Feed[w] /\ job[w].kind \in Observing
      /\ quote[w] \in {NoPrice, HeadlineOf[job[w].tariff]}
      /\ \A i \in OpenRows : versions[i].tariff # job[w].tariff
  BY <1>2 DEF SerialInv, Current, Replacing
<1>7. \A i \in 1..n : i \in OpenRows <=> versions[i].to = NULL
  BY <1>1 DEF OpenRows, Ledger!OpenRows, Ledger!IsOpen, NULL
<1>8. \A i, j \in 1..n :
        /\ versions[i].to # NULL => versions[i].from <= versions[i].to
        /\ i < j => versions[i].to # NULL /\ versions[i].to <= versions[j].from
  BY <1>1 DEF SerialInv, RowsInOrder, HistoryOrdered
<1>9. \A i \in DOMAIN versions' :
        /\ versions'[i].from <= clock' /\ versions'[i].to <= clock'
        /\ \E v \in Writers : versions'[i].tariff \in Feed[v]
  <2>1. \A i \in 1..n : versions[i].from <= clock /\ versions[i].to <= clock
                        /\ \E v \in Writers : versions[i].tariff \in Feed[v]
    BY <1>1 DEF SerialInv, RowsInOrder
  <2>2. ASSUME NEW i \in 1..n
        PROVE  /\ versions'[i].from <= clock' /\ versions'[i].to <= clock'
               /\ \E v \in Writers : versions'[i].tariff \in Feed[v]
    <3>1. versions'[i].to \in {s, versions[i].to} /\ s <= clock
      BY <1>1, <1>4
    <3>. QED
      BY <1>1, <1>2, <2>1, <3>1
  <2>3. /\ versions'[n + 1].from <= clock' /\ versions'[n + 1].to <= clock'
        /\ \E v \in Writers : versions'[n + 1].tariff \in Feed[v]
    BY <1>2, <1>3, <1>4, <1>6
  <2>. QED
    BY <1>1, <2>2, <2>3, OneMore
<1>10. HistoryOrdered'
  <2>1. ASSUME NEW i \in 1..n
        PROVE  /\ versions'[i].to # NULL /\ versions'[i].from <= versions'[i].to
               /\ versions'[i].to <= s
    BY <1>1, <1>4, <1>5, <1>7, <1>8
  <2>2. ASSUME NEW i \in 1..n, NEW j \in 1..n, i < j
        PROVE  versions'[i].to <= versions'[j].from
    BY <1>1, <1>7, <1>8, <2>2
  <2>. QED
    BY <1>1, <1>3, <2>1, <2>2, OneMore DEF HistoryOrdered, NULL, Ledger!NULL
<1>11. ChangesOnly'
  <2>1. ASSUME NEW i \in 1..n, i + 1 \in 1..n, versions'[i].to = versions'[i + 1].from
        PROVE  versions'[i].tariff # versions'[i + 1].tariff
    <3>1. i \notin OpenRows /\ i < i + 1
      BY <1>7, <1>8, <2>1
    <3>. QED
      BY <1>1, <2>1, <3>1 DEF SerialInv, RowsInOrder, ChangesOnly
  <2>2. ASSUME n \in 1..n, versions'[n].to = versions'[n + 1].from
        PROVE  versions'[n].tariff # versions'[n + 1].tariff
    <3>1. n \in OpenRows
      BY <1>1, <1>3, <1>4, <1>5, <2>2
    <3>. QED
      BY <1>1, <1>3, <1>6, <2>2, <3>1
  <2>3. SUFFICES ASSUME NEW i \in 1..(n + 1), NEW j \in 1..(n + 1),
                        j = i + 1, versions'[i].to = versions'[j].from
                 PROVE  versions'[i].tariff # versions'[j].tariff
    BY <1>1 DEF ChangesOnly
  <2>4. i \in 1..n /\ (j \in 1..n \/ (j = n + 1 /\ i = n))
    BY <1>1, <2>3, OneMore
  <2>. QED
    BY <2>1, <2>2, <2>3, <2>4
<1>12. FillMatches'
  <2>1. \A i \in 1..n : versions[i].comparable \in {NoPrice, HeadlineOf[versions[i].tariff]}
    BY <1>1 DEF SerialInv, RowsInOrder, FillMatches
  <2>. QED
    BY <1>1, <1>3, <1>6, <2>1, OneMore DEF FillMatches
<1>13. OpenRows' = {n + 1}
  BY CommitRows DEF SerialInv
<1>14. Current(w)'
  BY <1>2, <1>3, <1>6, <1>13 DEF Current, Stamped, Replacing, Deciding
<1>. QED
  BY <1>2, <1>9, <1>10, <1>11, <1>12, <1>14, SerialFrom DEF RowsInOrder

-----------------------------------------------------------------------------
(* The single-statement updates.                                           *)

\* Its snapshot is later than anything in the rows.
LEMMA SendSerial ==
  ASSUME SerialInv, IInv', NEW w \in Writers, \A v \in Writers \ {w} : pc[v] = "idle",
         SendFill(w) \/ SendConfirm(w) \/ SendClose(w)
  PROVE  SerialInv'
<1>1. PICK from \in {"fill", "confirm", "close"}, l \in {"filling", "confirming", "closing"} :
        /\ Snapshot(w, from, l)
        /\ l = "filling" <=> from = "fill"
        /\ l = "confirming" <=> from = "confirm"
  BY DEF SendFill, SendConfirm, SendClose
<1>2. /\ pc[w] = from /\ pc' = [pc EXCEPT ![w] = l] /\ pc'[w] = l
      /\ stamp'[w] = clock + 1 /\ clock' = clock + 1
      /\ UNCHANGED <<versions, job>>
  BY <1>1 DEF Snapshot, Goto, SerialInv, IInv, TypeOK
<1>3. OpenRows' = OpenRows /\ RowsInOrder'
  BY <1>2, RowsKept
<1>4. \A i \in DOMAIN versions : versions[i].from < stamp'[w] /\ versions[i].to < stamp'[w]
  BY <1>2, RowStamps DEF SerialInv, RowsInOrder
<1>5. Current(w)'
  BY <1>1, <1>2, <1>3, <1>4 DEF SerialInv, Current, Replacing, Deciding
<1>. QED
  BY <1>2, <1>3, <1>5, SerialFrom

\* Confirming and pricing a row leave the timeline as it is.
LEMMA SameTimeline ==
  ASSUME SerialInv, clock' = clock, DOMAIN versions' = DOMAIN versions,
         \A i \in DOMAIN versions :
           /\ versions'[i].from = versions[i].from /\ versions'[i].to = versions[i].to
           /\ versions'[i].tariff = versions[i].tariff
           /\ versions'[i].comparable \in {versions[i].comparable, HeadlineOf[versions[i].tariff]}
  PROVE  RowsInOrder' /\ OpenRows' = OpenRows
<1>1. HistoryOrdered' /\ ChangesOnly'
  BY DEF SerialInv, RowsInOrder, HistoryOrdered, ChangesOnly
<1>2. FillMatches'
  BY DEF SerialInv, RowsInOrder, FillMatches
<1>3. \A i \in DOMAIN versions' :
        /\ versions'[i].from <= clock' /\ versions'[i].to <= clock'
        /\ \E w \in Writers : versions'[i].tariff \in Feed[w]
  BY DEF SerialInv, RowsInOrder
<1>. QED
  BY <1>1, <1>2, <1>3 DEF RowsInOrder, OpenRows, Ledger!OpenRows, Ledger!IsOpen, Ledger!NULL

\* The price filled in is the one of the open row's own tariff.
LEMMA ApplyFillSerial ==
  ASSUME SerialInv, IInv', NEW w \in Writers, \A v \in Writers \ {w} : pc[v] = "idle", ApplyFill(w)
  PROVE  SerialInv'
<1>1. /\ pc[w] = "filling" /\ pc' = [pc EXCEPT ![w] = "confirm"] /\ pc'[w] = "confirm"
      /\ UNCHANGED <<clock, job>>
  BY DEF ApplyFill, Goto, SerialInv, IInv, TypeOK
<1>2. \A i \in OpenRows : versions[i].tariff = job[w].tariff
  BY <1>1 DEF SerialInv, Current
<1>3. Fillable(w) \subseteq OpenRows
  BY DEF Fillable, Recheck
<1>4. ASSUME NEW i \in DOMAIN versions
      PROVE  /\ versions'[i].from = versions[i].from /\ versions'[i].to = versions[i].to
             /\ versions'[i].tariff = versions[i].tariff
             /\ versions'[i].comparable \in {versions[i].comparable, HeadlineOf[versions[i].tariff]}
  <2>. DEFINE p == HeadlineOf[job[w].tariff]
  <2>1. versions[i] \in Ledger!Version
    BY DEF SerialInv, IInv, TypeOK
  <2>2. versions'[i] = IF i \in Fillable(w) THEN [versions[i] EXCEPT !.comparable = p]
                                            ELSE versions[i]
    BY DEF ApplyFill
  <2>3. i \in Fillable(w) => p = HeadlineOf[versions[i].tariff]
    BY <1>2, <1>3
  <2>. HIDE DEF p
  <2>. QED
    BY <2>1, <2>2, <2>3, FilledRow
<1>5. DOMAIN versions' = DOMAIN versions
  BY DEF ApplyFill
<1>6. RowsInOrder' /\ OpenRows' = OpenRows
  BY <1>1, <1>4, <1>5, SameTimeline
<1>7. \A i \in OpenRows' : i \in DOMAIN versions /\ versions'[i].tariff = job[w].tariff
  BY <1>2, <1>4, <1>6 DEF OpenRows, Ledger!OpenRows
<1>8. job[w].kind \in Observing /\ job[w].tariff \in Feed[w]
  BY <1>1 DEF SerialInv, Current
<1>9. Current(w)'
  BY <1>1, <1>7, <1>8 DEF Current, Stamped, Replacing, Deciding
<1>. QED
  BY <1>1, <1>6, <1>9, SerialFrom

\* A confirmation changes nothing else.
LEMMA ApplyConfirmSerial ==
  ASSUME SerialInv, IInv', NEW w \in Writers, \A v \in Writers \ {w} : pc[v] = "idle", ApplyConfirm(w)
  PROVE  SerialInv'
<1>1. ASSUME NEW i \in DOMAIN versions
      PROVE  /\ versions'[i].from = versions[i].from /\ versions'[i].to = versions[i].to
             /\ versions'[i].tariff = versions[i].tariff
             /\ versions'[i].comparable = versions[i].comparable
  <2>1. versions[i] \in Ledger!Version
    BY DEF SerialInv, IInv, TypeOK
  <2>2. CASE i \notin Recheck(w)
    BY <2>2 DEF ApplyConfirm
  <2>3. CASE i \in Recheck(w)
    <3>1. versions'[i] = [versions[i] EXCEPT !.confirmed = stamp[w]]
      BY <2>3 DEF ApplyConfirm
    <3>. QED
      BY <2>1, <3>1, ConfirmedRow
  <2>. QED
    BY <2>2, <2>3
<1>2. DOMAIN versions' = DOMAIN versions /\ clock' = clock
  BY DEF ApplyConfirm
<1>3. RowsInOrder'
  BY <1>1, <1>2, SameTimeline
<1>4. pc' = [pc EXCEPT ![w] = "idle"] /\ pc'[w] = "idle"
  BY DEF ApplyConfirm, Finish, Goto, SerialInv, IInv, TypeOK
<1>5. Current(w)'
  BY <1>4 DEF Current, Stamped, Replacing, Deciding
<1>. QED
  BY <1>3, <1>4, <1>5, SerialFrom

\* A withdrawal ends the last version, and nothing follows it yet.
LEMMA ApplyCloseSerial ==
  ASSUME SerialInv, IInv', NEW w \in Writers, \A v \in Writers \ {w} : pc[v] = "idle", ApplyClose(w)
  PROVE  SerialInv'
<1>. DEFINE s == stamp[w]
<1>1. /\ pc[w] = "closing" /\ pc' = [pc EXCEPT ![w] = "idle"] /\ pc'[w] = "idle"
      /\ clock' = clock /\ DOMAIN versions' = DOMAIN versions
  BY DEF ApplyClose, Finish, Goto, SerialInv, IInv, TypeOK
<1>2. ASSUME NEW i \in DOMAIN versions
      PROVE  /\ versions'[i].from = versions[i].from
             /\ versions'[i].tariff = versions[i].tariff
             /\ versions'[i].comparable = versions[i].comparable
             /\ versions'[i].to = versions[i].to \/ (i \in OpenRows /\ versions'[i].to = s)
  <2>1. versions[i] \in Ledger!Version
    BY DEF SerialInv, IInv, TypeOK
  <2>2. CASE i \notin Recheck(w)
    BY <2>2 DEF ApplyClose
  <2>3. CASE i \in Recheck(w)
    <3>1. versions'[i] = [versions[i] EXCEPT !.to = stamp[w]] /\ i \in OpenRows
      BY <2>3 DEF ApplyClose, Recheck
    <3>. QED
      BY <2>1, <3>1, ClosedRow
  <2>. QED
    BY <2>2, <2>3
<1>3. /\ s <= clock /\ s \in Nat /\ clock \in Nat /\ s # NULL /\ NULL = 0
      /\ \A i \in DOMAIN versions : versions[i].from \in Nat /\ versions[i].to \in Nat
  <2>1. s \in 1..clock
    BY <1>1 DEF SerialInv, IInv, JobsInHand, Stamped
  <2>. QED
    BY <2>1, RowStamps DEF SerialInv
<1>4. \A i \in DOMAIN versions : versions[i].from < s
  BY <1>1 DEF SerialInv, Current, Stamped
<1>5. \A i \in OpenRows : i \in DOMAIN versions /\ versions[i].to = NULL
  BY DEF OpenRows, Ledger!OpenRows, Ledger!IsOpen, NULL
<1>6. \A i, j \in DOMAIN versions :
        /\ versions[i].to # NULL => versions[i].from <= versions[i].to
        /\ i < j => versions[i].to # NULL /\ versions[i].to <= versions[j].from
  BY DEF SerialInv, RowsInOrder, HistoryOrdered
<1>. HIDE DEF s
<1>7. ASSUME NEW i \in DOMAIN versions, NEW j \in DOMAIN versions
      PROVE  /\ versions'[i].to # NULL => versions'[i].from <= versions'[i].to
             /\ i < j => /\ versions'[i].to = versions[i].to
                         /\ versions'[i].to # NULL /\ versions'[i].to <= versions'[j].from
  <2>1. versions'[i].to # NULL => versions'[i].from <= versions'[i].to
    BY <1>2, <1>3, <1>4, <1>6
  <2>2. i < j => versions'[i].to = versions[i].to
    BY <1>2, <1>5, <1>6
  <2>. QED
    BY <1>2, <1>6, <2>1, <2>2
<1>8. HistoryOrdered'
  BY <1>1, <1>7 DEF HistoryOrdered, NULL, Ledger!NULL
<1>9. ChangesOnly'
  <2>1. DOMAIN versions \subseteq Nat
    BY RowStamps DEF SerialInv
  <2>2. \A i, j \in DOMAIN versions : j = i + 1 => i < j
    BY <2>1
  <2>. QED
    BY <1>1, <1>2, <1>7, <2>2 DEF SerialInv, RowsInOrder, ChangesOnly
<1>10. FillMatches'
  BY <1>1, <1>2 DEF SerialInv, RowsInOrder, FillMatches
<1>11. \A i \in DOMAIN versions' :
         /\ versions'[i].from <= clock' /\ versions'[i].to <= clock'
         /\ \E v \in Writers : versions'[i].tariff \in Feed[v]
  BY <1>1, <1>2, <1>3 DEF SerialInv, RowsInOrder
<1>12. Current(w)'
  BY <1>1 DEF Current, Stamped, Replacing, Deciding
<1>. QED
  BY <1>1, <1>8, <1>9, <1>10, <1>11, <1>12, SerialFrom DEF RowsInOrder

-----------------------------------------------------------------------------
(* SerialInv is inductive.                                                 *)
LEMMA InitSerial == Init => SerialInv
<1>. SUFFICES ASSUME Init PROVE SerialInv
  OBVIOUS
<1>1. DOMAIN versions = {}
  BY DEF Init
<1>2. RowsInOrder
  BY <1>1 DEF RowsInOrder, HistoryOrdered, ChangesOnly, FillMatches
<1>3. \A w \in Writers : Current(w)
  BY <1>1, IdleCurrent DEF Init
<1>4. Alone
  BY DEF Init, Alone
<1>. QED
  BY <1>2, <1>3, <1>4, InitIInv DEF SerialInv

LEMMA NextSerial ==
  ASSUME OneLock, SerialInv, [Next]_vars
  PROVE  SerialInv'
<1>1. IInv'
  BY NextIInv DEF SerialInv
<1>2. CASE UNCHANGED vars
  <2>. USE <1>2 DEF vars
  <2>1. RowsInOrder' /\ OpenRows' = OpenRows
    BY RowsKept
  <2>2. \A w \in Writers : Current(w)'
    BY <2>1 DEF SerialInv, Current, SameHeadline
  <2>3. Alone'
    BY DEF SerialInv, Alone
  <2>. QED
    BY <1>1, <2>1, <2>2, <2>3 DEF SerialInv
<1>3. ASSUME NEW w \in Writers, Start(w) \/ Work(w) \/ Fail(w)
      PROVE  SerialInv'
  <2>1. \A v \in Writers \ {w} : pc[v] = "idle"
    BY <1>3, OthersIdle
  <2>2. CASE Start(w)
    BY <1>1, <2>1, <2>2, StartSerial
  <2>3. CASE ReadRate(w) \/ ReadHash(w) \/ CheckOwner(w)
    BY <1>1, <2>1, <2>3, ReadSerial
  <2>4. CASE Begin(w)
    BY <1>1, <2>1, <2>4, BeginSerial
  <2>5. CASE Scan(w) \/ LockRows(w) \/ Insert(w)
    BY <1>1, <2>1, <2>5, TransactionSerial
  <2>6. CASE InsertDuplicate(w) \/ Fail(w)
    BY <1>1, <2>1, <2>6, FailSerial
  <2>7. CASE Commit(w)
    BY <1>1, <2>1, <2>7, CommitSerial
  <2>8. CASE SendFill(w) \/ SendConfirm(w) \/ SendClose(w)
    BY <1>1, <2>1, <2>8, SendSerial
  <2>9. CASE ApplyFill(w)
    BY <1>1, <2>1, <2>9, ApplyFillSerial
  <2>10. CASE ApplyConfirm(w)
    BY <1>1, <2>1, <2>10, ApplyConfirmSerial
  <2>11. CASE ApplyClose(w)
    BY <1>1, <2>1, <2>11, ApplyCloseSerial
  <2>. QED
    BY <1>3, <2>2, <2>3, <2>4, <2>5, <2>6, <2>7, <2>8, <2>9, <2>10, <2>11 DEF Work
<1>. QED
  BY <1>2, <1>3 DEF Next, Rest

LEMMA SerialInvariant == ASSUME OneLock PROVE Spec => []SerialInv
<1>1. SerialInv /\ [Next]_vars => SerialInv'
  BY NextSerial
<1>. QED
  BY <1>1, InitSerial, PTL DEF Spec

(* One operator's pushes, behind their lock, keep its charger's history a  *)
(* timeline: a version ends no earlier than it began, and the next begins  *)
(* no earlier than that (processTariff, ReplaceTariff).                    *)
THEOREM HistoryOrderedHolds == ASSUME OneLock PROVE Spec => []HistoryOrdered
<1>1. SerialInv => HistoryOrdered
  BY DEF SerialInv, RowsInOrder
<1>. QED
  BY <1>1, SerialInvariant, PTL

(* They write a version only when the content changes: what the hash       *)
(* comparison saw is still the open row when the transaction commits.      *)
THEOREM ChangesOnlyHolds == ASSUME OneLock PROVE Spec => []ChangesOnly
<1>1. SerialInv => ChangesOnly
  BY DEF SerialInv, RowsInOrder
<1>. QED
  BY <1>1, SerialInvariant, PTL

(* And the euro price of a row is that of its own tariff, although         *)
(* FillDerivedPrices names the charger and not the version.                *)
THEOREM FillMatchesHolds == ASSUME OneLock PROVE Spec => []FillMatches
<1>1. SerialInv => FillMatches
  BY DEF SerialInv, RowsInOrder
<1>. QED
  BY <1>1, SerialInvariant, PTL

-----------------------------------------------------------------------------
(* What a step confirms.                                                   *)

\* Only ConfirmTariff moves last_confirmed_at of a row that is there.
LEMMA ConfirmedBy ==
  ASSUME SerialInv, [Next]_vars, NEW i \in DOMAIN versions, Confirmed(i)
  PROVE  \E w \in Writers : ApplyConfirm(w) /\ i \in Recheck(w)
<1>1. versions[i] \in Ledger!Version
  BY DEF SerialInv, IInv, TypeOK
<1>2. versions' # versions
  BY DEF Confirmed
<1>3. PICK w \in Writers : Commit(w) \/ ApplyFill(w) \/ ApplyClose(w) \/ ApplyConfirm(w)
  BY <1>2 DEF Next, Rest, vars, Start, Work, Fail, Observe, Withdraw, ReadRate, ReadHash,
              CheckOwner, Begin, Scan, LockRows, Insert, InsertDuplicate, SendFill, SendConfirm,
              SendClose, Snapshot
<1>4. ~Commit(w)
  BY CommittedRows DEF SerialInv, Confirmed
<1>5. ~ApplyFill(w)
  <2>1. SUFFICES ASSUME ApplyFill(w) PROVE versions'[i].confirmed = versions[i].confirmed
    BY DEF Confirmed
  <2>2. CASE i \in Fillable(w)
    <3>1. versions'[i] = [versions[i] EXCEPT !.comparable = HeadlineOf[job[w].tariff]]
      BY <2>1, <2>2 DEF ApplyFill
    <3>. QED
      BY <1>1, <3>1, FilledRow
  <2>3. CASE i \notin Fillable(w)
    BY <2>1, <2>3 DEF ApplyFill
  <2>. QED
    BY <2>2, <2>3
<1>6. ~ApplyClose(w)
  <2>1. SUFFICES ASSUME ApplyClose(w) PROVE versions'[i].confirmed = versions[i].confirmed
    BY DEF Confirmed
  <2>2. CASE i \in Recheck(w)
    <3>1. versions'[i] = [versions[i] EXCEPT !.to = stamp[w]]
      BY <2>1, <2>2 DEF ApplyClose
    <3>. QED
      BY <1>1, <3>1, ClosedRow
  <2>3. CASE i \notin Recheck(w)
    BY <2>1, <2>3 DEF ApplyClose
  <2>. QED
    BY <2>2, <2>3
<1>7. i \in Recheck(w)
  BY <1>3, <1>4, <1>5, <1>6 DEF ApplyConfirm, Confirmed
<1>. QED
  BY <1>3, <1>4, <1>5, <1>6, <1>7

(* last_confirmed_at of a row moves only when its own rate was observed:   *)
(* behind one lock, and without an overlay's price, the row a writer       *)
(* confirms is the one whose hash or headline it compared.                 *)
THEOREM SuccessConfirmsSeenHolds ==
  ASSUME OneLock, NoOverlay
  PROVE  Spec => SuccessConfirmsSeen
<1>. DEFINE Seen == \A i \in DOMAIN versions : Confirmed(i) =>
                      \E w \in Writers : pc[w] = "confirming" /\ pc'[w] = "idle"
                                         /\ (Saw(w, i) \/ job[w].kind = "pass")
<1>1. ASSUME SerialInv, [Next]_vars PROVE Seen
  <2>1. SUFFICES ASSUME NEW i \in DOMAIN versions, Confirmed(i)
                 PROVE  \E w \in Writers : pc[w] = "confirming" /\ pc'[w] = "idle"
                                           /\ (Saw(w, i) \/ job[w].kind = "pass")
    OBVIOUS
  <2>2. PICK w \in Writers : ApplyConfirm(w) /\ i \in Recheck(w)
    BY <1>1, <2>1, ConfirmedBy
  <2>3. pc[w] = "confirming" /\ pc'[w] = "idle"
    BY <1>1, <2>2 DEF ApplyConfirm, Finish, Goto, SerialInv, IInv, TypeOK
  <2>4. i \in OpenRows
    BY <2>2 DEF Recheck
  <2>5. job[w].kind \in Observing /\ job[w].tariff \in Feed[w]
    BY <1>1, <2>3 DEF SerialInv, Current
  <2>6. job[w].kind # "pass" => RateOf[versions[i].tariff] = RateOf[job[w].tariff]
    BY <1>1, <2>3, <2>4 DEF SerialInv, Current
  <2>7. job[w].tariff # NoTariff /\ job[w].kind # "none"
    BY <2>5, ConstantsAssumption DEF Observing
  <2>. QED
    BY <2>3, <2>6, <2>7 DEF Saw
<1>2. SerialInv /\ [Next]_vars => [Seen]_vars
  BY <1>1
<1>. QED
  BY <1>2, SerialInvariant, PTL DEF Spec, SuccessConfirmsSeen

(* A status push of the rate and headline price in force opens no version, *)
(* behind one lock: what CurrentTariffRate saw is still so at the commit.  *)
THEOREM StatusNeverFlapsHolds == ASSUME OneLock PROVE Spec => StatusNeverFlaps
<1>. DEFINE Steady == \A w \in Writers, i \in OpenRows :
                        pc[w] = "commit" /\ pc'[w] # "commit" /\ job[w].kind = "status"
                          /\ job[w].tariff \notin Foreign /\ Len(versions') > Len(versions)
                          => ~SameHeadline(job[w].tariff, versions[i])
<1>1. ASSUME SerialInv PROVE Steady
  BY <1>1 DEF SerialInv, Current, Deciding, Replacing
<1>2. SerialInv => [Steady]_vars
  BY <1>1
<1>. QED
  BY <1>2, SerialInvariant, PTL DEF Spec, StatusNeverFlaps
=============================================================================

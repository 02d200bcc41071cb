-------------------------- MODULE PushSpool_proofs --------------------------
(***************************************************************************)
(* Proofs about PushSpool, for any operators, pushes, workers, batch sizes *)
(* and crashes: every claimed file is in one pair of hands; nothing        *)
(* acknowledged is lost; the newest push wins, unless two workers have an  *)
(* operator's pushes at once; and the scanner and the workers never all    *)
(* wait.                                                                   *)
(***************************************************************************)
EXTENDS PushSpool, FiniteSetTheorems, SequenceTheorems, WellFoundedInduction, TLAPS

Places == {"none", "tmp", "incoming", "processing", "failed", "gone"}

\* Files are numbered up to a bound.
LEMMA NamesAreNat == MaxFiles \in Nat
  BY SpoolAssumption

-----------------------------------------------------------------------------
(* Sequences of files.                                                     *)

Distinct(s) == \A i, j \in DOMAIN s : s[i] = s[j] => i = j
Increasing(s) == \A i, j \in DOMAIN s : i < j => s[i] < s[j]

\* An empty batch holds nothing.
LEMMA EmptyBatch == BatchOf(<< >>) = {} /\ << >> \in Seq(Names) /\ Distinct(<< >>)
  BY DEF BatchOf, Distinct

\* Taking the head off a batch takes one file out of it.
LEMMA BatchTail ==
  ASSUME NEW s \in Seq(Names), s # << >>, Distinct(s)
  PROVE  /\ Head(s) \in BatchOf(s) /\ BatchOf(Tail(s)) = BatchOf(s) \ {Head(s)}
         /\ Tail(s) \in Seq(Names) /\ Distinct(Tail(s))
<1>1. /\ Len(s) \in Nat /\ Len(s) # 0 /\ DOMAIN s = 1..Len(s) /\ Head(s) = s[1]
      /\ Tail(s) \in Seq(Names) /\ Len(Tail(s)) = Len(s) - 1
      /\ DOMAIN Tail(s) = 1..(Len(s) - 1)
      /\ \A i \in 1..(Len(s) - 1) : Tail(s)[i] = s[i + 1]
  BY HeadTailProperties, LenProperties, EmptySeq
<1>2. \A i, j \in 1..Len(s) : s[i] = s[j] => i = j
  BY <1>1 DEF Distinct
<1>3. Distinct(Tail(s))
  BY <1>1, <1>2 DEF Distinct
<1>4. BatchOf(s) = {s[i] : i \in 1..Len(s)} /\ BatchOf(Tail(s)) = {s[i + 1] : i \in 1..(Len(s) - 1)}
  BY <1>1 DEF BatchOf
<1>5. \A i \in 1..Len(s) : i = 1 \/ (i - 1 \in 1..(Len(s) - 1) /\ s[i] = s[(i - 1) + 1])
  BY <1>1
<1>6. \A i \in 1..(Len(s) - 1) : i + 1 \in 1..Len(s) /\ s[i + 1] # s[1]
  BY <1>1, <1>2
<1>7. 1 \in 1..Len(s)
  BY <1>1
<1>8. BatchOf(Tail(s)) = BatchOf(s) \ {s[1]}
  BY <1>4, <1>5, <1>6
<1>. QED
  BY <1>1, <1>3, <1>4, <1>7, <1>8

\* Appending a file to a batch adds it.
LEMMA BatchAppend ==
  ASSUME NEW s \in Seq(Names), NEW n \in Names
  PROVE  Append(s, n) \in Seq(Names) /\ BatchOf(Append(s, n)) = BatchOf(s) \cup {n}
<1>1. /\ Append(s, n) \in Seq(Names) /\ Len(Append(s, n)) = Len(s) + 1
      /\ \A i \in 1..Len(s) : Append(s, n)[i] = s[i]
      /\ Append(s, n)[Len(s) + 1] = n
  BY AppendProperties
<1>2. /\ Len(s) \in Nat /\ DOMAIN s = 1..Len(s)
      /\ DOMAIN Append(s, n) = 1..(Len(s) + 1)
  BY <1>1, LenProperties
<1>. QED
  BY <1>1, <1>2 DEF BatchOf

\* Counting the files up to each file of a set numbers them in order.
LEMMA InOrderRanks ==
  ASSUME NEW S \in SUBSET Names
  PROVE  /\ Cardinality(S) \in Nat /\ S \subseteq Nat
         /\ \A n \in S : Cardinality({m \in S : m <= n}) \in 1..Cardinality(S)
         /\ \A n, k \in S : n < k => Cardinality({m \in S : m <= n}) < Cardinality({m \in S : m <= k})
         /\ \A i \in 1..Cardinality(S) : \E n \in S : Cardinality({m \in S : m <= n}) = i
<1>. DEFINE size == Cardinality(S)
            below(n) == {m \in S : m <= n}
            rank == [n \in S |-> Cardinality(below(n))]
<1>1. IsFiniteSet(S) /\ size \in Nat /\ S \subseteq Nat
  <2>1. IsFiniteSet(Names) /\ Names \subseteq Nat
    BY NamesAreNat, FS_Interval DEF Names
  <2>. QED
    BY <2>1, FS_Subset, FS_CardinalityType
<1>2. ASSUME NEW n \in S
      PROVE  IsFiniteSet(below(n)) /\ Cardinality(below(n)) \in 1..size
  <2>1. IsFiniteSet(below(n)) /\ Cardinality(below(n)) <= size
    BY <1>1, FS_Subset
  <2>2. Cardinality(below(n)) \in Nat
    BY <2>1, FS_CardinalityType
  <2>3. n \in below(n)
    BY <1>1
  <2>4. Cardinality(below(n)) # 0
    BY <2>1, <2>3, FS_EmptySet
  <2>. QED
    BY <1>1, <2>1, <2>2, <2>4
<1>3. ASSUME NEW n \in S, NEW k \in S, n < k
      PROVE  Cardinality(below(n)) < Cardinality(below(k))
  <2>1. below(n) \subseteq below(k) /\ k \in below(k) /\ k \notin below(n)
    <3>1. n \in Nat /\ k \in Nat /\ n < k /\ \A m \in S : m \in Nat
      BY <1>1, <1>3
    <3>2. \A m \in S : m <= n => m <= k
      BY <3>1
    <3>3. k <= k /\ ~(k <= n)
      BY <3>1
    <3>. QED
      BY <3>2, <3>3
  <2>2. /\ IsFiniteSet(below(k)) /\ Cardinality(below(n)) \in Nat /\ Cardinality(below(k)) \in Nat
        /\ IsFiniteSet(below(n))
    BY <1>1, <1>2
  <2>3. Cardinality(below(n)) <= Cardinality(below(k)) /\ Cardinality(below(n)) # Cardinality(below(k))
    BY <2>1, <2>2, FS_Subset
  <2>. HIDE DEF below
  <2>. QED
    BY <2>2, <2>3
<1>4. rank \in Injection(S, 1..size)
  <2>1. rank \in [S -> 1..size]
    BY <1>2
  <2>2. ASSUME NEW n \in S, NEW k \in S, rank[n] = rank[k] PROVE n = k
    <3>1. Cardinality(below(n)) = Cardinality(below(k)) /\ Cardinality(below(n)) \in 1..size
      BY <1>2, <2>2
    <3>2. n \in Nat /\ k \in Nat /\ size \in Nat
      BY <1>1
    <3>. HIDE DEF below, size
    <3>. QED
      BY <1>3, <3>1, <3>2
  <2>. HIDE DEF rank
  <2>. QED
    BY <2>1, <2>2 DEF Injection, IsInjective
<1>5. rank \in Surjection(S, 1..size)
  <2>1. IsFiniteSet(1..size) /\ Cardinality(1..size) = size
    BY <1>1, FS_Interval
  <2>. QED
    BY <1>4, <2>1, FS_Injection, Zenon
<1>6. \A i \in 1..size : \E n \in S : Cardinality(below(n)) = i
  BY <1>5 DEF Surjection
<1>. QED
  BY <1>1, <1>2, <1>3, <1>6

\* The files in order: all of them, once each, the smallest name first.
LEMMA InOrderAll ==
  ASSUME NEW S \in SUBSET Names
  PROVE  /\ InOrder(S) \in Seq(Names) /\ Distinct(InOrder(S)) /\ BatchOf(InOrder(S)) = S
         /\ Increasing(InOrder(S))
<1>. DEFINE size == Cardinality(S)
            rank(n) == Cardinality({m \in S : m <= n})
            at(i) == CHOOSE n \in S : rank(n) = i
<1>1. /\ size \in Nat /\ S \subseteq Nat
      /\ \A n \in S : rank(n) \in 1..size
      /\ \A n, k \in S : n < k => rank(n) < rank(k)
      /\ \A i \in 1..size : \E n \in S : rank(n) = i
  BY InOrderRanks
<1>2. \A i \in 1..size : at(i) \in S /\ rank(at(i)) = i
  BY <1>1
<1>3. InOrder(S) = [i \in 1..size |-> at(i)]
  BY DEF InOrder
<1>4. \A n, k \in S : (rank(n) < rank(k) => n < k) /\ (rank(n) = rank(k) => n = k)
  <2>1. \A n \in S : rank(n) \in Nat /\ n \in Nat
    BY <1>1
  <2>. HIDE DEF rank
  <2>. QED
    BY <1>1, <2>1
<1>5. \A i, j \in 1..size : (i < j => at(i) < at(j)) /\ (at(i) = at(j) => i = j)
  <2>1. ASSUME NEW i \in 1..size, NEW j \in 1..size, i < j PROVE at(i) < at(j)
    <3>1. at(i) \in S /\ at(j) \in S /\ rank(at(i)) < rank(at(j))
      BY <1>2, <2>1
    <3>. HIDE DEF at, rank
    <3>. QED
      BY <1>4, <3>1
  <2>2. ASSUME NEW i \in 1..size, NEW j \in 1..size, at(i) = at(j) PROVE i = j
    BY <1>2, <2>2
  <2>. QED
    BY <2>1, <2>2
<1>6. \A n \in S : rank(n) \in 1..size /\ at(rank(n)) = n
  BY <1>1, <1>2, <1>4
<1>. HIDE DEF at, rank, size
<1>7. InOrder(S) \in Seq(Names)
  <2>1. InOrder(S) \in [1..size -> Names] /\ size \in Nat
    BY <1>1, <1>2, <1>3
  <2>. QED
    BY <2>1
<1>8. Distinct(InOrder(S)) /\ Increasing(InOrder(S))
  BY <1>3, <1>5 DEF Distinct, Increasing
<1>9. BatchOf(InOrder(S)) = S
  BY <1>2, <1>3, <1>6 DEF BatchOf
<1>. QED
  BY <1>7, <1>8, <1>9

-----------------------------------------------------------------------------
(* One owner.                                                              *)

Holds(w) == BatchOf(worker[w].left) \cup BatchOf(worker[w].good)

WorkerStates ==
  [pc : {"idle", "read", "apply", "table", "status"}, left : Seq(Names), good : Seq(Names),
   cpos : SUBSET Cpos, cpo : Cpos \cup {NoCpo}]

\* A worker has each file once, read or yet to be read, and none at rest.
InHand(st) ==
  /\ st \in WorkerStates /\ Distinct(st.left)
  /\ BatchOf(st.left) \cap BatchOf(st.good) = {}
  /\ st.pc = "idle" => st.left = << >> /\ st.good = << >>

Hands ==
  /\ scanned \in Seq(Names) /\ Distinct(scanned)
  /\ work \in Seq(Seq(Names)) /\ \A i \in DOMAIN work : Distinct(work[i])
  /\ DOMAIN worker = Workers /\ \A w \in Workers : InHand(worker[w])

Apart ==
  /\ \A i \in DOMAIN work : BatchOf(scanned) \cap BatchOf(work[i]) = {}
  /\ \A w \in Workers : BatchOf(scanned) \cap Holds(w) = {}
  /\ \A i, j \in DOMAIN work : i # j => BatchOf(work[i]) \cap BatchOf(work[j]) = {}
  /\ \A i \in DOMAIN work, w \in Workers : BatchOf(work[i]) \cap Holds(w) = {}
  /\ \A v, w \in Workers : v # w => Holds(v) \cap Holds(w) = {}

Claimed ==
  /\ BatchOf(scanned) \subseteq In("processing")
  /\ \A i \in DOMAIN work : BatchOf(work[i]) \subseteq In("processing")
  /\ \A w \in Workers : Holds(w) \subseteq In("processing")
  /\ \A n \in In("processing") :
       \/ n \in BatchOf(scanned)
       \/ \E i \in DOMAIN work : n \in BatchOf(work[i])
       \/ \E w \in Workers : n \in Holds(w)

\* The types, but for the workers' and the locks'.
FileTypes ==
  /\ sent \in [Cpos -> Nat] /\ \A c \in Cpos : sent[c] <= Len(Stream[c])
  /\ \A c \in Cpos : handler[c] # NoName => sent[c] < Len(Stream[c])
  /\ handler \in [Cpos -> 0..names]
  /\ names \in 0..MaxFiles /\ crashes \in 0..MaxCrashes
  /\ place \in [Names -> Places]
  /\ DOMAIN content = Names /\ \A n \in 1..names : content[n] \in Docs
  /\ acked \subseteq 1..names /\ stored \subseteq 1..names

RowTypes ==
  /\ known \subseteq Cpos
  /\ live \in [Cpos -> Statuses \cup {Blank}] /\ price \in [Cpos -> Prices \cup {NoPrice}]

Applying(st) == st.pc \in {"table", "status"}

Locks ==
  /\ lock \in [Cpos -> Workers \cup {NoWorker}]
  /\ \A c \in Cpos, w \in Workers : lock[c] = w <=> Applying(worker[w]) /\ worker[w].cpo = c
  /\ \A w \in Workers : Applying(worker[w]) => worker[w].cpo \in Cpos

OwnInv == FileTypes /\ RowTypes /\ Locks /\ Hands /\ Apart /\ Claimed

\* The constants, as the proofs need them.
LEMMA SpoolConstants ==
  /\ MaxFiles \in Nat /\ MaxCrashes \in Nat /\ NoWorker \notin Workers
  /\ \A c \in Cpos : Len(Stream[c]) \in Nat /\ \A i \in 1..Len(Stream[c]) : Stream[c][i] \in Docs
  /\ Static \subseteq Docs /\ Seeded \subseteq Cpos
<1>1. ASSUME NEW c \in Cpos
      PROVE  Len(Stream[c]) \in Nat /\ \A i \in 1..Len(Stream[c]) : Stream[c][i] \in Docs
  <2>1. Stream[c] \in Seq(Docs)
    BY SpoolAssumption
  <2>. QED
    BY <2>1, LenProperties, ElementOfSeq
<1>2. MaxFiles \in Nat /\ MaxCrashes \in Nat /\ NoWorker \notin Workers /\ Static \subseteq Docs
      /\ Seeded \subseteq Cpos
  BY SpoolAssumption
<1>. QED
  BY <1>1, <1>2

\* What the fields of a push are.
LEMMA DocFields ==
  ASSUME NEW d \in Docs, NEW old \in Prices \cup {NoPrice}
  PROVE  /\ d.cpo \in Cpos /\ d.status \in Statuses \cup {Blank}
         /\ PriceAfter(d, old) \in Prices \cup {NoPrice}
  BY DEF Docs, PriceAfter

\* The invariant is the property.
LEMMA OwnInvOwner == OwnInv => OneOwner
<1>. SUFFICES ASSUME OwnInv PROVE OneOwner
  OBVIOUS
<1>1. TypeOK
  BY DEF OwnInv, FileTypes, RowTypes, Locks, Applying, Hands, InHand, WorkerStates, TypeOK, Places
<1>2. ASSUME NEW h \in Batches, NEW k \in Batches, h # k PROVE h[3] \cap k[3] = {}
  <2>1. \/ h = <<"scanner", NoWorker, BatchOf(scanned)>>
        \/ \E i \in DOMAIN work : h = <<"channel", i, BatchOf(work[i])>>
        \/ \E w \in Workers : h = <<"worker", w, Holds(w)>>
    BY DEF Batches, Holds
  <2>2. \/ k = <<"scanner", NoWorker, BatchOf(scanned)>>
        \/ \E i \in DOMAIN work : k = <<"channel", i, BatchOf(work[i])>>
        \/ \E w \in Workers : k = <<"worker", w, Holds(w)>>
    BY DEF Batches, Holds
  <2>. QED
    BY <1>2, <2>1, <2>2 DEF OwnInv, Apart
<1>3. UNION {h[3] : h \in Batches} = In("processing")
  <2>1. ASSUME NEW h \in Batches PROVE h[3] \subseteq In("processing")
    BY DEF OwnInv, Claimed, Batches, Holds
  <2>2. ASSUME NEW n \in In("processing") PROVE \E h \in Batches : n \in h[3]
    <3>1. CASE n \in BatchOf(scanned)
      <4>1. <<"scanner", NoWorker, BatchOf(scanned)>> \in Batches
        BY DEF Batches
      <4>. QED
        BY <3>1, <4>1
    <3>2. ASSUME NEW i \in DOMAIN work, n \in BatchOf(work[i]) PROVE \E h \in Batches : n \in h[3]
      <4>1. <<"channel", i, BatchOf(work[i])>> \in Batches
        BY DEF Batches
      <4>. QED
        BY <3>2, <4>1
    <3>3. ASSUME NEW w \in Workers, n \in Holds(w) PROVE \E h \in Batches : n \in h[3]
      <4>1. <<"worker", w, Holds(w)>> \in Batches
        BY DEF Batches, Holds
      <4>. QED
        BY <3>3, <4>1
    <3>. QED
      BY <3>1, <3>2, <3>3 DEF OwnInv, Claimed
  <2>. QED
    BY <2>1, <2>2
<1>. QED
  BY <1>1, <1>2, <1>3 DEF OneOwner

\* Nothing is in anybody's hands at first.
LEMMA OwnInit == Init => OwnInv
<1>. SUFFICES ASSUME Init PROVE OwnInv
  OBVIOUS
<1>1. Idle \in WorkerStates /\ InHand(Idle) /\ ~Applying(Idle)
      /\ Idle.left = << >> /\ Idle.good = << >>
  BY EmptyBatch DEF Idle, WorkerStates, InHand, Applying
<1>2. FileTypes /\ RowTypes
  BY SpoolConstants DEF Init, FileTypes, RowTypes, Names, Places, NoName
<1>3. Locks
  BY <1>1, SpoolConstants DEF Init, Locks
<1>4. Hands
  BY <1>1, EmptyBatch DEF Init, Hands
<1>5. /\ BatchOf(scanned) = {} /\ DOMAIN work = {} /\ In("processing") = {}
      /\ \A w \in Workers : Holds(w) = {}
  BY <1>1, EmptyBatch DEF Init, Holds, In
<1>6. Apart /\ Claimed
  BY <1>5 DEF Apart, Claimed
<1>. QED
  BY <1>2, <1>3, <1>4, <1>6 DEF OwnInv

\* A step that changes no batch and claims no file.
LEMMA SameHands ==
  ASSUME OwnInv, UNCHANGED <<scanned, work, worker>>, In("processing")' = In("processing")
  PROVE  Hands' /\ Apart' /\ Claimed'
<1>1. BatchOf(scanned)' = BatchOf(scanned) /\ \A w \in Workers : Holds(w)' = Holds(w)
  BY DEF Holds
<1>2. DOMAIN work' = DOMAIN work /\ \A i \in DOMAIN work : BatchOf(work[i])' = BatchOf(work[i])
  OBVIOUS
<1>. QED
  BY <1>1, <1>2 DEF OwnInv, Hands, Apart, Claimed

\* A step of one worker that lets go of some of its files.
LEMMA LetGo ==
  ASSUME OwnInv, NEW w \in Workers, NEW st, InHand(st), worker' = [worker EXCEPT ![w] = st],
         BatchOf(st.left) \cup BatchOf(st.good) \subseteq Holds(w), UNCHANGED <<scanned, work>>,
         In("processing")' = In("processing") \ (Holds(w) \ (BatchOf(st.left) \cup BatchOf(st.good)))
  PROVE  Hands' /\ Apart' /\ Claimed'
<1>. DEFINE kept == BatchOf(st.left) \cup BatchOf(st.good)
<1>1. DOMAIN worker' = Workers /\ worker'[w] = st /\ \A v \in Workers \ {w} : worker'[v] = worker[v]
  BY DEF OwnInv, Hands
<1>2. Holds(w)' = kept /\ \A v \in Workers \ {w} : Holds(v)' = Holds(v)
  BY <1>1 DEF Holds
<1>3. BatchOf(scanned)' = BatchOf(scanned) /\ DOMAIN work' = DOMAIN work
      /\ \A i \in DOMAIN work : BatchOf(work[i])' = BatchOf(work[i])
  OBVIOUS
<1>4. Hands'
  BY <1>1 DEF OwnInv, Hands
<1>5. \A v \in Workers : Holds(v)' \subseteq Holds(v)
  BY <1>2
<1>6. Apart'
  BY <1>3, <1>5 DEF OwnInv, Apart
<1>7. Claimed'
  <2>1. /\ BatchOf(scanned) \cap Holds(w) = {}
        /\ \A i \in DOMAIN work : BatchOf(work[i]) \cap Holds(w) = {}
        /\ \A v \in Workers \ {w} : Holds(v) \cap Holds(w) = {}
    BY DEF OwnInv, Apart
  <2>0. kept \subseteq Holds(w)
    OBVIOUS
  <2>2. In("processing")' = In("processing") \ (Holds(w) \ kept)
    OBVIOUS
  <2>. HIDE DEF kept
  <2>3. /\ BatchOf(scanned)' \subseteq In("processing")'
        /\ \A i \in DOMAIN work' : BatchOf(work[i])' \subseteq In("processing")'
    BY <1>3, <2>1, <2>2 DEF OwnInv, Claimed
  <2>4. \A v \in Workers : Holds(v)' \subseteq In("processing")'
    <3>1. Holds(w)' \subseteq In("processing")'
      BY <1>2, <2>0, <2>2 DEF OwnInv, Claimed
    <3>2. \A v \in Workers \ {w} : Holds(v)' \subseteq In("processing")'
      BY <1>2, <2>1, <2>2 DEF OwnInv, Claimed
    <3>. QED
      BY <3>1, <3>2
  <2>5. ASSUME NEW n \in In("processing")'
        PROVE  \/ n \in BatchOf(scanned)'
               \/ \E i \in DOMAIN work' : n \in BatchOf(work[i])'
               \/ \E v \in Workers : n \in Holds(v)'
    <3>1. \/ n \in BatchOf(scanned)
          \/ \E i \in DOMAIN work : n \in BatchOf(work[i])
          \/ \E v \in Workers : n \in Holds(v)
      BY <2>2 DEF OwnInv, Claimed
    <3>. QED
      BY <1>2, <1>3, <2>2, <3>1
  <2>. QED
    BY <2>3, <2>4, <2>5 DEF Claimed
<1>. QED
  BY <1>4, <1>6, <1>7

\* The webhook's steps touch no claimed file.
LEMMA WebhookOwns ==
  ASSUME OwnInv, NEW c \in Cpos, Receive(c) \/ Rename(c) \/ Accept(c)
  PROVE  OwnInv'
<1>. USE SpoolConstants, NamesAreNat
<1>1. CASE Receive(c)
  <2>1. /\ names + 1 \in Names /\ names' = names + 1
        /\ content' = [content EXCEPT ![names + 1] = Stream[c][sent[c] + 1]]
        /\ place' = [place EXCEPT ![names + 1] = "tmp"]
        /\ handler' = [handler EXCEPT ![c] = names + 1]
        /\ UNCHANGED <<sent, acked, stored, crashes>>
    BY <1>1 DEF Receive, OwnInv, FileTypes, Names
  <2>2. Stream[c][sent[c] + 1] \in Docs
    <3>1. sent[c] + 1 \in 1..Len(Stream[c])
      BY <1>1 DEF Receive, OwnInv, FileTypes
    <3>. QED
      BY <3>1
  <2>3. FileTypes'
    <3>1. DOMAIN content' = Names /\ \A n \in 1..names' : content'[n] \in Docs
      BY <2>1, <2>2 DEF OwnInv, FileTypes, Names
    <3>2. place' \in [Names -> Places] /\ handler' \in [Cpos -> 0..names'] /\ names' \in 0..MaxFiles
      BY <2>1 DEF OwnInv, FileTypes, Names, Places
    <3>3. \A d \in Cpos : handler'[d] # NoName => sent'[d] < Len(Stream[d])
      BY <1>1, <2>1 DEF Receive, OwnInv, FileTypes
    <3>. QED
      BY <2>1, <3>1, <3>2, <3>3 DEF OwnInv, FileTypes
  <2>4. In("processing")' = In("processing")
    BY <2>1 DEF In, OwnInv, FileTypes, Names
  <2>5. Hands' /\ Apart' /\ Claimed'
    BY <1>1, <2>4, SameHands DEF Receive, drainer
  <2>6. RowTypes' /\ Locks'
    BY <1>1 DEF Receive, drainer, db, OwnInv, RowTypes, Locks
  <2>. QED
    BY <2>3, <2>5, <2>6 DEF OwnInv
<1>2. CASE Rename(c)
  <2>1. /\ handler[c] \in 1..names /\ place[handler[c]] = "tmp"
        /\ place' = [place EXCEPT ![handler[c]] = "incoming"]
        /\ UNCHANGED <<sent, handler, acked, names, content, stored, crashes>>
    BY <1>2 DEF Rename, broker, OwnInv, FileTypes, NoName
  <2>2. FileTypes'
    BY <2>1 DEF OwnInv, FileTypes, Places
  <2>3. In("processing")' = In("processing")
    BY <2>1 DEF In, OwnInv, FileTypes, Names
  <2>4. Hands' /\ Apart' /\ Claimed'
    BY <1>2, <2>3, SameHands DEF Rename, drainer
  <2>5. RowTypes' /\ Locks'
    BY <1>2 DEF Rename, drainer, db, OwnInv, RowTypes, Locks
  <2>. QED
    BY <2>2, <2>4, <2>5 DEF OwnInv
<1>3. CASE Accept(c)
  <2>1. /\ handler[c] \in 1..names /\ acked' = acked \cup {handler[c]}
        /\ handler' = [handler EXCEPT ![c] = NoName]
        /\ UNCHANGED <<names, content, place, stored, crashes>>
    BY <1>3 DEF Accept, spool, OwnInv, FileTypes, NoName
  <2>2. sent' \in [Cpos -> Nat] /\ \A d \in Cpos : sent'[d] <= Len(Stream[d])
    <3>1. sent' = [sent EXCEPT ![c] = @ + 1] \/ sent' = sent
      BY <1>3 DEF Accept
    <3>2. sent[c] \in Nat /\ sent[c] < Len(Stream[c])
      BY <1>3 DEF Accept, OwnInv, FileTypes
    <3>3. /\ sent \in [Cpos -> Nat] /\ \A d \in Cpos : sent[d] <= Len(Stream[d])
          /\ Len(Stream[c]) \in Nat
      BY DEF OwnInv, FileTypes
    <3>4. CASE sent' = [sent EXCEPT ![c] = @ + 1]
      <4>1. sent' \in [Cpos -> Nat] /\ sent'[c] = sent[c] + 1
        BY <3>2, <3>3, <3>4
      <4>2. \A d \in Cpos \ {c} : sent'[d] = sent[d]
        BY <3>3, <3>4
      <4>3. sent[c] + 1 <= Len(Stream[c])
        BY <3>2, <3>3
      <4>. QED
        BY <3>3, <4>1, <4>2, <4>3
    <3>. QED
      BY <3>1, <3>3, <3>4
  <2>3. \A d \in Cpos : handler'[d] # NoName => sent'[d] < Len(Stream[d])
    <3>1. \A d \in Cpos \ {c} : sent'[d] = sent[d] /\ handler'[d] = handler[d]
      BY <1>3 DEF Accept, OwnInv, FileTypes
    <3>2. handler'[c] = NoName
      BY <2>1 DEF OwnInv, FileTypes
    <3>. QED
      BY <3>1, <3>2 DEF OwnInv, FileTypes
  <2>31. FileTypes'
    <3>1. handler' \in [Cpos -> 0..names] /\ acked' \subseteq 1..names
      <4>1. names \in Nat /\ 0 \in 0..names /\ handler \in [Cpos -> 0..names]
        BY DEF OwnInv, FileTypes
      <4>2. handler' \in [Cpos -> 0..names]
        BY <2>1, <4>1 DEF NoName
      <4>3. acked' \subseteq 1..names
        BY <2>1 DEF OwnInv, FileTypes
      <4>. QED
        BY <4>2, <4>3
    <3>. QED
      BY <2>1, <2>2, <2>3, <3>1 DEF OwnInv, FileTypes
  <2>4. In("processing")' = In("processing")
    BY <2>1 DEF In
  <2>5. Hands' /\ Apart' /\ Claimed'
    BY <1>3, <2>4, SameHands DEF Accept, drainer
  <2>6. RowTypes' /\ Locks'
    BY <1>3 DEF Accept, drainer, db, OwnInv, RowTypes, Locks
  <2>. QED
    BY <2>31, <2>5, <2>6 DEF OwnInv
<1>. QED
  BY <1>1, <1>2, <1>3

\* The scanner's two steps move files from incoming/ to its batch, and the
\* batch to the channel.
LEMMA ScannerOwns ==
  ASSUME OwnInv, Claim \/ HandOver
  PROVE  OwnInv'
<1>. USE SpoolConstants, NamesAreNat
<1>1. CASE Claim
  <2>. DEFINE O == Oldest(SpoolBatch)
  <2>1. /\ scanned = << >> /\ scanned' = InOrder(O)
        /\ place' = [n \in Names |-> IF n \in O THEN "processing" ELSE place[n]]
        /\ UNCHANGED <<sent, handler, acked, names, content, stored, crashes, work, worker, lock,
                       known, live, price>>
    BY <1>1 DEF Claim, ClaimedTo, broker, db
  <2>2. O \subseteq In("incoming") /\ O \in SUBSET Names
    BY DEF Oldest, In, OwnInv, FileTypes, Names
  <2>. HIDE DEF O
  <2>3. InOrder(O) \in Seq(Names) /\ Distinct(InOrder(O)) /\ BatchOf(InOrder(O)) = O
    BY <2>2, InOrderAll
  <2>4. In("processing")' = In("processing") \cup O /\ O \cap In("processing") = {}
    <3>1. \A n \in 1..names : n \in Names
      BY DEF OwnInv, FileTypes, Names
    <3>2. \A n \in 1..names : place'[n] = IF n \in O THEN "processing" ELSE place[n]
      BY <2>1, <3>1
    <3>3. \A n \in O : n \in 1..names /\ place[n] = "incoming"
      BY <2>2 DEF In
    <3>. QED
      BY <2>1, <3>2, <3>3 DEF In
  <2>5. FileTypes'
    BY <2>1 DEF OwnInv, FileTypes, Places
  <2>6. RowTypes' /\ Locks' /\ Hands'
    BY <2>1, <2>3 DEF OwnInv, RowTypes, Locks, Hands
  <2>7. /\ BatchOf(scanned)' = O /\ BatchOf(scanned) = {}
        /\ \A w \in Workers : Holds(w)' = Holds(w)
        /\ \A i \in DOMAIN work : BatchOf(work[i])' = BatchOf(work[i])
    BY <2>1, <2>3, EmptyBatch DEF Holds
  <2>8. /\ \A w \in Workers : Holds(w) \subseteq In("processing")
        /\ \A i \in DOMAIN work : BatchOf(work[i]) \subseteq In("processing")
    BY DEF OwnInv, Claimed
  <2>9. Apart'
    BY <2>1, <2>4, <2>7, <2>8 DEF OwnInv, Apart
  <2>10. Claimed'
    BY <2>1, <2>4, <2>7 DEF OwnInv, Claimed
  <2>. QED
    BY <2>5, <2>6, <2>9, <2>10 DEF OwnInv
<1>2. CASE HandOver
  <2>1. /\ work' = Append(work, scanned) /\ scanned' = << >>
        /\ UNCHANGED <<sent, handler, acked, names, content, place, stored, crashes, worker, lock,
                       known, live, price>>
    BY <1>2 DEF HandOver, broker, spool, db
  <2>2. work \in Seq(Seq(Names)) /\ scanned \in Seq(Names)
    BY DEF OwnInv, Hands
  <2>3. /\ work' \in Seq(Seq(Names)) /\ Len(work) \in Nat /\ DOMAIN work = 1..Len(work)
        /\ DOMAIN work' = 1..(Len(work) + 1)
        /\ \A i \in 1..Len(work) : work'[i] = work[i]
        /\ work'[Len(work) + 1] = scanned
    BY <2>1, <2>2, AppendProperties, LenProperties
  <2>4. FileTypes' /\ RowTypes' /\ Locks'
    BY <2>1 DEF OwnInv, FileTypes, RowTypes, Locks
  <2>5. Hands'
    BY <2>1, <2>3, EmptyBatch DEF OwnInv, Hands
  <2>6. /\ BatchOf(scanned)' = {} /\ \A w \in Workers : Holds(w)' = Holds(w)
        /\ In("processing")' = In("processing")
        /\ \A i \in 1..Len(work) : BatchOf(work[i])' = BatchOf(work[i])
        /\ BatchOf(work'[Len(work) + 1]) = BatchOf(scanned)
    BY <2>1, <2>3, EmptyBatch DEF Holds, In
  <2>7. \A i \in 1..(Len(work) + 1) : i \in 1..Len(work) \/ i = Len(work) + 1
    BY <2>3
  <2>8. Apart'
    <3>1. \A i \in DOMAIN work', w \in Workers : BatchOf(work[i])' \cap Holds(w)' = {}
      BY <2>3, <2>6, <2>7 DEF OwnInv, Apart
    <3>2. \A i, j \in DOMAIN work' : i # j => BatchOf(work[i])' \cap BatchOf(work[j])' = {}
      <4>1. \A i, j \in 1..Len(work) : i # j => BatchOf(work[i]) \cap BatchOf(work[j]) = {}
        BY <2>3 DEF OwnInv, Apart
      <4>2. \A i \in 1..Len(work) : BatchOf(scanned) \cap BatchOf(work[i]) = {}
        BY <2>3 DEF OwnInv, Apart
      <4>. QED
        BY <2>3, <2>6, <2>7, <4>1, <4>2
    <3>. QED
      BY <2>6, <3>1, <3>2 DEF OwnInv, Apart
  <2>9. Claimed'
    <3>1. BatchOf(scanned)' \subseteq In("processing")'
      BY <2>6
    <3>2. \A i \in DOMAIN work' : BatchOf(work[i])' \subseteq In("processing")'
      <4>1. BatchOf(scanned) \subseteq In("processing")
        BY DEF OwnInv, Claimed
      <4>2. \A i \in 1..Len(work) : BatchOf(work[i]) \subseteq In("processing")
        BY <2>3 DEF OwnInv, Claimed
      <4>. QED
        BY <2>3, <2>6, <2>7, <4>1, <4>2
    <3>3. \A w \in Workers : Holds(w)' \subseteq In("processing")'
      BY <2>6 DEF OwnInv, Claimed
    <3>4. ASSUME NEW n \in In("processing")'
          PROVE  (\E i \in DOMAIN work' : n \in BatchOf(work[i])') \/ \E w \in Workers : n \in Holds(w)'
      <4>1. CASE n \in BatchOf(scanned)
        BY <2>3, <2>6, <4>1
      <4>2. CASE \E i \in DOMAIN work : n \in BatchOf(work[i])
        BY <2>3, <2>6, <4>2
      <4>3. CASE \E w \in Workers : n \in Holds(w)
        BY <2>6, <4>3
      <4>. QED
        BY <2>6, <3>4, <4>1, <4>2, <4>3 DEF OwnInv, Claimed
    <3>. QED
      BY <3>1, <3>2, <3>3, <3>4 DEF Claimed
  <2>. QED
    BY <2>4, <2>5, <2>8, <2>9 DEF OwnInv
<1>. QED
  BY <1>1, <1>2

\* A worker takes the head of the channel.
LEMMA TakeOwns ==
  ASSUME OwnInv, NEW w \in Workers, Take(w)
  PROVE  OwnInv'
<1>. DEFINE st == [Idle EXCEPT !.pc = "read", !.left = Head(work)]
<1>1. /\ worker[w].pc = "idle" /\ work # << >> /\ work' = Tail(work)
      /\ worker' = [worker EXCEPT ![w] = st]
      /\ UNCHANGED <<sent, handler, acked, names, content, place, stored, crashes, scanned, lock,
                     known, live, price>>
  BY DEF Take, broker, spool, db
<1>2. /\ Len(work) \in Nat /\ Len(work) # 0 /\ DOMAIN work = 1..Len(work)
      /\ Head(work) = work[1] /\ Head(work) \in Seq(Names)
      /\ work' \in Seq(Seq(Names)) /\ DOMAIN work' = 1..(Len(work) - 1)
      /\ \A i \in 1..(Len(work) - 1) : work'[i] = work[i + 1]
  <2>1. work \in Seq(Seq(Names))
    BY DEF OwnInv, Hands
  <2>. QED
    BY <1>1, <2>1, HeadTailProperties, LenProperties, EmptySeq
<1>3. 1 \in DOMAIN work /\ \A i \in DOMAIN work' : i + 1 \in DOMAIN work /\ i + 1 # 1
  BY <1>2
<1>4. st \in WorkerStates /\ st.left = work[1] /\ st.good = << >> /\ st.pc = "read"
  BY <1>2, EmptyBatch DEF Idle, WorkerStates
<1>. HIDE DEF st
<1>5. InHand(st)
  BY <1>3, <1>4, EmptyBatch DEF InHand, OwnInv, Hands
<1>6. DOMAIN worker' = Workers /\ worker'[w] = st /\ \A v \in Workers \ {w} : worker'[v] = worker[v]
  BY <1>1 DEF OwnInv, Hands
<1>7. Hands'
  BY <1>1, <1>2, <1>3, <1>5, <1>6 DEF OwnInv, Hands
<1>8. FileTypes' /\ RowTypes'
  BY <1>1 DEF OwnInv, FileTypes, RowTypes
<1>9. Locks'
  BY <1>1, <1>4, <1>6 DEF OwnInv, Locks, Applying
<1>10. /\ Holds(w)' = BatchOf(work[1]) /\ Holds(w) = {}
       /\ \A v \in Workers \ {w} : Holds(v)' = Holds(v)
       /\ BatchOf(scanned)' = BatchOf(scanned) /\ In("processing")' = In("processing")
       /\ \A i \in DOMAIN work' : BatchOf(work'[i]) = BatchOf(work[i + 1])
  BY <1>1, <1>2, <1>4, <1>6, EmptyBatch DEF Holds, In, OwnInv, Hands, InHand
<1>11. Apart'
  <2>1. ASSUME NEW i \in DOMAIN work', NEW j \in DOMAIN work', i # j
        PROVE  BatchOf(work'[i]) \cap BatchOf(work'[j]) = {}
    <3>1. i + 1 # j + 1
      BY <1>2, <2>1
    <3>. QED
      BY <1>3, <1>10, <3>1 DEF OwnInv, Apart
  <2>2. ASSUME NEW i \in DOMAIN work'
        PROVE  BatchOf(scanned)' \cap BatchOf(work'[i]) = {}
    BY <1>3, <1>10 DEF OwnInv, Apart
  <2>3. ASSUME NEW v \in Workers PROVE BatchOf(scanned)' \cap Holds(v)' = {}
    BY <1>3, <1>10 DEF OwnInv, Apart
  <2>4. ASSUME NEW i \in DOMAIN work', NEW v \in Workers
        PROVE  BatchOf(work'[i]) \cap Holds(v)' = {}
    BY <1>3, <1>10 DEF OwnInv, Apart
  <2>5. ASSUME NEW u \in Workers, NEW v \in Workers, u # v
        PROVE  Holds(u)' \cap Holds(v)' = {}
    BY <1>3, <1>10, <2>5 DEF OwnInv, Apart
  <2>. QED
    BY <2>1, <2>2, <2>3, <2>4, <2>5 DEF Apart
<1>12. Claimed'
  <2>1. ASSUME NEW n \in In("processing")
        PROVE  \/ n \in BatchOf(scanned)'
               \/ \E i \in DOMAIN work' : n \in BatchOf(work'[i])
               \/ \E v \in Workers : n \in Holds(v)'
    <3>1. ASSUME NEW i \in DOMAIN work, n \in BatchOf(work[i]), i # 1
          PROVE  \E k \in DOMAIN work' : n \in BatchOf(work'[k])
      <4>1. i - 1 \in DOMAIN work' /\ work[i] = work'[i - 1]
        BY <1>2, <3>1
      <4>. QED
        BY <3>1, <4>1
    <3>2. \/ n \in BatchOf(scanned)
          \/ \E i \in DOMAIN work : n \in BatchOf(work[i])
          \/ \E v \in Workers : n \in Holds(v)
      BY DEF OwnInv, Claimed
    <3>. QED
      BY <1>10, <3>1, <3>2
  <2>2. \A v \in Workers : Holds(v)' \subseteq In("processing")
    BY <1>3, <1>10 DEF OwnInv, Claimed
  <2>3. \A i \in DOMAIN work' : BatchOf(work'[i]) \subseteq In("processing")
    BY <1>3, <1>10 DEF OwnInv, Claimed
  <2>. QED
    BY <1>10, <2>1, <2>2, <2>3 DEF OwnInv, Claimed
<1>. QED
  BY <1>7, <1>8, <1>9, <1>11, <1>12 DEF OwnInv

\* The process dies: all that was claimed is to be claimed again.
LEMMA RestartOwns ==
  ASSUME OwnInv, Restart
  PROVE  OwnInv'
<1>. USE SpoolConstants, NamesAreNat
<1>1. Idle \in WorkerStates /\ InHand(Idle) /\ ~Applying(Idle)
      /\ Idle.left = << >> /\ Idle.good = << >>
  BY EmptyBatch DEF Idle, WorkerStates, InHand, Applying
<1>2. /\ crashes' = crashes + 1 /\ crashes < MaxCrashes
      /\ place' = [n \in Names |-> IF place[n] = "processing" THEN "incoming" ELSE place[n]]
      /\ handler' = [c \in Cpos |-> NoName] /\ scanned' = << >> /\ work' = << >>
      /\ worker' = [w \in Workers |-> Idle] /\ lock' = [c \in Cpos |-> NoWorker]
      /\ UNCHANGED <<sent, acked, names, content, stored, known, live, price>>
  BY DEF Restart, Recovered, db
<1>3. FileTypes'
  <2>1. crashes' \in 0..MaxCrashes /\ place' \in [Names -> Places]
    BY <1>2 DEF OwnInv, FileTypes, Places
  <2>2. handler' \in [Cpos -> 0..names] /\ \A c \in Cpos : handler'[c] = NoName
    BY <1>2 DEF OwnInv, FileTypes, NoName
  <2>. QED
    BY <1>2, <2>1, <2>2 DEF OwnInv, FileTypes
<1>4. RowTypes' /\ Locks'
  BY <1>1, <1>2 DEF OwnInv, RowTypes, Locks
<1>5. Hands'
  BY <1>1, <1>2, EmptyBatch DEF Hands
<1>6. /\ BatchOf(scanned)' = {} /\ DOMAIN work' = {} /\ In("processing")' = {}
      /\ \A w \in Workers : Holds(w)' = {}
  BY <1>1, <1>2, EmptyBatch DEF Holds, In, OwnInv, FileTypes, Names
<1>7. Apart' /\ Claimed'
  BY <1>6 DEF Apart, Claimed
<1>. QED
  BY <1>3, <1>4, <1>5, <1>7 DEF OwnInv

\* A pull in the other process writes rows and no more.
LEMMA ReconcileOwns ==
  ASSUME OwnInv, NEW d \in Static, Reconcile(d)
  PROVE  OwnInv'
<1>1. d \in Docs /\ d.cpo \in Cpos /\ price[d.cpo] \in Prices \cup {NoPrice}
  BY SpoolConstants, DocFields DEF OwnInv, RowTypes, Docs
<1>2. d.status \in Statuses \cup {Blank} /\ PriceAfter(d, price[d.cpo]) \in Prices \cup {NoPrice}
  BY <1>1, DocFields
<1>3. RowTypes'
  BY <1>1, <1>2 DEF Reconcile, OwnInv, RowTypes
<1>4. FileTypes' /\ Locks'
  BY DEF Reconcile, broker, spool, drainer, OwnInv, FileTypes, Locks
<1>5. In("processing")' = In("processing")
  BY DEF Reconcile, spool, In
<1>6. Hands' /\ Apart' /\ Claimed'
  BY <1>5, SameHands DEF Reconcile, drainer
<1>. QED
  BY <1>3, <1>4, <1>6 DEF OwnInv

\* A step of a worker that neither takes nor frees a lock.
LEMMA SameLocks ==
  ASSUME OwnInv, NEW w \in Workers, NEW st, worker' = [worker EXCEPT ![w] = st],
         Applying(st) <=> Applying(worker[w]), Applying(st) => st.cpo = worker[w].cpo,
         lock' = lock
  PROVE  Locks'
<1>1. worker'[w] = st /\ \A v \in Workers \ {w} : worker'[v] = worker[v]
  BY DEF OwnInv, Hands
<1>. HIDE DEF Applying
<1>2. ASSUME NEW v \in Workers
      PROVE  /\ Applying(worker'[v]) <=> Applying(worker[v])
             /\ Applying(worker[v]) => worker'[v].cpo = worker[v].cpo
  BY <1>1
<1>. QED
  BY <1>2 DEF OwnInv, Locks

\* The file a worker reads is one it has claimed.
LEMMA FileRead ==
  ASSUME OwnInv, NEW w \in Workers, worker[w].left # << >>
  PROVE  LET n == Head(worker[w].left)
             left == Tail(worker[w].left)
         IN  /\ n \in Names /\ n \in 1..names /\ n \in In("processing") /\ content[n] \in Docs
             /\ n \in BatchOf(worker[w].left) /\ n \notin BatchOf(worker[w].good)
             /\ left \in Seq(Names) /\ Distinct(left)
             /\ BatchOf(left) = BatchOf(worker[w].left) \ {n}
<1>. DEFINE n == Head(worker[w].left)
<1>1. worker[w].left \in Seq(Names) /\ Distinct(worker[w].left)
      /\ BatchOf(worker[w].left) \cap BatchOf(worker[w].good) = {}
  BY DEF OwnInv, Hands, InHand, WorkerStates
<1>2. /\ n \in BatchOf(worker[w].left) /\ Tail(worker[w].left) \in Seq(Names)
      /\ Distinct(Tail(worker[w].left))
      /\ BatchOf(Tail(worker[w].left)) = BatchOf(worker[w].left) \ {n}
  BY <1>1, BatchTail
<1>3. n \in Names
  BY <1>1, HeadTailProperties
<1>4. n \in In("processing")
  BY <1>2 DEF OwnInv, Claimed, Holds
<1>5. n \in 1..names /\ content[n] \in Docs
  BY <1>4 DEF In, OwnInv, FileTypes
<1>. QED
  BY <1>1, <1>2, <1>3, <1>4, <1>5

\* A worker has read a file that is done with.
LEMMA ReadAway ==
  ASSUME OwnInv, NEW w \in Workers, worker[w].pc = "read", worker[w].left # << >>,
         worker' = [worker EXCEPT ![w].left = Tail(@)],
         NEW dir \in {"failed", "gone"}, place' = [place EXCEPT ![Head(worker[w].left)] = dir],
         stored' \in {stored, stored \cup {Head(worker[w].left)}},
         UNCHANGED <<sent, handler, acked, names, content, crashes, scanned, work, lock>>
  PROVE  FileTypes' /\ Locks' /\ Hands' /\ Apart' /\ Claimed'
<1>. DEFINE n == Head(worker[w].left)
            st == [worker[w] EXCEPT !.left = Tail(@)]
<1>1. /\ n \in Names /\ n \in 1..names /\ n \in In("processing")
      /\ n \in BatchOf(worker[w].left) /\ n \notin BatchOf(worker[w].good)
      /\ Tail(worker[w].left) \in Seq(Names) /\ Distinct(Tail(worker[w].left))
      /\ BatchOf(Tail(worker[w].left)) = BatchOf(worker[w].left) \ {n}
  BY FileRead
<1>2. worker[w] \in WorkerStates /\ InHand(worker[w])
  BY DEF OwnInv, Hands, InHand
<1>3. /\ st \in WorkerStates /\ st.left = Tail(worker[w].left) /\ st.good = worker[w].good
      /\ st.pc = "read" /\ st.cpo = worker[w].cpo
  BY <1>1, <1>2 DEF WorkerStates
<1>4. worker' = [worker EXCEPT ![w] = st]
  BY DEF OwnInv, Hands
<1>. HIDE DEF st, n
<1>5. InHand(st)
  BY <1>1, <1>2, <1>3 DEF InHand
<1>6. place' = [place EXCEPT ![n] = dir]
  BY DEF n
<1>7. In("processing")' = In("processing") \ {n}
  BY <1>1, <1>6 DEF In, OwnInv, FileTypes
<1>8. /\ BatchOf(st.left) \cup BatchOf(st.good) \subseteq Holds(w)
      /\ Holds(w) \ (BatchOf(st.left) \cup BatchOf(st.good)) = {n}
  BY <1>1, <1>3 DEF Holds
<1>9. Hands' /\ Apart' /\ Claimed'
  BY <1>4, <1>5, <1>7, <1>8, LetGo
<1>10. Locks'
  BY <1>3, <1>4, SameLocks DEF Applying
<1>11. FileTypes'
  <2>1. stored' \subseteq 1..names
    BY <1>1 DEF OwnInv, FileTypes, n
  <2>2. place' \in [Names -> Places]
    BY <1>1, <1>6 DEF OwnInv, FileTypes, Places
  <2>. QED
    BY <2>1, <2>2 DEF OwnInv, FileTypes
<1>. QED
  BY <1>9, <1>10, <1>11

\* A worker's step that keeps its files: only its place in the work changes.
LEMMA KeepsFiles ==
  ASSUME OwnInv, NEW w \in Workers, NEW st \in WorkerStates,
         worker' = [worker EXCEPT ![w] = st], st.left = worker[w].left, st.good = worker[w].good,
         st.pc # "idle", stored' \subseteq stored \cup BatchOf(worker[w].good),
         UNCHANGED <<sent, handler, acked, names, content, place, crashes, scanned, work>>
  PROVE  FileTypes' /\ Hands' /\ Apart' /\ Claimed'
<1>1. InHand(st)
  BY DEF OwnInv, Hands, InHand
<1>2. BatchOf(st.left) \cup BatchOf(st.good) = Holds(w) /\ In("processing")' = In("processing")
  BY DEF Holds, In
<1>3. Hands' /\ Apart' /\ Claimed'
  BY <1>1, <1>2, LetGo
<1>4. BatchOf(worker[w].good) \subseteq 1..names
  BY DEF OwnInv, Claimed, Holds, In
<1>5. FileTypes'
  BY <1>4 DEF OwnInv, FileTypes
<1>. QED
  BY <1>3, <1>5

\* What the rows take from a fold are files of the batch.
LEMMA CarriedFiles ==
  ASSUME NEW w \in Workers, NEW kind
  PROVE  Carried(w, kind) \subseteq BatchOf(worker[w].good)
BY DEF Carried, BatchOf

\* Reading a file: junk and overlays are done with, the rest waits.
LEMMA ReadOwns ==
  ASSUME OwnInv, NEW w \in Workers, ReadBad(w) \/ ReadOverlay(w) \/ ReadDoc(w)
  PROVE  OwnInv'
<1>. DEFINE n == Head(worker[w].left)
<1>0. worker[w].pc = "read" /\ worker[w].left # << >>
  BY DEF ReadBad, ReadOverlay, ReadDoc
<1>1. CASE ReadBad(w)
  <2>1. FileTypes' /\ Locks' /\ Hands' /\ Apart' /\ Claimed'
    BY <1>0, <1>1, ReadAway DEF ReadBad, broker
  <2>2. RowTypes'
    BY <1>1 DEF ReadBad, db, OwnInv, RowTypes
  <2>. QED
    BY <2>1, <2>2 DEF OwnInv
<1>2. CASE ReadOverlay(w)
  <2>1. FileTypes' /\ Locks' /\ Hands' /\ Apart' /\ Claimed'
    <3>1. /\ worker' = [worker EXCEPT ![w].left = Tail(@)] /\ place' = [place EXCEPT ![n] = "gone"]
          /\ stored' \in {stored, stored \cup {n}}
          /\ UNCHANGED <<sent, handler, acked, names, content, crashes, scanned, work, lock>>
      BY <1>2 DEF ReadOverlay, broker
    <3>. QED
      BY <1>0, <3>1, ReadAway
  <2>2. content[n] \in Docs
    BY <1>0, FileRead
  <2>3. content[n].cpo \in Cpos
    BY <2>2 DEF Docs
  <2>4. /\ content[n].status \in Statuses \cup {Blank}
        /\ PriceAfter(content[n], price[content[n].cpo]) \in Prices \cup {NoPrice}
    BY <2>2, <2>3, DocFields DEF OwnInv, RowTypes
  <2>5. RowTypes'
    <3>1. known' = known
      BY <1>2 DEF ReadOverlay
    <3>2. live' \in [Cpos -> Statuses \cup {Blank}]
      BY <1>2, <2>3, <2>4 DEF ReadOverlay, OwnInv, RowTypes
    <3>3. price' \in [Cpos -> Prices \cup {NoPrice}]
      BY <1>2, <2>3, <2>4 DEF ReadOverlay, OwnInv, RowTypes
    <3>. QED
      BY <3>1, <3>2, <3>3 DEF OwnInv, RowTypes
  <2>. QED
    BY <2>1, <2>5 DEF OwnInv
<1>3. CASE ReadDoc(w)
  <2>. DEFINE st == [worker[w] EXCEPT !.left = Tail(@), !.good = Append(@, n),
                                      !.cpos = @ \cup {content[n].cpo}]
  <2>1. /\ n \in Names /\ content[n] \in Docs /\ content[n].cpo \in Cpos
        /\ n \in BatchOf(worker[w].left)
        /\ Tail(worker[w].left) \in Seq(Names) /\ Distinct(Tail(worker[w].left))
        /\ BatchOf(Tail(worker[w].left)) = BatchOf(worker[w].left) \ {n}
    BY <1>0, FileRead DEF Docs
  <2>2. worker[w] \in WorkerStates /\ InHand(worker[w])
    BY DEF OwnInv, Hands, InHand
  <2>3. /\ Append(worker[w].good, n) \in Seq(Names)
        /\ BatchOf(Append(worker[w].good, n)) = BatchOf(worker[w].good) \cup {n}
    BY <2>1, <2>2, BatchAppend DEF WorkerStates
  <2>4. /\ st \in WorkerStates /\ st.left = Tail(worker[w].left)
        /\ st.good = Append(worker[w].good, n) /\ st.pc = "read" /\ st.cpo = worker[w].cpo
    BY <1>0, <2>1, <2>2, <2>3 DEF WorkerStates
  <2>5. worker' = [worker EXCEPT ![w] = st]
    BY <1>3 DEF ReadDoc, OwnInv, Hands
  <2>6. UNCHANGED <<sent, handler, acked, names, content, place, stored, crashes, scanned, work, lock,
                    known, live, price>>
    BY <1>3 DEF ReadDoc, broker, spool, db
  <2>. HIDE DEF st, n
  <2>7. InHand(st)
    BY <2>1, <2>2, <2>3, <2>4 DEF InHand
  <2>8. BatchOf(st.left) \cup BatchOf(st.good) = Holds(w) /\ In("processing")' = In("processing")
    BY <2>1, <2>3, <2>4, <2>6 DEF Holds, In
  <2>9. Hands' /\ Apart' /\ Claimed'
    BY <2>5, <2>6, <2>7, <2>8, LetGo
  <2>10. Locks'
    BY <1>0, <2>4, <2>5, <2>6, SameLocks DEF Applying
  <2>11. FileTypes' /\ RowTypes'
    BY <2>6 DEF OwnInv, FileTypes, RowTypes
  <2>. QED
    BY <2>9, <2>10, <2>11 DEF OwnInv
<1>. QED
  BY <1>1, <1>2, <1>3

\* What a worker folds are pushes.
LEMMA NewestDocs ==
  ASSUME OwnInv, NEW w \in Workers, NEW kind, NEW d \in Newest(w, kind)
  PROVE  d \in Docs
<1>1. PICK i \in DOMAIN worker[w].good : d = content[worker[w].good[i]]
  BY DEF Newest
<1>2. worker[w].good[i] \in In("processing")
  BY DEF OwnInv, Claimed, Holds, BatchOf
<1>. QED
  BY <1>1, <1>2 DEF In, OwnInv, FileTypes

\* The rows after the newest of a fold has been applied.
LEMMA RowsApplied ==
  ASSUME OwnInv, NEW c \in Cpos, NEW d \in Docs,
         known' \in {known, known \cup {c}}, live' = [live EXCEPT ![c] = d.status],
         price' = [price EXCEPT ![c] = PriceAfter(d, @)]
  PROVE  RowTypes'
<1>1. price[c] \in Prices \cup {NoPrice}
  BY DEF OwnInv, RowTypes
<1>2. d.status \in Statuses \cup {Blank} /\ PriceAfter(d, price[c]) \in Prices \cup {NoPrice}
  BY <1>1, DocFields
<1>3. known' \subseteq Cpos
  BY DEF OwnInv, RowTypes
<1>4. live' \in [Cpos -> Statuses \cup {Blank}]
  BY <1>2 DEF OwnInv, RowTypes
<1>5. price' \in [Cpos -> Prices \cup {NoPrice}]
  BY <1>2 DEF OwnInv, RowTypes
<1>. QED
  BY <1>3, <1>4, <1>5 DEF RowTypes

\* Taking an operator's lock.
LEMMA LockOwns ==
  ASSUME OwnInv, NEW w \in Workers, NEW c \in Cpos, LockCpo(w, c)
  PROVE  OwnInv'
<1>. DEFINE st == [worker[w] EXCEPT !.pc = "table", !.cpo = c]
<1>1. /\ worker[w].pc \in {"read", "apply"} /\ lock[c] = NoWorker
      /\ lock' = [lock EXCEPT ![c] = w]
      /\ UNCHANGED <<sent, handler, acked, names, content, place, stored, crashes, scanned, work,
                     known, live, price>>
  BY DEF LockCpo, LockFree, broker, spool, db
<1>2. worker[w] \in WorkerStates
  BY DEF OwnInv, Hands, InHand
<1>3. /\ st \in WorkerStates /\ st.left = worker[w].left /\ st.good = worker[w].good
      /\ st.pc = "table" /\ st.cpo = c
  BY <1>2 DEF WorkerStates
<1>4. worker' = [worker EXCEPT ![w] = st]
  BY DEF LockCpo, OwnInv, Hands
<1>. HIDE DEF st
<1>5. FileTypes' /\ Hands' /\ Apart' /\ Claimed'
  BY <1>1, <1>3, <1>4, KeepsFiles
<1>6. worker'[w] = st /\ \A v \in Workers \ {w} : worker'[v] = worker[v]
  BY <1>4 DEF OwnInv, Hands
<1>7. Locks'
  <2>1. ~Applying(worker[w]) /\ Applying(st)
    BY <1>1, <1>3 DEF Applying
  <2>2. lock' \in [Cpos -> Workers \cup {NoWorker}]
    BY <1>1 DEF OwnInv, Locks
  <2>3. ASSUME NEW d \in Cpos, NEW v \in Workers
        PROVE  lock'[d] = v <=> Applying(worker'[v]) /\ worker'[v].cpo = d
    BY <1>1, <1>3, <1>6, <2>1, SpoolConstants DEF OwnInv, Locks
  <2>4. \A v \in Workers : Applying(worker'[v]) => worker'[v].cpo \in Cpos
    BY <1>3, <1>6 DEF OwnInv, Locks
  <2>. QED
    BY <2>2, <2>3, <2>4 DEF Locks
<1>8. RowTypes'
  BY <1>1 DEF OwnInv, RowTypes
<1>. QED
  BY <1>5, <1>7, <1>8 DEF OwnInv

\* Applying an operator's table.
LEMMA TableOwns ==
  ASSUME OwnInv, NEW w \in Workers, ApplyTable(w)
  PROVE  OwnInv'
<1>. DEFINE c == worker[w].cpo
            st == [worker[w] EXCEPT !.pc = "status"]
<1>1. /\ worker[w].pc = "table"
      /\ stored' \in {stored, stored \cup Carried(w, "table")}
      /\ UNCHANGED <<sent, handler, acked, names, content, place, crashes, scanned, work, lock>>
  BY DEF ApplyTable, broker, spool
<1>2. worker[w] \in WorkerStates /\ c \in Cpos
  BY <1>1 DEF OwnInv, Hands, InHand, Locks, Applying
<1>3. /\ st \in WorkerStates /\ st.left = worker[w].left /\ st.good = worker[w].good
      /\ st.pc = "status" /\ st.cpo = c
  BY <1>2 DEF WorkerStates
<1>4. worker' = [worker EXCEPT ![w] = st]
  BY DEF ApplyTable, OwnInv, Hands
<1>5. RowTypes'
  <2>1. CASE UNCHANGED db
    BY <2>1 DEF db, OwnInv, RowTypes
  <2>2. ASSUME NEW d \in Newest(w, "table"), known' = known \cup {c},
               live' = [live EXCEPT ![c] = d.status], price' = [price EXCEPT ![c] = PriceAfter(d, @)]
        PROVE  RowTypes'
    BY <1>2, <2>2, NewestDocs, RowsApplied
  <2>. QED
    BY <2>1, <2>2 DEF ApplyTable
<1>. HIDE DEF st, c
<1>6. stored' \subseteq stored \cup BatchOf(worker[w].good)
  BY <1>1, CarriedFiles
<1>7. FileTypes' /\ Hands' /\ Apart' /\ Claimed'
  BY <1>1, <1>3, <1>4, <1>6, KeepsFiles
<1>8. Locks'
  BY <1>1, <1>3, <1>4, SameLocks DEF Applying, c
<1>. QED
  BY <1>5, <1>7, <1>8 DEF OwnInv

\* Applying an operator's statuses and letting go of its lock.
LEMMA StatusesOwn ==
  ASSUME OwnInv, NEW w \in Workers, ApplyStatuses(w)
  PROVE  OwnInv'
<1>. DEFINE c == worker[w].cpo
            st == [worker[w] EXCEPT !.pc = "apply", !.cpos = @ \ {c}]
<1>1. /\ worker[w].pc = "status" /\ lock' = [lock EXCEPT ![c] = NoWorker]
      /\ stored' \in {stored, stored \cup Carried(w, "status")}
      /\ UNCHANGED <<sent, handler, acked, names, content, place, crashes, scanned, work>>
  BY DEF ApplyStatuses, broker, spool
<1>2. worker[w] \in WorkerStates /\ c \in Cpos /\ lock[c] = w
  BY <1>1 DEF OwnInv, Hands, InHand, Locks, Applying
<1>3. /\ st \in WorkerStates /\ st.left = worker[w].left /\ st.good = worker[w].good
      /\ st.pc = "apply" /\ st.cpo = c
  <2>1. worker[w].cpos \ {c} \subseteq Cpos
    BY <1>2 DEF WorkerStates
  <2>. QED
    BY <1>2, <2>1 DEF WorkerStates
<1>4. worker' = [worker EXCEPT ![w] = st]
  BY DEF ApplyStatuses, OwnInv, Hands
<1>5. RowTypes'
  <2>1. CASE UNCHANGED db
    BY <2>1 DEF db, OwnInv, RowTypes
  <2>2. ASSUME NEW d \in Newest(w, "status"), known' = known,
               live' = [live EXCEPT ![c] = d.status], price' = [price EXCEPT ![c] = PriceAfter(d, @)]
        PROVE  RowTypes'
    BY <1>2, <2>2, NewestDocs, RowsApplied
  <2>3. \/ UNCHANGED db
        \/ \E d \in Newest(w, "status") :
             /\ known' = known /\ live' = [live EXCEPT ![c] = d.status]
             /\ price' = [price EXCEPT ![c] = PriceAfter(d, @)]
    BY DEF ApplyStatuses
  <2>. QED
    BY <2>1, <2>2, <2>3
<1>. HIDE DEF st, c
<1>6. stored' \subseteq stored \cup BatchOf(worker[w].good)
  BY <1>1, CarriedFiles
<1>7. FileTypes' /\ Hands' /\ Apart' /\ Claimed'
  BY <1>1, <1>3, <1>4, <1>6, KeepsFiles
<1>8. worker'[w] = st /\ \A v \in Workers \ {w} : worker'[v] = worker[v]
  BY <1>4 DEF OwnInv, Hands
<1>9. Locks'
  <2>1. Applying(worker[w]) /\ ~Applying(st)
    BY <1>1, <1>3 DEF Applying
  <2>2. lock' \in [Cpos -> Workers \cup {NoWorker}]
    BY <1>1 DEF OwnInv, Locks
  <2>3. ASSUME NEW d \in Cpos, NEW v \in Workers
        PROVE  lock'[d] = v <=> Applying(worker'[v]) /\ worker'[v].cpo = d
    BY <1>1, <1>2, <1>8, <2>1, SpoolConstants DEF OwnInv, Locks
  <2>4. \A v \in Workers : Applying(worker'[v]) => worker'[v].cpo \in Cpos
    BY <1>8, <2>1 DEF OwnInv, Locks
  <2>. QED
    BY <2>2, <2>3, <2>4 DEF Locks
<1>. QED
  BY <1>5, <1>7, <1>9 DEF OwnInv

\* The batch is done and its files removed.
LEMMA RemoveOwns ==
  ASSUME OwnInv, NEW w \in Workers, RemoveFiles(w)
  PROVE  OwnInv'
<1>. DEFINE done == BatchOf(worker[w].good)
<1>1. /\ worker[w].pc \in {"read", "apply"} /\ worker[w].left = << >>
      /\ place' = [n \in Names |-> IF n \in done THEN "gone" ELSE place[n]]
      /\ worker' = [worker EXCEPT ![w] = Idle]
      /\ UNCHANGED <<sent, handler, acked, names, content, stored, crashes, scanned, work, lock,
                     known, live, price>>
  BY DEF RemoveFiles, Applied, BatchOf, broker, db
<1>2. InHand(Idle) /\ ~Applying(Idle) /\ BatchOf(Idle.left) \cup BatchOf(Idle.good) = {}
  BY EmptyBatch DEF Idle, WorkerStates, InHand, Applying
<1>. HIDE DEF done
<1>3. Holds(w) = done
  BY <1>1, EmptyBatch DEF Holds, done
<1>4. done \subseteq In("processing")
  BY <1>3 DEF OwnInv, Claimed
<1>5. In("processing")' = In("processing") \ done
  <2>1. \A n \in 1..names : n \in Names
    BY NamesAreNat DEF OwnInv, FileTypes, Names
  <2>2. \A n \in 1..names : place'[n] = IF n \in done THEN "gone" ELSE place[n]
    BY <1>1, <2>1
  <2>. QED
    BY <1>1, <2>2 DEF In
<1>6. Hands' /\ Apart' /\ Claimed'
  BY <1>1, <1>2, <1>3, <1>5, LetGo
<1>7. Locks'
  BY <1>1, <1>2, SameLocks DEF Applying
<1>8. FileTypes'
  <2>1. stored' \subseteq 1..names
    BY <1>1, <1>4 DEF In, OwnInv, FileTypes
  <2>2. place' \in [Names -> Places]
    BY <1>1 DEF OwnInv, FileTypes, Places
  <2>. QED
    BY <1>1, <2>1, <2>2 DEF OwnInv, FileTypes
<1>9. RowTypes'
  BY <1>1 DEF OwnInv, RowTypes
<1>. QED
  BY <1>6, <1>7, <1>8, <1>9 DEF OwnInv

\* Every step leaves each claimed file with one owner.
LEMMA OwnStep == OwnInv /\ [Next]_vars => OwnInv'
<1>. SUFFICES ASSUME OwnInv, [Next]_vars PROVE OwnInv'
  OBVIOUS
<1>1. ASSUME NEW w \in Workers, Work(w) PROVE OwnInv'
  BY <1>1, TakeOwns, ReadOwns, LockOwns, TableOwns, StatusesOwn, RemoveOwns DEF Work
<1>2. CASE UNCHANGED vars
  <2>1. In("processing")' = In("processing")
    BY <1>2 DEF vars, spool, In
  <2>2. Hands' /\ Apart' /\ Claimed'
    BY <1>2, <2>1, SameHands DEF vars, drainer
  <2>3. FileTypes' /\ RowTypes' /\ Locks'
    BY <1>2 DEF vars, broker, spool, drainer, db, OwnInv, FileTypes, RowTypes, Locks
  <2>. QED
    BY <2>2, <2>3 DEF OwnInv
<1>. QED
  BY <1>1, <1>2, WebhookOwns, ScannerOwns, RestartOwns, ReconcileOwns DEF Next, Rest

(* Each claimed file is with the scanner, in the channel or with one       *)
(* worker, and all that is in processing/ is claimed: for any number of    *)
(* workers, batch size, channel and order of crashes (runSpool,            *)
(* processSpoolBatch, recoverProcessing).                                  *)
THEOREM OneOwnerHolds == Spec => []OneOwner
<1>. QED
  BY OwnInit, OwnStep, OwnInvOwner, PTL DEF Spec

-----------------------------------------------------------------------------
(* The newest push wins, unless two workers have an operator's pushes.     *)

\* The pushes of an operator are of these kinds.
OnlyOf(c, kinds) == \A i \in DOMAIN Stream[c] : Stream[c][i].kind \in kinds

\* An operator whose rows are not refused and not written by a pull.  It
\* sends, junk aside, overlays; or tables; or, its charger being known, tables
\* and then statuses: a table that follows a status blanks it.
Plain(c) ==
  /\ c \in Cpos \ MayFail
  /\ \A d \in Static : d.cpo # c
  /\ \/ c \in Seeded /\ OnlyOf(c, {"eliso", "bad"})
     \/ OnlyOf(c, {"table", "bad"})
     \/ /\ c \in Seeded /\ OnlyOf(c, {"table", "status", "bad"})
        /\ \A i, j \in DOMAIN Stream[c] :
             i < j /\ Stream[c][i].kind = "status" => Stream[c][j].kind # "table"

\* Of one operator, the files of A are older than those of B.
Older(A, B) == \A x \in A, y \in B : content[x].cpo = content[y].cpo => x < y

\* The files of an operator are claimed, handed over and worked off in order.
InLine ==
  /\ Increasing(scanned)
  /\ Older(In("processing"), In("incoming"))
  /\ \A i \in DOMAIN work :
       /\ Increasing(work[i]) /\ Older(BatchOf(work[i]), BatchOf(scanned))
       /\ \A j \in DOMAIN work : i < j => Older(BatchOf(work[i]), BatchOf(work[j]))
  /\ \A w \in Workers :
       /\ Increasing(worker[w].left) /\ Increasing(worker[w].good)
       /\ \A x \in BatchOf(worker[w].good), y \in BatchOf(worker[w].left) : x < y
       /\ Older(Holds(w), BatchOf(scanned))
       /\ \A i \in DOMAIN work : Older(Holds(w), BatchOf(work[i]))

\* What the webhook is writing is the operator's last file.
Writing ==
  /\ \A n \in 1..names : place[n] # "none"
  /\ \A c \in Cpos : handler[c] # NoName =>
       /\ content[handler[c]] = Stream[c][sent[c] + 1]
       /\ \A n \in 1..names : content[n].cpo = c => n <= handler[c]

\* How far a worker is with its batch.
Progress ==
  \A w \in Workers :
    /\ \A n \in BatchOf(worker[w].good) :
         /\ content[n].kind \in {"table", "status"}
         /\ worker[w].pc = "read" => content[n].cpo \in worker[w].cpos
    /\ worker[w].pc \in {"apply", "table", "status"} => worker[w].left = << >>
    /\ worker[w].pc \in {"table", "status"} => worker[w].cpo \in worker[w].cpos

\* A file holds a push the broker has sent, the last one perhaps not answered.
FromStream ==
  \A n \in 1..names : LET c == content[n].cpo
                      IN  \E i \in DOMAIN Stream[c] : i <= sent[c] + 1 /\ content[n] = Stream[c][i]

\* The pushes of c that have come: files past their temporary name.
Files(c) == {n \in 1..names : content[n].cpo = c /\ content[n].kind # "bad" /\ place[n] # "tmp"}
Newer(c, m) == {n \in Files(c) : m < n}

\* The file has made its way to the rows.
Done(c, m) ==
  \/ place[m] = "gone"
  \/ \E w \in Workers :
       /\ m \in BatchOf(worker[w].good)
       /\ \/ c \notin worker[w].cpos
          \/ worker[w].pc = "status" /\ worker[w].cpo = c /\ content[m].kind = "table"

InSync(c, d) ==
  /\ live[c] = d.status
  /\ d.price # Silent => price[c] = IF d.price = Withdrawn THEN NoPrice ELSE d.price

\* The first k pushes of c have come, in that the newest file is the last of them.
Come(c) == {i \in DOMAIN Stream[c] : Stream[c][i].kind # "bad"}
Told(c, k) ==
  LET I == {i \in Come(c) : i <= k}
  IN  IF I = {} THEN Files(c) = {}
      ELSE \E m \in Files(c), i \in I :
             Newer(c, m) = {} /\ (\A j \in I : j <= i) /\ content[m] = Stream[c][i]

Delivered(c) ==
  /\ Told(c, sent[c]) \/ (sent[c] < Len(Stream[c]) /\ Told(c, sent[c] + 1))
  /\ handler[c] # NoName /\ place[handler[c]] # "tmp" => Told(c, sent[c] + 1)

\* What of the rows of c is as its newest push has it.
Ordered(c) == \A m, n \in Files(c) : m < n /\ place[n] = "gone" => place[m] = "gone"
Synced(c) == \A m \in Files(c) : Newer(c, m) = {} /\ Done(c, m) => InSync(c, content[m])
InPlace(c) ==
  /\ c \in Seeded => c \in known
  /\ \A n \in Files(c) : place[n] \in {"incoming", "processing", "gone"}
Sorted(c) ==
  \A m, n \in 1..names :
    m < n /\ content[m].cpo = c /\ content[n].cpo = c /\ content[m].kind = "status" =>
      content[n].kind # "table"

Fresh(c) == InPlace(c) /\ Sorted(c) /\ Ordered(c) /\ Synced(c) /\ Delivered(c)

LineInv == OwnInv /\ InLine /\ Writing /\ Progress /\ FromStream

\* No operator has files in the hands of two workers at once.
SerialWork ==
  \A v, w \in Workers : v # w =>
    \A x \in Holds(v), y \in Holds(w) : content[x].cpo # content[y].cpo

-----------------------------------------------------------------------------
(* The line.                                                               *)

\* Everything claimed, and everything to be claimed, is a file.
LEMMA LineFiles ==
  ASSUME OwnInv
  PROVE  /\ names \in Nat /\ 1..names \subseteq Names
         /\ \A dir \in {"processing", "incoming"} : In(dir) \subseteq 1..names
         /\ BatchOf(scanned) \subseteq In("processing")
         /\ \A i \in DOMAIN work : BatchOf(work[i]) \subseteq In("processing")
         /\ \A w \in Workers : /\ Holds(w) \subseteq In("processing")
                               /\ BatchOf(worker[w].left) \subseteq Holds(w)
                               /\ BatchOf(worker[w].good) \subseteq Holds(w)
<1>1. names \in Nat /\ 1..names \subseteq Names
  BY NamesAreNat DEF OwnInv, FileTypes, Names
<1>. QED
  BY <1>1 DEF OwnInv, Claimed, In, Holds

\* Increasing batches.
LEMMA IncreasingTail ==
  ASSUME NEW s \in Seq(Names), s # << >>, Increasing(s)
  PROVE  Increasing(Tail(s)) /\ \A x \in BatchOf(Tail(s)) : Head(s) < x
<1>1. /\ Len(s) \in Nat /\ Len(s) # 0 /\ DOMAIN s = 1..Len(s) /\ Head(s) = s[1]
      /\ DOMAIN Tail(s) = 1..(Len(s) - 1)
      /\ \A i \in 1..(Len(s) - 1) : Tail(s)[i] = s[i + 1]
  BY HeadTailProperties, LenProperties, EmptySeq
<1>2. \A i, j \in 1..Len(s) : i < j => s[i] < s[j]
  BY <1>1 DEF Increasing
<1>3. \A i, j \in 1..(Len(s) - 1) :
        i + 1 \in 1..Len(s) /\ j + 1 \in 1..Len(s) /\ 1 < i + 1 /\ (i < j => i + 1 < j + 1)
  BY <1>1
<1>4. Increasing(Tail(s))
  BY <1>1, <1>2, <1>3 DEF Increasing
<1>5. ASSUME NEW x \in BatchOf(Tail(s)) PROVE Head(s) < x
  <2>1. PICK i \in 1..(Len(s) - 1) : x = s[i + 1]
    BY <1>1 DEF BatchOf
  <2>2. 1 \in 1..Len(s)
    BY <1>1
  <2>. QED
    BY <1>1, <1>2, <1>3, <2>1, <2>2
<1>. QED
  BY <1>4, <1>5

LEMMA IncreasingAppend ==
  ASSUME NEW s \in Seq(Names), NEW n \in Names, Increasing(s), \A x \in BatchOf(s) : x < n
  PROVE  Increasing(Append(s, n))
<1>1. /\ Len(s) \in Nat /\ DOMAIN s = 1..Len(s) /\ DOMAIN Append(s, n) = 1..(Len(s) + 1)
      /\ \A i \in 1..Len(s) : Append(s, n)[i] = s[i]
      /\ Append(s, n)[Len(s) + 1] = n
  BY AppendProperties, LenProperties
<1>2. \A i \in 1..Len(s) : s[i] < n
  BY <1>1 DEF BatchOf
<1>3. ASSUME NEW i \in 1..(Len(s) + 1), NEW j \in 1..(Len(s) + 1), i < j
      PROVE  i \in 1..Len(s) /\ (j \in 1..Len(s) \/ j = Len(s) + 1)
  BY <1>1, <1>3
<1>. QED
  BY <1>1, <1>2, <1>3 DEF Increasing

LEMMA IncreasingEmpty == Increasing(<< >>)
  BY DEF Increasing

\* It takes the oldest of what is there.
LEMMA OldestFirst ==
  ASSUME OwnInv, NEW k \in Nat, NEW x \in Oldest(k), NEW y \in In("incoming") \ Oldest(k)
  PROVE  x < y
<1>. DEFINE below(n) == {m \in In("incoming") : m <= n}
<1>1. IsFiniteSet(In("incoming")) /\ In("incoming") \subseteq Nat
  <2>1. In("incoming") \subseteq 1..names /\ names \in Nat /\ names \in Int /\ 1 \in Int
    BY LineFiles
  <2>2. IsFiniteSet(1..names)
    BY <2>1, FS_Interval
  <2>. QED
    BY <2>1, <2>2, FS_Subset
<1>2. /\ x \in In("incoming") /\ Cardinality(below(x)) <= k /\ ~(Cardinality(below(y)) <= k)
      /\ x \in Nat /\ y \in Nat
  BY <1>1 DEF Oldest
<1>3. ASSUME y <= x PROVE FALSE
  <2>1. below(y) \subseteq below(x) /\ below(x) \subseteq In("incoming")
    BY <1>1, <1>2, <1>3
  <2>2. IsFiniteSet(below(x)) /\ IsFiniteSet(below(y))
    BY <1>1, <2>1, FS_Subset
  <2>3. /\ Cardinality(below(y)) <= Cardinality(below(x))
        /\ Cardinality(below(y)) \in Nat /\ Cardinality(below(x)) \in Nat
    BY <2>1, <2>2, FS_Subset, FS_CardinalityType
  <2>. HIDE DEF below
  <2>. QED
    BY <1>2, <2>3
<1>. QED
  BY <1>2, <1>3

\* Nothing joins the line, and a worker lets go of files or reads on.
LEMMA LineWorker ==
  ASSUME LineInv, NEW w \in Workers, NEW st, worker' = [worker EXCEPT ![w] = st],
         Increasing(st.left), Increasing(st.good),
         \A x \in BatchOf(st.good), y \in BatchOf(st.left) : x < y,
         BatchOf(st.left) \cup BatchOf(st.good) \subseteq Holds(w),
         UNCHANGED <<scanned, work, content>>,
         In("processing")' \subseteq In("processing"), In("incoming")' = In("incoming")
  PROVE  InLine'
<1>1. worker'[w] = st /\ \A v \in Workers \ {w} : worker'[v] = worker[v]
  BY DEF LineInv, OwnInv, Hands
<1>2. \A v \in Workers : Holds(v)' \subseteq Holds(v)
  BY <1>1 DEF Holds
<1>3. \A v \in Workers :
        /\ Increasing(worker'[v].left) /\ Increasing(worker'[v].good)
        /\ \A x \in BatchOf(worker'[v].good), y \in BatchOf(worker'[v].left) : x < y
  BY <1>1 DEF LineInv, InLine
<1>4. \A v \in Workers :
        /\ Older(Holds(v), BatchOf(scanned))'
        /\ \A i \in DOMAIN work' : Older(Holds(v), BatchOf(work[i]))'
  BY <1>2 DEF LineInv, InLine, Older
<1>. QED
  BY <1>3, <1>4 DEF LineInv, InLine, Older

\* The workers and their files are as they were.
LEMMA LineKept ==
  ASSUME LineInv, UNCHANGED <<scanned, work, worker>>,
         \A n \in 1..names : content'[n] = content[n],
         In("processing")' = In("processing"),
         \A x \in In("processing"), y \in In("incoming")' :
           content'[x].cpo = content'[y].cpo => x < y
  PROVE  InLine' /\ Progress'
<1>1. /\ BatchOf(scanned)' = BatchOf(scanned)
      /\ \A i \in DOMAIN work : BatchOf(work[i])' = BatchOf(work[i])
      /\ \A w \in Workers : Holds(w)' = Holds(w)
  BY DEF Holds
<1>2. /\ \A n \in BatchOf(scanned) : content'[n] = content[n]
      /\ \A i \in DOMAIN work : \A n \in BatchOf(work[i]) : content'[n] = content[n]
      /\ \A w \in Workers : \A n \in Holds(w) : content'[n] = content[n]
      /\ \A w \in Workers : BatchOf(worker[w].good) \subseteq Holds(w)
  BY LineFiles DEF LineInv
<1>3. Progress'
  BY <1>2 DEF LineInv, Progress
<1>4. Increasing(scanned)' /\ \A i \in DOMAIN work' : Increasing(work[i])'
  BY DEF LineInv, InLine, Increasing
<1>5. \A w \in Workers :
        /\ Increasing(worker[w].left)' /\ Increasing(worker[w].good)'
        /\ \A x \in BatchOf(worker[w].good)', y \in BatchOf(worker[w].left)' : x < y
  <2>1. \A w \in Workers :
          /\ Increasing(worker[w].left) /\ Increasing(worker[w].good)
          /\ \A x \in BatchOf(worker[w].good), y \in BatchOf(worker[w].left) : x < y
    BY DEF LineInv, InLine
  <2>. QED
    BY <2>1
<1>6. \A i \in DOMAIN work' :
        /\ Older(BatchOf(work[i]), BatchOf(scanned))'
        /\ \A j \in DOMAIN work' : i < j => Older(BatchOf(work[i]), BatchOf(work[j]))'
  BY <1>1, <1>2 DEF LineInv, InLine, Older
<1>7. \A w \in Workers :
        /\ Older(Holds(w), BatchOf(scanned))'
        /\ \A i \in DOMAIN work' : Older(Holds(w), BatchOf(work[i]))'
  BY <1>1, <1>2 DEF LineInv, InLine, Older
<1>. QED
  BY <1>3, <1>4, <1>5, <1>6, <1>7 DEF InLine, Older

\* The webhook adds an operator's file after all others of that operator.
LEMMA WebhookLine ==
  ASSUME LineInv, NEW c \in Cpos, Receive(c) \/ Rename(c) \/ Accept(c)
  PROVE  InLine' /\ Writing' /\ Progress'
<1>. USE SpoolConstants, NamesAreNat
<1>1. CASE Receive(c)
  <2>1. /\ names + 1 \in Names /\ names' = names + 1 /\ names \in Nat
        /\ content' = [content EXCEPT ![names + 1] = Stream[c][sent[c] + 1]]
        /\ place' = [place EXCEPT ![names + 1] = "tmp"]
        /\ handler' = [handler EXCEPT ![c] = names + 1]
        /\ UNCHANGED <<sent, scanned, work, worker>>
    BY <1>1 DEF Receive, drainer, LineInv, OwnInv, FileTypes, Names
  <2>2. /\ \A n \in 1..names : content'[n] = content[n] /\ place'[n] = place[n] /\ n \in Names
        /\ content'[names + 1] = Stream[c][sent[c] + 1] /\ place'[names + 1] = "tmp"
    BY <2>1 DEF LineInv, OwnInv, FileTypes, Names
  <2>3. \A n \in 1..names' : n \in 1..names \/ n = names + 1
    BY <2>1
  <2>4. In("processing")' = In("processing") /\ In("incoming")' = In("incoming")
    BY <2>1, <2>2, <2>3 DEF In
  <2>5. Stream[c][sent[c] + 1].cpo = c
    <3>1. sent[c] + 1 \in DOMAIN Stream[c]
      BY <1>1, SpoolAssumption DEF Receive, LineInv, OwnInv, FileTypes
    <3>. QED
      BY <3>1, SpoolAssumption
  <2>6. InLine' /\ Progress'
    <3>1. \A x \in In("processing"), y \in In("incoming") : content[x].cpo = content[y].cpo => x < y
      BY DEF LineInv, InLine, Older
    <3>2. In("processing") \subseteq 1..names /\ In("incoming") \subseteq 1..names
      BY DEF In
    <3>. QED
      BY <2>1, <2>2, <2>4, <3>1, <3>2, LineKept
  <2>7. ASSUME NEW d \in Cpos, handler'[d] # NoName
        PROVE  /\ content'[handler'[d]] = Stream[d][sent'[d] + 1]
               /\ \A n \in 1..names' : content'[n].cpo = d => n <= handler'[d]
    <3>1. CASE d = c
      <4>1. handler'[d] = names + 1
        BY <2>1, <3>1 DEF LineInv, OwnInv, FileTypes
      <4>2. \A n \in 1..names' : n <= names + 1
        BY <2>1
      <4>. QED
        BY <2>1, <2>2, <3>1, <4>1, <4>2
    <3>2. CASE d # c
      <4>1. handler'[d] = handler[d] /\ handler[d] \in 1..names
        BY <2>1, <2>7, <3>2 DEF LineInv, OwnInv, FileTypes, NoName
      <4>2. /\ content[handler[d]] = Stream[d][sent[d] + 1]
            /\ \A n \in 1..names : content[n].cpo = d => n <= handler[d]
        BY <2>7, <4>1 DEF LineInv, Writing
      <4>. QED
        BY <2>1, <2>2, <2>3, <2>5, <3>2, <4>1, <4>2
    <3>. QED
      BY <3>1, <3>2
  <2>8. Writing'
    BY <2>2, <2>3, <2>7 DEF LineInv, Writing
  <2>. QED
    BY <2>6, <2>8
<1>2. CASE Rename(c)
  <2>. DEFINE h == handler[c]
  <2>1. /\ h \in 1..names /\ place[h] = "tmp" /\ h \in Names
        /\ place' = [place EXCEPT ![h] = "incoming"]
        /\ UNCHANGED <<sent, handler, names, content, scanned, work, worker>>
    BY <1>2 DEF Rename, broker, drainer, LineInv, OwnInv, FileTypes, NoName, Names
  <2>2. /\ \A n \in 1..names : content[n].cpo = c => n <= h
        /\ content[h].cpo = c
    <3>1. content[h] = Stream[c][sent[c] + 1] /\ sent[c] + 1 \in DOMAIN Stream[c]
      BY <1>2, SpoolAssumption DEF Rename, LineInv, OwnInv, FileTypes, Writing
    <3>2. content[h].cpo = c
      BY <3>1, SpoolAssumption
    <3>. QED
      BY <1>2, <3>2 DEF Rename, LineInv, Writing
  <2>. HIDE DEF h
  <2>3. In("processing")' = In("processing") /\ In("incoming")' = In("incoming") \cup {h}
        /\ In("processing") \subseteq 1..names
    BY <2>1 DEF In, LineInv, OwnInv, FileTypes, Names
  <2>4. ASSUME NEW x \in In("processing"), content[x].cpo = c PROVE x < h
    <3>1. x \in 1..names /\ x # h /\ names \in Nat
      BY <2>1 DEF In, LineInv, OwnInv, FileTypes
    <3>. QED
      BY <2>1, <2>2, <2>4, <3>1
  <2>5. InLine' /\ Progress'
    BY <2>1, <2>2, <2>3, <2>4, LineKept DEF LineInv, InLine, Older
  <2>6. \A n \in 1..names : place'[n] # "none"
    BY <2>1 DEF LineInv, OwnInv, FileTypes, Writing
  <2>7. Writing'
    BY <2>1, <2>6 DEF LineInv, Writing
  <2>. QED
    BY <2>5, <2>7
<1>3. CASE Accept(c)
  <2>1. /\ handler' = [handler EXCEPT ![c] = NoName]
        /\ \A d \in Cpos \ {c} : sent'[d] = sent[d]
        /\ UNCHANGED <<names, content, place, scanned, work, worker>>
    BY <1>3 DEF Accept, spool, drainer, LineInv, OwnInv, FileTypes
  <2>2. In("processing")' = In("processing") /\ In("incoming")' = In("incoming")
    BY <2>1 DEF In
  <2>3. InLine' /\ Progress'
    BY <2>1, <2>2, LineKept DEF LineInv, InLine, Older
  <2>4. \A d \in Cpos : handler'[d] # NoName => d # c /\ handler'[d] = handler[d]
    BY <2>1 DEF LineInv, OwnInv, FileTypes
  <2>5. Writing'
    BY <2>1, <2>4 DEF LineInv, Writing
  <2>. QED
    BY <2>3, <2>5
<1>. QED
  BY <1>1, <1>2, <1>3

\* The scanner appends to the line what is oldest outside it.
LEMMA ScannerLine ==
  ASSUME LineInv, Claim \/ HandOver
  PROVE  InLine' /\ Writing' /\ Progress'
<1>. USE SpoolConstants, NamesAreNat
<1>1. CASE Claim
  <2>. DEFINE O == Oldest(SpoolBatch)
  <2>1. /\ scanned = << >> /\ scanned' = InOrder(O)
        /\ place' = [n \in Names |-> IF n \in O THEN "processing" ELSE place[n]]
        /\ UNCHANGED <<sent, handler, names, content, work, worker>>
    BY <1>1 DEF Claim, ClaimedTo, broker
  <2>2. O \subseteq In("incoming") /\ O \in SUBSET Names
    BY DEF Oldest, In, LineInv, OwnInv, FileTypes, Names
  <2>3. \A x \in O, y \in In("incoming") \ O : x < y
    BY SpoolAssumption, OldestFirst DEF LineInv
  <2>. HIDE DEF O
  <2>4. BatchOf(scanned') = O /\ Increasing(scanned')
    BY <2>1, <2>2, InOrderAll
  <2>5. In("processing")' = In("processing") \cup O /\ In("incoming")' = In("incoming") \ O
    <3>1. \A n \in 1..names : n \in Names /\ place'[n] = IF n \in O THEN "processing" ELSE place[n]
      BY <2>1 DEF LineInv, OwnInv, FileTypes, Names
    <3>2. \A n \in O : n \in 1..names /\ place[n] = "incoming"
      BY <2>2 DEF In
    <3>. QED
      BY <2>1, <3>1, <3>2 DEF In
  <2>6. /\ \A i \in DOMAIN work : BatchOf(work[i]) \subseteq In("processing")
        /\ \A w \in Workers : Holds(w) \subseteq In("processing")
        /\ \A w \in Workers : Holds(w)' = Holds(w)
    BY <2>1, LineFiles DEF LineInv, Holds
  <2>7. \A A \in SUBSET In("processing") : Older(A, O)
    BY <2>2 DEF LineInv, InLine, Older
  <2>8. Older(In("processing"), In("incoming"))'
    BY <2>1, <2>3, <2>5 DEF LineInv, InLine, Older
  <2>9. \A i \in DOMAIN work' :
          /\ Increasing(work'[i]) /\ Older(BatchOf(work[i]), BatchOf(scanned))'
          /\ \A j \in DOMAIN work' : i < j => Older(BatchOf(work[i]), BatchOf(work[j]))'
    BY <2>1, <2>4, <2>6, <2>7 DEF LineInv, InLine, Older
  <2>10. \A w \in Workers :
           /\ Increasing(worker'[w].left) /\ Increasing(worker'[w].good)
           /\ \A x \in BatchOf(worker'[w].good), y \in BatchOf(worker'[w].left) : x < y
           /\ Older(Holds(w), BatchOf(scanned))'
           /\ \A i \in DOMAIN work' : Older(Holds(w), BatchOf(work[i]))'
    BY <2>1, <2>4, <2>6, <2>7 DEF LineInv, InLine, Older
  <2>11. InLine'
    BY <2>4, <2>8, <2>9, <2>10 DEF InLine
  <2>12. Writing'
    BY <2>1 DEF LineInv, OwnInv, FileTypes, Writing, Names
  <2>13. Progress'
    BY <2>1 DEF LineInv, Progress
  <2>. QED
    BY <2>11, <2>12, <2>13
<1>2. CASE HandOver
  <2>1. /\ work' = Append(work, scanned) /\ scanned' = << >>
        /\ UNCHANGED <<sent, handler, names, content, place, worker>>
    BY <1>2 DEF HandOver, broker, spool
  <2>2. work \in Seq(Seq(Names)) /\ scanned \in Seq(Names)
    BY DEF LineInv, OwnInv, Hands
  <2>3. /\ Len(work) \in Nat /\ DOMAIN work = 1..Len(work)
        /\ DOMAIN work' = 1..(Len(work) + 1)
        /\ \A i \in 1..Len(work) : work'[i] = work[i]
        /\ work'[Len(work) + 1] = scanned
    BY <2>1, <2>2, AppendProperties, LenProperties
  <2>4. \A i \in 1..(Len(work) + 1) : i \in 1..Len(work) \/ i = Len(work) + 1
    BY <2>3
  <2>5. /\ BatchOf(scanned') = {} /\ Increasing(scanned')
        /\ \A w \in Workers : Holds(w)' = Holds(w)
        /\ In("processing")' = In("processing") /\ In("incoming")' = In("incoming")
    BY <2>1, EmptyBatch, IncreasingEmpty DEF Holds, In
  <2>6. ASSUME NEW i \in 1..(Len(work) + 1), NEW j \in 1..(Len(work) + 1), i < j
        PROVE  i \in 1..Len(work) /\ (j \in 1..Len(work) \/ j = Len(work) + 1)
    BY <2>3, <2>6
  <2>7. ASSUME NEW i \in DOMAIN work'
        PROVE  /\ Increasing(work'[i]) /\ Older(BatchOf(work[i]), BatchOf(scanned))'
               /\ \A j \in DOMAIN work' : i < j => Older(BatchOf(work[i]), BatchOf(work[j]))'
    <3>1. Increasing(work'[i]) /\ Older(BatchOf(work[i]), BatchOf(scanned))'
      BY <2>3, <2>4, <2>5 DEF LineInv, InLine, Older
    <3>2. ASSUME NEW j \in DOMAIN work', i < j
          PROVE  Older(BatchOf(work[i]), BatchOf(work[j]))'
      BY <2>1, <2>3, <2>6, <3>2 DEF LineInv, InLine, Older
    <3>. QED
      BY <3>1, <3>2
  <2>8. \A w \in Workers :
          /\ Increasing(worker'[w].left) /\ Increasing(worker'[w].good)
          /\ \A x \in BatchOf(worker'[w].good), y \in BatchOf(worker'[w].left) : x < y
          /\ Older(Holds(w), BatchOf(scanned))'
          /\ \A i \in DOMAIN work' : Older(Holds(w), BatchOf(work[i]))'
    BY <2>1, <2>3, <2>4, <2>5 DEF LineInv, InLine, Older
  <2>9. InLine'
    BY <2>1, <2>5, <2>7, <2>8 DEF LineInv, InLine, Older
  <2>10. Writing' /\ Progress'
    BY <2>1 DEF LineInv, Writing, Progress
  <2>. QED
    BY <2>9, <2>10
<1>. QED
  BY <1>1, <1>2

\* A worker takes the head of the channel, with nothing in its hands.
LEMMA TakeLine ==
  ASSUME LineInv, NEW w \in Workers, Take(w)
  PROVE  InLine' /\ Writing' /\ Progress'
<1>. DEFINE st == [Idle EXCEPT !.pc = "read", !.left = Head(work)]
<1>1. /\ worker[w].pc = "idle" /\ work # << >> /\ work' = Tail(work)
      /\ worker' = [worker EXCEPT ![w] = st]
      /\ UNCHANGED <<sent, handler, names, content, place, scanned>>
  BY DEF Take, broker, spool
<1>2. /\ Len(work) \in Nat /\ Len(work) # 0 /\ DOMAIN work = 1..Len(work)
      /\ Head(work) = work[1] /\ DOMAIN work' = 1..(Len(work) - 1)
      /\ \A i \in 1..(Len(work) - 1) : work'[i] = work[i + 1]
  <2>1. work \in Seq(Seq(Names))
    BY DEF LineInv, OwnInv, Hands
  <2>. QED
    BY <1>1, <2>1, HeadTailProperties, LenProperties, EmptySeq
<1>3. st.left = work[1] /\ st.good = << >> /\ st.pc = "read"
  BY <1>2 DEF Idle
<1>. HIDE DEF st
<1>4. worker'[w] = st /\ \A v \in Workers \ {w} : worker'[v] = worker[v]
  BY <1>1 DEF LineInv, OwnInv, Hands
<1>5. /\ Holds(w)' = BatchOf(work[1]) /\ \A v \in Workers \ {w} : Holds(v)' = Holds(v)
      /\ BatchOf(st.good) = {} /\ Increasing(st.good)
      /\ In("processing")' = In("processing") /\ In("incoming")' = In("incoming")
  BY <1>1, <1>3, <1>4, EmptyBatch, IncreasingEmpty DEF Holds, In
<1>6. 1 \in DOMAIN work
      /\ \A i \in DOMAIN work' : i + 1 \in DOMAIN work /\ 1 < i + 1 /\ work'[i] = work[i + 1]
  BY <1>2
<1>7. \A i, j \in DOMAIN work' : i < j => i + 1 < j + 1
  BY <1>2
<1>8. \A i \in DOMAIN work' :
        /\ Increasing(work'[i]) /\ Older(BatchOf(work[i]), BatchOf(scanned))'
        /\ \A j \in DOMAIN work' : i < j => Older(BatchOf(work[i]), BatchOf(work[j]))'
  BY <1>1, <1>6, <1>7 DEF LineInv, InLine, Older
<1>9. \A v \in Workers :
        /\ Increasing(worker'[v].left) /\ Increasing(worker'[v].good)
        /\ \A x \in BatchOf(worker'[v].good), y \in BatchOf(worker'[v].left) : x < y
  BY <1>3, <1>4, <1>5, <1>6 DEF LineInv, InLine
<1>10. \A v \in Workers :
        /\ Older(Holds(v), BatchOf(scanned))'
        /\ \A i \in DOMAIN work' : Older(Holds(v), BatchOf(work[i]))'
  BY <1>1, <1>5, <1>6 DEF LineInv, InLine, Older
<1>11. InLine'
  BY <1>1, <1>5, <1>8, <1>9, <1>10 DEF LineInv, InLine, Older
<1>12. Writing' /\ Progress'
  BY <1>1, <1>3, <1>4, <1>5 DEF LineInv, Writing, Progress
<1>. QED
  BY <1>11, <1>12

\* Reading the next file of the batch.
LEMMA ReadLine ==
  ASSUME LineInv, NEW w \in Workers, ReadBad(w) \/ ReadOverlay(w) \/ ReadDoc(w)
  PROVE  InLine' /\ Writing' /\ Progress'
<1>. DEFINE n == Head(worker[w].left)
<1>1. /\ worker[w].pc = "read" /\ worker[w].left # << >>
      /\ UNCHANGED <<sent, handler, names, content, scanned, work>>
  BY DEF ReadBad, ReadOverlay, ReadDoc, broker, spool
<1>2. /\ n \in Names /\ n \in 1..names /\ n \in BatchOf(worker[w].left)
      /\ BatchOf(Tail(worker[w].left)) = BatchOf(worker[w].left) \ {n}
  BY <1>1, FileRead DEF LineInv
<1>3. /\ worker[w] \in WorkerStates
      /\ worker[w].left \in Seq(Names) /\ worker[w].good \in Seq(Names)
  BY DEF LineInv, OwnInv, Hands, InHand, WorkerStates
<1>4. /\ Increasing(worker[w].left) /\ Increasing(worker[w].good)
      /\ \A x \in BatchOf(worker[w].good), y \in BatchOf(worker[w].left) : x < y
  BY DEF LineInv, InLine
<1>5. Increasing(Tail(worker[w].left)) /\ \A x \in BatchOf(Tail(worker[w].left)) : n < x
  BY <1>1, <1>3, <1>4, IncreasingTail
<1>6. /\ Increasing(Append(worker[w].good, n))
      /\ BatchOf(Append(worker[w].good, n)) = BatchOf(worker[w].good) \cup {n}
  BY <1>2, <1>3, <1>4, IncreasingAppend, BatchAppend
<1>7. \A m \in 1..names : place'[m] # "none" /\ (place'[m] = place[m] \/ m = n)
  <2>1. \/ place' = place
        \/ \E dir \in {"failed", "gone"} : place' = [place EXCEPT ![n] = dir]
    BY DEF ReadBad, ReadOverlay, ReadDoc, spool
  <2>2. /\ place \in [Names -> Places] /\ 1..names \subseteq Names
        /\ \A m \in 1..names : place[m] # "none"
    BY LineFiles DEF LineInv, OwnInv, FileTypes, Writing
  <2>. HIDE DEF n
  <2>. QED
    BY <2>1, <2>2
<1>8. place[n] = "processing" /\ place'[n] \in {"processing", "failed", "gone"}
  <2>1. n \in In("processing")
    BY <1>1, FileRead DEF LineInv
  <2>2. place[n] = "processing"
    BY <2>1 DEF In
  <2>. QED
    BY <1>2, <2>2 DEF ReadBad, ReadOverlay, ReadDoc, spool, LineInv, OwnInv, FileTypes
<1>9. In("processing")' \subseteq In("processing") /\ In("incoming")' = In("incoming")
  BY <1>1, <1>7, <1>8 DEF In
<1>10. Writing'
  BY <1>1, <1>7 DEF LineInv, Writing
<1>11. CASE ReadBad(w) \/ ReadOverlay(w)
  <2>. DEFINE st == [worker[w] EXCEPT !.left = Tail(@)]
  <2>1. /\ st.left = Tail(worker[w].left) /\ st.good = worker[w].good
        /\ st.pc = "read" /\ st.cpos = worker[w].cpos
    BY <1>1, <1>3 DEF WorkerStates
  <2>2. worker' = [worker EXCEPT ![w] = st]
    BY <1>11 DEF ReadBad, ReadOverlay, LineInv, OwnInv, Hands
  <2>. HIDE DEF st
  <2>3. BatchOf(st.left) \cup BatchOf(st.good) \subseteq Holds(w)
    BY <1>2, <2>1 DEF Holds
  <2>4. InLine'
    BY <1>1, <1>2, <1>4, <1>5, <1>9, <2>1, <2>2, <2>3, LineWorker
  <2>5. worker'[w] = st /\ \A v \in Workers \ {w} : worker'[v] = worker[v]
    BY <2>2 DEF LineInv, OwnInv, Hands
  <2>6. Progress'
    BY <1>1, <2>1, <2>5 DEF LineInv, Progress
  <2>. QED
    BY <1>10, <2>4, <2>6
<1>12. CASE ReadDoc(w)
  <2>. DEFINE st == [worker[w] EXCEPT !.left = Tail(@), !.good = Append(@, n),
                                      !.cpos = @ \cup {content[n].cpo}]
  <2>1. /\ st.left = Tail(worker[w].left) /\ st.good = Append(worker[w].good, n)
        /\ st.pc = "read" /\ st.cpos = worker[w].cpos \cup {content[n].cpo}
    BY <1>1, <1>3 DEF WorkerStates
  <2>2. worker' = [worker EXCEPT ![w] = st] /\ content[n].kind \in {"table", "status"}
    BY <1>12 DEF ReadDoc, LineInv, OwnInv, Hands
  <2>. HIDE DEF st, n
  <2>3. BatchOf(st.left) \cup BatchOf(st.good) \subseteq Holds(w)
    BY <1>2, <1>6, <2>1 DEF Holds
  <2>4. \A x \in BatchOf(st.good), y \in BatchOf(st.left) : x < y
    BY <1>2, <1>4, <1>5, <1>6, <2>1
  <2>5. InLine'
    BY <1>1, <1>5, <1>6, <1>9, <2>1, <2>2, <2>3, <2>4, LineWorker
  <2>6. worker'[w] = st /\ \A v \in Workers \ {w} : worker'[v] = worker[v]
    BY <2>2 DEF LineInv, OwnInv, Hands
  <2>7. Progress'
    <3>1. \A x \in BatchOf(worker[w].good) :
            content[x].kind \in {"table", "status"} /\ content[x].cpo \in worker[w].cpos
      BY <1>1 DEF LineInv, Progress
    <3>2. \A x \in BatchOf(st.good) :
            content[x].kind \in {"table", "status"} /\ content[x].cpo \in st.cpos
      BY <1>6, <2>1, <2>2, <3>1
    <3>. QED
      BY <1>1, <2>1, <2>6, <3>2 DEF LineInv, Progress
  <2>. QED
    BY <1>10, <2>5, <2>7
<1>. QED
  BY <1>11, <1>12

\* Locking an operator and applying its rows leave the batch as it is.
LEMMA ApplyLine ==
  ASSUME LineInv, NEW w \in Workers,
         (\E c \in Cpos : LockCpo(w, c)) \/ ApplyTable(w) \/ ApplyStatuses(w)
  PROVE  /\ InLine' /\ Writing' /\ Progress'
         /\ worker'[w].left = worker[w].left /\ worker'[w].good = worker[w].good
<1>1. worker[w] \in WorkerStates /\ DOMAIN worker = Workers
  BY DEF LineInv, OwnInv, Hands, InHand
<1>2. PICK st : /\ worker' = [worker EXCEPT ![w] = st]
                /\ st.left = worker[w].left /\ st.good = worker[w].good
                /\ st.pc \in {"table", "status", "apply"}
                /\ st.pc \in {"table", "status"} => st.cpo \in st.cpos
  <2>1. CASE \E c \in Cpos : LockCpo(w, c)
    <3>1. PICK c \in worker[w].cpos :
            worker' = [worker EXCEPT ![w] = [worker[w] EXCEPT !.pc = "table", !.cpo = c]]
      BY <1>1, <2>1 DEF LockCpo
    <3>. DEFINE st == [worker[w] EXCEPT !.pc = "table", !.cpo = c]
    <3>2. /\ st.left = worker[w].left /\ st.good = worker[w].good /\ st.pc = "table"
          /\ st.cpo = c /\ st.cpos = worker[w].cpos
      BY <1>1 DEF WorkerStates
    <3>. QED
      BY <3>1, <3>2
  <2>2. CASE ApplyTable(w)
    <3>. DEFINE st == [worker[w] EXCEPT !.pc = "status"]
    <3>1. worker' = [worker EXCEPT ![w] = st] /\ worker[w].cpo \in worker[w].cpos
      BY <1>1, <2>2 DEF ApplyTable, LineInv, Progress
    <3>2. /\ st.left = worker[w].left /\ st.good = worker[w].good /\ st.pc = "status"
          /\ st.cpo = worker[w].cpo /\ st.cpos = worker[w].cpos
      BY <1>1 DEF WorkerStates
    <3>. QED
      BY <3>1, <3>2
  <2>3. CASE ApplyStatuses(w)
    <3>. DEFINE st == [worker[w] EXCEPT !.pc = "apply", !.cpos = @ \ {worker[w].cpo}]
    <3>1. worker' = [worker EXCEPT ![w] = st]
      BY <1>1, <2>3 DEF ApplyStatuses
    <3>2. st.left = worker[w].left /\ st.good = worker[w].good /\ st.pc = "apply"
      BY <1>1 DEF WorkerStates
    <3>. QED
      BY <3>1, <3>2
  <2>. QED
    BY <2>1, <2>2, <2>3
<1>3. UNCHANGED <<sent, handler, names, content, place, scanned, work>>
  BY DEF LockCpo, ApplyTable, ApplyStatuses, broker, spool
<1>4. worker'[w] = st /\ \A v \in Workers \ {w} : worker'[v] = worker[v]
  BY <1>1, <1>2
<1>5. In("processing")' = In("processing") /\ In("incoming")' = In("incoming")
  BY <1>3 DEF In
<1>6. InLine'
  BY <1>2, <1>3, <1>5, LineWorker DEF LineInv, InLine, Holds
<1>7. worker[w].left = << >>
  <2>1. worker[w].pc \in {"apply", "table", "status"} \/ worker[w].left = << >>
    BY DEF LockCpo, ApplyTable, ApplyStatuses
  <2>. QED
    BY <2>1 DEF LineInv, Progress
<1>8. Progress'
  BY <1>2, <1>3, <1>4, <1>7 DEF LineInv, Progress
<1>9. Writing'
  BY <1>3 DEF LineInv, Writing
<1>. QED
  BY <1>1, <1>2, <1>4, <1>6, <1>8, <1>9

\* The files of a batch are removed, or everybody forgets what is claimed.
LEMMA LeaveLine ==
  ASSUME LineInv, (\E w \in Workers : RemoveFiles(w)) \/ Restart
  PROVE  InLine' /\ Writing' /\ Progress'
<1>1. /\ Idle.left = << >> /\ Idle.good = << >> /\ Idle.pc = "idle"
      /\ BatchOf(Idle.left) = {} /\ BatchOf(Idle.good) = {}
      /\ Increasing(Idle.left) /\ Increasing(Idle.good)
  BY EmptyBatch, IncreasingEmpty DEF Idle
<1>2. CASE Restart
  <2>1. /\ place' = [n \in Names |-> IF place[n] = "processing" THEN "incoming" ELSE place[n]]
        /\ handler' = [c \in Cpos |-> NoName] /\ scanned' = << >> /\ work' = << >>
        /\ worker' = [w \in Workers |-> Idle]
        /\ UNCHANGED <<names, content>>
    BY <1>2 DEF Restart, Recovered
  <2>2. /\ In("processing")' = {} /\ BatchOf(scanned') = {} /\ DOMAIN work' = {}
        /\ \A w \in Workers : worker'[w] = Idle /\ Holds(w)' = {}
        /\ Increasing(scanned')
    <3>1. \A n \in 1..names : place'[n] # "processing"
      BY <2>1, LineFiles DEF LineInv
    <3>2. In("processing")' = {}
      BY <2>1, <3>1 DEF In
    <3>3. \A w \in Workers : worker'[w] = Idle
      BY <2>1
    <3>4. \A w \in Workers : Holds(w)' = {}
      BY <1>1, <3>3 DEF Holds
    <3>. QED
      BY <2>1, <3>2, <3>3, <3>4, EmptyBatch, IncreasingEmpty
  <2>3. InLine'
    BY <1>1, <2>1, <2>2 DEF InLine, Older
  <2>4. \A n \in 1..names : place'[n] # "none"
    BY <2>1, LineFiles DEF LineInv, Writing
  <2>5. Writing'
    BY <2>1, <2>4 DEF Writing
  <2>6. Progress'
    BY <1>1, <2>2 DEF Progress
  <2>. QED
    BY <2>3, <2>5, <2>6
<1>3. ASSUME NEW w \in Workers, RemoveFiles(w)
      PROVE  InLine' /\ Writing' /\ Progress'
  <2>1. /\ worker' = [worker EXCEPT ![w] = Idle]
        /\ \A n \in Names : place'[n] \in {place[n], "gone"}
        /\ UNCHANGED <<sent, handler, names, content, scanned, work>>
    BY <1>3 DEF RemoveFiles, broker
  <2>2. In("processing")' \subseteq In("processing")
    BY <2>1, LineFiles DEF In, LineInv
  <2>3. In("incoming")' = In("incoming")
    <3>. DEFINE done == {worker[w].good[i] : i \in DOMAIN worker[w].good}
    <3>1. \A n \in Names : place'[n] = IF n \in done THEN "gone" ELSE place[n]
      BY <1>3 DEF RemoveFiles
    <3>2. \A n \in done : place[n] = "processing"
      <4>1. done \subseteq In("processing")
        BY DEF LineInv, OwnInv, Claimed, Holds, BatchOf
      <4>. QED
        BY <4>1 DEF In
    <3>. HIDE DEF done
    <3>. QED
      BY <2>1, <3>1, <3>2, LineFiles DEF In, LineInv
  <2>4. InLine'
    BY <1>1, <2>1, <2>2, <2>3, LineWorker
  <2>5. worker'[w] = Idle /\ \A v \in Workers \ {w} : worker'[v] = worker[v]
    BY <2>1 DEF LineInv, OwnInv, Hands
  <2>6. Progress'
    BY <1>1, <2>1, <2>5 DEF LineInv, Progress
  <2>7. \A n \in 1..names : place'[n] # "none"
    BY <2>1, LineFiles DEF LineInv, Writing
  <2>8. Writing'
    BY <2>1, <2>7 DEF LineInv, Writing
  <2>. QED
    BY <2>4, <2>6, <2>8
<1>. QED
  BY <1>2, <1>3

LEMMA InitLine == Init => LineInv
<1>. SUFFICES ASSUME Init PROVE LineInv
  OBVIOUS
<1>1. /\ Idle.left = << >> /\ Idle.good = << >> /\ Idle.pc = "idle"
  BY DEF Idle
<1>2. /\ BatchOf(scanned) = {} /\ DOMAIN work = {} /\ In("processing") = {} /\ In("incoming") = {}
      /\ \A w \in Workers : worker[w] = Idle /\ Holds(w) = {}
      /\ 1..names = {}
  BY <1>1, EmptyBatch DEF Init, Holds, In
<1>3. InLine /\ Writing /\ Progress
  BY <1>1, <1>2, EmptyBatch, IncreasingEmpty
  DEF Init, InLine, Older, Writing, Progress
<1>. QED
  BY <1>2, <1>3, OwnInit DEF LineInv, FromStream

\* What is written is what the broker sends.
LEMMA SentStep ==
  ASSUME LineInv, [Next]_vars
  PROVE  FromStream'
<1>. USE SpoolConstants, NamesAreNat
<1>1. ASSUME NEW e \in Cpos, Receive(e) PROVE FromStream'
  <2>1. /\ names + 1 \in Names /\ names' = names + 1 /\ names \in Nat
        /\ content' = [content EXCEPT ![names + 1] = Stream[e][sent[e] + 1]]
        /\ sent' = sent
    BY <1>1 DEF Receive, LineInv, OwnInv, FileTypes, Names
  <2>2. /\ \A n \in 1..names : content'[n] = content[n]
        /\ content'[names + 1] = Stream[e][sent[e] + 1]
        /\ \A n \in 1..names' : n \in 1..names \/ n = names + 1
    BY <2>1 DEF LineInv, OwnInv, FileTypes, Names
  <2>3. sent[e] + 1 \in DOMAIN Stream[e] /\ Stream[e][sent[e] + 1].cpo = e
    <3>1. sent[e] + 1 \in DOMAIN Stream[e]
      BY <1>1, SpoolAssumption DEF Receive, LineInv, OwnInv, FileTypes
    <3>. QED
      BY <3>1, SpoolAssumption
  <2>4. sent[e] + 1 <= sent[e] + 1
    BY DEF LineInv, OwnInv, FileTypes
  <2>5. ASSUME NEW n \in 1..names
        PROVE  \E i \in DOMAIN Stream[content[n].cpo] :
                 i <= sent[content[n].cpo] + 1 /\ content[n] = Stream[content[n].cpo][i]
    BY DEF LineInv, FromStream
  <2>6. ASSUME NEW n \in 1..names'
        PROVE  \E i \in DOMAIN Stream[content'[n].cpo] :
                 i <= sent'[content'[n].cpo] + 1 /\ content'[n] = Stream[content'[n].cpo][i]
    <3>1. CASE n \in 1..names
      <4>1. content'[n] = content[n]
        BY <2>2, <3>1
      <4>. QED
        BY <2>1, <2>5, <3>1, <4>1
    <3>2. CASE n = names + 1
      <4>1. content'[n] = Stream[e][sent[e] + 1] /\ content'[n].cpo = e
        BY <2>2, <2>3, <3>2
      <4>. QED
        BY <2>1, <2>3, <2>4, <4>1
    <3>. QED
      BY <2>2, <3>1, <3>2
  <2>. QED
    BY <2>6 DEF FromStream
<1>2. ASSUME NEW e \in Cpos, Accept(e) PROVE FromStream'
  <2>1. /\ UNCHANGED <<names, content>>
        /\ \A c \in Cpos : sent'[c] \in {sent[c], sent[c] + 1} /\ sent[c] \in Nat
    BY <1>2 DEF Accept, spool, LineInv, OwnInv, FileTypes
  <2>2. \A n \in 1..names : content[n].cpo \in Cpos
    BY DEF LineInv, OwnInv, FileTypes, Docs
  <2>3. \A c \in Cpos : DOMAIN Stream[c] \subseteq Nat
    BY SpoolAssumption
  <2>4. ASSUME NEW n \in 1..names
        PROVE  \E i \in DOMAIN Stream[content[n].cpo] :
                 i <= sent'[content[n].cpo] + 1 /\ content[n] = Stream[content[n].cpo][i]
    <3>1. PICK i \in DOMAIN Stream[content[n].cpo] :
            i <= sent[content[n].cpo] + 1 /\ content[n] = Stream[content[n].cpo][i]
      BY DEF LineInv, FromStream
    <3>2. i \in Nat /\ sent[content[n].cpo] \in Nat
          /\ sent'[content[n].cpo] \in {sent[content[n].cpo], sent[content[n].cpo] + 1}
      BY <2>1, <2>2, <2>3
    <3>3. i <= sent'[content[n].cpo] + 1
      BY <3>1, <3>2
    <3>. QED
      BY <3>1, <3>3
  <2>. QED
    BY <2>1, <2>4 DEF FromStream
<1>3. CASE UNCHANGED <<names, content, sent>>
  BY <1>3 DEF LineInv, FromStream
<1>. QED
  BY <1>1, <1>2, <1>3
  DEF Next, Rest, vars, broker, spool, Rename, Claim, HandOver, Work, Take, ReadBad, ReadOverlay,
      ReadDoc, LockCpo, ApplyTable, ApplyStatuses, RemoveFiles, Reconcile, Restart

\* The line holds whatever happens, for any number of workers.
LEMMA NextLine == LineInv /\ [Next]_vars => LineInv'
<1>. SUFFICES ASSUME LineInv, [Next]_vars PROVE LineInv'
  OBVIOUS
<1>1. OwnInv' /\ FromStream'
  BY OwnStep, SentStep DEF LineInv
<1>2. ASSUME NEW w \in Workers, Work(w) PROVE InLine' /\ Writing' /\ Progress'
  BY <1>2, TakeLine, ReadLine, ApplyLine, LeaveLine DEF Work
<1>3. CASE UNCHANGED vars \/ \E d \in Static : Reconcile(d)
  <2>1. UNCHANGED <<sent, handler, names, content, place, scanned, work, worker>>
    BY <1>3 DEF vars, Reconcile, broker, spool, drainer
  <2>2. In("processing")' = In("processing") /\ In("incoming")' = In("incoming")
    BY <2>1 DEF In
  <2>3. InLine' /\ Progress'
    BY <2>1, <2>2, LineKept DEF LineInv, InLine, Older
  <2>. QED
    BY <1>1, <2>1, <2>3 DEF LineInv, Writing
<1>. QED
  BY <1>1, <1>2, <1>3, WebhookLine, ScannerLine, LeaveLine DEF Next, Rest, LineInv

-----------------------------------------------------------------------------
(* Nothing is lost.                                                        *)

\* What is not on disk any more is in the rows, or is excused; and so is what
\* a worker has applied: its operator is no longer to be done, or, of the
\* tables, is now at its statuses.
Safe(n) == n \in stored \/ Excused(content[n])

Applies(w) ==
  \A n \in BatchOf(worker[w].good) :
    \/ content[n].cpo \notin worker[w].cpos
    \/ worker[w].pc = "status" /\ worker[w].cpo = content[n].cpo /\ content[n].kind = "table"
    => Safe(n)

KeptInv ==
  /\ Seeded \subseteq known
  /\ \A n \in acked : place[n] # "tmp"
  /\ \A n \in 1..names : place[n] = "gone" => Safe(n)
  /\ \A w \in Workers : Applies(w)

\* A set of indices has a largest.
LEMMA LargestOf ==
  ASSUME NEW m \in Nat, NEW I \in SUBSET (1..m), I # {}
  PROVE  \E i \in I : \A j \in I : j <= i
<1>. DEFINE R == OpToRel(<, Nat)
            T == {m - i : i \in I}
<1>1. T \subseteq Nat /\ T # {}
  <2>1. \A i \in I : i \in 1..m
    OBVIOUS
  <2>2. \A i \in 1..m : m - i \in Nat
    OBVIOUS
  <2>. QED
    BY <2>1, <2>2
<1>2. PICK x \in T : \A y \in T : <<y, x>> \notin R
  <2>. HIDE DEF R, T
  <2>1. IsWellFoundedOn(R, Nat)
    BY NatLessThanWellFounded DEF R
  <2>. QED
    BY <1>1, <2>1, WFMin
<1>3. \A y \in T : ~(y < x)
  BY <1>1, <1>2 DEF OpToRel
<1>4. PICK i \in I : x = m - i
  OBVIOUS
<1>5. ASSUME NEW j \in I PROVE j <= i
  <2>1. m - j \in T
    OBVIOUS
  <2>2. ~(m - j < m - i)
    BY <2>1, <1>3, <1>4
  <2>3. i \in 1..m /\ j \in 1..m
    OBVIOUS
  <2>. HIDE DEF T, R
  <2>. QED
    BY <2>2, <2>3
<1>. QED
  BY <1>4, <1>5

\* A fold of a batch with a push of the operator and kind has a newest.
LEMMA NewestThere ==
  ASSUME LineInv, NEW w \in Workers, NEW n \in BatchOf(worker[w].good),
         content[n].cpo = worker[w].cpo
  PROVE  Newest(w, content[n].kind) # {}
<1>. DEFINE g == worker[w].good
            I == {i \in DOMAIN g : content[g[i]].cpo = worker[w].cpo /\ content[g[i]].kind = content[n].kind}
<1>1. DOMAIN g = 1..Len(g) /\ Len(g) \in Nat
  <2>1. g \in Seq(Names)
    BY DEF LineInv, OwnInv, Hands, InHand, WorkerStates
  <2>. QED
    BY <2>1, LenProperties
<1>2. I # {} /\ I \subseteq 1..Len(g)
  BY <1>1 DEF BatchOf
<1>3. PICK i \in I : \A j \in I : j <= i
  <2>. HIDE DEF I
  <2>. QED
    BY <1>1, <1>2, LargestOf
<1>4. Newest(w, content[n].kind) = {content[g[k]] : k \in {j \in I : \A l \in I : l <= j}}
  BY DEF Newest
<1>. HIDE DEF I, g
<1>. QED
  BY <1>3, <1>4

\* What the fold holds is of a file of the batch.
LEMMA NewestOfBatch ==
  ASSUME NEW w \in Workers, NEW kind, NEW d \in Newest(w, kind)
  PROVE  \E x \in BatchOf(worker[w].good) :
           content[x] = d /\ d.cpo = worker[w].cpo /\ d.kind = kind
BY DEF Newest, BatchOf

\* A push of an applied fold is in the rows, or its price is gone with a
\* silent push of its kind.
LEMMA FoldSafe ==
  ASSUME LineInv, NEW w \in Workers, NEW n \in BatchOf(worker[w].good),
         content[n].cpo = worker[w].cpo, NEW d \in Newest(w, content[n].kind)
  PROVE  n \in Carried(w, content[n].kind) \/ Excused(content[n])
<1>1. CASE content[n].price = Silent \/ d.price # Silent
  BY <1>1 DEF Carried, BatchOf
<1>2. CASE content[n].price # Silent /\ d.price = Silent
  <2>1. PICK x \in BatchOf(worker[w].good) :
          content[x] = d /\ d.cpo = worker[w].cpo /\ d.kind = content[n].kind
    BY NewestOfBatch
  <2>2. x \in 1..names
    BY LineFiles DEF LineInv
  <2>3. \E i \in DOMAIN Stream[content[n].cpo] : d = Stream[content[n].cpo][i]
    BY <2>1, <2>2 DEF LineInv, FromStream
  <2>. QED
    BY <1>2, <2>1, <2>3 DEF Excused
<1>. QED
  BY <1>1, <1>2

\* What is safe stays so.
LEMMA SafeStays ==
  ASSUME NEW n, Safe(n), stored \subseteq stored', content'[n] = content[n]
  PROVE  Safe(n)'
BY DEF Safe, Excused

\* A worker that goes on as it was has what it had.
LEMMA AppliesStays ==
  ASSUME NEW w \in Workers, Applies(w), worker'[w] = worker[w], stored \subseteq stored',
         \A n \in BatchOf(worker[w].good) : content'[n] = content[n]
  PROVE  Applies(w)'
BY SafeStays DEF Applies

LEMMA KeptInit == Init => KeptInv
<1>1. BatchOf(Idle.good) = {}
  BY EmptyBatch DEF Idle
<1>. QED
  BY <1>1 DEF Init, KeptInv, Applies

\* What the webhook does to its files.
LEMMA WebhookKeeps ==
  ASSUME LineInv, KeptInv, NEW c \in Cpos, Receive(c) \/ Rename(c) \/ Accept(c)
  PROVE  KeptInv'
<1>. USE NamesAreNat
<1>1. UNCHANGED <<worker, stored, known>>
  BY DEF Receive, Rename, Accept, drainer, db
<1>2. \A w \in Workers : BatchOf(worker[w].good) \subseteq 1..names
  BY LineFiles DEF LineInv
<1>3. \A n \in 1..names : content'[n] = content[n]
  <2>1. Receive(c) => content' = [content EXCEPT ![names + 1] = Stream[c][sent[c] + 1]]
    BY DEF Receive
  <2>2. \A n \in 1..names : n # names + 1
    BY DEF LineInv, OwnInv, FileTypes
  <2>3. Rename(c) \/ Accept(c) => content' = content
    BY DEF Rename, Accept, spool
  <2>4. ASSUME Receive(c), NEW n \in 1..names PROVE content'[n] = content[n]
    <3>1. DOMAIN content = Names /\ 1..names \subseteq Names
      BY LineFiles DEF LineInv, OwnInv, FileTypes
    <3>. HIDE DEF Names
    <3>. QED
      BY <2>1, <2>2, <2>4, <3>1
  <2>. QED
    BY <2>3, <2>4
<1>4. \A w \in Workers : Applies(w)'
  BY <1>1, <1>2, <1>3, AppliesStays DEF KeptInv
<1>5. /\ \A n \in acked' : place'[n] # "tmp"
      /\ \A n \in 1..names' : place'[n] = "gone" => n \in 1..names /\ place[n] = "gone"
  <2>1. CASE Receive(c)
    <3>1. /\ names' = names + 1 /\ place' = [place EXCEPT ![names + 1] = "tmp"] /\ acked' = acked
          /\ names \in Nat /\ names + 1 \in Names
      BY <2>1 DEF Receive, LineInv, OwnInv, FileTypes, Names
    <3>2. \A n \in 1..names' : n \in 1..names \/ n = names + 1
      BY <3>1
    <3>3. acked \subseteq 1..names /\ \A n \in 1..names : n # names + 1
      BY <3>1 DEF LineInv, OwnInv, FileTypes
    <3>. QED
      BY <3>1, <3>2, <3>3 DEF KeptInv, LineInv, OwnInv, FileTypes, Names
  <2>2. CASE Rename(c)
    BY <2>2 DEF Rename, broker, KeptInv, LineInv, OwnInv, FileTypes
  <2>3. CASE Accept(c)
    BY <2>3 DEF Accept, spool, KeptInv
  <2>. QED
    BY <2>1, <2>2, <2>3
<1>. QED
  BY <1>1, <1>3, <1>4, <1>5, SafeStays DEF KeptInv

\* A step that leaves acked, names and content, and removes only what is safe.
LEMMA KeptBy ==
  ASSUME KeptInv, UNCHANGED <<names, content, acked>>, stored \subseteq stored', known \subseteq known',
         \A n \in 1..names : /\ place'[n] = "tmp" => place[n] = "tmp"
                             /\ place'[n] = "gone" => place[n] = "gone" \/ Safe(n)',
         acked \subseteq 1..names, \A w \in Workers : Applies(w)'
  PROVE  KeptInv'
<1>1. \A n \in 1..names : place'[n] = "gone" => Safe(n)'
  BY SafeStays DEF KeptInv
<1>. QED
  BY <1>1 DEF KeptInv

\* A worker reads its files: an overlay is applied at once.
LEMMA ReadKeeps ==
  ASSUME LineInv, KeptInv, NEW w \in Workers, Take(w) \/ ReadBad(w) \/ ReadOverlay(w) \/ ReadDoc(w)
  PROVE  KeptInv'
<1>. DEFINE n == Head(worker[w].left)
<1>1. /\ UNCHANGED <<names, content, acked, known>> /\ stored \subseteq stored'
  BY DEF Take, ReadBad, ReadOverlay, ReadDoc, broker, spool, db
<1>2. worker[w] \in WorkerStates /\ DOMAIN worker = Workers
  BY DEF LineInv, OwnInv, Hands, InHand
<1>3. \A v \in Workers \ {w} : worker'[v] = worker[v]
  BY <1>2 DEF Take, ReadBad, ReadOverlay, ReadDoc
<1>4. \A v \in Workers \ {w} : Applies(v)'
  BY <1>1, <1>3, AppliesStays DEF KeptInv
<1>5. Applies(w)'
  <2>1. CASE Take(w)
    <3>1. worker'[w].good = << >>
      BY <1>2, <2>1 DEF Take, Idle
    <3>. QED
      BY <3>1, EmptyBatch DEF Applies
  <2>2. CASE ReadBad(w) \/ ReadOverlay(w)
    <3>1. /\ worker'[w].good = worker[w].good /\ worker'[w].cpos = worker[w].cpos
          /\ worker'[w].pc = worker[w].pc
      BY <1>2, <2>2 DEF ReadBad, ReadOverlay, WorkerStates
    <3>2. worker[w].pc = "read"
      BY <2>2 DEF ReadBad, ReadOverlay
    <3>. QED
      BY <1>1, <3>1, <3>2, SafeStays DEF Applies, KeptInv
  <2>3. CASE ReadDoc(w)
    <3>1. /\ worker'[w].good = Append(worker[w].good, n)
          /\ worker'[w].cpos = worker[w].cpos \cup {content[n].cpo}
          /\ worker'[w].pc = "read" /\ worker[w].left # << >>
      BY <1>2, <2>3 DEF ReadDoc, WorkerStates
    <3>2. BatchOf(worker'[w].good) = BatchOf(worker[w].good) \cup {n}
      <4>1. n \in Names
        BY <3>1, FileRead DEF LineInv
      <4>. HIDE DEF n
      <4>. QED
        BY <1>2, <3>1, <4>1, BatchAppend DEF WorkerStates
    <3>. QED
      BY <1>1, <3>1, <3>2, SafeStays DEF Applies, KeptInv
  <2>. QED
    BY <2>1, <2>2, <2>3
<1>6. \A m \in 1..names : /\ place'[m] = "tmp" => place[m] = "tmp"
                          /\ place'[m] = "gone" => place[m] = "gone" \/ Safe(m)'
  <2>1. CASE ReadOverlay(w)
    <3>1. /\ place' = [place EXCEPT ![n] = "gone"]
          /\ content[n].kind = "eliso"
          /\ \/ content[n].cpo \in known /\ n \in stored'
             \/ content[n].cpo \notin known
             \/ content[n].cpo \in MayFail
      BY <2>1 DEF ReadOverlay
    <3>2. n \in stored' \/ Excused(content[n])
      <4>1. Seeded \subseteq known
        BY DEF KeptInv
      <4>. HIDE DEF n
      <4>. QED
        BY <3>1, <4>1 DEF Excused
    <3>3. ASSUME NEW m \in 1..names, m = n PROVE Safe(m)'
      <4>1. m \in stored' \/ Excused(content[m])
        BY <3>2, <3>3
      <4>2. Excused(content[m])' <=> Excused(content[m])
        BY <1>1 DEF Excused
      <4>. QED
        BY <4>1, <4>2 DEF Safe
    <3>4. /\ place \in [Names -> Places] /\ 1..names \subseteq Names
      BY LineFiles DEF LineInv, OwnInv, FileTypes
    <3>5. \A m \in 1..names : m # n => place'[m] = place[m]
      <4>. HIDE DEF n, Names
      <4>. QED
        BY <3>1, <3>4
    <3>6. \A m \in 1..names : m = n => place'[m] = "gone"
      <4>. HIDE DEF n, Names
      <4>. QED
        BY <3>1, <3>4
    <3>. QED
      BY <3>3, <3>5, <3>6
  <2>2. CASE ReadBad(w)
    <3>1. place' = [place EXCEPT ![n] = "failed"]
      BY <2>2 DEF ReadBad
    <3>. HIDE DEF n
    <3>. QED
      BY <3>1, LineFiles DEF LineInv, OwnInv, FileTypes
  <2>. QED
    BY <2>1, <2>2 DEF Take, ReadDoc, spool
<1>7. \A v \in Workers : Applies(v)'
  BY <1>4, <1>5
<1>8. acked \subseteq 1..names
  BY DEF LineInv, OwnInv, FileTypes
<1>. QED
  BY <1>1, <1>6, <1>7, <1>8, KeptBy

\* A worker applies an operator's fold.
LEMMA ApplyKeeps ==
  ASSUME LineInv, KeptInv, NEW w \in Workers,
         (\E c \in Cpos : LockCpo(w, c)) \/ ApplyTable(w) \/ ApplyStatuses(w)
  PROVE  KeptInv'
<1>1. /\ UNCHANGED <<names, content, acked, place>> /\ stored \subseteq stored'
      /\ known \subseteq known'
  BY DEF LockCpo, ApplyTable, ApplyStatuses, broker, spool, db
<1>2. worker[w] \in WorkerStates /\ DOMAIN worker = Workers
  BY DEF LineInv, OwnInv, Hands, InHand
<1>3. /\ \A v \in Workers \ {w} : worker'[v] = worker[v]
      /\ worker'[w].good = worker[w].good
  BY <1>2 DEF LockCpo, ApplyTable, ApplyStatuses, WorkerStates
<1>4. \A v \in Workers \ {w} : Applies(v)'
  BY <1>1, <1>3, AppliesStays DEF KeptInv
<1>5. ASSUME NEW n \in BatchOf(worker[w].good),
             \/ content[n].cpo \notin worker'[w].cpos
             \/ /\ worker'[w].pc = "status" /\ worker'[w].cpo = content[n].cpo
                /\ content[n].kind = "table"
      PROVE  Safe(n)'
  <2>1. CASE \E c \in Cpos : LockCpo(w, c)
    <3>. PICK c \in Cpos : LockCpo(w, c)
      BY <2>1
    <3>1. worker'[w].pc = "table" /\ worker'[w].cpos = worker[w].cpos
      BY <1>2 DEF LockCpo, WorkerStates
    <3>. QED
      BY <1>1, <1>5, <3>1, SafeStays DEF KeptInv, Applies
  <2>2. CASE ApplyTable(w)
    <3>1. worker'[w].cpo = worker[w].cpo /\ worker'[w].cpos = worker[w].cpos
      BY <1>2, <2>2 DEF ApplyTable, WorkerStates
    <3>2. CASE content[n].cpo \notin worker[w].cpos
      BY <1>1, <3>2, SafeStays DEF KeptInv, Applies
    <3>3. CASE content[n].cpo = worker[w].cpo /\ content[n].kind = "table"
      <4>1. \/ \E d \in Newest(w, "table") : stored' = stored \cup Carried(w, "table")
            \/ worker[w].cpo \in MayFail
        BY <2>2, <3>3, NewestThere DEF ApplyTable
      <4>2. n \in stored' \/ Excused(content[n])
        BY <3>3, <4>1, FoldSafe DEF Excused
      <4>. QED
        BY <1>1, <4>2 DEF Safe, Excused
    <3>. QED
      BY <1>5, <3>1, <3>2, <3>3
  <2>3. CASE ApplyStatuses(w)
    <3>1. /\ worker'[w].pc = "apply" /\ worker'[w].cpos = worker[w].cpos \ {worker[w].cpo}
          /\ worker[w].pc = "status"
      BY <1>2, <2>3 DEF ApplyStatuses, WorkerStates
    <3>2. content[n].kind \in {"table", "status"}
      BY DEF LineInv, Progress
    <3>3. CASE content[n].cpo = worker[w].cpo /\ content[n].kind = "status"
      <4>1. \/ \E d \in Newest(w, "status") : stored' = stored \cup Carried(w, "status")
            \/ worker[w].cpo \notin known \/ worker[w].cpo \in MayFail
        BY <2>3, <3>3, NewestThere DEF ApplyStatuses
      <4>2. n \in stored' \/ Excused(content[n])
        BY <3>3, <4>1, FoldSafe DEF Excused, KeptInv
      <4>. QED
        BY <1>1, <4>2 DEF Safe, Excused
    <3>4. CASE content[n].cpo # worker[w].cpo \/ content[n].kind = "table"
      BY <1>1, <1>5, <3>1, <3>4, SafeStays DEF KeptInv, Applies
    <3>. QED
      BY <3>2, <3>3, <3>4
  <2>. QED
    BY <2>1, <2>2, <2>3
<1>6. Applies(w)'
  BY <1>1, <1>3, <1>5 DEF Applies
<1>7. \A v \in Workers : Applies(v)'
  BY <1>4, <1>6
<1>8. acked \subseteq 1..names
  BY DEF LineInv, OwnInv, FileTypes
<1>. QED
  BY <1>1, <1>7, <1>8, KeptBy

\* The files of a batch go only when all its operators are done.
LEMMA RemoveKeeps ==
  ASSUME LineInv, KeptInv, NEW w \in Workers, RemoveFiles(w)
  PROVE  KeptInv'
<1>. DEFINE done == BatchOf(worker[w].good)
<1>1. /\ UNCHANGED <<names, content, acked, stored, known>> /\ worker[w].cpos = {}
      /\ place' = [n \in Names |-> IF n \in done THEN "gone" ELSE place[n]]
      /\ worker' = [worker EXCEPT ![w] = Idle]
  BY DEF RemoveFiles, Applied, BatchOf, broker, db
<1>2. \A n \in done : Safe(n)'
  <2>1. \A n \in done : Safe(n)
    BY <1>1 DEF KeptInv, Applies
  <2>. QED
    BY <1>1, <2>1, SafeStays
<1>3. \A v \in Workers : Applies(v)'
  <2>1. worker'[w] = Idle /\ \A v \in Workers \ {w} : worker'[v] = worker[v]
    BY <1>1 DEF LineInv, OwnInv, Hands
  <2>2. BatchOf(worker'[w].good) = {}
    BY <2>1, EmptyBatch DEF Idle
  <2>3. Applies(w)'
    BY <2>2 DEF Applies
  <2>. QED
    BY <1>1, <2>1, <2>3, AppliesStays DEF KeptInv
<1>. HIDE DEF done
<1>4. \A n \in 1..names : place'[n] = IF n \in done THEN "gone" ELSE place[n]
  BY <1>1, LineFiles DEF LineInv
<1>5. acked \subseteq 1..names
  BY DEF LineInv, OwnInv, FileTypes
<1>. QED
  BY <1>1, <1>2, <1>3, <1>4, <1>5, KeptBy

\* No step of the spool, a crash included, loses what it has answered for.
LEMMA KeptStep == LineInv /\ KeptInv /\ [Next]_vars => KeptInv'
<1>. SUFFICES ASSUME LineInv, KeptInv, [Next]_vars PROVE KeptInv'
  OBVIOUS
<1>0. acked \subseteq 1..names
  BY DEF LineInv, OwnInv, FileTypes
<1>1. CASE Claim \/ HandOver
  <2>1. UNCHANGED <<names, content, acked, stored, known, worker>>
    BY <1>1 DEF Claim, HandOver, broker, spool, db
  <2>2. \A n \in 1..names : place'[n] \in {place[n], "processing"}
    <3>1. CASE Claim
      BY <3>1, LineFiles DEF Claim, ClaimedTo, LineInv
    <3>. QED
      BY <1>1, <3>1 DEF HandOver, spool
  <2>3. \A w \in Workers : Applies(w)'
    BY <2>1, AppliesStays DEF KeptInv
  <2>. QED
    BY <1>0, <2>1, <2>2, <2>3, KeptBy
<1>2. CASE UNCHANGED vars \/ \E d \in Static : Reconcile(d)
  <2>1. UNCHANGED <<names, content, acked, stored, place, worker>> /\ known \subseteq known'
    BY <1>2 DEF vars, Reconcile, broker, spool, drainer, db
  <2>2. \A w \in Workers : Applies(w)'
    BY <2>1, AppliesStays DEF KeptInv
  <2>. QED
    BY <1>0, <2>1, <2>2, KeptBy
<1>3. CASE Restart
  <2>1. /\ UNCHANGED <<names, content, acked, stored, known>>
        /\ place' = [n \in Names |-> IF place[n] = "processing" THEN "incoming" ELSE place[n]]
        /\ worker' = [w \in Workers |-> Idle]
    BY <1>3 DEF Restart, Recovered, db
  <2>2. \A n \in 1..names : place'[n] \in {place[n], "incoming"}
    BY <2>1, LineFiles DEF LineInv
  <2>3. \A w \in Workers : Applies(w)'
    BY <2>1, EmptyBatch DEF Applies, Idle
  <2>. QED
    BY <1>0, <2>1, <2>2, <2>3, KeptBy
<1>. QED
  BY <1>1, <1>2, <1>3, WebhookKeeps, ReadKeeps, ApplyKeeps, RemoveKeeps DEF Next, Work, Rest

(* "nothing is lost as long as the file was written before 202"            *)
(* (mobilithek_spool.go): whatever crashes, is repeated, folded or fails,  *)
(* for any number of operators, pushes and workers, a push answered for is *)
(* on disk, or its status and price, or newer ones, are in the rows,       *)
(* unless one of the excuses of Excused holds of it.                       *)
THEOREM NothingLostHolds == Spec => []NothingLost
<1>1. LineInv /\ KeptInv => NothingLost
  <2>. SUFFICES ASSUME LineInv, KeptInv, NEW n \in acked
                PROVE  \/ place[n] \in {"incoming", "processing", "failed"} \/ n \in stored
                       \/ Excused(content[n])
    BY DEF NothingLost
  <2>1. n \in 1..names /\ n \in Names
    BY LineFiles DEF LineInv, OwnInv, FileTypes
  <2>2. place[n] \in Places /\ place[n] # "none" /\ place[n] # "tmp"
    BY <2>1 DEF LineInv, OwnInv, FileTypes, Writing, KeptInv
  <2>. QED
    BY <2>1, <2>2 DEF KeptInv, Safe, Places
<1>. QED
  BY <1>1, InitLine, NextLine, KeptInit, KeptStep, PTL DEF Spec

-----------------------------------------------------------------------------
(* The rows follow the line.                                               *)

\* A push that is still on its temporary name has not come.
LEMMA FilesKept ==
  ASSUME NEW c, Files(c)' = Files(c), \A n \in Files(c) : content'[n] = content[n]
  PROVE  /\ \A m : Newer(c, m)' = Newer(c, m)
         /\ \A k : Told(c, k)' = Told(c, k)
<1>1. \A m : Newer(c, m)' = Newer(c, m)
  BY DEF Newer
<1>2. ASSUME NEW k PROVE Told(c, k)' = Told(c, k)
  BY <1>1 DEF Told, Come
<1>. QED
  BY <1>1, <1>2

\* An operator's files hold its pushes, of the kinds it sends.
LEMMA FileKinds ==
  ASSUME NEW c \in Cpos, Plain(c), LineInv, NEW n \in 1..names, content[n].cpo = c
  PROVE  /\ content[n].kind \in {"eliso", "table", "status", "bad"}
         /\ content[n].kind = "eliso" => c \in Seeded /\ OnlyOf(c, {"eliso", "bad"})
         /\ content[n].kind = "status" => c \in Seeded
<1>1. PICK i \in DOMAIN Stream[c] : content[n] = Stream[c][i]
  BY DEF LineInv, FromStream
<1>. QED
  BY <1>1 DEF Plain, OnlyOf

\* A step that moves files past their temporary names only.
LEMMA FreshKept ==
  ASSUME NEW c \in Cpos, LineInv, Fresh(c),
         UNCHANGED <<names, content, sent>>, handler'[c] \in {handler[c], NoName},
         known \subseteq known',
         \A n \in 1..names : place'[n] = "tmp" <=> place[n] = "tmp",
         \A n \in Files(c) : place'[n] \in {"incoming", "processing", "gone"},
         \A m, n \in Files(c) : m < n /\ place'[n] = "gone" => place'[m] = "gone",
         \A m \in Files(c) : Newer(c, m) = {} /\ Done(c, m)' => InSync(c, content[m])'
  PROVE  Fresh(c)'
<1>1. Files(c)' = Files(c)
  BY DEF Files
<1>2. /\ \A m : Newer(c, m)' = Newer(c, m)
      /\ \A j : Told(c, j)' = Told(c, j)
  BY <1>1, FilesKept
<1>3. InPlace(c)' /\ Sorted(c)' /\ Ordered(c)'
  BY <1>1 DEF Fresh, InPlace, Sorted, Ordered
<1>4. Synced(c)'
  BY <1>1, <1>2 DEF Synced, InSync
<1>5. handler[c] # NoName => handler[c] \in 1..names
  BY DEF LineInv, OwnInv, FileTypes, NoName
<1>6. Delivered(c)'
  BY <1>2, <1>5 DEF Fresh, Delivered
<1>. QED
  BY <1>3, <1>4, <1>6 DEF Fresh

\* The webhook's part: the last of an operator's files is the last it was sent.
LEMMA FreshWebhook ==
  ASSUME NEW c \in Cpos, Plain(c), LineInv, Fresh(c),
         NEW e \in Cpos, Receive(e) \/ Rename(e) \/ Accept(e)
  PROVE  Fresh(c)'
<1>. USE SpoolConstants, NamesAreNat
<1>0. UNCHANGED <<known, live, price, worker>>
  BY DEF Receive, Rename, Accept, drainer, db
<1>1. CASE Receive(e)
  <2>1. /\ names + 1 \in Names /\ names' = names + 1 /\ names \in Nat
        /\ content' = [content EXCEPT ![names + 1] = Stream[e][sent[e] + 1]]
        /\ place' = [place EXCEPT ![names + 1] = "tmp"]
        /\ handler' = [handler EXCEPT ![e] = names + 1]
        /\ sent' = sent
    BY <1>1 DEF Receive, LineInv, OwnInv, FileTypes, Names
  <2>2. /\ \A n \in 1..names : content'[n] = content[n] /\ place'[n] = place[n]
        /\ content'[names + 1] = Stream[e][sent[e] + 1] /\ place'[names + 1] = "tmp"
        /\ \A n \in 1..names' : n \in 1..names \/ n = names + 1
        /\ 1..names \subseteq 1..names'
    BY <2>1 DEF LineInv, OwnInv, FileTypes, Names
  <2>3. Files(c)' = Files(c) /\ Files(c) \subseteq 1..names
    BY <2>2 DEF Files
  <2>4. /\ \A m : Newer(c, m)' = Newer(c, m)
        /\ \A j : Told(c, j)' = Told(c, j)
    BY <2>2, <2>3, FilesKept
  <2>5. sent[e] + 1 \in DOMAIN Stream[e]
    BY <1>1, SpoolAssumption DEF Receive, LineInv, OwnInv, FileTypes
  <2>6. content'[names + 1].cpo = e
    BY <2>2, <2>5, SpoolAssumption
  <2>7. InPlace(c)' /\ Sorted(c)'
    <3>1. ASSUME NEW m \in 1..names, e = c, content[m].cpo = c, content[m].kind = "status"
          PROVE  content'[names + 1].kind # "table"
      <4>1. PICK i \in DOMAIN Stream[c] : i <= sent[c] + 1 /\ content[m] = Stream[c][i]
        BY <3>1 DEF LineInv, FromStream
      <4>2. i = sent[c] + 1 \/ i < sent[c] + 1
        BY <4>1, SpoolAssumption DEF LineInv, OwnInv, FileTypes
      <4>. QED
        BY <2>2, <2>5, <3>1, <4>1, <4>2 DEF Plain, OnlyOf
    <3>2. \A n \in Files(c) : place'[n] \in {"incoming", "processing", "gone"}
      BY <2>2, <2>3 DEF Fresh, InPlace
    <3>3. \A m \in 1..names' : ~(names + 1 < m)
      BY <2>1
    <3>4. Sorted(c)'
      BY <2>2, <2>6, <3>1, <3>3 DEF Fresh, Sorted
    <3>. QED
      BY <1>0, <2>3, <3>2, <3>4 DEF Fresh, InPlace
  <2>8. Ordered(c)'
    BY <2>2, <2>3 DEF Fresh, Ordered
  <2>9. Synced(c)'
    BY <1>0, <2>2, <2>3, <2>4 DEF Fresh, Synced, Done, InSync
  <2>10. Delivered(c)'
    <3>1. handler'[c] # NoName /\ place'[handler'[c]] # "tmp" =>
            handler'[c] = handler[c] /\ place[handler[c]] # "tmp"
      <4>1. CASE e = c
        BY <2>1, <2>2, <4>1 DEF LineInv, OwnInv, FileTypes
      <4>2. CASE e # c
        BY <2>1, <2>2, <4>2 DEF LineInv, OwnInv, FileTypes, NoName
      <4>. QED
        BY <4>1, <4>2
    <3>. QED
      BY <2>1, <2>4, <3>1 DEF Fresh, Delivered
  <2>. QED
    BY <2>7, <2>8, <2>9, <2>10 DEF Fresh
<1>2. CASE Rename(e)
  <2>0. PICK h, q : h = handler[e] /\ q = sent[e] + 1
    OBVIOUS
  <2>1. /\ h \in 1..names /\ place[h] = "tmp" /\ h \in Names /\ h # NoName
        /\ place' = [place EXCEPT ![h] = "incoming"]
        /\ UNCHANGED <<sent, handler, names, content>>
    BY <1>2, <2>0 DEF Rename, broker, LineInv, OwnInv, FileTypes, NoName, Names
  <2>2. /\ \A n \in 1..names : place'[n] = IF n = h THEN "incoming" ELSE place[n]
        /\ names \in Nat
    BY <2>1 DEF LineInv, OwnInv, FileTypes, Names
  <2>3. /\ content[h] = Stream[e][q] /\ q \in DOMAIN Stream[e] /\ q \in Nat /\ sent[e] < q
        /\ \A n \in 1..names : content[n].cpo = e => n <= h
        /\ sent[e] < Len(Stream[e]) /\ \A i \in DOMAIN Stream[e] : i <= sent[e] \/ i = q \/ q < i
        /\ sent[e] \in Nat /\ DOMAIN Stream[e] \subseteq Nat
    <3>1. sent[e] \in Nat /\ sent[e] < Len(Stream[e])
      BY <2>0, <2>1 DEF LineInv, OwnInv, FileTypes
    <3>2. DOMAIN Stream[e] = 1..Len(Stream[e]) /\ Len(Stream[e]) \in Nat
      BY SpoolAssumption
    <3>3. /\ content[h] = Stream[e][q]
          /\ \A n \in 1..names : content[n].cpo = e => n <= h
      BY <2>0, <2>1 DEF LineInv, Writing
    <3>. QED
      BY <2>0, <3>1, <3>2, <3>3
  <2>4. content[h].cpo = e
    BY <2>3, SpoolAssumption
  <2>5. CASE e # c \/ content[h].kind = "bad"
    <3>1. Files(c)' = Files(c) /\ h \notin Files(c)
      BY <2>1, <2>2, <2>4, <2>5 DEF Files
    <3>2. /\ \A m : Newer(c, m)' = Newer(c, m)
          /\ \A j : Told(c, j)' = Told(c, j)
      BY <2>1, <3>1, FilesKept
    <3>3. \A n \in Files(c) : place'[n] = place[n]
      BY <2>2, <3>1 DEF Files
    <3>4. InPlace(c)' /\ Sorted(c)' /\ Ordered(c)'
      BY <1>0, <2>1, <3>1, <3>3 DEF Fresh, InPlace, Sorted, Ordered
    <3>5. Synced(c)'
      BY <1>0, <2>1, <3>1, <3>2, <3>3 DEF Fresh, Synced, Done, InSync
    <3>6. Delivered(c)'
      <4>1. CASE e # c
        <5>1. handler[c] # NoName => handler[c] \in 1..names /\ handler[c] # h
          <6>1. ASSUME handler[c] = h, handler[c] # NoName PROVE content[h].cpo = c
            <7>1. sent[c] + 1 \in DOMAIN Stream[c] /\ content[h] = Stream[c][sent[c] + 1]
              BY <6>1, SpoolAssumption DEF LineInv, OwnInv, FileTypes, Writing
            <7>. QED
              BY <7>1, SpoolAssumption
          <6>. QED
            BY <2>0, <2>4, <4>1, <6>1 DEF LineInv, OwnInv, FileTypes, NoName
        <5>. QED
          BY <2>0, <2>1, <2>2, <3>2, <5>1 DEF Fresh, Delivered
      <4>2. CASE e = c
        <5>1. {i \in Come(c) : i <= sent[c]} = {i \in Come(c) : i <= sent[c] + 1}
          <6>1. q \notin Come(c)
            BY <2>3, <2>5, <4>2 DEF Come
          <6>2. q = sent[c] + 1
            BY <2>0, <4>2
          <6>3. \A i \in Come(c) : i \in Nat /\ sent[c] \in Nat
            BY <2>3, <4>2 DEF Come
          <6>. QED
            BY <6>1, <6>2, <6>3
        <5>2. Told(c, sent[c]) <=> Told(c, sent[c] + 1)
          BY <5>1 DEF Told
        <5>. QED
          BY <2>1, <3>2, <5>2 DEF Fresh, Delivered
      <4>. QED
        BY <4>1, <4>2
    <3>. QED
      BY <3>4, <3>5, <3>6 DEF Fresh
  <2>6. CASE e = c /\ content[h].kind # "bad"
    <3>1. Files(c)' = Files(c) \cup {h} /\ h \notin Files(c)
      BY <2>1, <2>2, <2>4, <2>6 DEF Files
    <3>2. \A n \in Files(c) : n \in 1..names /\ n < h /\ place'[n] = place[n]
      BY <2>1, <2>2, <2>3, <2>6, <3>1 DEF Files
    <3>3. /\ \A m \in Files(c) : h \in Newer(c, m)'
          /\ Newer(c, h)' = {}
      BY <2>1, <2>2, <3>1, <3>2 DEF Newer
    <3>4. InPlace(c)' /\ Sorted(c)' /\ Ordered(c)'
      BY <1>0, <2>1, <2>2, <3>1, <3>2 DEF Fresh, InPlace, Sorted, Ordered
    <3>5. ~Done(c, h)'
      <4>1. \A w \in Workers : h \notin BatchOf(worker[w].good)
        BY <2>1, LineFiles DEF LineInv, In
      <4>. QED
        BY <1>0, <2>1, <2>2, <4>1 DEF Done
    <3>6. Synced(c)'
      BY <3>1, <3>3, <3>5 DEF Synced
    <3>7. Told(c, q)'
      <4>1. q \in Come(c) /\ \A i \in Come(c) : i \in Nat
        BY <2>3, <2>6 DEF Come
      <4>2. q \in {i \in Come(c) : i <= q} /\ \A i \in {j \in Come(c) : j <= q} : i <= q
        BY <2>3, <4>1
      <4>. QED
        BY <2>1, <2>3, <2>6, <3>1, <3>3, <4>2 DEF Told
    <3>8. Delivered(c)'
      BY <2>0, <2>1, <2>3, <2>6, <3>7 DEF Delivered
    <3>. QED
      BY <3>4, <3>6, <3>8 DEF Fresh
  <2>. QED
    BY <2>5, <2>6
<1>3. CASE Accept(e)
  <2>1. /\ handler[e] # NoName /\ place[handler[e]] # "tmp"
        /\ handler' = [handler EXCEPT ![e] = NoName]
        /\ sent' \in {sent, [sent EXCEPT ![e] = sent[e] + 1]}
        /\ UNCHANGED <<names, content, place>>
    BY <1>3 DEF Accept, spool
  <2>2. Files(c)' = Files(c)
    BY <2>1 DEF Files
  <2>3. /\ \A m : Newer(c, m)' = Newer(c, m)
        /\ \A j : Told(c, j)' = Told(c, j)
    BY <2>1, <2>2, FilesKept
  <2>4. InPlace(c)' /\ Sorted(c)' /\ Ordered(c)'
    BY <1>0, <2>1, <2>2 DEF Fresh, InPlace, Sorted, Ordered
  <2>5. Synced(c)'
    BY <1>0, <2>1, <2>2, <2>3 DEF Fresh, Synced, Done, InSync
  <2>6. Delivered(c)'
    <3>1. CASE e # c
      <4>1. sent'[c] = sent[c] /\ handler'[c] = handler[c]
        BY <2>1, <3>1 DEF LineInv, OwnInv, FileTypes
      <4>. QED
        BY <2>1, <2>3, <4>1 DEF Fresh, Delivered
    <3>2. CASE e = c
      <4>1. handler'[c] = NoName /\ sent'[c] \in {sent[c], sent[c] + 1}
        BY <2>1, <3>2 DEF LineInv, OwnInv, FileTypes
      <4>2. Told(c, sent[c] + 1)
        BY <2>1, <3>2 DEF Fresh, Delivered
      <4>3. sent[c] < Len(Stream[c])
        BY <2>1, <3>2 DEF LineInv, OwnInv, FileTypes
      <4>. QED
        BY <2>3, <4>1, <4>2, <4>3 DEF Delivered
    <3>. QED
      BY <3>1, <3>2
  <2>. QED
    BY <2>4, <2>5, <2>6 DEF Fresh
<1>. QED
  BY <1>1, <1>2, <1>3

\* Files move between directories, and the rows are left alone.
LEMMA FreshMoved ==
  ASSUME NEW c \in Cpos, LineInv, Fresh(c),
         UNCHANGED <<names, content, sent, known, live, price>>,
         handler'[c] \in {handler[c], NoName},
         \A n \in 1..names : place'[n] = "tmp" <=> place[n] = "tmp",
         \A n \in Files(c) : /\ place'[n] \in {"incoming", "processing", "gone"}
                             /\ place'[n] = "gone" <=> place[n] = "gone",
         \A m \in Files(c) : Done(c, m)' => Done(c, m)
  PROVE  Fresh(c)'
<1>1. \A m, n \in Files(c) : m < n /\ place'[n] = "gone" => place'[m] = "gone"
  BY DEF Fresh, Ordered
<1>2. \A m \in Files(c) : Newer(c, m) = {} /\ Done(c, m)' => InSync(c, content[m])'
  BY DEF Fresh, Synced, InSync
<1>. QED
  BY <1>1, <1>2, FreshKept

\* The scanner moves files on, and no worker knows of them yet.
LEMMA FreshScanner ==
  ASSUME NEW c \in Cpos, LineInv, Fresh(c), Claim \/ HandOver
  PROVE  Fresh(c)'
<1>1. UNCHANGED <<sent, handler, names, content, known, live, price, worker>>
  BY DEF Claim, HandOver, broker, spool, db
<1>2. \A n \in 1..names : \/ place'[n] = place[n]
                          \/ place[n] = "incoming" /\ place'[n] = "processing"
  <2>1. CASE Claim
    <3>1. /\ place' = [n \in Names |-> IF n \in Oldest(SpoolBatch) THEN "processing" ELSE place[n]]
          /\ \A n \in Oldest(SpoolBatch) : place[n] = "incoming"
      BY <2>1 DEF Claim, ClaimedTo, Oldest, In
    <3>. QED
      BY <3>1, LineFiles DEF LineInv
  <2>. QED
    BY <2>1 DEF HandOver, spool
<1>3. \A n \in Files(c) : n \in 1..names
  BY DEF Files
<1>4. \A m \in Files(c) : Done(c, m)' => Done(c, m)
  BY <1>1, <1>2, <1>3 DEF Done
<1>5. \A n \in Files(c) : /\ place'[n] \in {"incoming", "processing", "gone"}
                          /\ place'[n] = "gone" <=> place[n] = "gone"
  BY <1>2, <1>3 DEF Fresh, InPlace
<1>. QED
  BY <1>1, <1>2, <1>4, <1>5, FreshMoved

\* A worker takes a batch, sorts a file of it, or locks an operator.
LEMMA FreshReading ==
  ASSUME NEW c \in Cpos, LineInv, Fresh(c), NEW w \in Workers,
         Take(w) \/ ReadBad(w) \/ ReadDoc(w) \/ \E e \in Cpos : LockCpo(w, e)
  PROVE  Fresh(c)'
<1>1. UNCHANGED <<sent, handler, names, content, known, live, price>>
  BY DEF Take, ReadBad, ReadDoc, LockCpo, broker, spool, db
<1>2. \A n \in 1..names : \/ place'[n] = place[n]
                          \/ /\ content[n].kind = "bad"
                             /\ place[n] # "tmp" /\ place'[n] # "tmp"
  <2>1. CASE ReadBad(w)
    <3>. DEFINE h == Head(worker[w].left)
    <3>1. /\ place' = [place EXCEPT ![h] = "failed"] /\ content[h].kind = "bad"
          /\ worker[w].left # << >>
      BY <2>1 DEF ReadBad
    <3>2. h \in In("processing")
      BY <3>1, FileRead DEF LineInv
    <3>3. place[h] = "processing"
      BY <3>2 DEF In
    <3>. HIDE DEF h
    <3>. QED
      BY <3>1, <3>3, LineFiles DEF LineInv, OwnInv, FileTypes
  <2>. QED
    BY <2>1 DEF Take, ReadDoc, LockCpo, spool
<1>3. \A n \in Files(c) : n \in 1..names /\ place'[n] = place[n]
  BY <1>2 DEF Files
<1>5. worker[w] \in WorkerStates /\ DOMAIN worker = Workers
  BY DEF LineInv, OwnInv, Hands, InHand
<1>4. \A v \in Workers \ {w} : worker'[v] = worker[v]
  BY <1>5 DEF Take, ReadBad, ReadDoc, LockCpo
<1>6. ASSUME NEW m \in Files(c), Done(c, m)' PROVE Done(c, m)
  <2>1. CASE place'[m] = "gone"
    BY <1>3, <2>1 DEF Done
  <2>2. CASE /\ m \in BatchOf(worker'[w].good)
             /\ \/ c \notin worker'[w].cpos
                \/ worker'[w].pc = "status" /\ worker'[w].cpo = c /\ content[m].kind = "table"
    <3>1. CASE Take(w)
      <4>1. worker'[w].good = << >>
        BY <1>5, <3>1 DEF Take, Idle
      <4>. QED
        BY <2>2, <4>1, EmptyBatch
    <3>2. CASE ReadBad(w)
      <4>1. /\ worker'[w].good = worker[w].good /\ worker'[w].cpos = worker[w].cpos
            /\ worker'[w].pc = worker[w].pc /\ worker'[w].cpo = worker[w].cpo
        BY <1>5, <3>2 DEF ReadBad, WorkerStates
      <4>. QED
        BY <2>2, <4>1 DEF Done
    <3>3. CASE ReadDoc(w)
      <4>. DEFINE n == Head(worker[w].left)
      <4>1. /\ worker'[w].good = Append(worker[w].good, n)
            /\ worker'[w].cpos = worker[w].cpos \cup {content[n].cpo}
            /\ worker'[w].pc = "read" /\ worker[w].left # << >>
        BY <1>5, <3>3 DEF ReadDoc, WorkerStates
      <4>2. n \in Names /\ worker[w].good \in Seq(Names)
        BY <1>5, <4>1, FileRead DEF LineInv, WorkerStates
      <4>. HIDE DEF n
      <4>3. BatchOf(worker'[w].good) = BatchOf(worker[w].good) \cup {n}
        BY <4>1, <4>2, BatchAppend
      <4>4. content[m].cpo = c
        BY DEF Files
      <4>. QED
        BY <2>2, <4>1, <4>3, <4>4 DEF Done
    <3>4. ASSUME NEW e \in Cpos, LockCpo(w, e) PROVE Done(c, m)
      <4>1. /\ worker'[w].good = worker[w].good /\ worker'[w].cpos = worker[w].cpos
            /\ worker'[w].pc = "table"
        BY <1>5, <3>4 DEF LockCpo, WorkerStates
      <4>. QED
        BY <2>2, <4>1 DEF Done
    <3>. QED
      BY <3>1, <3>2, <3>3, <3>4
  <2>. QED
    BY <1>1, <1>4, <1>6, <2>1, <2>2 DEF Done
<1>7. \A n \in Files(c) : /\ place'[n] \in {"incoming", "processing", "gone"}
                          /\ place'[n] = "gone" <=> place[n] = "gone"
  BY <1>3 DEF Fresh, InPlace
<1>8. \A n \in 1..names : place'[n] = "tmp" <=> place[n] = "tmp"
  BY <1>2
<1>. QED
  BY <1>1, <1>6, <1>7, <1>8, FreshMoved

\* The process dies: what was claimed comes again.
LEMMA FreshRestart ==
  ASSUME NEW c \in Cpos, LineInv, Fresh(c), Restart
  PROVE  Fresh(c)'
<1>1. /\ UNCHANGED <<sent, names, content, known, live, price>>
      /\ handler' = [e \in Cpos |-> NoName] /\ worker' = [w \in Workers |-> Idle]
      /\ place' = [n \in Names |-> IF place[n] = "processing" THEN "incoming" ELSE place[n]]
  BY DEF Restart, Recovered, db
<1>2. /\ \A n \in 1..names : place'[n] = IF place[n] = "processing" THEN "incoming" ELSE place[n]
      /\ \A n \in Files(c) : n \in 1..names
  BY <1>1, LineFiles DEF LineInv, Files
<1>3. \A w \in Workers : BatchOf(worker'[w].good) = {}
  BY <1>1, EmptyBatch DEF Idle
<1>4. \A m \in Files(c) : Done(c, m)' => Done(c, m)
  BY <1>2, <1>3 DEF Done
<1>5. \A n \in Files(c) : /\ place'[n] \in {"incoming", "processing", "gone"}
                          /\ place'[n] = "gone" <=> place[n] = "gone"
  BY <1>2 DEF Fresh, InPlace
<1>. QED
  BY <1>1, <1>2, <1>4, <1>5, FreshMoved

\* A pull of another operator's table.
LEMMA FreshReconcile ==
  ASSUME NEW c \in Cpos, LineInv, Fresh(c), NEW d \in Static, d.cpo # c, Reconcile(d)
  PROVE  Fresh(c)'
<1>1. /\ UNCHANGED <<sent, handler, names, content, place, worker>>
      /\ known \subseteq known' /\ live'[c] = live[c] /\ price'[c] = price[c]
  BY DEF Reconcile, broker, spool, drainer, LineInv, OwnInv, RowTypes
<1>2. \A m \in Files(c) : Newer(c, m) = {} /\ Done(c, m)' => InSync(c, content[m])'
  BY <1>1 DEF Fresh, Synced, Done, InSync
<1>3. \A n \in Files(c) : place'[n] \in {"incoming", "processing", "gone"}
  BY <1>1 DEF Fresh, InPlace
<1>4. \A m, n \in Files(c) : m < n /\ place'[n] = "gone" => place'[m] = "gone"
  BY <1>1 DEF Fresh, Ordered
<1>. QED
  BY <1>1, <1>2, <1>3, <1>4, FreshKept

\* What is older than a worker's file, and not in its hands, is worked off.
LEMMA OlderWorkedOff ==
  ASSUME NEW c \in Cpos, LineInv, Fresh(c), NEW w \in Workers,
         SerialWork,
         NEW y \in Holds(w), content[y].cpo = c, NEW x \in Files(c), x < y, x \notin Holds(w)
  PROVE  place[x] = "gone"
<1>1. /\ x \in 1..names /\ content[x].cpo = c /\ x \in Nat /\ y \in Nat /\ ~(y < x)
      /\ y \in In("processing")
  BY LineFiles DEF Files, LineInv, In
<1>2. x \notin In("incoming")
  BY <1>1 DEF LineInv, InLine, Older
<1>3. x \notin In("processing")
  <2>1. x \notin BatchOf(scanned) /\ \A i \in DOMAIN work : x \notin BatchOf(work[i])
    BY <1>1 DEF LineInv, InLine, Older
  <2>2. \A v \in Workers : x \notin Holds(v)
    BY <1>1 DEF SerialWork
  <2>. QED
    BY <2>1, <2>2 DEF LineInv, OwnInv, Claimed
<1>. QED
  BY <1>1, <1>2, <1>3 DEF Fresh, InPlace, In

\* The fold holds the newest push there is, when that one is in the batch.
LEMMA NewestIsLatest ==
  ASSUME LineInv, NEW w \in Workers, NEW m \in BatchOf(worker[w].good),
         m \in Files(worker[w].cpo), Newer(worker[w].cpo, m) = {}
  PROVE  Newest(w, content[m].kind) = {content[m]}
<1>. DEFINE g == worker[w].good
            kind == content[m].kind
            I == {i \in DOMAIN g : content[g[i]].cpo = worker[w].cpo /\ content[g[i]].kind = kind}
<1>1. g \in Seq(Names) /\ Increasing(g)
  BY DEF LineInv, OwnInv, Hands, InHand, WorkerStates, InLine
<1>2. DOMAIN g = 1..Len(g) /\ Len(g) \in Nat /\ \A i, j \in DOMAIN g : i < j => g[i] < g[j]
  BY <1>1, LenProperties DEF Increasing
<1>3. BatchOf(g) \subseteq Files(worker[w].cpo) \cup {n \in 1..names : content[n].cpo # worker[w].cpo}
  <2>1. BatchOf(g) \subseteq In("processing") /\ In("processing") \subseteq 1..names
    BY LineFiles DEF LineInv
  <2>2. \A n \in BatchOf(g) : content[n].kind # "bad" /\ place[n] = "processing"
    BY <2>1 DEF LineInv, Progress, In
  <2>. QED
    BY <2>1, <2>2 DEF Files
<1>4. \A j \in I : g[j] \in Files(worker[w].cpo)
  BY <1>3 DEF BatchOf
<1>5. PICK i \in DOMAIN g : g[i] = m
  BY DEF BatchOf
<1>6. content[m].cpo = worker[w].cpo
  BY DEF Files
<1>7. i \in I
  BY <1>5, <1>6
<1>8. \A j \in I : ~(i < j)
  BY <1>2, <1>4, <1>5 DEF Newer
<1>9. {j \in I : \A l \in I : l <= j} = {i}
  BY <1>2, <1>7, <1>8
<1>10. Newest(w, kind) = {content[g[j]] : j \in {j \in I : \A l \in I : l <= j}}
  BY DEF Newest
<1>. HIDE DEF I, g, kind
<1>11. Newest(w, kind) = {content[m]}
  BY <1>5, <1>9, <1>10
<1>. QED
  BY <1>11 DEF kind

\* While one of its pushes is in a batch the operator's newest is not worked off.
LEMMA NewestInHand ==
  ASSUME NEW c \in Cpos, LineInv, Fresh(c), NEW w \in Workers,
         NEW x \in Holds(w), content[x].cpo = c, content[x].kind # "bad",
         NEW m \in Files(c), Newer(c, m) = {}
  PROVE  place[m] # "gone"
<1>1. x \in In("processing") /\ x \in 1..names /\ names \in Nat
  BY LineFiles DEF LineInv
<1>2. x \in Files(c) /\ place[x] = "processing" /\ x \in Nat /\ m \in Nat
  BY <1>1 DEF Files, In
<1>3. ~(m < x)
  BY <1>2 DEF Newer
<1>. QED
  BY <1>2, <1>3 DEF Fresh, Ordered

\* The rows take what the document says.
LEMMA RowsTake ==
  ASSUME NEW c \in Cpos, NEW d, OwnInv,
         live' = [live EXCEPT ![c] = d.status], price' = [price EXCEPT ![c] = PriceAfter(d, price[c])]
  PROVE  \A e : e = d => live'[c] = e.status
                 /\ (e.price # Silent => price'[c] = IF e.price = Withdrawn THEN NoPrice ELSE e.price)
BY DEF OwnInv, RowTypes, PriceAfter

\* The files of a batch are removed: all of an operator's up to its newest there.
LEMMA FreshRemove ==
  ASSUME NEW c \in Cpos, LineInv, SerialWork, Fresh(c), NEW w \in Workers, RemoveFiles(w)
  PROVE  Fresh(c)'
<1>. DEFINE done == BatchOf(worker[w].good)
<1>1. /\ UNCHANGED <<sent, handler, names, content, known, live, price>>
      /\ place' = [n \in Names |-> IF n \in done THEN "gone" ELSE place[n]]
      /\ worker' = [worker EXCEPT ![w] = Idle]
      /\ worker[w].left = << >> /\ worker[w].cpos = {}
  BY DEF RemoveFiles, Applied, BatchOf, broker, db
<1>2. /\ \A n \in 1..names : place'[n] = IF n \in done THEN "gone" ELSE place[n]
      /\ \A n \in Files(c) : n \in 1..names
  BY <1>1, LineFiles DEF LineInv, Files
<1>3. done = Holds(w) /\ \A n \in done : place[n] = "processing"
  <2>1. done = Holds(w)
    BY <1>1, EmptyBatch DEF Holds
  <2>. QED
    BY <2>1, LineFiles DEF LineInv, In
<1>4. BatchOf(worker'[w].good) = {} /\ \A v \in Workers \ {w} : worker'[v] = worker[v]
  BY <1>1, EmptyBatch DEF Idle, LineInv, OwnInv, Hands
<1>5. \A m \in Files(c) : Done(c, m)' => Done(c, m)
  BY <1>1, <1>2, <1>4 DEF Done
<1>6. \A m \in Files(c) : Newer(c, m) = {} /\ Done(c, m)' => InSync(c, content[m])'
  BY <1>1, <1>5 DEF Fresh, Synced, InSync
<1>. HIDE DEF done
<1>7. ASSUME NEW m \in Files(c), NEW n \in Files(c), m < n, place'[n] = "gone"
      PROVE  place'[m] = "gone"
  <2>1. CASE n \in done /\ m \notin done
    <3>1. content[n].cpo = c
      BY DEF Files
    <3>2. place[m] = "gone"
      BY <1>3, <1>7, <2>1, <3>1, OlderWorkedOff
    <3>. QED
      BY <1>2, <3>2
  <2>2. CASE n \notin done
    BY <1>2, <1>7, <2>2 DEF Fresh, Ordered
  <2>. QED
    BY <1>2, <2>1, <2>2
<1>8. /\ \A n \in Files(c) : place'[n] \in {"incoming", "processing", "gone"}
      /\ \A n \in 1..names : place'[n] = "tmp" <=> place[n] = "tmp"
  BY <1>2, <1>3 DEF Fresh, InPlace
<1>. QED
  BY <1>1, <1>6, <1>7, <1>8, FreshKept

\* An overlay is applied as it is read.
LEMMA FreshOverlay ==
  ASSUME NEW c \in Cpos, Plain(c), LineInv, SerialWork, Fresh(c),
         NEW w \in Workers, ReadOverlay(w)
  PROVE  Fresh(c)'
<1>0. PICK n, d : n = Head(worker[w].left) /\ d = content[n]
  OBVIOUS
<1>1. /\ worker[w].pc = "read" /\ worker[w].left # << >> /\ d.kind = "eliso"
      /\ UNCHANGED <<sent, handler, names, content, known>>
      /\ place' = [place EXCEPT ![n] = "gone"]
      /\ worker' = [worker EXCEPT ![w].left = Tail(worker[w].left)]
  BY <1>0 DEF ReadOverlay, broker, spool
<1>2. \/ /\ live' = IF d.cpo \in known THEN [live EXCEPT ![d.cpo] = d.status] ELSE live
         /\ price' = IF d.cpo \in known THEN [price EXCEPT ![d.cpo] = PriceAfter(d, price[d.cpo])]
                                        ELSE price
      \/ d.cpo \in MayFail /\ UNCHANGED <<live, price>>
  BY <1>0 DEF ReadOverlay
<1>3. /\ n \in 1..names /\ n \in BatchOf(worker[w].left) /\ n \in In("processing") /\ d \in Docs
      /\ names \in Nat
  BY <1>0, <1>1, FileRead, LineFiles DEF LineInv
<1>4. /\ \A x \in 1..names : place'[x] = IF x = n THEN "gone" ELSE place[x]
      /\ place[n] = "processing" /\ n \in Holds(w)
      /\ \A x \in Files(c) : x \in 1..names
  BY <1>1, <1>3, LineFiles DEF LineInv, OwnInv, FileTypes, Files, Holds, In
<1>5. /\ worker'[w].good = worker[w].good /\ worker'[w].cpos = worker[w].cpos
      /\ worker'[w].pc = worker[w].pc /\ worker'[w].cpo = worker[w].cpo
      /\ \A v \in Workers \ {w} : worker'[v] = worker[v]
  BY <1>1 DEF LineInv, OwnInv, Hands, InHand, WorkerStates
<1>6. \A m \in Files(c) : m # n => (Done(c, m)' => Done(c, m))
  BY <1>1, <1>4, <1>5 DEF Done
<1>7. CASE d.cpo # c
  <2>1. n \notin Files(c) /\ \A x \in Files(c) : place'[x] = place[x] /\ x # n
    BY <1>0, <1>4, <1>7 DEF Files
  <2>2. live'[c] = live[c] /\ price'[c] = price[c]
    BY <1>2, <1>7 DEF LineInv, OwnInv, RowTypes
  <2>3. \A m \in Files(c) : Newer(c, m) = {} /\ Done(c, m)' => InSync(c, content[m])'
    BY <1>1, <1>6, <2>1, <2>2 DEF Fresh, Synced, InSync
  <2>4. /\ \A x \in Files(c) : place'[x] \in {"incoming", "processing", "gone"}
        /\ \A x \in 1..names : place'[x] = "tmp" <=> place[x] = "tmp"
        /\ \A x, y \in Files(c) : x < y /\ place'[y] = "gone" => place'[x] = "gone"
    BY <1>4, <2>1 DEF Fresh, InPlace, Sorted, Ordered
  <2>. QED
    BY <1>1, <2>3, <2>4, FreshKept
<1>8. CASE d.cpo = c
  <2>1. OnlyOf(c, {"eliso", "bad"}) /\ c \in known /\ n \in Files(c)
    BY <1>0, <1>1, <1>3, <1>4, <1>8, FileKinds DEF Fresh, InPlace, Files
  <2>2. InSync(c, d)'
    <3>1. /\ live' = [live EXCEPT ![c] = d.status]
          /\ price' = [price EXCEPT ![c] = PriceAfter(d, price[c])]
      BY <1>2, <1>8, <2>1 DEF Plain
    <3>. QED
      BY <3>1, RowsTake DEF LineInv, InSync
  <2>3. \A m \in Files(c), v \in Workers : m \notin BatchOf(worker[v].good)
    <3>1. ASSUME NEW m \in Files(c) PROVE content[m].kind = "eliso"
      <4>1. m \in 1..names /\ content[m].cpo = c /\ content[m].kind # "bad"
        BY DEF Files
      <4>2. PICK i \in DOMAIN Stream[c] : content[m] = Stream[c][i]
        BY <4>1 DEF LineInv, FromStream
      <4>. QED
        BY <2>1, <4>1, <4>2 DEF OnlyOf
    <3>. QED
      BY <3>1 DEF LineInv, Progress
  <2>4. ASSUME NEW m \in Files(c), Newer(c, m) = {}, Done(c, m)' PROVE m = n
    <3>1. m = n \/ place[m] = "gone"
      BY <1>4, <1>5, <2>3, <2>4 DEF Done
    <3>2. place[m] # "gone"
      BY <1>0, <1>1, <1>4, <1>8, <2>4, NewestInHand
    <3>. QED
      BY <3>1, <3>2
  <2>5. \A m \in Files(c) : Newer(c, m) = {} /\ Done(c, m)' => InSync(c, content[m])'
    BY <1>0, <1>1, <2>2, <2>4
  <2>6. ASSUME NEW x \in Files(c), NEW y \in Files(c), x < y, place'[y] = "gone"
        PROVE  place'[x] = "gone"
    <3>1. CASE y = n
      <4>1. x \in 1..names /\ content[x].cpo = c /\ x # n /\ ~(n < x)
        BY <1>3, <1>4, <2>6, <3>1 DEF Files
      <4>2. x \notin Holds(w)
        <5>1. x \notin BatchOf(worker[w].left)
          <6>1. worker[w].left \in Seq(Names) /\ Increasing(worker[w].left)
            BY DEF LineInv, InLine, OwnInv, Hands, InHand, WorkerStates
          <6>2. BatchOf(Tail(worker[w].left)) = BatchOf(worker[w].left) \ {n}
            BY <1>0, <1>1, FileRead DEF LineInv
          <6>3. \A z \in BatchOf(worker[w].left) \ {n} : n < z
            BY <1>0, <1>1, <6>1, <6>2, IncreasingTail
          <6>. QED
            BY <4>1, <6>3
        <5>. QED
          BY <2>3, <5>1 DEF Holds
      <4>3. place[x] = "gone"
        BY <1>0, <1>4, <1>8, <2>6, <3>1, <4>2, OlderWorkedOff
      <4>. QED
        BY <1>4, <4>3
    <3>2. CASE y # n
      BY <1>4, <2>6, <3>2 DEF Fresh, Ordered
    <3>. QED
      BY <3>1, <3>2
  <2>7. /\ \A x \in Files(c) : place'[x] \in {"incoming", "processing", "gone"}
        /\ \A x \in 1..names : place'[x] = "tmp" <=> place[x] = "tmp"
    BY <1>4 DEF Fresh, InPlace
  <2>. QED
    BY <1>1, <2>5, <2>6, <2>7, FreshKept
<1>. QED
  BY <1>7, <1>8

\* Applying the rows of another operator.
LEMMA FreshOthers ==
  ASSUME NEW c \in Cpos, LineInv, Fresh(c), NEW w \in Workers,
         worker[w].cpo # c, ApplyTable(w) \/ ApplyStatuses(w)
  PROVE  Fresh(c)'
<1>1. /\ UNCHANGED <<sent, handler, names, content, place>> /\ known \subseteq known'
      /\ live'[c] = live[c] /\ price'[c] = price[c]
  BY DEF ApplyTable, ApplyStatuses, broker, spool, db, LineInv, OwnInv, RowTypes
<1>2. /\ worker'[w].good = worker[w].good /\ worker'[w].cpo = worker[w].cpo
      /\ c \in worker'[w].cpos <=> c \in worker[w].cpos
      /\ \A v \in Workers \ {w} : worker'[v] = worker[v]
  <2>1. worker[w] \in WorkerStates /\ DOMAIN worker = Workers
    BY DEF LineInv, OwnInv, Hands, InHand
  <2>2. CASE worker' = [worker EXCEPT ![w].pc = "status"]
    BY <2>1, <2>2 DEF WorkerStates
  <2>3. CASE worker' = [worker EXCEPT ![w].pc = "apply", ![w].cpos = @ \ {worker[w].cpo}]
    BY <2>1, <2>3 DEF WorkerStates
  <2>. QED
    BY <2>2, <2>3 DEF ApplyTable, ApplyStatuses
<1>3. \A m \in Files(c) : Done(c, m)' => Done(c, m)
  BY <1>1, <1>2 DEF Done
<1>4. \A m \in Files(c) : Newer(c, m) = {} /\ Done(c, m)' => InSync(c, content[m])'
  BY <1>1, <1>3 DEF Fresh, Synced, InSync
<1>5. /\ \A n \in Files(c) : place'[n] \in {"incoming", "processing", "gone"}
      /\ \A m, n \in Files(c) : m < n /\ place'[n] = "gone" => place'[m] = "gone"
  BY <1>1 DEF Fresh, InPlace, Sorted, Ordered
<1>. QED
  BY <1>1, <1>4, <1>5, FreshKept

\* The rows take the newest push of the batch, and no file is removed for it.
LEMMA FreshApplied ==
  ASSUME NEW c \in Cpos, LineInv, SerialWork, Fresh(c), NEW w \in Workers,
         worker[w].cpo = c, UNCHANGED <<sent, handler, names, content, place>>,
         known \subseteq known', worker'[w].good = worker[w].good,
         \A v \in Workers \ {w} : worker'[v] = worker[v],
         NEW kind \in {"table", "status"}, kind = "table" => c \in worker'[w].cpos,
         NEW d \in Newest(w, kind),
         live' = [live EXCEPT ![c] = d.status], price' = [price EXCEPT ![c] = PriceAfter(d, price[c])]
  PROVE  Fresh(c)'
<1>1. PICK x \in BatchOf(worker[w].good) : content[x] = d /\ d.cpo = c /\ d.kind = kind
  BY NewestOfBatch
<1>2. x \in Holds(w) /\ x \in 1..names
  BY LineFiles DEF LineInv, Holds, In
<1>4. ASSUME NEW m \in Files(c), Newer(c, m) = {}, Done(c, m)' PROVE InSync(c, content[m])'
  <2>1. place'[m] # "gone"
    BY <1>1, <1>2, <1>4, NewestInHand
  <2>2. m \in BatchOf(worker[w].good)
    <3>1. \A v \in Workers \ {w} : m \notin BatchOf(worker[v].good)
      BY <1>1, <1>2 DEF Files, SerialWork, Holds
    <3>. QED
      BY <1>4, <2>1, <3>1 DEF Done
  <2>3. content[m].kind = kind
    <3>1. content[m].kind \in {"table", "status"} /\ m \in 1..names /\ content[m].cpo = c
      BY <2>2 DEF LineInv, Progress, Files
    <3>2. CASE kind = "table" /\ content[m].kind = "status"
      <4>1. PICK v \in Workers : /\ m \in BatchOf(worker'[v].good)
                                 /\ \/ c \notin worker'[v].cpos
                                    \/ content'[m].kind = "table"
        BY <1>4, <2>1 DEF Done
      <4>2. v = w
        BY <1>1, <1>2, <4>1 DEF Files, SerialWork, Holds
      <4>. QED
        BY <3>2, <4>1, <4>2
    <3>3. CASE kind = "status" /\ content[m].kind = "table"
      <4>1. x \in Files(c) /\ ~(m < x) /\ x # m
        <5>1. place[x] = "processing"
          BY <1>2, LineFiles DEF LineInv, In
        <5>2. x \in Files(c)
          BY <1>1, <1>2, <5>1 DEF Files
        <5>. QED
          BY <1>1, <1>4, <3>3, <5>2 DEF Newer
      <4>2. x < m
        BY <1>2, <3>1, <4>1, LineFiles DEF LineInv
      <4>. QED
        BY <1>1, <1>2, <3>1, <3>3, <4>2 DEF Fresh, Sorted
    <3>. QED
      BY <3>1, <3>2, <3>3
  <2>4. d = content[m]
    BY <1>4, <2>2, <2>3, NewestIsLatest
  <2>5. /\ live'[c] = d.status
        /\ d.price # Silent => price'[c] = IF d.price = Withdrawn THEN NoPrice ELSE d.price
    BY RowsTake DEF LineInv
  <2>. QED
    BY <2>4, <2>5 DEF InSync
<1>5. /\ \A n \in Files(c) : place'[n] \in {"incoming", "processing", "gone"}
      /\ \A m, n \in Files(c) : m < n /\ place'[n] = "gone" => place'[m] = "gone"
  BY DEF Fresh, InPlace, Sorted, Ordered
<1>. QED
  BY <1>4, <1>5, FreshKept

\* A fold that says nothing of the operator leaves its rows.
LEMMA FreshSilent ==
  ASSUME NEW c \in Cpos, LineInv, Fresh(c),
         UNCHANGED <<sent, handler, names, content, place, known, live, price>>,
         \A m \in Files(c) : Newer(c, m) = {} /\ Done(c, m)' => Done(c, m)
  PROVE  Fresh(c)'
<1>1. \A m \in Files(c) : Newer(c, m) = {} /\ Done(c, m)' => InSync(c, content[m])'
  BY DEF Fresh, Synced, InSync
<1>2. /\ \A n \in Files(c) : place'[n] \in {"incoming", "processing", "gone"}
      /\ \A m, n \in Files(c) : m < n /\ place'[n] = "gone" => place'[m] = "gone"
  BY DEF Fresh, InPlace, Sorted, Ordered
<1>. QED
  BY <1>1, <1>2, FreshKept

LEMMA FreshTable ==
  ASSUME NEW c \in Cpos, Plain(c), LineInv, SerialWork, Fresh(c), NEW w \in Workers,
         worker[w].cpo = c, ApplyTable(w)
  PROVE  Fresh(c)'
<1>1. /\ UNCHANGED <<sent, handler, names, content, place>> /\ known \subseteq known'
      /\ worker'[w].good = worker[w].good /\ worker'[w].cpos = worker[w].cpos
      /\ worker'[w].cpo = c /\ c \in worker[w].cpos
      /\ \A v \in Workers \ {w} : worker'[v] = worker[v]
  BY DEF ApplyTable, broker, spool, db, LineInv, OwnInv, Hands, InHand, WorkerStates, Progress
<1>2. CASE \E d \in Newest(w, "table") :
             /\ live' = [live EXCEPT ![c] = d.status]
             /\ price' = [price EXCEPT ![c] = PriceAfter(d, price[c])]
  BY <1>1, <1>2, FreshApplied
<1>3. CASE Newest(w, "table") = {} /\ UNCHANGED db
  <2>1. ASSUME NEW m \in Files(c), Newer(c, m) = {}, Done(c, m)' PROVE Done(c, m)
    <3>1. CASE content[m].kind = "table" /\ m \in BatchOf(worker[w].good)
      BY <1>3, <2>1, <3>1, NewestIsLatest
    <3>2. CASE content[m].kind # "table" \/ m \notin BatchOf(worker[w].good)
      BY <1>1, <2>1, <3>2 DEF Done
    <3>. QED
      BY <3>1, <3>2
  <2>. QED
    BY <1>1, <1>3, <2>1, FreshSilent DEF db
<1>4. c \notin MayFail
  BY DEF Plain
<1>. QED
  BY <1>2, <1>3, <1>4 DEF ApplyTable

LEMMA FreshStatuses ==
  ASSUME NEW c \in Cpos, Plain(c), LineInv, SerialWork, Fresh(c), NEW w \in Workers,
         worker[w].cpo = c, ApplyStatuses(w)
  PROVE  Fresh(c)'
<1>1. /\ UNCHANGED <<sent, handler, names, content, place, known>>
      /\ worker'[w].good = worker[w].good /\ worker[w].pc = "status"
      /\ \A v \in Workers \ {w} : worker'[v] = worker[v]
  BY DEF ApplyStatuses, broker, spool, db, LineInv, OwnInv, Hands, InHand, WorkerStates
<1>2. CASE \E d \in Newest(w, "status") :
             /\ live' = [live EXCEPT ![c] = d.status]
             /\ price' = [price EXCEPT ![c] = PriceAfter(d, price[c])]
  BY <1>1, <1>2, FreshApplied
<1>3. CASE (c \notin known \/ Newest(w, "status") = {}) /\ UNCHANGED db
  <2>1. ASSUME NEW m \in Files(c), Newer(c, m) = {}, Done(c, m)' PROVE Done(c, m)
    <3>1. CASE m \in BatchOf(worker[w].good)
      <4>1. content[m].kind \in {"table", "status"} /\ m \in 1..names /\ content[m].cpo = c
        BY <3>1 DEF Files, LineInv, Progress
      <4>2. CASE content[m].kind = "status"
        <5>1. Newest(w, "status") = {content[m]}
          BY <2>1, <3>1, <4>2, NewestIsLatest
        <5>2. c \in known
          BY <4>1, <4>2, FileKinds DEF Fresh, InPlace
        <5>. QED
          BY <1>3, <5>1, <5>2
      <4>3. CASE content[m].kind = "table"
        BY <1>1, <3>1, <4>3 DEF Done
      <4>. QED
        BY <4>1, <4>2, <4>3
    <3>2. CASE m \notin BatchOf(worker[w].good)
      BY <1>1, <2>1, <3>2 DEF Done
    <3>. QED
      BY <3>1, <3>2
  <2>. QED
    BY <1>1, <1>3, <2>1, FreshSilent DEF db
<1>4. c \notin MayFail
  BY DEF Plain
<1>. QED
  BY <1>2, <1>3, <1>4 DEF ApplyStatuses

\* Nothing has come at first.
LEMMA InitFresh ==
  ASSUME NEW c \in Cpos, Plain(c), Init
  PROVE  Fresh(c)
<1>1. /\ Files(c) = {} /\ 1..names = {} /\ handler[c] = NoName /\ sent[c] = 0 /\ known = Seeded
  BY DEF Init, Files
<1>2. {i \in Come(c) : i <= sent[c]} = {}
  <2>1. Come(c) \subseteq 1..Len(Stream[c]) /\ Len(Stream[c]) \in Nat
    BY SpoolAssumption DEF Come
  <2>. QED
    BY <1>1, <2>1
<1>3. Delivered(c)
  BY <1>1, <1>2 DEF Delivered, Told
<1>. QED
  BY <1>1, <1>3 DEF Fresh, InPlace, Sorted, Ordered, Synced, Plain

\* Whatever happens next, the rows follow the line.
LEMMA NextFresh ==
  ASSUME NEW c \in Cpos, Plain(c), LineInv, SerialWork, Fresh(c), [Next]_vars
  PROVE  Fresh(c)'
<1>1. ASSUME NEW w \in Workers, Work(w) PROVE Fresh(c)'
  <2>1. CASE ApplyTable(w) \/ ApplyStatuses(w)
    BY <2>1, FreshOthers, FreshTable, FreshStatuses
  <2>2. CASE Take(w) \/ ReadBad(w) \/ ReadDoc(w) \/ \E e \in Cpos : LockCpo(w, e)
    BY <2>2, FreshReading
  <2>3. CASE ReadOverlay(w)
    BY <2>3, FreshOverlay
  <2>4. CASE RemoveFiles(w)
    BY <2>4, FreshRemove
  <2>. QED
    BY <1>1, <2>1, <2>2, <2>3, <2>4 DEF Work
<1>2. ASSUME NEW d \in Static, Reconcile(d) PROVE Fresh(c)'
  BY <1>2, FreshReconcile DEF Plain
<1>3. CASE UNCHANGED vars
  <2>1. UNCHANGED <<sent, handler, names, content, place, worker, known, live, price>>
    BY <1>3 DEF vars, broker, spool, drainer, db
  <2>2. \A m \in Files(c) : Done(c, m)' => Done(c, m)
    BY <2>1 DEF Done
  <2>3. \A n \in Files(c) : place'[n] \in {"incoming", "processing", "gone"}
    BY <2>1 DEF Fresh, InPlace
  <2>. QED
    BY <2>1, <2>2, <2>3, FreshMoved
<1>. QED
  BY <1>1, <1>2, <1>3, FreshWebhook, FreshScanner, FreshRestart DEF Next, Rest

\* Once all is worked off, the rows are as the last push has them.
LEMMA FreshDrained ==
  ASSUME NEW c \in Cpos, LineInv, Fresh(c), Drained, Come(c) # {}
  PROVE  \E i \in Come(c) : (\A j \in Come(c) : j <= i) /\ InSync(c, Stream[c][i])
<1>1. sent[c] = Len(Stream[c]) /\ Len(Stream[c]) \in Nat /\ Come(c) \subseteq 1..Len(Stream[c])
  BY SpoolAssumption DEF Drained, Come
<1>2. {i \in Come(c) : i <= sent[c]} = Come(c)
  BY <1>1
<1>3. Told(c, sent[c])
  BY <1>1 DEF Fresh, Delivered
<1>4. PICK m \in Files(c), i \in Come(c) :
        Newer(c, m) = {} /\ (\A j \in Come(c) : j <= i) /\ content[m] = Stream[c][i]
  BY <1>2, <1>3 DEF Told
<1>5. place[m] = "gone"
  BY DEF Drained, In, Files, Fresh, InPlace
<1>. QED
  BY <1>4, <1>5 DEF Fresh, Synced, Done

\* The last of some pushes.
LEMMA FinalIsLast ==
  ASSUME NEW c \in Cpos, NEW I \in SUBSET (DOMAIN Stream[c]), NEW i \in I, \A j \in I : j <= i
  PROVE  Final(c, I) = Stream[c][i]
<1>1. I \subseteq Nat
  <2>1. DOMAIN Stream[c] = 1..Len(Stream[c]) /\ Len(Stream[c]) \in Nat
    BY SpoolAssumption
  <2>. QED
    BY <2>1
<1>2. \A x \in I : (\A j \in I : j <= x) => x = i
  BY <1>1
<1>3. (CHOOSE x \in I : \A j \in I : j <= x) = i
  BY <1>2
<1>. QED
  BY <1>3 DEF Final

LatestInv == LineInv /\ \A c \in Cpos : Plain(c) => Fresh(c)

LEMMA LatestStep ==
  /\ Init => LatestInv
  /\ LatestInv /\ SerialWork /\ [Next]_vars => LatestInv'
<1>1. Init => LatestInv
  BY InitLine, InitFresh DEF LatestInv
<1>2. ASSUME LatestInv, SerialWork, [Next]_vars PROVE LatestInv'
  <2>1. LineInv'
    BY <1>2, NextLine DEF LatestInv
  <2>2. ASSUME NEW c \in Cpos, Plain(c) PROVE Fresh(c)'
    BY <1>2, <2>2, NextFresh DEF LatestInv
  <2>3. \A c : Plain(c)' <=> Plain(c)
    BY DEF Plain, OnlyOf
  <2>. QED
    BY <2>1, <2>2, <2>3 DEF LatestInv
<1>. QED
  BY <1>1, <1>2

(* "latest wins is truly the newest push" (applyDocsBatch): for any number *)
(* of workers, as long as no two of them have pushes of one operator at    *)
(* once, a charger of an operator that sends tables and after them         *)
(* statuses, or overlays, ends with its newest status, however the pushes  *)
(* were batched, sent again, or re-queued after a crash.  Nothing in the   *)
(* code keeps two workers apart: the run SpoolWorkers shows what then      *)
(* becomes of it.                                                          *)
THEOREM StatusLatestHolds ==
  ASSUME \A c \in Cpos \ MayFail : Plain(c)
  PROVE  Spec /\ []SerialWork => []StatusLatest
<1>1. ASSUME LatestInv, Drained, NEW c \in Cpos \ MayFail, Speaking(c, HasStatus) # {}
      PROVE  live[c] = Final(c, Speaking(c, HasStatus)).status
  <2>1. Fresh(c) /\ Plain(c)
    BY <1>1 DEF LatestInv
  <2>2. Speaking(c, HasStatus) \subseteq Come(c) /\ Come(c) \subseteq DOMAIN Stream[c]
    BY DEF Come, Speaking, HasStatus
  <2>3. PICK i \in Come(c) : (\A j \in Come(c) : j <= i) /\ InSync(c, Stream[c][i])
    BY <1>1, <2>1, <2>2, FreshDrained DEF LatestInv
  <2>4. i \in Speaking(c, HasStatus)
    <3>1. PICK j \in Speaking(c, HasStatus) : j \in Come(c) /\ j <= i
      BY <1>1, <2>2, <2>3
    <3>2. j = i \/ j < i
      BY <2>2, <2>3, <3>1, SpoolAssumption
    <3>. QED
      BY <2>1, <2>2, <2>3, <3>1, <3>2 DEF Plain, OnlyOf, Speaking, HasStatus, Come
  <2>5. Final(c, Speaking(c, HasStatus)) = Stream[c][i]
    BY <2>2, <2>3, <2>4, FinalIsLast
  <2>. QED
    BY <2>3, <2>5 DEF InSync
<1>2. LatestInv => StatusLatest
  BY <1>1 DEF StatusLatest
<1>. QED
  BY <1>2, LatestStep, PTL DEF Spec

(* The same of the price: a charger ends as the newest push has it that    *)
(* states the price or withdraws it, whatever was folded, sent again or    *)
(* re-queued (applyDocsBatch, applyTable, applyStatuses).                  *)
THEOREM PriceLatestHolds ==
  ASSUME \A c \in Cpos \ MayFail : Plain(c)
  PROVE  Spec /\ []SerialWork => []PriceLatest
<1>1. ASSUME LatestInv, Drained, NEW c \in Cpos \ MayFail, Speaking(c, Parses) # {}
      PROVE  LET last == Final(c, Speaking(c, Parses))
             IN  HasPrice(last) =>
                   price[c] = IF last.price = Withdrawn THEN NoPrice ELSE last.price
  <2>1. Fresh(c) /\ Plain(c)
    BY <1>1 DEF LatestInv
  <2>2. Speaking(c, Parses) = Come(c) /\ Come(c) \subseteq DOMAIN Stream[c]
    BY DEF Come, Speaking, Parses
  <2>3. PICK i \in Come(c) : (\A j \in Come(c) : j <= i) /\ InSync(c, Stream[c][i])
    BY <1>1, <2>1, <2>2, FreshDrained DEF LatestInv
  <2>4. Final(c, Come(c)) = Stream[c][i]
    BY <2>2, <2>3, FinalIsLast
  <2>. QED
    BY <2>2, <2>3, <2>4 DEF InSync, HasPrice
<1>2. LatestInv => PriceLatest
  BY <1>1 DEF PriceLatest
<1>. QED
  BY <1>2, LatestStep, PTL DEF Spec

-----------------------------------------------------------------------------
(* Nobody waits for ever.                                                  *)

\* A worker that is past reading has read all of its batch.
ReadThrough == \A w \in Workers : worker[w].pc \in {"apply", "table", "status"} => worker[w].left = << >>

\* The guards of the worker's steps.
CanWork(w) ==
  \/ worker[w].pc = "idle" /\ work # << >>
  \/ worker[w].pc = "read" /\ worker[w].left # << >>
  \/ worker[w].pc \in {"read", "apply"} /\ worker[w].left = << >>
       /\ (worker[w].cpos = {} \/ \E c \in worker[w].cpos : LockFree(c))
  \/ worker[w].pc \in {"table", "status"}

\* While there is a file to be worked off the scanner or some worker can go on.
NeverStuck ==
  In("incoming") \cup In("processing") # {} =>
    \/ scanned = << >> /\ In("incoming") # {}
    \/ scanned # << >> /\ Len(work) < 2 * Cardinality(Workers)
    \/ \E w \in Workers : CanWork(w)

LEMMA ReadThroughStep ==
  ASSUME OwnInv, ReadThrough, [Next]_vars
  PROVE  ReadThrough'
<1>1. ASSUME NEW w \in Workers, Work(w) PROVE ReadThrough'
  <2>1. worker[w] \in WorkerStates /\ DOMAIN worker = Workers
    BY DEF OwnInv, Hands, InHand
  <2>2. \A v \in Workers \ {w} : worker'[v] = worker[v]
    BY <1>1, <2>1
    DEF Work, Take, ReadBad, ReadOverlay, ReadDoc, LockCpo, ApplyTable, ApplyStatuses, RemoveFiles
  <2>3. worker'[w].pc \in {"apply", "table", "status"} => worker'[w].left = << >>
    <3>1. CASE Take(w) \/ RemoveFiles(w)
      <4>1. CASE Take(w)
        BY <2>1, <4>1 DEF Take, Idle
      <4>2. CASE RemoveFiles(w)
        <5>1. worker'[w] = Idle
          BY <2>1, <4>2 DEF RemoveFiles
        <5>. QED
          BY <5>1 DEF Idle
      <4>. QED
        BY <3>1, <4>1, <4>2
    <3>2. CASE ReadBad(w) \/ ReadOverlay(w)
      BY <2>1, <3>2 DEF ReadBad, ReadOverlay, WorkerStates
    <3>3. CASE ReadDoc(w)
      BY <2>1, <3>3 DEF ReadDoc, WorkerStates
    <3>4. CASE \E c \in Cpos : LockCpo(w, c)
      BY <2>1, <3>4 DEF LockCpo, WorkerStates, ReadThrough
    <3>5. CASE ApplyTable(w)
      BY <2>1, <3>5 DEF ApplyTable, WorkerStates, ReadThrough
    <3>6. CASE ApplyStatuses(w)
      BY <2>1, <3>6 DEF ApplyStatuses, WorkerStates, ReadThrough
    <3>. QED
      BY <1>1, <3>1, <3>2, <3>3, <3>4, <3>5, <3>6 DEF Work
  <2>. QED
    BY <2>2, <2>3 DEF ReadThrough
<1>2. CASE Restart
  BY <1>2 DEF Restart, ReadThrough, Idle
<1>3. CASE UNCHANGED worker
  BY <1>3 DEF ReadThrough
<1>. QED
  BY <1>1, <1>2, <1>3
  DEF Next, Rest, vars, drainer, Receive, Rename, Accept, Claim, HandOver, Reconcile

LEMMA NotStuck ==
  ASSUME IsFiniteSet(Workers), Workers # {}, OwnInv, ReadThrough
  PROVE  NeverStuck
<1>. SUFFICES ASSUME In("incoming") \cup In("processing") # {},
                     ~(scanned = << >> /\ In("incoming") # {}),
                     ~(scanned # << >> /\ Len(work) < 2 * Cardinality(Workers))
              PROVE  \E w \in Workers : CanWork(w)
  BY DEF NeverStuck
<1>1. \A w \in Workers : worker[w] \in WorkerStates
  BY DEF OwnInv, Hands, InHand
\* A worker that holds a lock can go on, and so can one that waits for none.
<1>2. ASSUME NEW w \in Workers, worker[w].pc # "idle" PROVE \E v \in Workers : CanWork(v)
  <2>1. CASE \E c \in worker[w].cpos : ~LockFree(c)
    <3>1. PICK c \in worker[w].cpos : lock[c] # NoWorker
      BY <2>1 DEF LockFree
    <3>2. c \in Cpos
      BY <1>1, <3>1 DEF WorkerStates
    <3>3. lock[c] \in Workers /\ Applying(worker[lock[c]])
      BY <3>1, <3>2 DEF OwnInv, Locks
    <3>. QED
      BY <3>3 DEF CanWork, Applying
  <2>2. CASE \A c \in worker[w].cpos : LockFree(c)
    BY <1>1, <1>2, <2>2 DEF CanWork, WorkerStates, ReadThrough
  <2>. QED
    BY <2>1, <2>2
<1>3. CASE work # << >>
  <2>1. PICK w \in Workers : TRUE
    OBVIOUS
  <2>. QED
    BY <1>2, <1>3, <2>1 DEF CanWork
<1>4. CASE work = << >>
  <2>1. scanned = << >>
    <3>1. Cardinality(Workers) \in Nat /\ Cardinality(Workers) # 0
      BY FS_CardinalityType, FS_EmptySet
    <3>2. Len(work) = 0
      BY <1>4
    <3>. QED
      BY <3>1, <3>2
  <2>2. PICK n \in In("processing") : TRUE
    BY <2>1
  <2>3. n \notin BatchOf(scanned) /\ DOMAIN work = {}
    BY <1>4, <2>1, EmptyBatch
  <2>4. PICK w \in Workers : n \in Holds(w)
    BY <2>2, <2>3 DEF OwnInv, Claimed
  <2>5. worker[w].pc # "idle"
    BY <2>4, EmptyBatch DEF OwnInv, Hands, InHand, Holds
  <2>. QED
    BY <1>2, <2>5
<1>. QED
  BY <1>3, <1>4

(* Nobody waits on everybody: with any number of workers, operators and    *)
(* batches, as long as a push is in incoming/ or processing/ the scanner   *)
(* can claim or hand over, or a worker can take, read, lock, apply or      *)
(* remove (runSpool's channel, processSpoolBatch, Engine.mobLocks).        *)
THEOREM NeverStuckHolds ==
  ASSUME IsFiniteSet(Workers), Workers # {}
  PROVE  Spec => []NeverStuck
<1>1. Init => OwnInv /\ ReadThrough
  BY OwnInit DEF Init, ReadThrough, Idle
<1>2. OwnInv /\ ReadThrough /\ [Next]_vars => (OwnInv /\ ReadThrough)'
  BY OwnStep, ReadThroughStep
<1>3. OwnInv /\ ReadThrough => NeverStuck
  BY NotStuck
<1>. QED
  BY <1>1, <1>2, <1>3, PTL DEF Spec
=============================================================================

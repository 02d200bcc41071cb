--------------------------- MODULE PollPass_proofs ---------------------------
(***************************************************************************)
(* Proofs about PollPass, for any connectors, feeds, processes and edits:  *)
(* a remembered signature never hides a stale price, withdrawn prices are  *)
(* closed, retiring does not empty a source, and what a pass confirms of   *)
(* the chargers it listed is what it read.                                 *)
(***************************************************************************)
EXTENDS PollPass, FiniteSetTheorems, SequenceTheorems, TLAPS

\* One process runs price passes, as the scheduler alone does.
OnePricePass == \A p, q \in Passes : IsPrice(p) /\ IsPrice(q) => p = q

\* Every price pass reads some price: no part of the feed is ever out, and some
\* connector is always listed with a tariff.
SomePriced ==
  /\ "outage" \notin Disturbances
  /\ \E c \in Connectors : \A e \in Offers[c] : e.tariff # NoTariff

-----------------------------------------------------------------------------
(* The invariant.                                                          *)

\* What a pass has read is what it works with, and only price passes have
\* tariffs to go by.
Reads(p) ==
  /\ todo[p] \subseteq Listed(fetched[p])
  /\ \A c \in Connectors : next[p][c] \in {NoSig, fetched[p][c]}
  /\ ~IsPrice(p) => \A c \in Connectors : fetched[p][c].tariff = NoTariff
  /\ phase[p] = "rows" /\ IsPrice(p) /\ SomePriced => Priced(fetched[p]) # {}

\* What a pass has been through without error has a row.
Stored(p) ==
  /\ \A c \in Connectors : cache[p][c] # NoSig => row[c] # "absent"
  /\ phase[p] = "rows" => \A c \in Listed(fetched[p]) \ todo[p] : row[c] # "absent"
  /\ phase[p] \in {"confirm", "count", "prune", "revive"} =>
       \A c \in Listed(fetched[p]) : row[c] # "absent"
  /\ phase[p] = "prune" => Listed(fetched[p]) # {}

ReadInv ==
  /\ TypeOK
  /\ \A p \in Passes : Reads(p)

StoredInv ==
  /\ ReadInv
  /\ \A p \in Passes : Stored(p)

\* What a pass confirms by is what it has just remembered.
Kept(p) ==
  phase[p] = "confirm" =>
    IsPrice(p) /\ \A c \in Connectors : cache[p][c] \in {NoSig, fetched[p][c]}

\* A remembered signature is the price in force; if every pass reads some price
\* that goes for signatures without one, too.
Trusted(p, c) ==
  IsPrice(p) /\ Remembered(p, c) # NoSig
    /\ (Remembered(p, c).tariff # NoTariff \/ SomePriced)
  => price[c] = Remembered(p, c).tariff

TrustInv ==
  /\ ReadInv
  /\ pushes = {}
  /\ \A p \in Passes : Kept(p)
  /\ \A p \in Passes, c \in Connectors : Trusted(p, c)

\* An entry is not what an unlisted connector has.
LEMMA EntriesListed ==
  ASSUME NEW e \in Entries
  PROVE  /\ e # Unlisted /\ e.status \in Statuses /\ e.status # NoStatus
         /\ e.tariff \in Tariffs \cup {NoTariff}
         /\ [e EXCEPT !.tariff = NoTariff] \in Entries
         /\ [e EXCEPT !.tariff = NoTariff].tariff = NoTariff
  BY PollAssumption DEF Entries, Unlisted

\* The first elements of a sequence of three at most.
LEMMA Prefix ==
  ASSUME NEW S, NEW done \in 0..3
  PROVE  {S[i] : i \in 1..done} = IF done = 0 THEN {} ELSE IF done = 1 THEN {S[1]}
                                 ELSE IF done = 2 THEN {S[1], S[2]} ELSE {S[1], S[2], S[3]}
<1>1. 1..0 = {} /\ 1..1 = {1} /\ 1..2 = {1, 2} /\ 1..3 = {1, 2, 3}
  OBVIOUS
<1>2. done \in {0, 1, 2, 3}
  OBVIOUS
<1>. QED
  BY <1>1, <1>2

\* What the first so many statements of a connector are.
Made(done, last) ==
  IF done = 0 THEN {} ELSE IF done = 1 THEN {"charger"}
  ELSE IF done = 2 THEN {"charger", "status"} ELSE {"charger", "status", last}

\* The statements of a connector come in the order charger, status, price.
LEMMA StatementsOrder ==
  ASSUME NEW p, NEW c, NEW done \in 0..3, done <= Len(Statements(p, c))
  PROVE  LET made == {Statements(p, c)[i] : i \in 1..done}
             size == Len(Statements(p, c))
         IN  \/ Sig(p, c).tariff # NoTariff /\ size = 3 /\ made = Made(done, "tariff")
             \/ /\ Sig(p, c).tariff = NoTariff /\ ClosesWithdrawn(p)
                /\ size = 3 /\ made = Made(done, "close")
             \/ /\ Sig(p, c).tariff = NoTariff /\ ~ClosesWithdrawn(p)
                /\ size = 2 /\ done <= 2 /\ made = Made(done, "status")
<1>. DEFINE S == Statements(p, c)
<1>0. done <= Len(S)
  OBVIOUS
<1>1. CASE Sig(p, c).tariff # NoTariff
  <2>1. (IF Sig(p, c).tariff # NoTariff THEN <<"tariff">>
         ELSE IF ClosesWithdrawn(p) THEN <<"close">> ELSE << >>) = <<"tariff">>
    BY <1>1, Zenon
  <2>2. S = <<"charger", "status">> \o <<"tariff">>
    BY <2>1, Zenon DEF Statements
  <2>3. Len(S) = 3 /\ S[1] = "charger" /\ S[2] = "status" /\ S[3] = "tariff"
    <3>. DEFINE T == {"charger", "status", "tariff", "close"}
    <3>1. <<"charger", "status">> \in Seq(T)
      OBVIOUS
    <3>2. <<"tariff">> \in Seq(T)
      OBVIOUS
    <3>. HIDE DEF S, T
    <3>. QED
      BY <2>2, <3>1, <3>2, ConcatProperties
  <2>. HIDE DEF S
  <2>4. done <= 3 /\ {S[i] : i \in 1..done} = Made(done, "tariff")
    BY <1>0, <2>3, Prefix DEF Made
  <2>. QED
    BY <1>0, <1>1, <2>3, <2>4, Zenon DEF S
<1>2. CASE Sig(p, c).tariff = NoTariff /\ ClosesWithdrawn(p)
  <2>1. (IF Sig(p, c).tariff # NoTariff THEN <<"tariff">>
         ELSE IF ClosesWithdrawn(p) THEN <<"close">> ELSE << >>) = <<"close">>
    BY <1>2, Zenon
  <2>2. S = <<"charger", "status">> \o <<"close">>
    BY <2>1, Zenon DEF Statements
  <2>3. Len(S) = 3 /\ S[1] = "charger" /\ S[2] = "status" /\ S[3] = "close"
    <3>. DEFINE T == {"charger", "status", "tariff", "close"}
    <3>1. <<"charger", "status">> \in Seq(T)
      OBVIOUS
    <3>2. <<"close">> \in Seq(T)
      OBVIOUS
    <3>. HIDE DEF S, T
    <3>. QED
      BY <2>2, <3>1, <3>2, ConcatProperties
  <2>. HIDE DEF S
  <2>4. done <= 3 /\ {S[i] : i \in 1..done} = Made(done, "close")
    BY <1>0, <2>3, Prefix DEF Made
  <2>. QED
    BY <1>0, <1>2, <2>3, <2>4, Zenon DEF S
<1>3. CASE Sig(p, c).tariff = NoTariff /\ ~ClosesWithdrawn(p)
  <2>1. (IF Sig(p, c).tariff # NoTariff THEN <<"tariff">>
         ELSE IF ClosesWithdrawn(p) THEN <<"close">> ELSE << >>) = << >>
    BY <1>3, Zenon
  <2>2. S = <<"charger", "status">> \o << >>
    BY <2>1, Zenon DEF Statements
  <2>3. Len(S) = 2 /\ S[1] = "charger" /\ S[2] = "status"
    <3>. DEFINE T == {"charger", "status", "tariff", "close"}
    <3>1. <<"charger", "status">> \in Seq(T)
      OBVIOUS
    <3>2. << >> \in Seq(T)
      OBVIOUS
    <3>. HIDE DEF S, T
    <3>. QED
      BY <2>2, <3>1, <3>2, ConcatProperties
  <2>. HIDE DEF S
  <2>4. done <= 2 /\ {S[i] : i \in 1..done} = Made(done, "status")
    BY <1>0, <2>3, Prefix DEF Made
  <2>. QED
    BY <1>0, <1>3, <2>3, <2>4, Zenon DEF S
<1>. QED
  BY <1>1, <1>2, <1>3, Zenon

\* Which statements were made tells how far the row got, and the other way
\* round.
LEMMA MadeTells ==
  ASSUME NEW p, NEW c, NEW done \in 0..3, done <= Len(Statements(p, c)), NEW made,
         made = {Statements(p, c)[i] : i \in 1..done}
  PROVE  /\ "charger" \in made <=> done >= 1
         /\ "status" \in made <=> done >= 2
         /\ "tariff" \in made <=> Sig(p, c).tariff # NoTariff /\ done = 3
         /\ "close" \in made => Sig(p, c).tariff = NoTariff /\ ClosesWithdrawn(p) /\ done = 3
         /\ Sig(p, c).tariff = NoTariff /\ ClosesWithdrawn(p) /\ done = 3 => "close" \in made
         /\ done = Len(Statements(p, c)) => done \in {2, 3}
         /\ done = Len(Statements(p, c)) /\ (Sig(p, c).tariff # NoTariff \/ ClosesWithdrawn(p))
              => done = 3
<1>. DEFINE size == Len(Statements(p, c))
<1>0. \A last \in {"tariff", "close", "status"} :
        (last = "status" => done <= 2) =>
          /\ "charger" \in Made(done, last) <=> done >= 1
          /\ "status" \in Made(done, last) <=> done >= 2
          /\ "tariff" \in Made(done, last) <=> last = "tariff" /\ done = 3
          /\ "close" \in Made(done, last) <=> last = "close" /\ done = 3
  BY DEF Made
<1>1. CASE Sig(p, c).tariff # NoTariff /\ size = 3 /\ made = Made(done, "tariff")
  <2>1. /\ "charger" \in made <=> done >= 1
        /\ "status" \in made <=> done >= 2
        /\ "tariff" \in made <=> done = 3
        /\ "close" \notin made
    BY <1>0, <1>1
  <2>. QED
    BY <1>1, <2>1
<1>2. CASE /\ Sig(p, c).tariff = NoTariff /\ ClosesWithdrawn(p)
           /\ size = 3 /\ made = Made(done, "close")
  <2>1. /\ "charger" \in made <=> done >= 1
        /\ "status" \in made <=> done >= 2
        /\ "tariff" \notin made
        /\ "close" \in made <=> done = 3
    BY <1>0, <1>2
  <2>. QED
    BY <1>2, <2>1
<1>3. CASE /\ Sig(p, c).tariff = NoTariff /\ ~ClosesWithdrawn(p)
           /\ size = 2 /\ done <= 2 /\ made = Made(done, "status")
  <2>1. /\ "charger" \in made <=> done >= 1
        /\ "status" \in made <=> done >= 2
        /\ "tariff" \notin made /\ "close" \notin made /\ done # 3
    BY <1>0, <1>3
  <2>. QED
    BY <1>3, <2>1
<1>4. \/ Sig(p, c).tariff # NoTariff /\ size = 3 /\ made = Made(done, "tariff")
      \/ /\ Sig(p, c).tariff = NoTariff /\ ClosesWithdrawn(p)
         /\ size = 3 /\ made = Made(done, "close")
      \/ /\ Sig(p, c).tariff = NoTariff /\ ~ClosesWithdrawn(p)
         /\ size = 2 /\ done <= 2 /\ made = Made(done, "status")
  BY StatementsOrder
<1>. QED
  BY <1>1, <1>2, <1>3, <1>4, Zenon

\* What Process does, by the number of statements that succeeded; whole tells
\* whether all of them did.
LEMMA ProcessMakes ==
  ASSUME NEW p \in Passes, NEW c \in Connectors, NEW done \in 0..3,
         done <= Len(Statements(p, c)), Process(p, c, done)
  PROVE  \E whole \in BOOLEAN :
         /\ phase[p] = "rows" /\ c \in todo[p]
         /\ ~whole => "rowerror" \in Disturbances
         /\ whole => done >= 2 /\ (done = 3 \/ (Sig(p, c).tariff = NoTariff /\ ~ClosesWithdrawn(p)))
         /\ done = 3 => ClosesWithdrawn(p) \/ Sig(p, c).tariff # NoTariff
         /\ row' = [row EXCEPT ![c] = IF @ = "absent" /\ done >= 1 THEN "active" ELSE @]
         /\ status' = [status EXCEPT ![c] = IF done >= 2 THEN Sig(p, c).status ELSE @]
         /\ price' = [price EXCEPT ![c] = IF done = 3 THEN Sig(p, c).tariff ELSE @]
         /\ confirmed' \in {confirmed, confirmed \cup {c}}
         /\ todo' = [todo EXCEPT ![p] = @ \ {c}]
         /\ next' = [next EXCEPT ![p][c] = IF whole THEN Sig(p, c) ELSE NoSig]
         /\ UNCHANGED <<source, phase, fetched, cache>>
<1>. DEFINE made == {Statements(p, c)[i] : i \in 1..done}
            whole == done = Len(Statements(p, c))
<1>1. /\ "charger" \in made <=> done >= 1
      /\ "status" \in made <=> done >= 2
      /\ "tariff" \in made <=> Sig(p, c).tariff # NoTariff /\ done = 3
      /\ "close" \in made => Sig(p, c).tariff = NoTariff /\ ClosesWithdrawn(p) /\ done = 3
      /\ Sig(p, c).tariff = NoTariff /\ ClosesWithdrawn(p) /\ done = 3 => "close" \in made
      /\ whole => done \in {2, 3}
      /\ whole /\ (Sig(p, c).tariff # NoTariff \/ ClosesWithdrawn(p)) => done = 3
  BY MadeTells
<1>2. done = 3 => Sig(p, c).tariff # NoTariff \/ ClosesWithdrawn(p)
  BY StatementsOrder
<1>3. {"tariff", "close"} \cap made # {} <=> done = 3
  BY <1>1, <1>2
<1>4. /\ phase[p] = "rows" /\ c \in todo[p]
      /\ ~whole => "rowerror" \in Disturbances
      /\ row' = [row EXCEPT ![c] = IF @ = "absent" /\ "charger" \in made THEN "active" ELSE @]
      /\ status' = [status EXCEPT ![c] = IF "status" \in made THEN Sig(p, c).status ELSE @]
      /\ price' = [price EXCEPT ![c] =
                     IF {"tariff", "close"} \cap made # {} THEN Sig(p, c).tariff ELSE @]
      /\ confirmed' \in {confirmed, confirmed \cup {c}}
      /\ todo' = [todo EXCEPT ![p] = @ \ {c}]
      /\ next' = [next EXCEPT ![p][c] = IF whole THEN Sig(p, c) ELSE NoSig]
      /\ UNCHANGED <<source, phase, fetched, cache>>
  <2>1. ~whole => done < Len(Statements(p, c))
    BY StatementsOrder
  <2>. QED
    BY <2>1 DEF Process, Remember
<1>5. whole \in BOOLEAN
  OBVIOUS
<1>. HIDE DEF made, whole
<1>6. row' = [row EXCEPT ![c] = IF @ = "absent" /\ done >= 1 THEN "active" ELSE @]
  BY <1>1, <1>4
<1>7. status' = [status EXCEPT ![c] = IF done >= 2 THEN Sig(p, c).status ELSE @]
  BY <1>1, <1>4
<1>8. price' = [price EXCEPT ![c] = IF done = 3 THEN Sig(p, c).tariff ELSE @]
  BY <1>3, <1>4
<1>9. whole => done >= 2 /\ (done = 3 \/ (Sig(p, c).tariff = NoTariff /\ ~ClosesWithdrawn(p)))
  BY <1>1
<1>. QED
  BY <1>2, <1>4, <1>5, <1>6, <1>7, <1>8, <1>9, Zenon

\* A reading lists what is published.
LEMMA ReadingListed ==
  ASSUME published \in [Connectors -> Entries \cup {Unlisted}], NEW p, NEW came \in BOOLEAN
  PROVE  /\ Reading(p, came) \in [Connectors -> Entries \cup {Unlisted}]
         /\ Listed(Reading(p, came)) = Listed(published)
         /\ ~came => \A c \in Connectors : Reading(p, came)[c].tariff = NoTariff
         /\ came => Reading(p, came) = published
<1>1. \A c \in Connectors :
        /\ published[c] \in Entries \cup {Unlisted}
        /\ published[c] = Unlisted => [published[c] EXCEPT !.tariff = NoTariff] = Unlisted
        /\ published[c] # Unlisted =>
             /\ [published[c] EXCEPT !.tariff = NoTariff] \in Entries
             /\ [published[c] EXCEPT !.tariff = NoTariff] # Unlisted
        /\ [published[c] EXCEPT !.tariff = NoTariff].tariff = NoTariff
  BY EntriesListed DEF Unlisted
<1>. QED
  BY <1>1 DEF Reading, Listed

-----------------------------------------------------------------------------
(* What a pass has read.                                                   *)

\* Nothing has been read at first.
LEMMA ReadInit == Init => ReadInv
<1>. SUFFICES ASSUME Init PROVE ReadInv
  OBVIOUS
<1>1. TypeOK
  BY PollAssumption DEF Init, TypeOK, NothingCached, NoSig, Entries
<1>2. ASSUME NEW p \in Passes PROVE Reads(p)
  BY DEF Init, Reads, NothingCached, NoSig, Unlisted
<1>. QED
  BY <1>1, <1>2 DEF ReadInv

\* The types under a step of a pass's rows.
LEMMA ProcessRead ==
  ASSUME ReadInv, NEW p \in Passes, NEW c \in Connectors, NEW done \in 0..3,
         done <= Len(Statements(p, c)), Process(p, c, done)
  PROVE  ReadInv'
<1>. PICK whole \in BOOLEAN :
         /\ phase[p] = "rows" /\ c \in todo[p]
         /\ row' = [row EXCEPT ![c] = IF @ = "absent" /\ done >= 1 THEN "active" ELSE @]
         /\ status' = [status EXCEPT ![c] = IF done >= 2 THEN Sig(p, c).status ELSE @]
         /\ price' = [price EXCEPT ![c] = IF done = 3 THEN Sig(p, c).tariff ELSE @]
         /\ confirmed' \in {confirmed, confirmed \cup {c}}
         /\ todo' = [todo EXCEPT ![p] = @ \ {c}]
         /\ next' = [next EXCEPT ![p][c] = IF whole THEN Sig(p, c) ELSE NoSig]
         /\ UNCHANGED <<source, phase, fetched, cache>>
  BY ProcessMakes
<1>1. /\ Sig(p, c) = fetched[p][c] /\ Sig(p, c) \in Entries
      /\ Sig(p, c).status \in Statuses /\ Sig(p, c).status # NoStatus
      /\ Sig(p, c).tariff \in Tariffs \cup {NoTariff}
  <2>1. c \in Listed(fetched[p]) /\ fetched[p] \in [Connectors -> Entries \cup {Unlisted}]
    BY DEF ReadInv, TypeOK, Reads
  <2>2. Sig(p, c) = fetched[p][c] /\ Sig(p, c) \in Entries
    BY <2>1 DEF Listed, Sig
  <2>. QED
    BY <2>2, EntriesListed
<1>2. TypeOK'
  <2>1. /\ row' \in [Connectors -> {"absent", "active", "retired"}]
        /\ status' \in [Connectors -> Statuses \cup {NoStatus}]
        /\ price' \in [Connectors -> Tariffs \cup {NoTariff}]
        /\ confirmed' \subseteq Connectors
        /\ todo' \in [Passes -> SUBSET Connectors]
    BY <1>1 DEF ReadInv, TypeOK
  <2>2. next' \in [Passes -> [Connectors -> Sigs \cup {NoSig}]]
    BY <1>1 DEF ReadInv, TypeOK, Sigs
  <2>3. \A d \in Connectors : row'[d] = "absent" => status'[d] = NoStatus /\ price'[d] = NoTariff
    BY <1>1 DEF ReadInv, TypeOK
  <2>4. \A d \in Connectors : status'[d] = NoStatus => price'[d] = NoTariff
    BY <1>1 DEF ReadInv, TypeOK
  <2>. QED
    BY <2>1, <2>2, <2>3, <2>4 DEF ReadInv, TypeOK, source
<1>3. ASSUME NEW q \in Passes PROVE Reads(q)'
  <2>1. fetched' = fetched /\ phase' = phase
    OBVIOUS
  <2>2. todo'[q] \subseteq todo[q]
    BY DEF ReadInv, TypeOK
  <2>3. \A d \in Connectors : next'[q][d] \in {next[q][d], NoSig, fetched[q][d]}
    BY <1>1 DEF ReadInv, TypeOK
  <2>. QED
    BY <2>1, <2>2, <2>3 DEF ReadInv, Reads, Listed, Priced, IsPrice
<1>. QED
  BY <1>2, <1>3 DEF ReadInv

\* A fetch reads what is listed, and prices only in a price pass.
LEMMA FetchRead ==
  ASSUME ReadInv, NEW p \in Passes, NEW came \in BOOLEAN, Fetch(p, came)
  PROVE  ReadInv'
<1>1. /\ Reading(p, came) \in [Connectors -> Entries \cup {Unlisted}]
      /\ Listed(Reading(p, came)) = Listed(published)
      /\ ~came => \A c \in Connectors : Reading(p, came)[c].tariff = NoTariff
  BY ReadingListed DEF ReadInv, TypeOK
<1>2. TypeOK'
  <2>1. fetched' \in [Passes -> [Connectors -> Entries \cup {Unlisted}]]
    BY <1>1 DEF ReadInv, TypeOK, Fetch
  <2>2. /\ phase' \in [Passes -> {"idle", "rows", "confirm", "count", "prune", "revive"}]
        /\ confirmed' \subseteq Connectors
    BY DEF ReadInv, TypeOK, Fetch
  <2>3. todo' \in [Passes -> SUBSET Connectors]
    BY DEF ReadInv, TypeOK, Fetch, Listed
  <2>4. next' \in [Passes -> [Connectors -> Sigs \cup {NoSig}]]
    BY DEF ReadInv, TypeOK, Fetch, NothingCached
  <2>. QED
    BY <2>1, <2>2, <2>3, <2>4 DEF ReadInv, TypeOK, Fetch, source
<1>3. ASSUME NEW q \in Passes PROVE Reads(q)'
  <2>1. CASE q = p
    <3>1. /\ fetched'[p] = Reading(p, came) /\ todo'[p] = Listed(published)
          /\ next'[p] = NothingCached
      BY DEF ReadInv, TypeOK, Fetch
    <3>2. /\ ~IsPrice(p) => ~came
          /\ IsPrice(p) /\ SomePriced => came
      BY DEF Fetch, SomePriced
    <3>3. SomePriced => Priced(published) # {}
      BY DEF SomePriced, Priced, ReadInv, TypeOK
    <3>4. came => Reading(p, came) = published
      BY ReadingListed DEF ReadInv, TypeOK
    <3>. QED
      BY <1>1, <2>1, <3>1, <3>2, <3>3, <3>4 DEF Reads, NothingCached, IsPrice, Listed, Priced
  <2>2. CASE q # p
    <3>1. /\ fetched'[q] = fetched[q] /\ todo'[q] = todo[q] /\ next'[q] = next[q]
          /\ phase'[q] = phase[q]
      BY <2>2 DEF ReadInv, TypeOK, Fetch
    <3>. QED
      BY <3>1 DEF ReadInv, Reads, Listed, Priced, IsPrice
  <2>. QED
    BY <2>1, <2>2
<1>. QED
  BY <1>2, <1>3 DEF ReadInv

\* Every step keeps what each pass has read.
LEMMA ReadStep == ReadInv /\ [Next]_vars => ReadInv'
<1>. SUFFICES ASSUME ReadInv, [Next]_vars PROVE ReadInv'
  OBVIOUS
<1>0. ASSUME UNCHANGED <<fetched, next>>,
             \A q \in Passes : todo'[q] \subseteq todo[q],
             \A q \in Passes : phase'[q] = "rows" => phase[q] = "rows"
      PROVE  \A q \in Passes : Reads(q)'
  BY <1>0 DEF ReadInv, Reads, Listed, Priced, IsPrice
<1>1. ASSUME NEW c \in Connectors, NEW e \in Entries \cup {Unlisted}, Publish(c, e)
      PROVE  ReadInv'
  <2>1. /\ published' \in [Connectors -> Entries \cup {Unlisted}]
        /\ \A d \in Connectors : published'[d] \in Offers[d]
    BY <1>1 DEF ReadInv, TypeOK, Publish
  <2>2. pushes' \subseteq [connector : Connectors, entry : Entries]
    BY <1>1 DEF ReadInv, TypeOK, Publish
  <2>3. edits' \in 0..MaxEdits
    BY <1>1, PollAssumption DEF ReadInv, TypeOK, Publish
  <2>4. UNCHANGED <<row, status, price, confirmed, phase, fetched, todo, next, cache>>
    BY <1>1 DEF Publish, db, run
  <2>. QED
    BY <1>0, <2>1, <2>2, <2>3, <2>4 DEF ReadInv, TypeOK
<1>2. ASSUME NEW m \in pushes, Lose(m) PROVE ReadInv'
  <2>1. pushes' \subseteq pushes
    BY <1>2 DEF Lose
  <2>2. UNCHANGED <<published, edits, row, status, price, confirmed, phase, fetched,
                    todo, next, cache>>
    BY <1>2 DEF Lose, db, run
  <2>. QED
    BY <1>0, <2>1, <2>2 DEF ReadInv, TypeOK
<1>3. ASSUME NEW m \in pushes, NEW known \in BOOLEAN, Deliver(m, known) PROVE ReadInv'
  <2>1. m.connector \in Connectors /\ m.entry \in Entries
    BY DEF ReadInv, TypeOK
  <2>2. /\ m.entry.status \in Statuses /\ m.entry.status # NoStatus
        /\ m.entry.tariff \in Tariffs \cup {NoTariff}
    BY <2>1, EntriesListed
  <2>3. pushes' \subseteq pushes /\ confirmed' \subseteq Connectors
    BY <1>3, <2>1 DEF Deliver, ReadInv, TypeOK
  <2>4. UNCHANGED <<published, edits, phase, fetched, todo, next, cache>>
    BY <1>3 DEF Deliver, run
  <2>5. /\ row' \in [Connectors -> {"absent", "active", "retired"}]
        /\ status' \in [Connectors -> Statuses \cup {NoStatus}]
        /\ price' \in [Connectors -> Tariffs \cup {NoTariff}]
    BY <1>3, <2>1, <2>2 DEF Deliver, ReadInv, TypeOK
  <2>6. \A d \in Connectors :
          /\ row'[d] = "absent" => status'[d] = NoStatus /\ price'[d] = NoTariff
          /\ status'[d] = NoStatus => price'[d] = NoTariff
    BY <1>3, <2>1, <2>2 DEF Deliver, ReadInv, TypeOK
  <2>. QED
    BY <1>0, <2>3, <2>4, <2>5, <2>6 DEF ReadInv, TypeOK
<1>4. ASSUME NEW p \in Passes, NEW c \in Connectors, Skip(p, c) PROVE ReadInv'
  <2>1. UNCHANGED <<published, edits, pushes, row, status, price, confirmed, phase, fetched,
                    cache>>
    BY <1>4 DEF Skip, source, db
  <2>2. Sig(p, c) = fetched[p][c] /\ Sig(p, c) \in Sigs \cup {NoSig}
    BY DEF ReadInv, TypeOK, Sig, Sigs, NoSig
  <2>3. /\ todo' \in [Passes -> SUBSET Connectors]
        /\ next' \in [Passes -> [Connectors -> Sigs \cup {NoSig}]]
    BY <1>4, <2>2 DEF Skip, ReadInv, TypeOK
  <2>4. ASSUME NEW q \in Passes PROVE Reads(q)'
    <3>1. todo'[q] \subseteq todo[q]
      BY <1>4 DEF Skip, ReadInv, TypeOK
    <3>2. \A d \in Connectors : next'[q][d] \in {next[q][d], fetched[q][d]}
      BY <1>4, <2>2 DEF Skip, ReadInv, TypeOK
    <3>. QED
      BY <2>1, <3>1, <3>2 DEF ReadInv, Reads, Listed, Priced, IsPrice
  <2>. QED
    BY <2>1, <2>3, <2>4 DEF ReadInv, TypeOK
<1>5. ASSUME NEW p \in Passes, StoreSigs(p) PROVE ReadInv'
  <2>1. UNCHANGED <<published, edits, pushes, row, status, price, confirmed, fetched,
                    todo, next>>
    BY <1>5 DEF StoreSigs, source, db
  <2>2. cache' \in [Passes -> [Connectors -> Sigs \cup {NoSig}]]
    BY <1>5 DEF StoreSigs, ReadInv, TypeOK
  <2>3. /\ phase' \in [Passes -> {"idle", "rows", "confirm", "count", "prune", "revive"}]
        /\ \A q \in Passes : phase'[q] = "rows" => phase[q] = "rows"
    BY <1>5 DEF StoreSigs, ReadInv, TypeOK
  <2>. QED
    BY <1>0, <2>1, <2>2, <2>3 DEF ReadInv, TypeOK
<1>6. ASSUME NEW p \in Passes, Confirm(p) \/ Count(p) \/ Prune(p) \/ Revive(p) PROVE ReadInv'
  <2>1. UNCHANGED <<published, edits, pushes, status, price, fetched, todo, next, cache>>
    BY <1>6 DEF Confirm, Count, Prune, Revive, source, db
  <2>2. /\ phase' \in [Passes -> {"idle", "rows", "confirm", "count", "prune", "revive"}]
        /\ \A q \in Passes : phase'[q] = "rows" => phase[q] = "rows"
    BY <1>6 DEF Confirm, Count, Prune, Revive, Stop, ReadInv, TypeOK
  <2>3. confirmed' \subseteq Connectors
    BY <1>6 DEF Confirm, Count, Prune, Revive, db, Seen, ReadInv, TypeOK
  <2>4. /\ row' \in [Connectors -> {"absent", "active", "retired"}]
        /\ \A d \in Connectors : row'[d] = "absent" => row[d] = "absent"
    BY <1>6 DEF Confirm, Count, Prune, Revive, db, ReadInv, TypeOK
  <2>. QED
    BY <1>0, <2>1, <2>2, <2>3, <2>4 DEF ReadInv, TypeOK
<1>7. ASSUME NEW e, Crash(e) PROVE ReadInv'
  <2>1. UNCHANGED <<published, edits, pushes, row, status, price, confirmed, fetched, next>>
    BY <1>7 DEF Crash, source, db
  <2>2. /\ phase' \in [Passes -> {"idle", "rows", "confirm", "count", "prune", "revive"}]
        /\ \A q \in Passes : phase'[q] = "rows" => phase[q] = "rows"
    BY <1>7 DEF Crash, ReadInv, TypeOK
  <2>3. /\ todo' \in [Passes -> SUBSET Connectors]
        /\ \A q \in Passes : todo'[q] \subseteq todo[q]
    BY <1>7 DEF Crash, ReadInv, TypeOK
  <2>4. cache' \in [Passes -> [Connectors -> Sigs \cup {NoSig}]]
    BY <1>7 DEF Crash, ReadInv, TypeOK, NothingCached
  <2>. QED
    BY <1>0, <2>1, <2>2, <2>3, <2>4 DEF ReadInv, TypeOK
<1>8. CASE UNCHANGED vars
  BY <1>0, <1>8 DEF vars, source, db, run, ReadInv, TypeOK
<1>. QED
  BY <1>1, <1>2, <1>3, <1>4, <1>5, <1>6, <1>7, <1>8, FetchRead, ProcessRead DEF Next, PassStep

-----------------------------------------------------------------------------
(* Remembered prices.                                                      *)

\* Without pushes none is ever on its way.
LEMMA NoPushes ==
  ASSUME "push" \notin Disturbances, pushes = {}, [Next]_vars
  PROVE  pushes' = {}
<1>1. \A c \in Connectors, e \in Entries \cup {Unlisted} : Publish(c, e) => pushes' = {}
  BY DEF Publish
<1>2. \A p \in Passes : PassStep(p) => pushes' = pushes
  BY DEF PassStep, Fetch, Skip, Process, StoreSigs, Confirm, Count, Prune, Revive, source
<1>3. \A e : Crash(e) => pushes' = pushes
  BY DEF Crash, source
<1>. QED
  BY <1>1, <1>2, <1>3 DEF Next, vars, source

\* What no step but a pass's own may touch keeps its signatures true.
LEMMA SamePrices ==
  ASSUME NEW p \in Passes, NEW c \in Connectors, Trusted(p, c), price'[c] = price[c],
         Remembered(p, c)' \in {Remembered(p, c), NoSig}
  PROVE  Trusted(p, c)'
  BY DEF Trusted, IsPrice

\* A pass's statements leave the open price at the signature it keeps.
LEMMA ProcessTrust ==
  ASSUME TrustInv, OnePricePass, NEW q \in Passes, NEW d \in Connectors, NEW done \in 0..3,
         done <= Len(Statements(q, d)), Process(q, d, done),
         NEW p \in Passes, NEW c \in Connectors
  PROVE  Trusted(p, c)'
<1>. PICK whole \in BOOLEAN :
         /\ phase[q] = "rows" /\ d \in todo[q]
         /\ whole => done >= 2 /\ (done = 3 \/ (Sig(q, d).tariff = NoTariff /\ ~ClosesWithdrawn(q)))
         /\ done = 3 => ClosesWithdrawn(q) \/ Sig(q, d).tariff # NoTariff
         /\ price' = [price EXCEPT ![d] = IF done = 3 THEN Sig(q, d).tariff ELSE @]
         /\ todo' = [todo EXCEPT ![q] = @ \ {d}]
         /\ next' = [next EXCEPT ![q][d] = IF whole THEN Sig(q, d) ELSE NoSig]
         /\ UNCHANGED <<source, phase, fetched, cache>>
  BY ProcessMakes
<1>0. TypeOK /\ Trusted(p, c) /\ Reads(q)
  BY DEF TrustInv, ReadInv
<1>1. CASE ~IsPrice(p)
  BY <1>1 DEF Trusted, IsPrice
<1>2. CASE IsPrice(p) /\ ~IsPrice(q)
  <2>1. Sig(q, d).tariff = NoTariff /\ ~ClosesWithdrawn(q)
    BY <1>0, <1>2 DEF Reads, Sig, ClosesWithdrawn
  <2>2. price' = price
    BY <1>0, <2>1 DEF TypeOK
  <2>3. Remembered(p, c)' = Remembered(p, c)
    BY <1>0, <1>2 DEF Remembered, TypeOK
  <2>. QED
    BY <1>0, <2>2, <2>3, SamePrices
<1>3. CASE IsPrice(p) /\ p = q /\ c = d
  <2>1. Remembered(p, c)' = IF whole THEN Sig(q, d) ELSE NoSig
    BY <1>0, <1>3 DEF Remembered, TypeOK
  <2>2. price'[c] = IF done = 3 THEN Sig(q, d).tariff ELSE price[c]
    BY <1>0, <1>3 DEF TypeOK
  <2>3. SomePriced => ClosesWithdrawn(q)
    BY <1>0, <1>3 DEF Reads, ClosesWithdrawn
  <2>. QED
    BY <2>1, <2>2, <2>3 DEF Trusted
<1>4. CASE IsPrice(p) /\ p = q /\ c # d
  <2>1. price'[c] = price[c] /\ Remembered(p, c)' = Remembered(p, c)
    BY <1>0, <1>4 DEF Remembered, TypeOK
  <2>. QED
    BY <1>0, <2>1, SamePrices
<1>. QED
  BY <1>1, <1>2, <1>3, <1>4 DEF OnePricePass

\* Nothing is remembered at first.
LEMMA TrustInit == Init => TrustInv
  BY ReadInit DEF Init, TrustInv, Kept, Trusted, Remembered, NothingCached

\* A pass keeps what it read until it has confirmed by it.
LEMMA KeptStep ==
  ASSUME ReadInv, [Next]_vars, NEW p \in Passes, Kept(p)
  PROVE  Kept(p)'
<1>0. TypeOK /\ Reads(p)
  BY DEF ReadInv
<1>1. ASSUME fetched'[p] = fetched[p], phase'[p] = "confirm" => phase[p] = "confirm",
             cache'[p] \in {cache[p], NothingCached}
      PROVE  Kept(p)'
  BY <1>1 DEF Kept, NothingCached, IsPrice
<1>2. ASSUME NEW q \in Passes, NEW came \in BOOLEAN, Fetch(q, came) PROVE Kept(p)'
  <2>1. /\ phase'[p] = "rows" \/ (phase'[p] = phase[p] /\ fetched'[p] = fetched[p])
        /\ cache' = cache
    BY <1>0, <1>2 DEF Fetch, TypeOK
  <2>. QED
    BY <2>1 DEF Kept, IsPrice
<1>3. ASSUME NEW q \in Passes, NEW c \in Connectors, Skip(q, c) PROVE Kept(p)'
  BY <1>1, <1>3 DEF Skip
<1>4. ASSUME NEW q \in Passes, NEW c \in Connectors, NEW done \in 0..3, Process(q, c, done)
      PROVE  Kept(p)'
  BY <1>1, <1>4 DEF Process
<1>5. ASSUME NEW q \in Passes, StoreSigs(q) PROVE Kept(p)'
  <2>1. CASE q = p
    BY <1>0, <1>5, <2>1 DEF StoreSigs, Kept, Reads, TypeOK, IsPrice
  <2>2. CASE q # p
    BY <1>0, <1>1, <1>5, <2>2 DEF StoreSigs, TypeOK
  <2>. QED
    BY <2>1, <2>2
<1>6. ASSUME NEW q \in Passes, Confirm(q) \/ Count(q) \/ Prune(q) \/ Revive(q) PROVE Kept(p)'
  <2>1. phase'[p] = "confirm" => phase[p] = "confirm"
    BY <1>0, <1>6 DEF Confirm, Count, Prune, Revive, Stop, TypeOK
  <2>. QED
    BY <1>1, <1>6, <2>1 DEF Confirm, Count, Prune, Revive
<1>7. ASSUME NEW e, Crash(e) PROVE Kept(p)'
  BY <1>1, <1>7 DEF Crash
<1>8. CASE (\E c \in Connectors, e \in Entries \cup {Unlisted} : Publish(c, e))
            \/ (\E m \in pushes : Lose(m) \/ \E known \in BOOLEAN : Deliver(m, known))
            \/ UNCHANGED vars
  BY <1>1, <1>8 DEF Publish, Lose, Deliver, vars, run
<1>. QED
  BY <1>2, <1>3, <1>4, <1>5, <1>6, <1>7, <1>8 DEF Next, PassStep

\* Every step of a pass keeps remembered prices true.
LEMMA TrustStep ==
  ASSUME "push" \notin Disturbances, OnePricePass
  PROVE  TrustInv /\ [Next]_vars => TrustInv'
<1>. SUFFICES ASSUME TrustInv, [Next]_vars PROVE TrustInv'
  OBVIOUS
<1>1. ReadInv' /\ pushes' = {}
  BY ReadStep, NoPushes DEF TrustInv
<1>2. ASSUME NEW p \in Passes, NEW c \in Connectors PROVE Trusted(p, c)'
  <2>0. TypeOK /\ Trusted(p, c) /\ Reads(p)
    BY DEF TrustInv, ReadInv
  <2>1. ASSUME NEW d \in Connectors, NEW e \in Entries \cup {Unlisted}, Publish(d, e)
        PROVE  Trusted(p, c)'
    BY <2>0, <2>1, SamePrices DEF Publish, db, run, Remembered
  <2>2. ASSUME NEW q \in Passes, NEW came \in BOOLEAN, Fetch(q, came) PROVE Trusted(p, c)'
    <3>1. price' = price
      BY <2>2 DEF Fetch
    <3>2. CASE p = q
      <4>1. phase[p] = "idle" /\ next'[p] = NothingCached /\ cache' = cache
        BY <2>0, <2>2, <3>2 DEF Fetch, TypeOK
      <4>2. Remembered(p, c)' \in {Remembered(p, c), NoSig}
        BY <4>1 DEF Remembered, NothingCached
      <4>. QED
        BY <2>0, <3>1, <4>2, SamePrices
    <3>3. CASE p # q
      <4>1. Remembered(p, c)' = Remembered(p, c)
        BY <2>0, <2>2, <3>3 DEF Fetch, TypeOK, Remembered
      <4>. QED
        BY <2>0, <3>1, <4>1, SamePrices
    <3>. QED
      BY <3>2, <3>3
  <2>3. ASSUME NEW q \in Passes, NEW d \in Connectors, Skip(q, d) PROVE Trusted(p, c)'
    <3>1. price' = price /\ Remembered(p, c)' = Remembered(p, c)
      BY <2>0, <2>3 DEF Skip, Unchanged, db, TypeOK, Remembered
    <3>. QED
      BY <2>0, <3>1, SamePrices
  <2>4. ASSUME NEW q \in Passes, StoreSigs(q) PROVE Trusted(p, c)'
    <3>1. price' = price /\ Remembered(p, c)' = Remembered(p, c)
      BY <2>0, <2>4 DEF StoreSigs, db, TypeOK, Remembered
    <3>. QED
      BY <2>0, <3>1, SamePrices
  <2>5. ASSUME NEW q \in Passes, Confirm(q) \/ Count(q) \/ Prune(q) \/ Revive(q)
        PROVE  Trusted(p, c)'
    <3>1. price' = price /\ next' = next /\ cache' = cache /\ todo' = todo
      BY <2>5 DEF Confirm, Count, Prune, Revive, db
    <3>2. phase'[p] = "rows" <=> phase[p] = "rows"
      BY <2>0, <2>5 DEF Confirm, Count, Prune, Revive, Stop, TypeOK
    <3>. QED
      BY <2>0, <3>1, <3>2, SamePrices DEF Remembered
  <2>6. ASSUME NEW e, Crash(e) PROVE Trusted(p, c)'
    <3>1. price' = price /\ next' = next
      BY <2>6 DEF Crash, db
    <3>2. Remembered(p, c)' \in {Remembered(p, c), NoSig}
      BY <2>0, <2>6, <3>1 DEF Crash, NothingCached, Remembered
    <3>. QED
      BY <2>0, <3>1, <3>2, SamePrices
  <2>7. CASE UNCHANGED vars
    BY <2>0, <2>7, SamePrices DEF vars, db, run, Remembered
  <2>8. pushes = {}
    BY DEF TrustInv
  <2>. QED
    BY <2>1, <2>2, <2>3, <2>4, <2>5, <2>6, <2>7, <2>8, ProcessTrust DEF Next, PassStep
<1>3. \A p \in Passes : Kept(p)'
  BY KeptStep DEF TrustInv
<1>. QED
  BY <1>1, <1>2, <1>3 DEF TrustInv

(* "Unchanged signature => nothing to do for that row" (ingest.go): with   *)
(* one process running price passes and no pushes beside them, a           *)
(* remembered price is the price in force, for any feed, whatever          *)
(* statements fail and however often the process dies.                     *)
THEOREM PricesRememberedHolds ==
  ASSUME "push" \notin Disturbances, OnePricePass
  PROVE  Spec => []PricesRemembered
<1>1. TrustInv => PricesRemembered
  BY DEF TrustInv, ReadInv, Trusted, PricesRemembered
<1>. QED
  BY <1>1, TrustInit, TrustStep, PTL DEF Spec

(* A price pass that has been through its rows has closed every price      *)
(* withdrawn, if every price pass reads some price.                        *)
THEOREM WithdrawnClosedHolds ==
  ASSUME "push" \notin Disturbances, OnePricePass, SomePriced
  PROVE  Spec => WithdrawnClosed
<1>1. TrustInv /\ [Next]_vars =>
        [\A p \in Passes, c \in Connectors :
           StoreSigs(p) /\ IsPrice(p) /\ Priced(fetched[p]) # {} /\ next[p][c] # NoSig
             /\ fetched[p][c].tariff = NoTariff
             => price[c] = NoTariff]_vars
  <2>. SUFFICES ASSUME TrustInv, NEW p \in Passes, NEW c \in Connectors, StoreSigs(p), IsPrice(p),
                       next[p][c] # NoSig, fetched[p][c].tariff = NoTariff
                PROVE  price[c] = NoTariff
    OBVIOUS
  <2>1. Remembered(p, c) = next[p][c]
    BY DEF StoreSigs, Remembered
  <2>2. next[p][c] = fetched[p][c] /\ Trusted(p, c)
    BY DEF TrustInv, ReadInv, Reads
  <2>. QED
    BY <2>1, <2>2 DEF Trusted
<1>. QED
  BY <1>1, TrustInit, TrustStep, PTL DEF Spec, WithdrawnClosed

(* "Scoped to the evse_uids actually seen" (ConfirmTariffsSeen): however   *)
(* many connectors an EVSE has, what a pass confirms of those it listed is *)
(* what it read of each, if every price pass reads some price.             *)
THEOREM ConfirmsSeenHolds ==
  ASSUME "push" \notin Disturbances, OnePricePass, SomePriced
  PROVE  Spec => ConfirmsSeen
<1>1. TrustInv /\ [Next]_vars =>
        [\A p \in Passes, c \in confirmed' \ confirmed :
           Confirm(p) /\ c \in Listed(fetched[p]) /\ cache[p][c] # NoSig
             => price[c] = fetched[p][c].tariff]_vars
  <2>. SUFFICES ASSUME TrustInv, NEW p \in Passes, NEW c \in Connectors, Confirm(p),
                       cache[p][c] # NoSig
                PROVE  price[c] = fetched[p][c].tariff
    BY DEF Listed
  <2>1. Remembered(p, c) = fetched[p][c] /\ Remembered(p, c) # NoSig /\ IsPrice(p)
    BY DEF Confirm, Remembered, TrustInv, Kept
  <2>. QED
    BY <2>1 DEF TrustInv, Trusted
<1>. QED
  BY <1>1, TrustInit, TrustStep, PTL DEF Spec, ConfirmsSeen

-----------------------------------------------------------------------------
(* Retirement.                                                             *)

\* A row once written is never unwritten.
LEMMA RowsStay ==
  ASSUME TypeOK, [Next]_vars, NEW c \in Connectors, row[c] # "absent"
  PROVE  row'[c] # "absent"
<1>1. ASSUME NEW m \in pushes, NEW known \in BOOLEAN, Deliver(m, known) PROVE row'[c] # "absent"
  BY <1>1 DEF Deliver, TypeOK
<1>2. ASSUME NEW p \in Passes, PassStep(p) PROVE row'[c] # "absent"
  BY <1>2 DEF PassStep, Fetch, Skip, Process, StoreSigs, Confirm, Count, Prune, Revive, db, TypeOK
<1>3. ASSUME NEW e, Crash(e) PROVE row' = row
  BY <1>3 DEF Crash, db
<1>4. ASSUME NEW d \in Connectors, NEW e \in Entries \cup {Unlisted}, Publish(d, e)
      PROVE  row' = row
  BY <1>4 DEF Publish, db
<1>5. ASSUME NEW m \in pushes, Lose(m) PROVE row' = row
  BY <1>5 DEF Lose, db
<1>. QED
  BY <1>1, <1>2, <1>3, <1>4, <1>5 DEF Next, vars, db

\* Nothing is stored, and nothing kept, at first.
LEMMA StoredInit == Init => StoredInv
  BY ReadInit DEF Init, StoredInv, Stored, NothingCached

\* If no statement fails, what is through its rows is in the database.
LEMMA StoredStep ==
  ASSUME "rowerror" \notin Disturbances
  PROVE  StoredInv /\ [Next]_vars => StoredInv'
<1>. SUFFICES ASSUME StoredInv, [Next]_vars, NEW p \in Passes PROVE Stored(p)'
  BY ReadStep DEF StoredInv
<1>0. TypeOK /\ Reads(p) /\ Stored(p)
  BY DEF StoredInv, ReadInv
<1>00. \A c \in Connectors : row[c] # "absent" => row'[c] # "absent"
  BY <1>0, RowsStay
<1>1. ASSUME cache'[p] = cache[p] \/ cache'[p] = NothingCached, fetched'[p] = fetched[p],
             (todo'[p] = todo[p] /\ phase'[p] = phase[p]) \/ phase'[p] = "idle"
      PROVE  Stored(p)'
  BY <1>0, <1>00, <1>1 DEF Stored, NothingCached, Listed
<1>2. ASSUME NEW q \in Passes, q # p, PassStep(q) PROVE Stored(p)'
  <2>1. /\ phase'[p] = phase[p] /\ cache'[p] = cache[p] /\ fetched'[p] = fetched[p]
        /\ todo'[p] = todo[p]
    BY <1>0, <1>2 DEF PassStep, Fetch, Skip, Process, StoreSigs, Confirm, Count, Prune, Revive,
                      Stop, TypeOK
  <2>. QED
    BY <1>1, <2>1
<1>3. ASSUME NEW came \in BOOLEAN, Fetch(p, came) PROVE Stored(p)'
  <2>1. Listed(Reading(p, came)) = Listed(published)
    BY <1>0, ReadingListed DEF TypeOK
  <2>2. /\ fetched'[p] = Reading(p, came) /\ todo'[p] = Listed(published)
        /\ phase'[p] = "rows" /\ cache' = cache
    BY <1>0, <1>3 DEF Fetch, TypeOK
  <2>3. Listed(fetched[p])' = Listed(published)
    BY <2>1, <2>2 DEF Listed
  <2>. QED
    BY <1>0, <1>00, <2>2, <2>3 DEF Stored
<1>4. ASSUME NEW c \in Connectors, Skip(p, c) PROVE Stored(p)'
  <2>1. /\ phase[p] = "rows" /\ phase' = phase /\ cache' = cache /\ fetched' = fetched
        /\ todo'[p] = todo[p] \ {c} /\ cache[p][c] = fetched[p][c] /\ c \in Listed(fetched[p])
    BY <1>0, <1>4 DEF Skip, Unchanged, Sig, Reads, TypeOK
  <2>2. row[c] # "absent"
    BY <1>0, <2>1 DEF Stored, Listed, NoSig
  <2>. QED
    BY <1>0, <1>00, <2>1, <2>2 DEF Stored, Listed
<1>5. ASSUME NEW c \in Connectors, NEW done \in 0..3, done <= Len(Statements(p, c)),
             Process(p, c, done)
      PROVE  Stored(p)'
  <2>1. /\ phase[p] = "rows" /\ phase' = phase /\ cache' = cache /\ fetched' = fetched
        /\ todo'[p] = todo[p] \ {c} /\ row'[c] # "absent"
    <3>. PICK whole \in BOOLEAN :
             /\ phase[p] = "rows"
             /\ ~whole => "rowerror" \in Disturbances
             /\ whole => done >= 2
             /\ row' = [row EXCEPT ![c] = IF @ = "absent" /\ done >= 1 THEN "active" ELSE @]
             /\ todo' = [todo EXCEPT ![p] = @ \ {c}]
             /\ UNCHANGED <<source, phase, fetched, cache>>
      BY <1>5, ProcessMakes
    <3>1. done >= 1
      OBVIOUS
    <3>. QED
      BY <1>0, <3>1 DEF TypeOK
  <2>. QED
    BY <1>0, <1>00, <2>1 DEF Stored, Listed
<1>6. CASE StoreSigs(p)
  <2>1. /\ phase[p] = "rows" /\ phase'[p] \in {"confirm", "idle"} /\ cache'[p] = next[p]
        /\ fetched' = fetched /\ todo[p] = {}
    BY <1>0, <1>6 DEF StoreSigs, TypeOK
  <2>2. \A c \in Listed(fetched[p]) : row[c] # "absent"
    BY <1>0, <2>1 DEF Stored
  <2>3. \A c \in Connectors : next[p][c] # NoSig => c \in Listed(fetched[p])
    BY <1>0 DEF Reads, Listed, NoSig
  <2>. QED
    BY <1>00, <2>1, <2>2, <2>3 DEF Stored, Listed
<1>7. CASE Count(p)
  <2>1. /\ phase[p] = "count" /\ phase'[p] \in {"idle", "prune"}
        /\ phase'[p] = "prune" => ~TooSmall(p)
        /\ cache' = cache /\ fetched' = fetched /\ todo' = todo
    BY <1>0, <1>7 DEF Count, Stop, TypeOK
  <2>2. ~TooSmall(p) => Listed(fetched[p]) # {}
    BY FS_EmptySet DEF TooSmall
  <2>. QED
    BY <1>0, <1>00, <2>1, <2>2 DEF Stored, Listed
<1>8. CASE Confirm(p) \/ Prune(p) \/ Revive(p)
  <2>1. /\ phase[p] \in {"confirm", "prune", "revive"} /\ phase'[p] \in {"count", "revive", "idle"}
        /\ cache' = cache /\ fetched' = fetched /\ todo' = todo
    BY <1>0, <1>8 DEF Confirm, Prune, Revive, Stop, TypeOK
  <2>. QED
    BY <1>0, <1>00, <2>1 DEF Stored, Listed
<1>9. ASSUME NEW e, Crash(e) PROVE Stored(p)'
  BY <1>1, <1>9 DEF Crash
<1>10. CASE (\E c \in Connectors, e \in Entries \cup {Unlisted} : Publish(c, e))
             \/ (\E m \in pushes : Lose(m) \/ \E known \in BOOLEAN : Deliver(m, known))
             \/ UNCHANGED vars
  BY <1>1, <1>10 DEF Publish, Lose, Deliver, vars, run
<1>. QED
  BY <1>2, <1>3, <1>4, <1>5, <1>6, <1>7, <1>8, <1>9, <1>10 DEF Next, PassStep

(* "guarded so a truncated/empty feed can't wipe a source" (ingest.go): if *)
(* statements do not fail, then however passes, pushes, edits and crashes  *)
(* interleave, a source that prunes keeps a charger or revives one.        *)
THEOREM NeverWipedHolds ==
  ASSUME "rowerror" \notin Disturbances
  PROVE  Spec => NeverWiped
<1>1. StoredInv /\ [Next]_vars =>
        [\A p \in Passes :
           Prune(p) /\ Active # {} => Active' # {} \/ Revived(p)' # {}]_vars
  <2>. SUFFICES ASSUME StoredInv, NEW p \in Passes, Prune(p)
                PROVE  Active' # {} \/ Revived(p)' # {}
    OBVIOUS
  <2>1. /\ \A c \in Listed(fetched[p]) : row[c] \in {"active", "retired"}
        /\ Listed(fetched[p]) # {}
    BY DEF StoredInv, ReadInv, TypeOK, Stored, Prune, Listed
  <2>2. PICK c \in Listed(fetched[p]) : TRUE
    BY <2>1
  <2>3. c \in Connectors /\ row'[c] = row[c] /\ fetched' = fetched
    BY <2>2 DEF Prune, Listed
  <2>. QED
    BY <2>1, <2>2, <2>3 DEF Active, Revived, Listed
<1>. QED
  BY <1>1, StoredInit, StoredStep, PTL DEF Spec, NeverWiped
=============================================================================

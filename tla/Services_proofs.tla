--------------------------- MODULE Services_proofs ---------------------------
(***************************************************************************)
(* The safety of the services, for every value of their constants.         *)
(*                                                                         *)
(* Every component has an inductive invariant of its own, in the module    *)
(* its proof is in, the scheduler's here.  A step of Services is one of a  *)
(* component, which leaves the rest alone, so each invariant is one of the *)
(* composition.                                                            *)
(***************************************************************************)
EXTENDS Services, Export_proofs, Caches_proofs, OcpiPartner_proofs, TLAPS

-----------------------------------------------------------------------------
(* The scheduler: behind OnePassPerKind is that inflight holds exactly the *)
(* passes under way.                                                       *)

CatchingUp(j) == j[2] = "price" /\ catchUp[j[1]] = "passing"

\* The jobs hold disjoint reservations, and nobody else holds one.
SchedInv ==
  /\ cronJobs \in [JobsOf(Feeds) -> {"rest", "trying", "passing"}]
  /\ catchUp \in [Feeds -> {"trying", "passing", "over"}]
  /\ inflight \subseteq JobsOf(Feeds)
  /\ \A j \in JobsOf(Feeds) :
       /\ ~(cronJobs[j] = "passing" /\ CatchingUp(j))
       /\ j \in inflight <=> cronJobs[j] = "passing" \/ CatchingUp(j)

\* A job is a source and a kind.
LEMMA JobPairs ==
  ASSUME NEW j \in JobsOf(Feeds)
  PROVE  j[1] \in Feeds /\ j[2] \in Kinds /\ j = <<j[1], j[2]>>
  BY DEF JobsOf

\* Every source has a price job.
LEMMA PriceJobs ==
  ASSUME NEW s \in Feeds
  PROVE  <<s, "price">> \in JobsOf(Feeds)
  BY DEF JobsOf, Kinds

\* A reservation has one holder, so that no two passes of a kind overlap.
LEMMA SchedInvExclusive == SchedInv => OnePassPerKind
<1>. SUFFICES ASSUME SchedInv PROVE OnePassPerKind
  OBVIOUS
<1>1. ASSUME NEW s \in Feeds PROVE ~(catchUp[s] = "passing" /\ cronJobs[s, "price"] = "passing")
  BY PriceJobs DEF SchedInv, CatchingUp
<1>2. inflight = {j \in JobsOf(Feeds) : cronJobs[j] = "passing" \/ CatchingUp(j)}
  BY DEF SchedInv
<1>. QED
  BY <1>1, <1>2 DEF OnePassPerKind, CatchingUp

\* No pass is under way at first.
LEMMA SchedInitInv == SchedInit => SchedInv
<1>. SUFFICES ASSUME SchedInit PROVE SchedInv
  OBVIOUS
<1>1. \A j \in JobsOf(Feeds) : ~CatchingUp(j)
  BY JobPairs DEF SchedInit, CatchingUp
<1>. QED
  BY <1>1 DEF SchedInit, SchedInv

\* A job of the instance that reserves its source and kind, or gives it back.
LEMMA CronSteps ==
  ASSUME SchedInv, NEW j \in JobsOf(Feeds), Fire(j) \/ BeginPass(j) \/ EndPass(j)
  PROVE  SchedInv'
<1>1. UNCHANGED catchUp /\ \A i \in JobsOf(Feeds) : CatchingUp(i)' <=> CatchingUp(i)
  BY DEF Fire, BeginPass, EndPass, CatchingUp
<1>2. CASE Fire(j)
  BY <1>1, <1>2 DEF SchedInv, Fire
<1>3. CASE BeginPass(j)
  BY <1>1, <1>3 DEF SchedInv, BeginPass, Acquire
<1>4. CASE EndPass(j)
  BY <1>1, <1>4 DEF SchedInv, EndPass
<1>. QED
  BY <1>2, <1>3, <1>4

\* A pass of the start-up that reserves its source, or gives it back.
LEMMA CatchUpSteps ==
  ASSUME SchedInv, NEW s \in Feeds,
         SkipCatchUp(s) \/ BeginCatchUp(s) \/ EndCatchUp(s) \/ FailCatchUp(s)
  PROVE  SchedInv'
<1>. DEFINE p == <<s, "price">>
<1>0. p \in JobsOf(Feeds) /\ UNCHANGED cronJobs
  BY PriceJobs DEF SkipCatchUp, BeginCatchUp, EndCatchUp, FailCatchUp
<1>1. CASE SkipCatchUp(s)
  <2>1. catchUp' \in [Feeds -> {"trying", "passing", "over"}]
    BY <1>1 DEF SchedInv, SkipCatchUp
  <2>2. \A i \in JobsOf(Feeds) : CatchingUp(i)' <=> CatchingUp(i)
    BY <1>1, JobPairs DEF SchedInv, SkipCatchUp, CatchingUp
  <2>. QED
    BY <1>0, <1>1, <2>1, <2>2 DEF SchedInv, SkipCatchUp
<1>2. CASE BeginCatchUp(s)
  <2>1. catchUp' \in [Feeds -> {"trying", "passing", "over"}]
    BY <1>2 DEF SchedInv, BeginCatchUp
  <2>2. CASE p \in inflight
    <3>1. \A i \in JobsOf(Feeds) : CatchingUp(i)' <=> CatchingUp(i)
      BY <1>2, <2>2, JobPairs DEF SchedInv, BeginCatchUp, Acquire, CatchingUp
    <3>. QED
      BY <1>0, <1>2, <2>1, <2>2, <3>1 DEF SchedInv, BeginCatchUp, Acquire
  <2>3. CASE p \notin inflight
    <3>1. \A i \in JobsOf(Feeds) : CatchingUp(i)' <=> CatchingUp(i) \/ i = p
      BY <1>2, <2>3, JobPairs DEF SchedInv, BeginCatchUp, Acquire, CatchingUp
    <3>2. inflight' = inflight \cup {p}
      BY <1>2, <2>3 DEF BeginCatchUp, Acquire
    <3>. QED
      BY <1>0, <2>1, <2>3, <3>1, <3>2 DEF SchedInv
  <2>. QED
    BY <2>2, <2>3
<1>3. CASE EndCatchUp(s)
  <2>1. catchUp' \in [Feeds -> {"trying", "passing", "over"}]
    BY <1>3 DEF SchedInv, EndCatchUp
  <2>2. \A i \in JobsOf(Feeds) : CatchingUp(i)' <=> CatchingUp(i) /\ i # p
    BY <1>3, JobPairs DEF SchedInv, EndCatchUp, CatchingUp
  <2>3. CatchingUp(p) /\ inflight' = inflight \ {p}
    BY <1>3 DEF EndCatchUp, CatchingUp
  <2>. QED
    BY <1>0, <2>1, <2>2, <2>3 DEF SchedInv
<1>4. CASE FailCatchUp(s)
  <2>1. catchUp' = [t \in Feeds |-> "over"]
    BY <1>4 DEF FailCatchUp
  <2>2. \A i \in JobsOf(Feeds) : ~CatchingUp(i)'
    BY <2>1, JobPairs DEF CatchingUp
  <2>3. \A i \in JobsOf(Feeds) : i \in inflight' <=> i \in inflight /\ ~CatchingUp(i)
    <3>. SUFFICES ASSUME NEW i \in JobsOf(Feeds)
                  PROVE  i \in {<<t, "price">> : t \in {x \in Feeds : catchUp[x] = "passing"}}
                           <=> CatchingUp(i)
      BY <1>4 DEF FailCatchUp
    <3>. QED
      BY JobPairs DEF CatchingUp
  <2>4. inflight' \subseteq JobsOf(Feeds)
    BY <1>4 DEF FailCatchUp, SchedInv
  <2>. QED
    BY <1>0, <2>1, <2>2, <2>3, <2>4 DEF SchedInv
<1>. QED
  BY <1>1, <1>2, <1>3, <1>4

\* One case for each action: a pass begins with its reservation and ends with
\* it; reloads and rebuilds leave both alone.
LEMMA SchedStepInv == SchedInv /\ [SchedNext]_schedVars => SchedInv'
<1>. SUFFICES ASSUME SchedInv, [SchedNext]_schedVars PROVE SchedInv'
  OBVIOUS
<1>1. CASE \E j \in JobsOf(Feeds) : Fire(j) \/ BeginPass(j) \/ EndPass(j)
  BY <1>1, CronSteps
<1>2. CASE \E s \in Feeds : SkipCatchUp(s) \/ BeginCatchUp(s) \/ EndCatchUp(s) \/ FailCatchUp(s)
  BY <1>2, CatchUpSteps
<1>3. CASE UNCHANGED <<cronJobs, catchUp, inflight>>
  BY <1>3 DEF SchedInv, CatchingUp
<1>4. ASSUME (\E S \in SUBSET Feeds : Administer(S)) \/ Reload \/ FailReload \/ Rebuild
             \/ UNCHANGED schedVars
      PROVE  UNCHANGED <<cronJobs, catchUp, inflight>>
  BY <1>4 DEF Administer, Reload, FailReload, Rebuild, schedVars
<1>. QED
  BY <1>1, <1>2, <1>3, <1>4 DEF SchedNext

-----------------------------------------------------------------------------
(* The composition.                                                        *)

\* Each component is in its initial state at first.
LEMMA ServicesInit ==
  Init => PubInit /\ SubInit /\ FeedInit /\ StatInit /\ FxInit /\ CredInit /\ PartnerInit
            /\ SchedInit
  BY DEF Init

\* A step of the whole is a step of each component or leaves it alone.
LEMMA ServicesStep ==
  [Next]_serviceVars =>
    /\ [PubNext]_pubVars /\ [SubNext]_subVars /\ [FeedNext]_feedVars /\ [StatNext]_statVars
    /\ [FxNext]_fxVars /\ [CredNext]_credVars /\ [PartnerNext]_partnerVars /\ [SchedNext]_schedVars
  BY DEF Next, serviceVars

\* No client ever holds a copy older than the tag it came with, whatever the
\* regions, failures, restarts and interleavings.
THEOREM TagNeverAheadHolds == Spec => []TagNeverAhead
<1>1. Init => PubInv
  BY ServicesInit, PubInitInv
<1>2. PubInv /\ [Next]_serviceVars => PubInv'
  BY ServicesStep, PubStepInv
<1>3. PubInv => TagNeverAhead
  BY PubInvSafe
<1>. QED
  BY <1>1, <1>2, <1>3, PTL DEF Spec

\* Between full exports the index and the region files agree.
THEOREM PublishedSetHolds == Spec => []PublishedSet
<1>1. Init => PubInv
  BY ServicesInit, PubInitInv
<1>2. PubInv /\ [Next]_serviceVars => PubInv'
  BY ServicesStep, PubStepInv
<1>3. PubInv => PublishedSet
  BY PubInvSafe
<1>. QED
  BY <1>1, <1>2, <1>3, PTL DEF Spec

\* No callback is posted to that never echoed a challenge.
THEOREM OnlyProvenHolds == Spec => []OnlyProven
<1>1. Init => SubInv
  BY ServicesInit, SubInitInv
<1>2. SubInv /\ [Next]_serviceVars => SubInv'
  BY ServicesStep, SubStepInv
<1>3. SubInv => OnlyProven
  BY DEF SubInv
<1>. QED
  BY <1>1, <1>2, <1>3, PTL DEF Spec

\* A pass is given a base as fresh as it asked for, and no earlier pass's
\* statuses.
THEOREM FreshAsAskedHolds == Spec => []FreshAsAsked
<1>1. Init => FeedInv
  BY ServicesInit, FeedInitInv
<1>2. FeedInv /\ [Next]_serviceVars => FeedInv'
  BY ServicesStep, FeedStepInv
<1>3. FeedInv => FreshAsAsked
  BY FeedInvFresh
<1>. QED
  BY <1>1, <1>2, <1>3, PTL DEF Spec

\* Rates are never older than the refresh interval, or the retry interval
\* after a failure.
THEOREM RetriesSoonHolds == Spec => []RetriesSoon
<1>1. Init => FxInv
  BY ServicesInit, FxInitInv
<1>2. FxInv /\ [Next]_serviceVars => FxInv'
  BY ServicesStep, FxStepInv
<1>3. FxInv => RetriesSoon
  BY DEF FxInv
<1>. QED
  BY <1>1, <1>2, <1>3, PTL DEF Spec

\* A connection is opened with what one version of the file names, or with the
\* DSN's own user and password: never with halves of two versions.
THEOREM PairMatchesHolds == Spec => []PairMatches
<1>1. Init => CredInv
  BY ServicesInit, CredInitInv
<1>2. CredInv /\ [Next]_serviceVars => CredInv'
  BY ServicesStep, CredStepInv
<1>3. CredInv => PairMatches
  BY DEF CredInv
<1>. QED
  BY <1>1, <1>2, <1>3, PTL DEF Spec

\* A source never runs two passes of one kind at a time.
THEOREM OnePassPerKindHolds == Spec => []OnePassPerKind
<1>1. Init => SchedInv
  BY ServicesInit, SchedInitInv
<1>2. SchedInv /\ [Next]_serviceVars => SchedInv'
  BY ServicesStep, SchedStepInv
<1>3. SchedInv => OnePassPerKind
  BY SchedInvExclusive
<1>. QED
  BY <1>1, <1>2, <1>3, PTL DEF Spec

\* A statistics entry's refreshing flag always has a refresh that will reset
\* it, whatever is evicted, put again or fails.
THEOREM FlagMeansRunningHolds == Spec => []FlagMeansRunning
<1>1. Init => StatInv
  BY ServicesInit, StatInitInv
<1>2. StatInv /\ [Next]_serviceVars => StatInv'
  BY ServicesStep, StatStepInv
<1>3. StatInv => FlagMeansRunning
  BY DEF StatInv
<1>. QED
  BY <1>1, <1>2, <1>3, PTL DEF Spec

\* A location and its tariff are linked whichever comes first, for any number
\* of pushes, overlaps and failures.
THEOREM LinkedEitherOrderHolds == Spec => []LinkedEitherOrder
<1>1. Init => SinkInv
  BY ServicesInit, SinkInitInv
<1>2. SinkInv /\ [Next]_serviceVars => SinkInv'
  BY ServicesStep, SinkStepInv
<1>3. SinkInv => LinkedEitherOrder
  BY SinkInvLinked
<1>. QED
  BY <1>1, <1>2, <1>3, PTL DEF Spec

\* A handshake enables a source only with the two tokens the CPO holds.
THEOREM EnabledMeansWholeHolds == Spec => EnabledMeansWhole
<1>1. Init => PartnerInv
  BY ServicesInit, PartnerInitInv
<1>2. PartnerInv /\ [Next]_serviceVars => PartnerInv'
  BY ServicesStep, PartnerStepInv
<1>3. PartnerInv /\ [Next]_serviceVars =>
        [source'.enabled /\ ~source.enabled =>
           source'.b = partner'.b /\ source'.c = partner'.c]_partnerVars
  BY ServicesStep, PartnerStepWhole
<1>. QED
  BY <1>1, <1>2, <1>3, PTL DEF Spec, EnabledMeansWhole

=============================================================================

------------------------------ MODULE Services ------------------------------
(***************************************************************************)
(* The services around the price store: publishing the dumps, pushing them *)
(* to subscribers, the feeds' and the statistics' caches, the exchange     *)
(* rates, the database credentials, an OCPI partner and the scheduler.     *)
(*                                                                         *)
(* They run side by side in two processes and share no state but the       *)
(* database, of which each model holds the part its component reads.       *)
(* Their interleavings are those inside each component, so a behaviour     *)
(* follows one of them, chosen at the start, while the others rest.        *)
(***************************************************************************)
EXTENDS Publication, Subscriptions, FeedCaches, StatsCache, FxCache,
        DbCredentials, OcpiPartner, Scheduling

VARIABLE focus

Components == {"publication", "subscriptions", "feeds", "statistics", "rates",
               "credentials", "partner", "scheduling"}

serviceVars == <<focus, pubVars, subVars, feedVars, statVars, fxVars, credVars,
                 partnerVars, schedVars>>

Init ==
  /\ focus \in Components
  /\ PubInit /\ SubInit /\ FeedInit /\ StatInit
  /\ FxInit /\ CredInit /\ PartnerInit /\ SchedInit

Next ==
  \/ /\ focus = "publication" /\ PubNext
     /\ UNCHANGED <<focus, subVars, feedVars, statVars, fxVars, credVars, partnerVars, schedVars>>
  \/ /\ focus = "subscriptions" /\ SubNext
     /\ UNCHANGED <<focus, pubVars, feedVars, statVars, fxVars, credVars, partnerVars, schedVars>>
  \/ /\ focus = "feeds" /\ FeedNext
     /\ UNCHANGED <<focus, pubVars, subVars, statVars, fxVars, credVars, partnerVars, schedVars>>
  \/ /\ focus = "statistics" /\ StatNext
     /\ UNCHANGED <<focus, pubVars, subVars, feedVars, fxVars, credVars, partnerVars, schedVars>>
  \/ /\ focus = "rates" /\ FxNext
     /\ UNCHANGED <<focus, pubVars, subVars, feedVars, statVars, credVars, partnerVars, schedVars>>
  \/ /\ focus = "credentials" /\ CredNext
     /\ UNCHANGED <<focus, pubVars, subVars, feedVars, statVars, fxVars, partnerVars, schedVars>>
  \/ /\ focus = "partner" /\ PartnerNext
     /\ UNCHANGED <<focus, pubVars, subVars, feedVars, statVars, fxVars, credVars, schedVars>>
  \/ /\ focus = "scheduling" /\ SchedNext
     /\ UNCHANGED <<focus, pubVars, subVars, feedVars, statVars, fxVars, credVars, partnerVars>>

-----------------------------------------------------------------------------
(* Fairness.                                                               *)

\* The exporter's goroutine goes on; both of its tickers are served again and
\* again; a client revalidates again and again, even if the mutex is taken
\* whenever it would.
PubFairness ==
  /\ WF_pubVars(focus = "publication" /\ \/ WriteRegion \/ Commit \/ WriteStatus \/ FinishAvailability
                                         \/ (\E n \in FileNames : PruneOne(n)))
  /\ SF_pubVars(focus = "publication" /\ StartFull)
  /\ SF_pubVars(focus = "publication" /\ StartAvailability)
  /\ SF_pubVars(focus = "publication" /\ Ask)
  /\ WF_pubVars(focus = "publication" /\ Serve)

\* Each push goes on, and the status passes rotate on.  Full exports are owed
\* nothing here: they only take the file away.
SubFairness ==
  /\ \A k \in 1..MaxPushes : WF_subVars(focus = "subscriptions" /\ PushStep(k))
  /\ WF_subVars(focus = "subscriptions" /\ Publish)

\* The cron instance fires its jobs, passes end (their requests time out), and
\* the registry is reloaded.  The administrator and errors are owed nothing.
SchedFairness ==
  /\ \A j \in JobsOf(Feeds) :
       /\ WF_schedVars(focus = "scheduling" /\ Fire(j))
       /\ WF_schedVars(focus = "scheduling" /\ BeginPass(j))
       /\ WF_schedVars(focus = "scheduling" /\ EndPass(j))
  /\ \A s \in Feeds : WF_schedVars(focus = "scheduling" /\ (BeginCatchUp(s) \/ EndCatchUp(s)))
  /\ WF_schedVars(focus = "scheduling" /\ (Reload \/ Rebuild))

Spec == Init /\ [][Next]_serviceVars /\ PubFairness /\ SubFairness /\ SchedFairness

-----------------------------------------------------------------------------
(* Liveness.                                                               *)

\* A client that revalidates the dump of a region, or the availability, is
\* again and again up to date with the database, in whatever order its
\* requests, the exports, failures and a restart come (exportCacheControl);
\* and the status publication, which every full export removes, comes back
\* (Snapshotter.Run).
ReadersCatchUp == focus = "publication" => []<>ReaderCurrent /\ []<>StatusThere

\* An answering target again and again holds the current publication, although
\* targets before it never answer, pushes overlap, posts are refused and full
\* exports remove the file under the pushes under way ("self-heals on the next
\* rotation", internal/export/push.go).
SubscribersCatchUp ==
  focus = "subscriptions" => \A e \in Answering : []<>SubscriberCurrent(e)

\* A source that stays enabled is polled again and again for its statuses and
\* its prices, although reloads fail, the registry changes around it and every
\* rebuild waits for the passes under way (Scheduler.Run).
KeepsPolling == focus = "scheduling" => \A j \in JobsOf(Feeds) : []<>Polled(j)

=============================================================================

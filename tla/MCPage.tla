------------------------------- MODULE MCPage -------------------------------
(***************************************************************************)
(* What runs on the page that embeds the container, side by side: ports and*)
(* the requests made to them, the SDK, the scheduler, the watchers of the  *)
(* file system and its snapshots.  A behaviour follows one of them, the    *)
(* focus; what is fair is fair of the focus.                               *)
(***************************************************************************)
EXTENDS Network, WebContainer, Scheduler, Watchers, Snapshots

MCDirs == << <<"d">> >>
MCWatchPaths == {<<"d">>, <<"d", "f">>, <<"d", "f", "g">>}

VARIABLE focus
pageVars == <<focus, networkVars, sdkVars, schedulerVars, watcherVars, snapshotVars>>

PageInit ==
  /\ focus \in {"network", "sdk", "scheduler", "watchers", "snapshots"}
  /\ NetworkInit /\ SdkInit /\ SchedulerInit /\ WatchersInit /\ SnapshotsInit

PageNext ==
  /\ UNCHANGED focus
  /\ \/ /\ focus = "network" /\ NetworkNext
        /\ UNCHANGED <<sdkVars, schedulerVars, watcherVars, snapshotVars>>
     \/ /\ focus = "sdk" /\ SdkNext
        /\ UNCHANGED <<networkVars, schedulerVars, watcherVars, snapshotVars>>
     \/ /\ focus = "scheduler" /\ SchedulerNext
        /\ UNCHANGED <<networkVars, sdkVars, watcherVars, snapshotVars>>
     \/ /\ focus = "watchers" /\ WatchersNext
        /\ UNCHANGED <<networkVars, sdkVars, schedulerVars, snapshotVars>>
     \/ /\ focus = "snapshots" /\ SnapshotsNext
        /\ UNCHANGED <<networkVars, sdkVars, schedulerVars, watcherVars>>

PageSpec ==
  /\ PageInit /\ [][PageNext]_pageVars
  /\ WF_networkVars(focus = "network" /\ ReceiveBinding)
  /\ \A f \in Fetches : /\ WF_networkVars(focus = "network" /\ ForwardToHandler(f))
                        /\ WF_networkVars(focus = "network" /\ TimerFires(f))
  /\ WF_networkVars(focus = "network" /\ Sweeping)
  /\ SF_sdkVars(focus = "sdk" /\ RunMicrotask)
  /\ WF_schedulerVars(focus = "scheduler" /\ TaskSettles)

\* What was begun on the page comes to its end.
PageFinishes == FetchAnswered /\ EmbedderToldAll /\ TasksRun
=============================================================================

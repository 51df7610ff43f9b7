----------------------------- MODULE EdgeSession -----------------------------
(***************************************************************************)
(* A managed session of the edge (live/managed_session.py, live/cli.py):   *)
(* the pipeline runs on its threads while the refresher fetches and stages *)
(* the doorway lines the administrators draw, and the agent's GPU worker   *)
(* serves requests.  When the session ends its memory is gone; the rows,   *)
(* the cache file and the worker's process are not.                        *)
(***************************************************************************)
EXTENDS LivePipeline, ManagedConfig, GpuSupervisor

liveVars == <<schedulerVars, pipelineVars>>
sessionVars == <<liveVars, portalVars, configVars, adminVars, gpuVars>>

SessionInit == SchedulerInit /\ PipelineInit /\ PortalInit /\ ConfigInit /\ AdminInit /\ GpuInit

LiveStep ==
    /\ refresher # "off" /\ (SchedulerStep \/ PipelineStep)
    /\ UNCHANGED <<configVars, adminVars, gpuVars>>
ConfigStep ==
    /\ \/ (AdminStep \/ PlacementStep) /\ UNCHANGED <<configVars, portalVars>>
       \/ StartSession \/ RefreshStep
    /\ UNCHANGED <<liveVars, gpuVars>>
EndOfSession == EndSession /\ SchedulerInit' /\ PipelineInit' /\ UNCHANGED gpuVars

SessionNext ==
    \/ LiveStep \/ ConfigStep \/ EndOfSession
    \/ GpuNext /\ UNCHANGED <<liveVars, portalVars, configVars, adminVars>>
SessionSpec == SessionInit /\ [][SessionNext]_sessionVars

-----------------------------------------------------------------------------
(* Properties *)

\* scheduler.py:12-40, runtime.py:306-308, camera_portal_service.py:155-161: types, the accounts of
\* the scheduler, no arrival overlooked, ledger and count follow the tracks, and the portal limit.
SessionInv ==
    /\ SchedulerTypeOK /\ TrackerTypeOK /\ GpuTypeOK
    /\ FramesConserved /\ NoMissedArrival /\ LedgerFollows /\ PortalLimit
=============================================================================

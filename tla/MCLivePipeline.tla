--------------------------- MODULE MCLivePipeline ---------------------------
(***************************************************************************)
(* The edge's live session for TLC.  Its parts share no thread but the     *)
(* consumer's, so a run explores each part with what it touches, one focus *)
(* at a time: the initial state picks the focus, and the steps of a focus  *)
(* are those of the specification within the bounds named here.            *)
(***************************************************************************)
EXTENDS EdgeSession
CONSTANT Focuses   \* bound: the parts explored
VARIABLE focus
mcVars == <<sessionVars, focus>>
Doorway(n) == [assignment |-> 1, portals |-> {[id |-> 1, enabled |-> TRUE, revision |-> n]}]
MCInit ==
    /\ focus \in Focuses
    /\ SchedulerInit /\ PipelineInit /\ GpuInit /\ AdminInit /\ ConfigInit
    /\ camera.area = CHOOSE a \in Areas : TRUE
    /\ IF focus # "lines" THEN PortalInit
       ELSE /\ lines = LinesOf(Doorway(1)).portals /\ revision = LinesOf(Doorway(1)).revision
            /\ crossing = NoTracks(lines) /\ staged = {}
\* The capture thread runs to its next frame without being interrupted, nobody stops, and frames
\* arrive only while the consumer is in one of the places given.
Arriving(places) ==
    /\ SchedulerStep /\ stopper' = stopper
    /\ IF capture \in {"none", "reading"} THEN capture' = capture \/ consumer \in places \cup {"starting"}
       ELSE capture' # capture
\* "frames": all interleavings of three frames in which nobody is seen.
Frames ==
    /\ SchedulerStep \/ (PipelineStep /\ tracker'.next = 1 /\ trail'.seen = <<>>)
    /\ tally'.captured <= 3
\* "people": two people come and go, frame by frame.
People == (Arriving({"waiting"}) \/ PipelineStep) /\ tally'.captured <= 4
\* "lines": one person near a doorway, in view on every frame that is used; its line may be
\* edited meanwhile.
Lines ==
    \/ Arriving({"waiting", "using"}) /\ capture' # "finishing" /\ (due' = "passed" => consumer # "using")
    \/ /\ PipelineStep /\ tracker'.next <= 2 /\ step' # "failed"
       /\ step' = "detected" => result'.confirmed # {}
    \/ /\ records # <<>> /\ staged = {} /\ lines = Doorway(1).portals
       /\ Stage(Doorway(2).portals, LinesOf(Doorway(2)).revision)
       /\ UNCHANGED <<lines, revision, crossing, schedulerVars, pipelineVars>>
\* "config": an administrator draws a line, edits or archives it while the edge refreshes, applies,
\* dies and starts again; a request that changes nothing is left out, and one begun is finished.
Useful(r) ==
    IF r.op = "create" THEN rows[1] = NoRow
    ELSE r.portal = 1 /\ rows[1].status = "ACTIVE" /\ rows[1].area = r.area
Config ==
    /\ ConfigNext
    /\ \A a \in Admins : request'[a] # NoRequest =>
          a = (CHOOSE b \in Admins : TRUE) /\ Useful(request'[a])
    /\ request # [a \in Admins |-> NoRequest] => request' # request
ConfigOnly == UNCHANGED <<schedulerVars, pipelineVars, gpuVars, focus>>
LiveOnly == UNCHANGED <<configVars, adminVars, gpuVars, focus>>

MCNext ==
    \/ focus = "frames" /\ Frames /\ LiveOnly
    \/ focus = "people" /\ People /\ LiveOnly
    \/ focus = "lines" /\ Lines /\ LiveOnly
    \/ focus = "portals" /\ (AdminStep \/ PlacementStep) /\ UNCHANGED <<configVars, portalVars>> /\ ConfigOnly
    \/ focus = "config" /\ Config /\ ConfigOnly
    \/ focus = "gpu" /\ GpuNext
       /\ UNCHANGED <<schedulerVars, pipelineVars, portalVars, configVars, adminVars, focus>>

\* The threads run, the pacer's period passes, stop() goes on once called; some requests of the
\* refresher succeed.  Nothing is asked of the camera, the administrators or the crashes.
Resting == focus = "config" /\ request = [a \in Admins |-> NoRequest]
ConsumerRuns == focus = "frames" /\ ConsumerStep /\ UNCHANGED <<pipelineVars, portalVars>> /\ LiveOnly
PipelineRuns == focus = "frames" /\ PipelineStep /\ tracker'.next = 1 /\ trail'.seen = <<>> /\ LiveOnly
StopRuns == focus = "frames" /\ StopStep /\ UNCHANGED <<pipelineVars, portalVars>> /\ LiveOnly
RefresherRuns == Resting /\ (Request \/ Store \/ Tell) /\ ConfigOnly
FramesCome == Resting /\ QuietFrame /\ ConfigOnly
WritesEnd ==
    /\ focus = "config" /\ \E a \in Admins : Lock(a) \/ Write(a)
    /\ UNCHANGED <<configVars, portalVars>> /\ ConfigOnly
Answered == Resting /\ Served /\ ConfigOnly
Accepted == Resting /\ Swap /\ ConfigOnly
Fairness ==
    /\ WF_mcVars(ConsumerRuns) /\ WF_mcVars(PipelineRuns) /\ WF_mcVars(StopRuns)
    /\ WF_mcVars(RefresherRuns) /\ WF_mcVars(FramesCome) /\ WF_mcVars(WritesEnd)
    /\ SF_mcVars(Answered) /\ SF_mcVars(Accepted)
MCSpec == MCInit /\ [][MCNext]_mcVars /\ Fairness

\* runtime.py:495-502, scheduler.py:542-560: a stop() once begun comes to its end, and the consumer
\* to its own, wherever they met.  managed_config.py:472-495: an edge that keeps refreshing ends up
\* with the doorway lines the control plane would send it.
Settles ==
    /\ stopper # "running" ~> stopper = "done" /\ consumer = "ended"
    /\ <>[](refresher = "off" \/ lines = LinesOf(Document(camera)).portals)
=============================================================================

----------------------------- MODULE LivePreview ----------------------------
(***************************************************************************)
(* The picture of the live session on its way to a dashboard               *)
(* (live/preview.py, live/server.py and the page it serves): the pipeline  *)
(* thread draws some of its frames into a single slot, handler threads of  *)
(* the server read the slot, and the page fetches picture and state in two *)
(* loops of its own.  What is drawn, and the numbers of the state, are     *)
(* left out; a frame is its number.                                        *)
(***************************************************************************)
EXTENDS Naturals, FiniteSets

CONSTANTS
    MaxDrawn,   \* bound: frames the pipeline hands to the renderer
    Due,        \* ticks between two encoded frames (PreviewConfig.minimum_interval_seconds)
    MaxAge      \* ticks after which a picture is stale (max_age_seconds)

ASSUME LivePreviewAssumption == MaxDrawn \in Nat /\ Due \in Nat /\ MaxAge \in Nat

VARIABLES
    renderer,  \* the pipeline thread at the renderer: its place, the frame, ticks since the last encoding
    slot,      \* PreviewBuffer._frame: the frame it shows and its age; frame 0 is none
    server,    \* DemoServer: "new", "up" or "down"
    page,      \* the page: its feeds, both loops, and the number of the picture it showed last
    answer     \* the picture request in flight: "none", "sent", "missing", or "picture" of a frame

previewVars == <<renderer, slot, server, page, answer>>
Empty == [frame |-> 0, age |-> 0]
NoAnswer == [step |-> "none", frame |-> 0]
Feeds == {"A", "B"}

PreviewInit ==
    /\ renderer = [at |-> "between", frame |-> 0, since |-> Due]
    /\ slot = Empty /\ server = "new" /\ answer = NoAnswer
    /\ page = [open |-> FALSE, stopped |-> FALSE, shown |-> {}, on |-> "none", loader |-> "A", failures |-> 0,
               timer |-> FALSE, fetching |-> FALSE, last |-> 0]

-----------------------------------------------------------------------------
(* The pipeline thread *)

\* A frame that is not due is skipped; encoding takes time, and a failure is swallowed.
Render ==
    /\ renderer.at = "between" /\ renderer.frame < MaxDrawn
    /\ renderer' = [renderer EXCEPT !.frame = @ + 1, !.at = IF renderer.since >= Due THEN "encoding" ELSE @]
    /\ UNCHANGED <<slot, server, page, answer>>
Publish == slot' = [frame |-> renderer.frame, age |-> 0]
Encoded ==
    /\ renderer.at = "encoding"
    /\ \/ Publish /\ renderer' = [renderer EXCEPT !.at = "between", !.since = 0]
       \/ renderer' = [renderer EXCEPT !.at = "between"] /\ UNCHANGED slot
    /\ UNCHANGED <<server, page, answer>>
\* The session's last act: nothing outlives it.
Clear ==
    /\ renderer.at = "between" /\ renderer' = [renderer EXCEPT !.at = "ended"] /\ slot' = Empty
    /\ UNCHANGED <<server, page, answer>>
TimePasses ==
    /\ slot' = [slot EXCEPT !.age = IF slot.frame # 0 /\ @ <= MaxAge THEN @ + 1 ELSE @]
    /\ renderer' = [renderer EXCEPT !.since = IF @ < Due THEN @ + 1 ELSE @]
    /\ UNCHANGED <<server, page, answer>>

-----------------------------------------------------------------------------
(* The server *)

StartServer == server = "new" /\ server' = "up" /\ UNCHANGED <<renderer, slot, page, answer>>
StopServer == server = "up" /\ server' = "down" /\ UNCHANGED <<renderer, slot, page, answer>>
\* do_GET of the picture: latest() is none when the slot is empty or stale.
Latest == IF slot.frame = 0 \/ slot.age > MaxAge THEN [step |-> "missing", frame |-> 0]
          ELSE [step |-> "picture", frame |-> slot.frame]
Serve ==
    /\ answer.step = "sent"
    /\ answer' = IF server = "up" THEN Latest ELSE [answer EXCEPT !.step = "missing"]
    /\ UNCHANGED <<renderer, slot, server, page>>

-----------------------------------------------------------------------------
(* The page *)

\* showPlaceholder: both feeds are hidden.
Placeholder(p) == [p EXCEPT !.on = "none", !.shown = {}]
Other == IF page.on = "A" THEN "B" ELSE "A"
\* pullPreview asks for the next picture in the feed that is not shown.
Pulling(p) == [p EXCEPT !.timer = FALSE, !.loader = Other]
Open ==
    /\ server = "up" /\ ~page.open
    /\ page' = [Pulling(page) EXCEPT !.open = TRUE, !.fetching = TRUE] /\ answer' = [NoAnswer EXCEPT !.step = "sent"]
    /\ UNCHANGED <<renderer, slot, server>>
TimerFires ==
    /\ page.timer /\ page' = Pulling(page) /\ answer' = [NoAnswer EXCEPT !.step = "sent"]
    /\ UNCHANGED <<renderer, slot, server>>
\* schedulePreview
Scheduled(p) == IF p.stopped \/ p.timer THEN p ELSE [p EXCEPT !.timer = TRUE]
FailuresBeforePlaceholder == 2
\* settle: the picture takes the place of the one before; a second failure in a row hides it.
Settle ==
    /\ answer.step \in {"picture", "missing"} /\ answer' = NoAnswer
    /\ page' = Scheduled(
          IF answer.step = "picture"
          THEN [page EXCEPT !.failures = 0, !.shown = (@ \ {page.on}) \cup {page.loader}, !.on = page.loader,
                            !.last = answer.frame]
          ELSE LET failed == [page EXCEPT !.failures = IF @ < FailuresBeforePlaceholder THEN @ + 1 ELSE @,
                                          !.shown = @ \ {page.loader}] IN
               IF failed.failures = FailuresBeforePlaceholder THEN Placeholder(failed) ELSE failed)
    /\ UNCHANGED <<renderer, slot, server>>
\* pullState: the placeholder comes when the server cannot be reached, and stays while there is no picture.
PullState ==
    /\ page.fetching /\ UNCHANGED <<renderer, slot, server, answer>>
    /\ page' = [(IF server = "up" THEN page ELSE Placeholder(page)) EXCEPT !.fetching = FALSE]
StateTimer ==
    /\ page.open /\ ~page.stopped /\ ~page.fetching /\ page' = [page EXCEPT !.fetching = TRUE]
    /\ UNCHANGED <<renderer, slot, server, answer>>
Teardown ==
    /\ page.open /\ ~page.stopped /\ page' = [page EXCEPT !.stopped = TRUE, !.timer = FALSE]
    /\ UNCHANGED <<renderer, slot, server, answer>>

PageStep == TimerFires \/ Serve \/ Settle
LivePreviewNext ==
    \/ Render \/ Encoded \/ Clear \/ TimePasses \/ StartServer \/ StopServer
    \/ Open \/ PageStep \/ PullState \/ StateTimer \/ Teardown
LivePreviewSpec == PreviewInit /\ [][LivePreviewNext]_previewVars /\ WF_previewVars(PageStep) /\ WF_previewVars(TimePasses)
-----------------------------------------------------------------------------
(* Properties *)

RendererStates == [at : {"between", "encoding", "ended"}, frame : 0..MaxDrawn, since : 0..Due]
PageStates ==
    [open : BOOLEAN, stopped : BOOLEAN, shown : SUBSET Feeds, on : Feeds \cup {"none"}, loader : Feeds,
     failures : 0..FailuresBeforePlaceholder, timer : BOOLEAN, fetching : BOOLEAN, last : 0..MaxDrawn]
PreviewTypeOK ==
    /\ renderer \in RendererStates /\ page \in PageStates
    /\ slot \in [frame : 0..MaxDrawn, age : 0..MaxAge + 1] /\ server \in {"new", "up", "down"}
    /\ answer \in [step : {"none", "sent", "missing", "picture"}, frame : 0..MaxDrawn]
\* server.py:106-108: however the page's two loops interleave, the one picture on the stage is the
\* one it counts as shown, and there is none beside the placeholder.
OneFeed == page.shown = {page.on} \ {"none"}
\* server.py:227-229: the page always has one request in flight or one timer pending, never both, so
\* that it neither stalls nor piles up requests; a page torn down begins nothing more.
OneRequest ==
    /\ page.open /\ ~page.stopped => (page.timer # (answer.step # "none"))
    /\ page.stopped => ~page.timer
\* preview.py:9-24: pictures never go back in time: what the slot holds and what is on its way are
\* no older than what the page has shown.
Forward ==
    /\ answer.step = "picture" => page.last <= answer.frame
    /\ slot.frame # 0 => page.last <= slot.frame
LivePreviewInv == PreviewTypeOK /\ OneFeed /\ OneRequest /\ Forward
\* preview.py:22-24: a page that is open shows no picture.  That this comes true when no more frames are
\* drawn, because the camera hangs, encoding fails or the session is over, says that none freezes.
NothingShown == page.on = "none" \/ page.stopped
=============================================================================

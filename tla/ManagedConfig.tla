---------------------------- MODULE ManagedConfig ----------------------------
(***************************************************************************)
(* The edge's copy of its camera's doorway lines (live/managed_config.py,  *)
(* live/managed_session.py): a refresher thread fetches the runtime config *)
(* again and again, keeps the last good one in memory and on disk, and     *)
(* stages it for the pipeline when the camera's part of it has changed.    *)
(* The process may die anywhere; the cache file survives.                  *)
(***************************************************************************)
EXTENDS CameraPortalAdmin, PortalCrossing

CONSTANT MaxSessions   \* bound: times the edge process is started

ASSUME ManagedConfigAssumption == MaxSessions \in Nat

VARIABLES
    current,    \* ManagedPortalConfig._current
    cache,      \* the cache file
    refresher,  \* ConfigRefresher: where run_once is; "off" when no session runs
    fetched,    \* the document being fetched
    changed,    \* refresh's verdict: this camera's part is new
    sessions    \* bound: sessions started

configVars == <<current, cache, refresher, fetched, changed, sessions>>

ConfigInit ==
    /\ current = None /\ cache = None /\ refresher = "off" /\ fetched = None
    /\ changed = FALSE /\ sessions = 0

\* portals(): none without a config, or without the camera in it.
LinesOf(config) ==
    IF config = None \/ config = NoCamera THEN [portals |-> {}, revision |-> {}]
    ELSE [portals |-> config.portals, revision |-> {Revision(config)}]
CameraRevision(config) == LinesOf(config).revision

-----------------------------------------------------------------------------
(* A session: start_from_cache, start, close *)

\* The lines of the cache, if it can be used, are staged before the refresher starts.
StartSession ==
    /\ refresher = "off" /\ sessions < MaxSessions /\ sessions' = sessions + 1
    /\ \E usable \in BOOLEAN : current' = IF usable THEN cache ELSE None
    /\ lines' = {} /\ revision' = {} /\ crossing' = NoTracks({})
    /\ Stage(LinesOf(current').portals, LinesOf(current').revision)
    /\ refresher' = "idle" /\ fetched' = None /\ changed' = FALSE
    /\ UNCHANGED <<cache, adminVars>>

\* The session is closed, or the process dies.
EndSession ==
    /\ refresher # "off" /\ refresher' = "off" /\ current' = None
    /\ lines' = {} /\ revision' = {} /\ crossing' = NoTracks({}) /\ staged' = {}
    /\ fetched' = None /\ changed' = FALSE /\ reading' = NotReading
    /\ UNCHANGED <<cache, sessions, rows, camera, moves, writing, request>>

-----------------------------------------------------------------------------
(* refresh: the request and its two queries, the swap, the file, the callback *)

Request ==
    /\ refresher = "idle" /\ refresher' = "asking" /\ ReadAssignment
    /\ UNCHANGED <<current, cache, fetched, changed, sessions, portalVars>>
Served ==
    /\ refresher = "asking" /\ refresher' = "answered" /\ fetched' = Document(reading)
    /\ reading' = NotReading
    /\ UNCHANGED <<current, cache, changed, sessions, portalVars, rows, camera, moves, writing, request>>
\* No answer, or not a valid one: what is current stays.
FetchFails ==
    /\ refresher \in {"asking", "answered"} /\ refresher' = "idle"
    /\ fetched' = None /\ reading' = NotReading
    /\ UNCHANGED <<current, cache, changed, sessions, portalVars, rows, camera, moves, writing, request>>

\* The file is written only when the version is new.
Swap ==
    /\ refresher = "answered" /\ current' = fetched
    /\ changed' = (CameraRevision(current) # CameraRevision(fetched))
    /\ refresher' = IF current = None \/ Revision(current) # Revision(fetched) THEN "storing" ELSE "telling"
    /\ UNCHANGED <<cache, fetched, sessions, portalVars, adminVars>>
\* The new file takes the old one's place whole, or the write failed.
Store ==
    /\ refresher = "storing" /\ refresher' = "telling"
    /\ \E written \in BOOLEAN : cache' = IF written THEN fetched ELSE cache
    /\ UNCHANGED <<current, fetched, changed, sessions, portalVars, adminVars>>
Tell ==
    /\ refresher = "telling" /\ refresher' = "idle" /\ fetched' = None /\ changed' = FALSE
    /\ IF changed THEN Stage(LinesOf(current).portals, LinesOf(current).revision)
       ELSE UNCHANGED staged
    /\ UNCHANGED <<lines, revision, crossing, current, cache, sessions, adminVars>>

\* A frame with nobody in view applies what is staged, and no more.
QuietFrame ==
    /\ refresher # "off" /\ staged # {} /\ ApplyStaged /\ crossing' = Swapped
    /\ UNCHANGED <<configVars, adminVars>>

RefreshStep == Request \/ Served \/ FetchFails \/ Swap \/ Store \/ Tell
ConfigNext ==
    \/ (AdminStep \/ PlacementStep) /\ UNCHANGED <<configVars, portalVars>>
    \/ StartSession \/ EndSession \/ RefreshStep \/ QuietFrame

ConfigSpec ==
    /\ ConfigInit /\ AdminInit /\ PortalInit
    /\ [][ConfigNext]_<<configVars, adminVars, portalVars>>

-----------------------------------------------------------------------------
(* Properties *)

\* managed_config.py:362-415, 472-481, managed_session.py:196-206: whenever the refresher is between
\* two attempts, the lines the pipeline uses, or is about to, are those of the current config: no
\* change is lost between the thread that fetches and the thread that applies.
LinesCurrent ==
    refresher = "idle" =>
        IF staged # {} THEN staged = {LinesOf(current)}
        ELSE lines = LinesOf(current).portals /\ revision = LinesOf(current).revision
=============================================================================

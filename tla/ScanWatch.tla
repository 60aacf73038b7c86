----------------------------- MODULE ScanWatch -----------------------------
(***************************************************************************)
(* One browser tab of the dashboard that starts, stops and follows scans:  *)
(* the scan store with its active scan, the EventSource the scan layout    *)
(* keeps for it, the list page that shows the active scan over the polled  *)
(* rows, and a scan's detail page with its own polling and EventSource.    *)
(*                                                                         *)
(* A step is one event of the tab, with the re-render and the effects it   *)
(* causes, or one step of the server.  React runs those effects before the *)
(* next event, so an EventSource that a step replaced is silent.           *)
(***************************************************************************)
EXTENDS Naturals, FiniteSets

CONSTANTS
    Scans,
    Visited, \* bound: the scans whose detail pages are opened
    None

ASSUME NoneAssumption == None \notin Scans
ASSUME VisitedAssumption == Visited \subseteq Scans

VARIABLES
    srv,    \* the scan's row: "absent", "running" (or pending) or "ended"
    ask,    \* requests under way: see Ask
    cancel, \* cancel requests: "none", "sent", or what the server said
    active, \* activeScan
    source, \* the scan whose EventSource the layout has open
    lost,   \* activeScanProgressError is set
    list,   \* the status of each scan's row in the list query
    dirty,  \* the list query was invalidated
    route,  \* the scan whose detail page is open, or None for the list page
    cache,  \* the status in each scan-detail query
    stale,  \* the open page's query was invalidated, or found too old
    detail  \* the scan whose EventSource the detail page has open

server == <<srv, ask, cancel>>
store  == <<active, source, lost>>
rows   == <<list, dirty>>
pages  == <<route, cache, stale, detail>>
watchVars   == <<server, store, rows, pages>>

\* A creation or rescan that is sent, then done by the server; the last two are
\* a rescan whose page, and with it the callback of mutate, is gone.
Ask == {"none", "create", "created", "rescan", "rescanned", "leaves", "left"}
Carried == [a \in Ask |-> CASE a = "create" -> "created" [] a = "rescan" -> "rescanned"
                             [] a = "leaves" -> "left" [] OTHER -> a]
Orphan  == [a \in Ask |-> CASE a = "rescan" -> "leaves" [] a = "rescanned" -> "left"
                             [] OTHER -> a]

Row    == {"absent", "running", "ended"}
Opt(S) == S \cup {None}

WatchTypeOK ==
    /\ srv \in [Scans -> Row] /\ ask \in [Scans -> Ask]
    /\ cancel \in [Scans -> {"none", "sent", "ok", "refused"}]
    /\ active \in Opt(Scans) /\ source \in Opt(Scans)
    /\ lost \in BOOLEAN /\ dirty \in BOOLEAN
    /\ list \in [Scans -> Row] /\ route \in Opt(Scans)
    /\ cache \in [Scans -> Row] /\ stale \in BOOLEAN
    /\ detail \in Opt(Scans)

WatchInit ==
    /\ srv \in [Scans -> {"absent", "ended"}] /\ list = srv
    /\ ask = [s \in Scans |-> "none"] /\ cancel = [s \in Scans |-> "none"]
    /\ active = None /\ source = None /\ lost = FALSE
    /\ dirty = FALSE /\ route = None
    /\ cache = [s \in Scans |-> "absent"] /\ stale = FALSE /\ detail = None

-----------------------------------------------------------------------------
(* What a render makes of the state *)

\* Faulty variant: the detail page streams whatever the layout does.
SubscribesAlways(r, c, a) == r # None /\ c[r] = "running"

\* shouldSubscribeDetailProgressSse, for route r, cached details c, active a.
Subscribes(r, c, a) == r # None /\ c[r] = "running" /\ a # r

\* The effect of the detail page's useScanProgress opens, closes or keeps its
\* EventSource; one that was lost is not opened again while the page and the
\* answer stay the same.
Rerender(r, c, a) ==
    detail' = IF ~Subscribes(r, c, a) THEN None
              ELSE IF Subscribes(route, cache, active) /\ r = route THEN detail
              ELSE r

\* setActiveScan and the layout's effect, which depends on the id alone.
SetActive(s) ==
    /\ active' = s
    /\ IF s = active THEN UNCHANGED <<source, lost>>
       ELSE source' = s /\ lost' = FALSE

\* clearActiveScan, whoever is active; the effect closes the EventSource.
ClearActive == active' = None /\ source' = None /\ lost' = FALSE

\* The row the list page shows: the active scan always as running.
Shown(s) == IF active = s THEN "running" ELSE list[s]

-----------------------------------------------------------------------------
(* The user's requests *)

Idle == \A s \in Scans : ask[s] = "none"

\* handleSubmitScans, handleRescan.  Rescan buttons are off on running rows.
Submit(s) ==
    /\ route = None /\ Idle /\ srv[s] = "absent"
    /\ ask' = [ask EXCEPT ![s] = "create"]
    /\ UNCHANGED <<srv, cancel, store, rows, pages>>

Rescan(s) ==
    /\ route = None /\ Idle /\ Shown(s) = "ended"
    /\ ask' = [ask EXCEPT ![s] = "rescan"]
    /\ UNCHANGED <<srv, cancel, store, rows, pages>>

\* The server does it.
Done(s) ==
    /\ ask[s] \in {"create", "rescan", "leaves"}
    /\ ask' = [ask EXCEPT ![s] = Carried[@]]
    /\ srv' = [srv EXCEPT ![s] = "running"]
    /\ UNCHANGED <<cancel, store, rows, pages>>

\* The answer: the list is invalidated and the scan becomes the active one,
\* by a store function for a creation, by a callback of the page for a rescan.
Answered(s) ==
    /\ ask[s] \in {"created", "rescanned"} /\ ask' = [ask EXCEPT ![s] = "none"]
    /\ dirty' = TRUE /\ SetActive(s) /\ Rerender(route, cache, s)
    /\ UNCHANGED <<srv, cancel, list, route, cache, stale>>

\* The rescan's page has gone: the list is invalidated, nothing else.
AnsweredLate(s) ==
    /\ ask[s] = "left" /\ ask' = [ask EXCEPT ![s] = "none"]
    /\ dirty' = TRUE
    /\ UNCHANGED <<srv, cancel, store, list, pages>>

\* The request fails, before or after the server did it.  Only a creation
\* invalidates the list then.
AskFails(s) ==
    /\ ask[s] # "none" /\ ask' = [ask EXCEPT ![s] = "none"]
    /\ dirty' = (dirty \/ ask[s] \in {"create", "created"})
    /\ UNCHANGED <<srv, cancel, store, list, pages>>

\* handleCancelProgress keeps the id of the scan it was pressed for.
CancelPressed ==
    /\ active # None /\ route = None /\ cancel[active] = "none"
    /\ cancel' = [cancel EXCEPT ![active] = "sent"]
    /\ UNCHANGED <<srv, ask, store, rows, pages>>

\* cancel_scan ends a running scan, and refuses any other.
CancelDone(s) ==
    /\ cancel[s] = "sent"
    /\ cancel' = [cancel EXCEPT ![s] = IF srv[s] = "running" THEN "ok" ELSE "refused"]
    /\ srv' = [srv EXCEPT ![s] = "ended"]
    /\ UNCHANGED <<ask, store, rows, pages>>

\* The answer clears whatever scan is active by now; a refusal nothing.
CancelAnswered(s) ==
    /\ cancel[s] \in {"ok", "refused"} /\ cancel' = [cancel EXCEPT ![s] = "none"]
    /\ IF cancel[s] = "ok"
       THEN ClearActive /\ Rerender(route, cache, None) /\ dirty' = TRUE
       ELSE UNCHANGED <<store, detail, dirty>>
    /\ UNCHANGED <<srv, ask, list, route, cache, stale>>

-----------------------------------------------------------------------------
(* Streams *)

\* A worker ends the scan.
Ends(s) ==
    /\ srv[s] = "running" /\ srv' = [srv EXCEPT ![s] = "ended"]
    /\ UNCHANGED <<ask, cancel, store, rows, pages>>

\* Faulty variant: the stream is closed and the active scan kept.
LayoutTerminalKept ==
    /\ source # None /\ source' = None
    /\ UNCHANGED <<server, active, lost, rows, pages>>

\* Progress events only change what the progress card says.  A terminal one
\* is for an ended scan, or has progress 100 just before; the layout's
\* onComplete then clears the active scan.
LayoutTerminal ==
    /\ source # None
    /\ ClearActive /\ dirty' = TRUE /\ Rerender(route, cache, None)
    /\ UNCHANGED <<server, list, route, cache, stale>>

\* Faulty variant: no message is set.
DropSilent ==
    /\ source # None /\ source' = None
    /\ UNCHANGED <<server, active, lost, rows, pages>>

\* The connection fails: it is closed for good, with a message.
Drop ==
    /\ source # None /\ source' = None /\ lost' = TRUE
    /\ UNCHANGED <<server, active, rows, pages>>

\* The same for the detail page's own EventSource.
DetailTerminal ==
    /\ detail # None /\ detail' = None
    /\ stale' = TRUE /\ dirty' = TRUE
    /\ UNCHANGED <<server, store, list, route, cache>>

DetailDrop ==
    /\ detail # None /\ detail' = None
    /\ UNCHANGED <<server, store, rows, route, cache, stale>>

-----------------------------------------------------------------------------
(* Queries and navigation *)

\* The list query runs on its page when invalidated, and polls while a row of
\* it runs.
PollList ==
    /\ route = None
    /\ dirty \/ \E s \in Scans : list[s] = "running"
    /\ list' = srv /\ dirty' = FALSE
    /\ UNCHANGED <<server, store, pages>>

\* The detail query: at first, when invalidated, and while it says running.
PollDetail ==
    /\ route # None
    /\ cache[route] # "ended" \/ stale
    /\ cache' = [cache EXCEPT ![route] = srv[route]]
    /\ stale' = FALSE /\ Rerender(route, cache', active)
    /\ UNCHANGED <<server, store, rows, route>>

\* A row is opened.  A cached detail may be taken for fresh (staleTime).
Open(s) ==
    /\ route = None /\ s \in Visited /\ list[s] # "absent" /\ route' = s
    /\ ask' = [x \in Scans |-> Orphan[ask[x]]]
    /\ stale' \in BOOLEAN /\ Rerender(s, cache, active)
    /\ UNCHANGED <<srv, cancel, store, rows, cache>>

Back ==
    /\ route # None /\ route' = None /\ Rerender(None, cache, active)
    /\ dirty' \in {dirty, TRUE} /\ stale' = FALSE
    /\ UNCHANGED <<server, store, list, cache>>

WatchNext ==
    \/ \E s \in Scans : \/ Submit(s) \/ Rescan(s) \/ Done(s) \/ Answered(s)
                        \/ AnsweredLate(s) \/ AskFails(s)
                        \/ CancelDone(s) \/ CancelAnswered(s) \/ Ends(s) \/ Open(s)
    \/ CancelPressed \/ LayoutTerminal \/ Drop \/ DetailTerminal \/ DetailDrop
    \/ PollList \/ PollDetail \/ Back

WatchSpec == WatchInit /\ [][WatchNext]_watchVars

\* Requests are answered or fail, polls run, and a stream says that its scan
\* has ended, or breaks.
WatchFairness ==
    /\ WF_watchVars(\E s \in Scans : Answered(s) \/ AnsweredLate(s) \/ AskFails(s))
    /\ WF_watchVars(LayoutTerminal \/ Drop) /\ WF_watchVars(PollList) /\ WF_watchVars(PollDetail)

WatchFairSpec == WatchSpec /\ WatchFairness

-----------------------------------------------------------------------------
(* Properties *)

\* The active scan is streamed, or the page says that its stream was lost:
\* no order of answers, cancels, terminal events and drops leaves a progress
\* card that waits in silence.
StreamOrNotice == active # None => source = active \/ lost

\* "Avoid duplicate EventSource when parent ScanLayout already streams
\* progress for activeScan": across navigation, polls and changes of the
\* active scan no scan has two.
NoTwinStream == source # None => source # detail

\* A scan that ended is shown as ended sooner or later: on the list page,
\* although the active scan's row hides what the list says, unless the active
\* scan's stream was lost; on its detail page whatever becomes of the streams.
EndShown ==
    /\ \A s \in Scans : (srv[s] = "ended" /\ route = None)
         ~> (Shown(s) = "ended" \/ srv[s] # "ended" \/ route # None \/ lost)
    /\ \A s \in Visited : (srv[s] = "ended" /\ route = s)
         ~> (cache[s] = "ended" \/ srv[s] # "ended" \/ route # s)
=============================================================================

------------------------------ MODULE PortScan ------------------------------
(***************************************************************************)
(* The ports module of the scan service: one call of its handler, which    *)
(* asks the nmap scanner if one is configured, falls back to TCP connects  *)
(* by a few workers over a shared list, and races all of it against a      *)
(* timer of its own, under the abort signal of the middleware.             *)
(*                                                                         *)
(* An action is a callback of the event loop with the promise reactions it *)
(* sets off.  The signal reaches the handler only until the handler has    *)
(* answered: the middleware then unlinks it.                               *)
(***************************************************************************)
EXTENDS Naturals, FiniteSets

CONSTANTS
    Last,       \* the ports of the profile are 1..Last, in the order probed
    Concurrency \* MAX_CONCURRENT

ASSUME SizeAssumption == Last \in Nat \ {0} /\ Concurrency \in Nat \ {0}

Ports == 1..Last

VARIABLES
    scanner, \* the nmap scanner: "unasked", "none" (not configured), "calling",
             \* "failed" or "ended"
    socket,  \* per port: "none", "connecting", "connected"
    probed,  \* per port: what checkPort resolved with
    index,   \* ports that workers have taken
    native,  \* the TCP scan: "idle", "running", "rejected", "complete"
    aborted, \* the signal has fired
    timer,   \* the global timer's delay is pending
    answer   \* what the handler settled with

portVars == <<scanner, socket, probed, index, native, aborted, timer, answer>>

State == {"open", "closed", "filtered"}

PortTypeOK ==
    /\ scanner \in {"unasked", "none", "calling", "failed", "ended"}
    /\ socket \in [Ports -> {"none", "connecting", "connected"}]
    /\ probed \in [Ports -> State \cup {"none"}] /\ index \in 0..Last
    /\ native \in {"idle", "running", "rejected", "complete"}
    /\ aborted \in BOOLEAN /\ timer \in BOOLEAN
    /\ answer \in {"none", "nmap", "native", "timeout", "aborted"}

Open == {p \in Ports : socket[p] # "none"}

\* What Promise.race makes of a contestant that settles.
Race(a) == answer' = IF answer = "none" THEN a ELSE answer

\* The workers take the next ports and open their sockets.
Take(n, s) ==
    /\ index' = index + n
    /\ socket' = [p \in Ports |-> IF p \in index + 1..index + n THEN "connecting" ELSE s[p]]

\* scanPortsWithNative: one port for each worker; a worker that finds the
\* signal fired rejects the scan.
StartNative ==
    IF aborted
    THEN native' = "rejected" /\ Race("aborted") /\ UNCHANGED <<index, socket>>
    ELSE /\ native' = "running" /\ UNCHANGED answer
         /\ Take(IF Last < Concurrency THEN Last ELSE Concurrency, socket)

PortInit ==
    /\ scanner = "unasked" /\ native = "idle" /\ index = 0
    /\ socket = [p \in Ports |-> "none"] /\ probed = [p \in Ports |-> "none"]
    /\ aborted = FALSE /\ timer = FALSE /\ answer = "none"

\* portsHandler is called, maybe with a signal that has fired already (the
\* middleware calls it after its safety check in any case).
Call ==
    /\ scanner = "unasked" /\ timer' = ~ aborted
    /\ \/ scanner' = "none" /\ StartNative
       \/ /\ scanner' = IF aborted THEN "ended" ELSE "calling"
          /\ UNCHANGED <<native, index, socket, answer>>
    /\ UNCHANGED <<probed, aborted>>

-----------------------------------------------------------------------------
(* scanPortsWithNmap *)

NmapAnswers ==
    /\ scanner = "calling" /\ scanner' = "ended" /\ Race("nmap")
    /\ UNCHANGED <<socket, probed, index, native, aborted, timer>>

\* The scanner refuses, is unreachable, or its answer cannot be read; or the
\* call's own timer fires, which is set to more than the global one.  Then the
\* ports are scanned here.
NmapFails(late) ==
    /\ scanner = "calling" /\ scanner' = "failed" /\ (late => ~ timer)
    /\ StartNative
    /\ UNCHANGED <<probed, aborted, timer>>

-----------------------------------------------------------------------------
(* checkPort and mapWithConcurrency *)

Connects(p) ==
    /\ socket[p] = "connecting" /\ socket' = [socket EXCEPT ![p] = "connected"]
    /\ UNCHANGED <<scanner, probed, index, native, aborted, timer, answer>>

\* A connected socket is closed as "open" by its first data, the banner timer,
\* its timeout or an error; one that never connected as "filtered" or "closed".
Outcomes(p) == IF socket[p] = "connected" THEN {"open"} ELSE {"filtered", "closed"}

\* Faulty variants: the scan is complete when the list is used up; a port that
\* is done keeps its socket.
ProbedEarly(p, o) ==
    /\ socket[p] # "none" /\ probed' = [probed EXCEPT ![p] = o]
    /\ LET s == [socket EXCEPT ![p] = "none"] IN
         IF index < Last THEN Take(1, s) /\ UNCHANGED <<native, answer>>
         ELSE /\ socket' = s /\ UNCHANGED index
              /\ native' = "complete" /\ Race("native")
    /\ UNCHANGED <<scanner, aborted, timer>>

ProbedKept(p, o) ==
    /\ socket[p] # "none" /\ probed[p] = "none" /\ probed' = [probed EXCEPT ![p] = o]
    /\ IF index < Last THEN Take(1, socket) /\ UNCHANGED <<native, answer>>
       ELSE /\ UNCHANGED <<index, socket>>
            /\ IF \A q \in Open : q = p THEN native' = "complete" /\ Race("native")
               ELSE UNCHANGED <<native, answer>>
    /\ UNCHANGED <<scanner, aborted, timer>>

\* checkPort resolves, and its worker takes the next port; the last of all
\* completes the scan.
Probed(p, o) ==
    /\ socket[p] # "none" /\ probed' = [probed EXCEPT ![p] = o]
    /\ LET s == [socket EXCEPT ![p] = "none"] IN
         IF index < Last THEN Take(1, s) /\ UNCHANGED <<native, answer>>
         ELSE /\ socket' = s /\ UNCHANGED index
              /\ IF Open = {p} THEN native' = "complete" /\ Race("native")
                 ELSE UNCHANGED <<native, answer>>
    /\ UNCHANGED <<scanner, aborted, timer>>

-----------------------------------------------------------------------------
(* Timers *)

\* Faulty variant: only the race hears of the abort.
AbortRaceOnly ==
    /\ answer = "none" /\ aborted' = TRUE /\ timer' = FALSE /\ answer' = "aborted"
    /\ UNCHANGED <<scanner, native, socket, probed, index>>

\* The middleware's signal: every open socket is destroyed and its worker
\* rejects, the call of the scanner ends as aborted, and so does the delay.
Abort ==
    /\ answer = "none" /\ aborted' = TRUE /\ timer' = FALSE /\ answer' = "aborted"
    /\ scanner' = IF scanner = "calling" THEN "ended" ELSE scanner
    /\ native' = IF native = "running" THEN "rejected" ELSE native
    /\ socket' = [p \in Ports |-> "none"]
    /\ UNCHANGED <<probed, index>>

\* The handler's timer: it answers, and stops nothing.
GlobalTimeout ==
    /\ timer /\ timer' = FALSE /\ Race("timeout")
    /\ UNCHANGED <<scanner, socket, probed, index, native, aborted>>

Nmap == NmapAnswers \/ \E late \in BOOLEAN : NmapFails(late)

Probe(p) == \E o \in Outcomes(p) : Probed(p, o)

PortNext ==
    \/ Call \/ Nmap \/ Abort \/ GlobalTimeout
    \/ \E p \in Ports : Connects(p) \/ Probe(p)

PortSpec == PortInit /\ [][PortNext]_portVars

\* Sockets, the call of the scanner and the handler have timers of their own.
PortFairness ==
    /\ WF_portVars(Call) /\ WF_portVars(Nmap) /\ WF_portVars(GlobalTimeout)
    /\ \A p \in Ports : WF_portVars(Probe(p))

PortFairSpec == PortSpec /\ PortFairness
-----------------------------------------------------------------------------
(* Properties *)

\* The workers share one list without losing or repeating a port: every port
\* taken has its socket or its result, unless the scan was aborted, no more
\* than MAX_CONCURRENT sockets are open, and a scan is complete only when
\* every port has a result.
PortsAccounted ==
    /\ \A p \in Ports :
         /\ p > index => socket[p] = "none" /\ probed[p] = "none"
         /\ p <= index /\ native # "rejected" => (socket[p] # "none") # (probed[p] # "none")
    /\ Cardinality(Open) <= Concurrency
    /\ native = "complete" => \A p \in Ports : probed[p] # "none"

\* Nothing goes on behind an answer, except behind the answer of the global
\* timer: after an abort, no socket is open, no call of the scanner waits,
\* and no scan falls back to TCP connects.
LateWorkIsTimeout ==
    answer # "none" /\ (Open # {} \/ scanner = "calling") => answer = "timeout"

\* The handler answers, and whatever it left behind ends too.
ScanStops == <>[](answer # "none" /\ Open = {} /\ scanner # "calling")
=============================================================================

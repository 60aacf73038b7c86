---------------------------- MODULE BrowserPool ----------------------------
(***************************************************************************)
(* The shared Chromium of the scan service and the calls of                *)
(* withBrowserContext that wait for one of its context slots.              *)
(*                                                                         *)
(* Everything runs on one event loop.  An event (a request arrives, a      *)
(* timer aborts a call, Playwright answers, the browser goes away) runs to *)
(* its end, and then every continuation it made ready runs before the next *)
(* event: that is Quiet in the guards of the events.  Continuations of one *)
(* event are taken in any order.                                           *)
(***************************************************************************)
EXTENDS Naturals, Sequences, FiniteSets

CONSTANTS
    Calls,       \* calls of withBrowserContext that can be under way together
    Browsers,    \* identities of Chromium processes, used again when one is gone
    MaxContexts, \* MAX_BROWSER_CONTEXTS
    MaxCloses,   \* bound: calls of closeSharedBrowser (SIGTERM, stopServer)
    None, Rejected

ASSUME CallsAssumption == IsFiniteSet(Calls)
ASSUME MaxAssumption == MaxContexts \in Nat \ {0} /\ MaxCloses \in Nat
ASSUME NoneAssumption ==
    None # Rejected /\ None \notin Browsers /\ Rejected \notin Browsers

VARIABLES
    pc,      \* where each call is, see PC
    active,  \* activeContexts
    queue,   \* waitQueue
    aborted, \* the calls whose signal has fired
    shared,  \* sharedBrowser
    promise, \* sharedBrowserPromise: the launch it stands for, None or Rejected
    using,   \* the browser a call awaits or has its context in
    chrome,  \* Chromium processes: "off", "launching" or "live"
    open,    \* calls whose browser context exists
    closes   \* closeSharedBrowser calls so far

vars == <<pc, active, queue, aborted, shared, promise, using, chrome, open, closes>>

\* Continuations that run before the next event.
Micro   == {"woken", "ensure", "leaving"}
\* Awaited: a launch, newContext and newPage, the caller's fn, the two closes.
Holding == {"ensure", "launching", "opening", "running", "closing", "leaving"}
PC      == {"idle", "queued", "woken"} \cup Holding

Holders == {c \in Calls : pc[c] \in Holding}
Woken   == {c \in Calls : pc[c] = "woken"}
InUse   == {b \in Browsers : chrome[b] # "off"}

TypeOK ==
    /\ pc \in [Calls -> PC]
    /\ active \in 0..MaxContexts /\ queue \in Seq(Calls)
    /\ aborted \subseteq Calls /\ open \subseteq Calls
    /\ shared \in Browsers \cup {None}
    /\ promise \in Browsers \cup {None, Rejected}
    /\ using \in [Calls -> Browsers \cup {None}]
    /\ chrome \in [Browsers -> {"off", "launching", "live"}]
    /\ closes \in 0..MaxCloses

Init ==
    /\ pc = [c \in Calls |-> "idle"] /\ active = 0 /\ queue = <<>>
    /\ aborted = {} /\ shared = None /\ promise = None
    /\ using = [c \in Calls |-> None] /\ chrome = [b \in Browsers |-> "off"]
    /\ open = {} /\ closes = 0

Quiet == \A c \in Calls : pc[c] \notin Micro

Goto(c, l) == pc' = [pc EXCEPT ![c] = l]

browser == <<shared, promise, chrome, closes>>

-----------------------------------------------------------------------------
(* Slots *)

\* acquireSlot: a free slot is taken at once, otherwise the call queues.
Begin(c) ==
    /\ Quiet /\ pc[c] = "idle"
    /\ IF active < MaxContexts
       THEN active' = active + 1 /\ Goto(c, "ensure") /\ UNCHANGED queue
       ELSE queue' = Append(queue, c) /\ Goto(c, "queued") /\ UNCHANGED active
    /\ UNCHANGED <<aborted, using, open, browser>>

\* A waiter resumes and counts itself.  (Its second throwIfAborted cannot fail:
\* only timers abort, and no timer fires in between.)
Resume(c) ==
    /\ pc[c] = "woken"
    /\ active' = active + 1 /\ Goto(c, "ensure")
    /\ UNCHANGED <<queue, aborted, using, open, browser>>

\* Faulty variants: the slot is given back without waking a waiter; a waiter
\* is woken and the slot is not given back.
ReleaseUnheard(c) ==
    /\ active' = IF active > 0 THEN active - 1 ELSE 0
    /\ Goto(c, "idle") /\ UNCHANGED queue

ReleaseKept(c) ==
    /\ UNCHANGED active
    /\ IF queue = <<>> THEN Goto(c, "idle") /\ UNCHANGED queue
       ELSE /\ pc' = [pc EXCEPT ![c] = "idle", ![Head(queue)] = "woken"]
            /\ queue' = Tail(queue)

\* releaseSlot, and the end of the call.
Release(c) ==
    /\ active' = IF active > 0 THEN active - 1 ELSE 0
    /\ IF queue = <<>> THEN Goto(c, "idle") /\ UNCHANGED queue
       ELSE /\ pc' = [pc EXCEPT ![c] = "idle", ![Head(queue)] = "woken"]
            /\ queue' = Tail(queue)

Leave(c) ==
    /\ pc[c] = "leaving" /\ Release(c)
    /\ aborted' = aborted \ {c} /\ using' = [using EXCEPT ![c] = None]
    /\ UNCHANGED <<open, browser>>

\* waitQueue.splice(i, 1)
RemoveAt(s, i) == SubSeq(s, 1, i - 1) \o SubSeq(s, i + 1, Len(s))

\* Faulty variant: the waiter that gives up stays in the queue.
AbortQueuedKept(c) ==
    /\ pc[c] = "queued" /\ Goto(c, "idle")
    /\ UNCHANGED <<queue, aborted>>

\* A waiter's signal fires: it leaves the queue, and its call ends.
AbortQueued(c) ==
    /\ pc[c] = "queued" /\ Goto(c, "idle")
    /\ \E i \in 1..Len(queue) : queue[i] = c /\ queue' = RemoveAt(queue, i)
    /\ UNCHANGED aborted

\* A holder's signal fires.  Before the page exists nobody listens: the call
\* finds out when it next resumes.  After, the listener closes page and
\* context, and fn fails at its next use of them.
AbortHolder(c) ==
    /\ pc[c] \in {"launching", "opening", "running"} /\ c \notin aborted
    /\ aborted' = aborted \cup {c} /\ UNCHANGED <<pc, queue>>

Abort(c) ==
    /\ Quiet
    /\ AbortQueued(c) \/ AbortHolder(c)
    /\ UNCHANGED <<active, using, open, browser>>

-----------------------------------------------------------------------------
(* The browser *)

\* Faulty variant: a launch under way is not shared.
EnsureAlone(c) ==
    \/ /\ shared # None
       /\ using' = [using EXCEPT ![c] = shared] /\ Goto(c, "opening")
       /\ UNCHANGED <<promise, chrome>>
    \/ /\ shared = None /\ promise = Rejected
       /\ Goto(c, "leaving") /\ UNCHANGED <<using, promise, chrome>>
    \/ /\ shared = None /\ promise # Rejected
       /\ \E b \in Browsers \ InUse :
            /\ promise' = b /\ chrome' = [chrome EXCEPT ![b] = "launching"]
            /\ using' = [using EXCEPT ![c] = b] /\ Goto(c, "launching")

\* ensureSharedBrowser: the browser there is, the launch under way, or a new
\* launch.  A launch that was rejected is still "under way".
Ensure(c) ==
    \/ /\ shared # None
       /\ using' = [using EXCEPT ![c] = shared] /\ Goto(c, "opening")
       /\ UNCHANGED <<promise, chrome>>
    \/ /\ shared = None /\ promise \in Browsers
       /\ using' = [using EXCEPT ![c] = promise] /\ Goto(c, "launching")
       /\ UNCHANGED <<promise, chrome>>
    \/ /\ shared = None /\ promise = Rejected
       /\ Goto(c, "leaving") /\ UNCHANGED <<using, promise, chrome>>
    \/ /\ shared = None /\ promise = None
       /\ \E b \in Browsers \ InUse :
            /\ promise' = b /\ chrome' = [chrome EXCEPT ![b] = "launching"]
            /\ using' = [using EXCEPT ![c] = b] /\ Goto(c, "launching")

EnsureStep(c) ==
    /\ pc[c] = "ensure" /\ Ensure(c)
    /\ UNCHANGED <<active, queue, aborted, shared, open, closes>>

\* The calls that await the launch of b go on, those aborted meanwhile leave.
Continue(b, next) ==
    pc' = [c \in Calls |-> IF pc[c] # "launching" \/ using[c] # b THEN pc[c]
                           ELSE IF c \in aborted THEN "leaving" ELSE next]

\* The launch succeeds.  It becomes the shared browser whatever happened since.
Launched(b) ==
    /\ Quiet /\ chrome[b] = "launching"
    /\ chrome' = [chrome EXCEPT ![b] = "live"]
    /\ shared' = b /\ promise' = None
    /\ Continue(b, "opening")
    /\ UNCHANGED <<active, queue, aborted, using, open, closes>>

\* The launch is rejected; sharedBrowserPromise keeps the rejected promise,
\* unless closeSharedBrowser or another launch has replaced it.
LaunchFails(b) ==
    /\ Quiet /\ chrome[b] = "launching"
    /\ chrome' = [chrome EXCEPT ![b] = "off"]
    /\ promise' = IF promise = b THEN Rejected ELSE promise
    /\ Continue(b, "leaving")
    /\ UNCHANGED <<active, queue, aborted, shared, using, open, closes>>

\* b is no more; contexts it had cannot be opened or used.
Gone(b) ==
    /\ chrome' = [x \in Browsers |-> IF x = b THEN "off" ELSE chrome[x]]
    /\ using' = [c \in Calls |-> IF using[c] = b THEN None ELSE using[c]]

\* Chromium goes away; 'disconnected' forgets it if it is the shared one.
Disconnect(b) ==
    /\ Quiet /\ chrome[b] = "live" /\ Gone(b)
    /\ IF shared = b THEN shared' = None /\ promise' = None
                     ELSE UNCHANGED <<shared, promise>>
    /\ UNCHANGED <<pc, active, queue, aborted, open, closes>>

\* closeSharedBrowser.
CloseShared ==
    /\ Quiet /\ closes < MaxCloses /\ closes' = closes + 1
    /\ shared' = None /\ promise' = None
    /\ IF shared = None THEN UNCHANGED <<chrome, using>> ELSE Gone(shared)
    /\ UNCHANGED <<pc, active, queue, aborted, open>>

-----------------------------------------------------------------------------
(* withBrowserContext *)

\* newContext, routing and newPage are done; an abort since then is seen now.
Opened(c) ==
    /\ Quiet /\ pc[c] = "opening" /\ using[c] # None
    /\ Goto(c, IF c \in aborted THEN "closing" ELSE "running")
    /\ open' = open \cup {c}
    /\ UNCHANGED <<active, queue, aborted, using, browser>>

\* newContext fails, for instance because the browser is gone.
OpenFails(c) ==
    /\ Quiet /\ pc[c] = "opening" /\ Goto(c, "leaving")
    /\ UNCHANGED <<active, queue, aborted, using, open, browser>>

\* Routing or newPage fails after the context was made.
PageFails(c) ==
    /\ Quiet /\ pc[c] = "opening" /\ Goto(c, "closing")
    /\ open' = open \cup {c}
    /\ UNCHANGED <<active, queue, aborted, using, browser>>

\* fn returns or throws.
Finish(c) ==
    /\ Quiet /\ pc[c] = "running" /\ Goto(c, "closing")
    /\ UNCHANGED <<active, queue, aborted, using, open, browser>>

\* page.close and context.close have settled; their errors are dropped.
Closed(c) ==
    /\ Quiet /\ pc[c] = "closing" /\ Goto(c, "leaving")
    /\ open' = open \ {c}
    /\ UNCHANGED <<active, queue, aborted, using, browser>>

Continuation(c) == Resume(c) \/ EnsureStep(c) \/ Leave(c)
Answer(c)       == Opened(c) \/ OpenFails(c) \/ PageFails(c) \/ Finish(c) \/ Closed(c)

Next ==
    \/ \E c \in Calls : Begin(c) \/ Continuation(c) \/ Abort(c) \/ Answer(c)
    \/ \E b \in Browsers : Launched(b) \/ LaunchFails(b) \/ Disconnect(b)
    \/ CloseShared

Spec == Init /\ [][Next]_vars

\* Continuations run, Playwright answers or times out, calls keep coming.  An
\* answer that has arrived waits for its turn while other turns make Quiet
\* false and true again: the loop takes it in the end, hence SF.
Fairness ==
    /\ WF_vars(\E c \in Calls : Continuation(c))
    /\ \A c \in Calls : SF_vars(Answer(c))
    /\ \A b \in Browsers : SF_vars(Launched(b) \/ LaunchFails(b))

FairSpec == Spec /\ Fairness

-----------------------------------------------------------------------------
(* Properties *)

\* activeContexts is the number of calls that hold a slot: no path through
\* aborts, failed launches and failed contexts gives one back twice or never
\* (Math.max(0, ...) in releaseSlot would hide the first).  "High-concurrency
\* batches cannot exhaust memory": no more contexts exist than slots are held,
\* those being closed included.
SlotsExact ==
    /\ active = Cardinality(Holders)
    /\ Cardinality(open) <= active

\* Nobody waits while a slot is free, or is on its way to a woken waiter:
\* aborts of waiters neither strand the others nor use up their wake-ups.
WaitsOnlyWhenFull == queue # <<>> => active + Cardinality(Woken) = MaxContexts

\* The abstract pool, where a woken waiter has its slot already.
Pool == INSTANCE SlotPool WITH
    Callers <- Calls, Slots <- MaxContexts,
    holding <- Holders \cup Woken, line <- queue

\* acquireSlot and releaseSlot implement that pool: besides the above, waiters
\* are served in their order, and no new call gets in between a slot's release
\* and the waiter that was woken for it.
ImplementsPool == Pool!PoolSpec

\* One Chromium at most runs or starts, however many calls arrive cold; each
\* closeSharedBrowser may leave one more (a launch it overtook, or one that
\* a later launch replaced as the shared one).
FewBrowsers == Cardinality(InUse) <= 1 + closes

\* A call that has begun ends: a waiter is served or gives up, and a holder
\* gives its slot back even if it was aborted while the browser started.
CallEnds == \A c \in Calls : (pc[c] # "idle") ~> (pc[c] = "idle")
=============================================================================

--------------------------- MODULE CircuitBreaker ---------------------------
(***************************************************************************)
(* The circuit breaker of one hostname and the HTTP calls that pass it:    *)
(* canRequest in the request interceptor, recordSuccess / recordFailure in *)
(* the response interceptor.  Each of them runs to its end in one turn of  *)
(* the event loop; what interleaves is when calls start and when their     *)
(* outcomes arrive.  A retry by axios-retry is another call.               *)
(***************************************************************************)
EXTENDS Naturals, FiniteSets

CONSTANTS
    Calls,      \* HTTP calls to the host that can be outstanding together
    Threshold,  \* failureThreshold
    MaxProbes   \* halfOpenMaxProbes

ASSUME CallsAssumption == IsFiniteSet(Calls)
ASSUME PolicyAssumption == Threshold \in Nat \ {0} /\ MaxProbes \in Nat \ {0}

VARIABLES
    state,      \* entry.state
    fails,      \* entry.consecutiveFailures, not counted beyond Threshold
    inFlight,   \* entry.halfOpenInFlight
    cooled,     \* openCooldownMs have passed since entry.openedAt (0 at first)
    sent,       \* calls that were let through and are not settled
    cur,        \* history: those of them of the present half-open period
    muted,      \* history: probes of this period that settled unrecorded
    streak      \* history: failures recorded since the last success, to Threshold

entry == <<state, fails, inFlight, cooled>>
vars  == <<entry, sent, cur, muted, streak>>

TypeOK ==
    /\ state \in {"closed", "open", "half_open"}
    /\ fails \in 0..Threshold /\ streak \in 0..Threshold
    /\ inFlight \in 0..MaxProbes /\ muted \in 0..MaxProbes
    /\ cooled \in BOOLEAN
    /\ sent \subseteq Calls /\ cur \subseteq sent

Init ==
    /\ state = "closed" /\ fails = 0 /\ inFlight = 0 /\ cooled = TRUE
    /\ sent = {} /\ cur = {} /\ muted = 0 /\ streak = 0

UpTo(n) == IF n < Threshold THEN n + 1 ELSE n

-----------------------------------------------------------------------------
\* Faulty variant: the cooldown never ends.
NeverDue == FALSE

\* transitionToHalfOpenIfDue
Due == state = "open" /\ cooled

\* The budget of a half-open period, new or under way.
Used == IF Due THEN 0 ELSE inFlight

\* canRequest lets the call through; otherwise it fails fast, nothing changes.
SendClosed(c) ==
    /\ state = "closed"
    /\ sent' = sent \cup {c}
    /\ UNCHANGED <<entry, cur, muted, streak>>

SendProbe(c) ==
    /\ Due \/ state = "half_open"
    /\ Used < MaxProbes
    /\ state' = "half_open" /\ inFlight' = Used + 1
    /\ sent' = sent \cup {c} /\ cur' = cur \cup {c}
    /\ UNCHANGED <<fails, cooled, muted, streak>>

Send(c) == c \notin sent /\ (SendClosed(c) \/ SendProbe(c))

-----------------------------------------------------------------------------
\* A half-open period, if there is one, ends.
EndPeriod == cur' = {} /\ muted' = 0

\* Faulty variants: the failure count, or the probe count, is not reset.
KeepFails ==
    /\ state' = "closed" /\ inFlight' = 0 /\ streak' = 0
    /\ EndPeriod /\ UNCHANGED <<fails, cooled>>

KeepInFlight ==
    /\ state' = "closed" /\ fails' = 0 /\ streak' = 0
    /\ EndPeriod /\ UNCHANGED <<inFlight, cooled>>

\* Any 2xx/3xx/4xx but 429, in whatever state it arrives.
RecordSuccess ==
    /\ state' = "closed" /\ fails' = 0 /\ inFlight' = 0
    /\ streak' = 0 /\ cooled' = TRUE
    /\ EndPeriod

\* Faulty variant: half-open failures are not looked at.
FailureIgnored ==
    /\ IF state = "half_open" THEN UNCHANGED entry
       ELSE /\ fails' = UpTo(fails) /\ UNCHANGED inFlight
            /\ IF fails + 1 >= Threshold THEN state' = "open" /\ cooled' = FALSE
                                         ELSE UNCHANGED <<state, cooled>>
    /\ streak' = UpTo(streak) /\ UNCHANGED muted /\ UNCHANGED cur

\* 5xx, 429, a network error, a timeout or a cancelled request.  The opening
\* time is set again by every failure that arrives while the breaker is open.
RecordFailure ==
    /\ streak' = UpTo(streak)
    /\ IF state = "half_open"
       THEN /\ state' = "open" /\ cooled' = FALSE /\ inFlight' = 0
            /\ EndPeriod /\ UNCHANGED fails
       ELSE /\ fails' = UpTo(fails) /\ UNCHANGED <<inFlight, muted>>
            /\ IF fails + 1 >= Threshold THEN state' = "open" /\ cooled' = FALSE
                                         ELSE UNCHANGED <<state, cooled>>
            /\ UNCHANGED cur

Settled(c) == c \in sent /\ sent' = sent \ {c}

Succeeds(c) == Settled(c) /\ RecordSuccess
Fails(c)    == Settled(c) /\ RecordFailure

\* The adapter throws an error of its own (UnsafeUrlError: the name does not
\* resolve, a redirect leads to a blocked address, too many redirects).  It has
\* no config, so recordFailure gets no host and does nothing.
Unrecorded(c) ==
    /\ Settled(c) /\ cur' = cur \ {c}
    /\ muted' = IF c \in cur THEN muted + 1 ELSE muted
    /\ UNCHANGED <<entry, streak>>

Settle(c) == Succeeds(c) \/ Fails(c) \/ Unrecorded(c)

CooldownPasses ==
    /\ state = "open" /\ ~cooled /\ cooled' = TRUE
    /\ UNCHANGED <<state, fails, inFlight, sent, cur, muted, streak>>

Next == CooldownPasses \/ \E c \in Calls : Send(c) \/ Settle(c)

Spec == Init /\ [][Next]_vars

\* Time passes, calls end (each has a timeout), and scans keep asking.
Fairness ==
    /\ WF_vars(CooldownPasses)
    /\ WF_vars(\E c \in Calls : Send(c))
    /\ \A c \in Calls : WF_vars(Settle(c))

FairSpec == Spec /\ Fairness

-----------------------------------------------------------------------------
(* Properties *)

\* The probe budget is neither exceeded nor lost: each unit of
\* halfOpenInFlight is a probe of this period that is still out, or one that
\* ended without being recorded; outside half-open it is zero, whatever late
\* outcomes of older calls arrive.
BudgetExact ==
    /\ inFlight = Cardinality(cur) + muted
    /\ state # "half_open" => inFlight = 0

\* The gate is closed to traffic exactly when the last Threshold recorded
\* outcomes were failures: a late success opens it to traffic at any time, and
\* nothing but a run of failures shuts it.
ClosedIffHealthy == (state = "closed") <=> (streak < Threshold)

\* A host is not refused for ever.  Late failures of older calls restart the
\* cooldown but cannot keep the breaker open; a half-open period ends unless
\* one of its probes goes unrecorded.
RefusalEnds ==
    /\ (state = "open") ~> (state # "open")
    /\ (state = "half_open" /\ muted = 0) ~> (state # "half_open" \/ muted > 0)
=============================================================================

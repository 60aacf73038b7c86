---------------------------- MODULE MonitorCheck ----------------------------
(***************************************************************************)
(* Checks of one monitor: the dispatcher that enqueues them, Celery        *)
(* workers that run them under a Redis lock with a TTL and no owner, manual *)
(* checks that take no lock, and what a check does in one transaction:     *)
(* probe, counters, status, alert or recovery, commit.  PostgreSQL's row    *)
(* lock is taken by the first flush after the counters are set, and a flush *)
(* writes only the columns that differ from what the session loaded.       *)
(*                                                                         *)
(* The capability is uptime_only, with an alert cooldown.  `window` is what *)
(* maintenance windows, quiet hours and disabled alerts suppress together. *)
(* A pause or a resume reads the row when its request begins and writes it *)
(* when it ends.                                                           *)
(***************************************************************************)
EXTENDS Naturals, FiniteSets

CONSTANTS
    Workers,     \* Celery workers
    Requests,    \* requests for a manual check
    Users,       \* requests that pause or resume the monitor
    Free,        \* no holder of a lock
    Threshold,   \* consecutiveFailures
    Kinds,       \* what probes may find: "ok", "slow", "bad" (status), "lost" (none),
                 \* "unsafe" (the URL is refused and nothing is sent)
    MaxQueue,    \* bound: messages of this monitor in the queue
    MaxRounds,   \* bound: intervals that elapse, with the one at the start
    MaxManual,   \* bound: manual checks
    MaxChanges,  \* bound: pauses, resumes, and windows that open or close
    MaxFaults    \* bound: exceptions, lost workers, locks that expire too early

Checkers == Workers \cup Requests

ASSUME CheckersAssumption ==
    /\ IsFiniteSet(Workers) /\ Workers \cap Requests = {}
    /\ Free # "orphan" /\ Free \notin Checkers /\ "orphan" \notin Checkers

ASSUME KindsAssumption == Kinds \subseteq {"ok", "slow", "bad", "lost", "unsafe"}

ASSUME BoundAssumption ==
    /\ Threshold \in Nat \ {0}
    /\ MaxQueue \in Nat /\ MaxRounds \in Nat /\ MaxManual \in Nat
    /\ MaxChanges \in Nat /\ MaxFaults \in Nat

VARIABLES
    enabled, status, \* the row's is_enabled and status
    failures,        \* its consecutive_failures, cut off at Threshold
    due,             \* the interval has elapsed since last_check_at
    rowlock,         \* the transaction that has updated the row, or Free
    window,          \* what is suppressed: "probes", "alerts"
    cooling,         \* types with a committed alert younger than the cooldown
    queue,           \* messages run_monitor_check
    lock,            \* monitor:check_lock: Free, its taker, or "orphan"
    pc,              \* where each checker is, see PC
    loaded,          \* the row as its session loaded it
    kind,            \* what its probe found
    alert,           \* the alert it has decided to send, or "none"
    asked,           \* what each user's request asks for, and the columns it will write
    \* History
    incident,        \* a trigger was handed to the channels and no resolve after it
    burst, undone,   \* downtime alerts since the last cooldown; rolled back
    failed,          \* failed checks since the last success on its own, cut off
    alone,           \* no other check has overlapped with this one
    muddled,         \* see IncidentVisible
    overstays,       \* locks that expired under a running check
    rounds, manual, changes, faults

row     == <<enabled, status, failures, due>>
local   == <<loaded, kind, alert>>
user    == <<window, asked>>
history == <<incident, burst, undone, failed, alone, muddled>>
bounds  == <<rounds, manual, changes, faults>>
vars    == <<row, rowlock, user, cooling, queue, lock, pc, local, history, overstays,
             bounds>>

Status  == {"pending", "up", "degraded", "down", "paused"}
Failing == {"bad", "lost", "unsafe"}
Muted   == {"probes", "alerts"}
Alerts  == {"threshold_breach", "downtime", "unexpected_status"}

\* The row is loaded and the probe out; is_enabled was read again; the row is
\* updated and the alert decided; it is sent; the transaction is over and the
\* lock not yet deleted.
PC == {"idle", "probing", "gated", "settled", "notified", "closing"}

\* A session that has loaded the row and not yet committed or rolled back.
Open    == {"probing", "gated", "settled", "notified"}
Running == {w \in Workers : pc[w] # "idle"}

CutOff(n) == IF n < Threshold THEN n ELSE Threshold

Asked == [op : {"none", "pause", "resume"}, columns : SUBSET {"is_enabled", "status"}]

TypeOK ==
    /\ enabled \in BOOLEAN /\ status \in Status /\ failures \in 0..Threshold
    /\ due \in BOOLEAN /\ rowlock \in Checkers \cup {Free} /\ window \subseteq Muted
    /\ cooling \subseteq Alerts /\ queue \in Nat
    /\ lock \in Workers \cup {Free, "orphan"} /\ pc \in [Checkers -> PC]
    /\ loaded \in [Checkers -> [status : Status, failures : 0..Threshold]]
    /\ kind \in [Checkers -> Kinds \cup {"ok"}] /\ alert \in [Checkers -> Alerts \cup {"none"}]
    /\ asked \in [Users -> Asked]
    /\ incident \in BOOLEAN /\ burst \in Nat /\ undone \in Nat
    /\ failed \in 0..Threshold /\ alone \in [Checkers -> BOOLEAN]
    /\ muddled \in BOOLEAN /\ overstays \in Nat
    /\ rounds \in Nat /\ manual \in Nat /\ changes \in Nat /\ faults \in Nat

NoRow   == [status |-> "pending", failures |-> 0]
Nothing == [op |-> "none", columns |-> {}]

\* A new monitor is due; one just resumed may have been checked a moment ago.
Init ==
    /\ enabled = TRUE /\ status = "pending" /\ failures = 0
    /\ due \in BOOLEAN /\ rounds = (IF due THEN 1 ELSE 0)
    /\ rowlock = Free /\ window = {} /\ cooling = {} /\ queue = 0 /\ lock = Free
    /\ pc = [c \in Checkers |-> "idle"]
    /\ loaded = [c \in Checkers |-> NoRow]
    /\ kind = [c \in Checkers |-> "ok"] /\ alert = [c \in Checkers |-> "none"]
    /\ asked = [u \in Users |-> Nothing]
    /\ incident = FALSE /\ burst = 0 /\ undone = 0 /\ failed = 0
    /\ alone = [c \in Checkers |-> TRUE] /\ muddled = FALSE /\ overstays = 0
    /\ manual = 0 /\ changes = 0 /\ faults = 0

-----------------------------------------------------------------------------
(* The dispatcher, the lock and the queue *)

\* dispatch_monitor_checks, every 10 seconds: nothing looks for a message of the
\* same monitor that is still queued, and only windows that suppress probes matter.
Dispatch ==
    /\ enabled /\ "probes" \notin window /\ due
    /\ queue < MaxQueue /\ queue' = queue + 1
    /\ UNCHANGED <<row, rowlock, user, cooling, lock, pc, local, history, overstays, bounds>>

\* The finally: the lock is deleted, whoever holds it by now.
Close(c) ==
    /\ pc[c] = "closing" /\ pc' = [pc EXCEPT ![c] = "idle"]
    /\ lock' = IF c \in Workers THEN Free ELSE lock
    /\ UNCHANGED <<row, rowlock, user, cooling, queue, local, history, overstays, bounds>>

\* MONITOR_CHECK_LOCK_TTL_SECONDS have passed.
Expire ==
    /\ \/ lock = "orphan" /\ UNCHANGED <<overstays, faults>>
       \/ lock \in Workers /\ faults < MaxFaults
          /\ overstays' = overstays + 1 /\ faults' = faults + 1
    /\ lock' = Free
    /\ UNCHANGED <<row, rowlock, user, cooling, queue, pc, local, history, rounds,
                   manual, changes>>

-----------------------------------------------------------------------------
(* execute_check *)

\* The session is closed: nothing of it is read again.
Forget(c) ==
    /\ loaded' = [loaded EXCEPT ![c] = NoRow] /\ kind' = [kind EXCEPT ![c] = "ok"]
    /\ alert' = [alert EXCEPT ![c] = "none"] /\ alone' = [alone EXCEPT ![c] = TRUE]

Overlaps(c) == \E d \in Checkers \ {c} : pc[d] \in Open

\* db.get(Monitor): the session keeps what it loads.  A disabled monitor is
\* skipped.
Load(c) ==
    IF enabled
    THEN /\ pc' = [pc EXCEPT ![c] = "probing"]
         /\ loaded' = [loaded EXCEPT ![c] = [status |-> status, failures |-> failures]]
         /\ alone' = [d \in Checkers |-> IF d = c THEN ~Overlaps(c)
                                         ELSE alone[d] /\ pc[d] \notin Open]
         /\ muddled' = (muddled \/ Overlaps(c))
    ELSE pc' = [pc EXCEPT ![c] = "closing"] /\ UNCHANGED <<loaded, alone, muddled>>

\* Faulty variant: a message that finds the lock taken deletes it on its way out.
TakeAndDrop(w) ==
    /\ pc[w] = "idle" /\ queue > 0 /\ queue' = queue - 1
    /\ IF lock = Free THEN lock' = w /\ Load(w)
       ELSE lock' = Free /\ UNCHANGED <<pc, loaded, alone, muddled>>
    /\ UNCHANGED <<row, rowlock, user, cooling, kind, alert, incident, burst, undone,
                   failed, overstays, bounds>>

\* run_monitor_check: SET NX, and execute_check begins; a message that finds the
\* lock taken is done.
Take(w) ==
    /\ pc[w] = "idle" /\ queue > 0 /\ queue' = queue - 1
    /\ IF lock = Free THEN lock' = w /\ Load(w)
       ELSE UNCHANGED <<lock, pc, loaded, alone, muddled>>
    /\ UNCHANGED <<row, rowlock, user, cooling, kind, alert, incident, burst, undone,
                   failed, overstays, bounds>>

\* trigger_manual_check, when its cooldown has passed.
Manual(r) ==
    /\ pc[r] = "idle" /\ manual < MaxManual /\ manual' = manual + 1 /\ Load(r)
    /\ UNCHANGED <<row, rowlock, user, cooling, queue, lock, kind, alert, incident, burst,
                   undone, failed, overstays, rounds, changes, faults>>

\* The probe's outcome, and is_enabled as it is now: the result for a monitor
\* that was paused meanwhile is thrown away.
Probe(c, k) ==
    /\ pc[c] = "probing"
    /\ IF enabled
       THEN /\ pc' = [pc EXCEPT ![c] = "gated"] /\ kind' = [kind EXCEPT ![c] = k]
            /\ UNCHANGED <<loaded, alert, alone>>
       ELSE pc' = [pc EXCEPT ![c] = "closing"] /\ Forget(c)
    /\ UNCHANGED <<row, rowlock, user, cooling, queue, lock, incident, burst, undone,
                   failed, muddled, overstays, bounds>>

\* Faulty variant: a success does not reset the count.
NewFailuresKept(c) ==
    IF kind[c] \in Failing THEN CutOff(loaded[c].failures + 1) ELSE loaded[c].failures

\* What the session's copy of the row says after the result is counted.
NewFailures(c) ==
    IF kind[c] \in Failing THEN CutOff(loaded[c].failures + 1) ELSE 0

\* _determine_status.
NewStatus(c) ==
    CASE kind[c] = "ok" -> "up"
      [] kind[c] = "slow" -> "degraded"
      [] OTHER -> IF NewFailures(c) >= Threshold THEN "down" ELSE "degraded"

\* The alert the result calls for: none for a URL that was refused, although it
\* counts as a failure.
AlertFor(c) ==
    CASE kind[c] = "slow" -> "threshold_breach"
      [] kind[c] \in {"bad", "lost"} /\ NewFailures(c) >= Threshold -> "downtime"
      [] kind[c] = "bad" /\ NewFailures(c) < Threshold -> "unexpected_status"
      [] OTHER -> "none"

\* Faulty variant: the alert is evaluated before the flush takes the row lock.
SettleUnlocked(c) ==
    /\ pc[c] = "gated"
    /\ pc' = [pc EXCEPT ![c] = "settled"] /\ rowlock' = IF rowlock = Free THEN c ELSE rowlock
    /\ alert' = [alert EXCEPT ![c] = IF "alerts" \in window \/ AlertFor(c) \in cooling THEN "none"
                                     ELSE AlertFor(c)]
    /\ UNCHANGED <<row, user, cooling, queue, lock, loaded, kind, history, overstays,
                   bounds>>

\* The first query after the counters are set flushes them: the UPDATE waits for
\* the row lock.  Then evaluate_and_dispatch_alert asks for windows and for an
\* alert within the cooldown, and sees what the lock's last holder committed.
Settle(c) ==
    /\ pc[c] = "gated" /\ rowlock = Free
    /\ pc' = [pc EXCEPT ![c] = "settled"] /\ rowlock' = c
    /\ alert' = [alert EXCEPT ![c] = IF "alerts" \in window \/ AlertFor(c) \in cooling THEN "none"
                                     ELSE AlertFor(c)]
    /\ UNCHANGED <<row, user, cooling, queue, lock, loaded, kind, history, overstays,
                   bounds>>

\* Faulty variant: only a monitor that was down recovers.
RecoversFromDown(c) == NewStatus(c) = "up" /\ loaded[c].status = "down"

\* By the status the session loaded, and not by the row's.
Recovers(c) == NewStatus(c) = "up" /\ loaded[c].status \in {"down", "degraded"}

\* The channels are told, before the commit: the alert's trigger, or the resolve
\* of _dispatch_recovery_for_enabled_capabilities, which swallows what it raises.
Notify(c) ==
    /\ pc[c] = "settled" /\ pc' = [pc EXCEPT ![c] = "notified"]
    /\ \/ /\ incident' = (alert[c] # "none" \/ (incident /\ ~Recovers(c)))
          /\ UNCHANGED muddled
       \/ /\ Recovers(c) /\ incident /\ muddled' = TRUE
          /\ UNCHANGED incident
    /\ burst' = IF alert[c] = "downtime" THEN burst + 1 ELSE burst
    /\ UNCHANGED <<row, rowlock, user, cooling, queue, lock, local, undone, failed,
                   alone, overstays, bounds>>

\* The commit, with the columns that differ from the loaded ones.
Commit(c) ==
    /\ pc[c] = "notified" /\ pc' = [pc EXCEPT ![c] = "closing"] /\ rowlock' = Free
    /\ status' = IF NewStatus(c) # loaded[c].status THEN NewStatus(c) ELSE status
    /\ failures' = IF kind[c] \notin Failing /\ loaded[c].failures = 0 THEN failures
                   ELSE NewFailures(c)
    /\ due' = FALSE /\ cooling' = cooling \cup ({alert[c]} \ {"none"})
    /\ failed' = IF kind[c] \in Failing THEN CutOff(failed + 1)
                 ELSE IF alone[c] THEN 0 ELSE failed
    /\ muddled' = (muddled /\ ~(alone[c] /\ (incident => status' \in {"down", "degraded"})))
    /\ Forget(c)
    /\ UNCHANGED <<enabled, user, queue, lock, incident, burst, undone, overstays, bounds>>

\* The transaction is rolled back; what was sent stays sent.
RollBack(c) ==
    /\ rowlock' = IF rowlock = c THEN Free ELSE rowlock
    /\ undone' = IF pc[c] = "notified" /\ alert[c] = "downtime" THEN undone + 1 ELSE undone
    /\ muddled' = (muddled \/ (pc[c] = "notified" /\ alert[c] # "none"))
    /\ faults < MaxFaults /\ faults' = faults + 1
    /\ Forget(c)
    /\ UNCHANGED <<row, user, cooling, incident, burst, failed, overstays, rounds, manual,
                   changes>>

\* An exception: a worker publishes the message again, unless it has been retried
\* twice; a request answers 500.
Fail(c) ==
    /\ pc[c] \in Open /\ RollBack(c)
    /\ pc' = [pc EXCEPT ![c] = "closing"]
    /\ queue' \in {queue} \cup {queue + 1 : w \in Workers \cap {c}}
    /\ UNCHANGED lock

\* A worker is lost: no finally runs, and its message is delivered again.
Crash(w) ==
    /\ pc[w] # "idle" /\ RollBack(w)
    /\ pc' = [pc EXCEPT ![w] = "idle"]
    /\ queue' = queue + 1
    /\ lock' = IF lock = w THEN "orphan" ELSE lock

-----------------------------------------------------------------------------
(* Time and the user *)

\* The interval passes.
Elapse ==
    /\ ~due /\ due' = TRUE /\ rounds < MaxRounds /\ rounds' = rounds + 1
    /\ UNCHANGED <<enabled, status, failures, rowlock, user, cooling, queue, lock, pc,
                   local, history, overstays, manual, changes, faults>>

\* An alert becomes older than cooldownSeconds.
CoolDown(t) ==
    /\ t \in cooling /\ cooling' = cooling \ {t}
    /\ IF t = "downtime" THEN burst' = 0 /\ undone' = 0 ELSE UNCHANGED <<burst, undone>>
    /\ UNCHANGED <<row, rowlock, user, queue, lock, pc, local, incident, failed, alone,
                   muddled, overstays, bounds>>

Change == changes < MaxChanges /\ changes' = changes + 1 /\ UNCHANGED <<rounds, manual, faults>>

\* The columns in which a row differs from what the request sets.
Differing(op) ==
    {f \in {"is_enabled", "status"} :
        \/ f = "is_enabled" /\ enabled = (op = "pause")
        \/ f = "status" /\ (status = "paused") = (op = "resume")}

\* pause_monitor, resume_monitor, the update of a monitor or a bulk action: the
\* request loads the row and sets its fields; a column set to the value that was
\* read is left out of the UPDATE.
Ask(u, op) ==
    /\ asked[u].op = "none" /\ Change
    /\ asked' = [asked EXCEPT ![u] = [op |-> op, columns |-> Differing(op)]]
    /\ UNCHANGED <<row, rowlock, window, cooling, queue, lock, pc, local, history, overstays>>

\* The UPDATE waits for the row lock, and then writes over what its holder has
\* committed.
Update(u, op, e, t) ==
    /\ asked[u].op = op /\ rowlock = Free
    /\ asked' = [asked EXCEPT ![u] = Nothing]
    /\ enabled' = IF "is_enabled" \in asked[u].columns THEN e ELSE enabled
    /\ status' = IF "status" \in asked[u].columns THEN t ELSE status
    /\ muddled' = (muddled \/ (status' # status
                               /\ (incident \/ \E c \in Checkers : pc[c] \in Open)))
    /\ UNCHANGED <<failures, due, rowlock, window, cooling, queue, lock, pc, local,
                   incident, burst, undone, failed, alone, overstays, bounds>>

Pause(u)  == Update(u, "pause", FALSE, "paused")
Resume(u) == Update(u, "resume", TRUE, "pending")

\* A window or quiet hours begin or end.
WindowChanges ==
    /\ Change /\ \E m \in SUBSET Muted \ {window} : window' = m
    /\ UNCHANGED <<row, rowlock, asked, cooling, queue, lock, pc, local, history, overstays>>

CheckerStep(c) ==
    \/ Settle(c) \/ Notify(c) \/ Commit(c) \/ Close(c)
    \/ \E k \in Kinds : Probe(c, k)

Next ==
    \/ Dispatch \/ Expire \/ Elapse \/ WindowChanges
    \/ \E w \in Workers : Take(w) \/ Crash(w)
    \/ \E r \in Requests : Manual(r)
    \/ \E u \in Users : Pause(u) \/ Resume(u) \/ \E op \in {"pause", "resume"} : Ask(u, op)
    \/ \E c \in Checkers : CheckerStep(c) \/ Fail(c)
    \/ \E t \in Alerts : CoolDown(t)

Spec == Init /\ [][Next]_vars

-----------------------------------------------------------------------------
(* Properties *)

\* The lock has no owner token, so a check that outlives its TTL deletes another
\* one's.  That never spreads: each lock that expired under a running check
\* allows one more check at a time, and no more for ever after.
OverlapBounded == Cardinality(Running) <= overstays + (IF lock \in Workers THEN 1 ELSE 0)

\* The row lock that the flush before the cooldown query takes makes the cooldown
\* hold between checks that overlap: a second downtime alert within it follows
\* only a first one whose transaction was rolled back after it was sent.
CooldownKept == burst <= undone + 1

\* However checks overlap and overwrite each other's counts, a monitor is called
\* down, and the user told so, only after Threshold failed checks that no
\* success on its own has interrupted.
DownEarned ==
    /\ status = "down" => failed >= Threshold
    /\ \A c \in Checkers : pc[c] \in {"settled", "notified"} /\ alert[c] = "downtime"
                           => failed + 1 >= Threshold

\* An incident that was opened at a channel shows in the row's status, so that the
\* next success will resolve it.  Four things hide it (muddled), until a check on
\* its own puts the row right: a pause or a resume that writes over the status; a
\* rollback after the trigger; a resolve that raised, which the check ignores; and
\* overlapping checks, of which one writes nothing because its status is the one it
\* loaded.
IncidentVisible ==
    incident /\ ~muddled =>
        status \in {"down", "degraded"} \/ \E c \in Checkers : pc[c] = "notified"
=============================================================================

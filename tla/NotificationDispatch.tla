------------------------ MODULE NotificationDispatch ------------------------
(***************************************************************************)
(* The dispatch log of alert notifications: the first attempt, made inside *)
(* the transaction of the monitor check that raised the alert, and the     *)
(* retries, made by the ticks of a Celery beat task and by a task for one  *)
(* row.                                                                    *)
(*                                                                         *)
(* A database session sends a message for each of its rows in turn and     *)
(* flushes the result; the rows it has flushed stay locked, and unseen by  *)
(* others, until it commits all of them.  Rows are read without a lock, so *)
(* two sessions may work on the same copy of a row.                        *)
(***************************************************************************)
EXTENDS Naturals, Sequences, FiniteSets

CONSTANTS
    Rows,         \* dispatch rows: one alert on one channel
    Unregistered, \* the rows whose channel has gone by the time of a retry
    Sessions,     \* database sessions of worker processes
    MaxAttempts,  \* NOTIFICATION_DISPATCH_MAX_ATTEMPTS
    MaxFaults,    \* bound: crashes and exceptions outside send
    None

ASSUME RowsAssumption    == IsFiniteSet(Rows) /\ Unregistered \subseteq Rows
ASSUME AttemptAssumption == MaxAttempts \in Nat \ {0} /\ MaxFaults \in Nat
ASSUME NoneAssumption    == None \notin Sessions

VARIABLES
    row,      \* committed rows
    lock,     \* the session that has flushed a row and not yet committed it
    flushed,  \* the version of a locked row its session will commit
    job,      \* what each session does: "idle", "alert" or "retry"
    pc,       \* where it is, see PC
    todo,     \* rows it has yet to send
    seen,     \* its copies of rows
    result,   \* the result of its last send
    sends,    \* messages handed to the channel, counted up to MaxAttempts + 1
    accepted, \* rows with a send that succeeded
    faults

vars == <<row, lock, flushed, job, pc, todo, seen, result, sends, accepted, faults>>

sent == <<sends, accepted>>

\* Before a send, its outcome at hand, waiting for a row lock, before the commit.
PC == {"idle", "send", "flush", "waiting", "commit"}

Row == [status : {"absent", "pending", "failed", "succeeded", "dead"},
        attempts : 0..MaxAttempts + 1,
        due : {"never", "later", "now"}] \* next_attempt_at: NULL, ahead, passed

Absent   == [status |-> "absent", attempts |-> 0, due |-> "never"]
Reserved == [Absent EXCEPT !.status = "pending"]

TypeOK ==
    /\ row \in [Rows -> Row] /\ flushed \in [Rows -> Row]
    /\ lock \in [Rows -> Sessions \cup {None}]
    /\ job \in [Sessions -> {"idle", "alert", "retry"}]
    /\ pc \in [Sessions -> PC]
    /\ todo \in [Sessions -> Seq(Rows)]
    /\ seen \in [Sessions -> [Rows -> Row]]
    /\ result \in [Sessions -> BOOLEAN]
    /\ sends \in [Rows -> 0..MaxAttempts + 1] /\ accepted \subseteq Rows
    /\ faults \in 0..MaxFaults

Init ==
    /\ row = [r \in Rows |-> Absent] /\ flushed = [r \in Rows |-> Absent]
    /\ lock = [r \in Rows |-> None]
    /\ job = [s \in Sessions |-> "idle"] /\ pc = [s \in Sessions |-> "idle"]
    /\ todo = [s \in Sessions |-> <<>>]
    /\ seen = [s \in Sessions |-> [r \in Rows |-> Absent]]
    /\ result = [s \in Sessions |-> FALSE]
    /\ sends = [r \in Rows |-> 0] /\ accepted = {} /\ faults = 0

Locked(s) == {r \in Rows : lock[r] = s}

Waiters(r) == {t \in Sessions : pc[t] = "waiting" /\ Head(todo[t]) = r}

\* Who gets the locks of s: the sessions that wait, one for each row.
Heirs(s) ==
    {h \in [Locked(s) -> Sessions \cup {None}] :
       \A r \in Locked(s) : IF Waiters(r) = {} THEN h[r] = None ELSE h[r] \in Waiters(r)}

\* The session is over, with its writes in the table (new) or without, and its locks go to
\* those who wait for them.
Close(s, new) ==
    /\ row' = new
    /\ \E h \in Heirs(s) :
         /\ lock' = [r \in Rows |-> IF r \in Locked(s) THEN h[r] ELSE lock[r]]
         /\ flushed' = [r \in Rows |-> IF r \notin Locked(s) THEN flushed[r]
                                      ELSE IF h[r] = None THEN Absent ELSE new[r]]
         /\ pc' = [t \in Sessions |->
              IF t = s THEN "idle"
              ELSE IF \E r \in Locked(s) : h[r] = t THEN "flush" ELSE pc[t]]
    /\ job' = [job EXCEPT ![s] = "idle"]
    /\ todo' = [todo EXCEPT ![s] = <<>>] /\ result' = [result EXCEPT ![s] = FALSE]
    /\ seen' = [seen EXCEPT ![s] = [r \in Rows |-> Absent]]

\* What the session has flushed, on top of what is committed.
WithFlushed(s) == [r \in Rows |-> IF lock[r] = s THEN flushed[r] ELSE row[r]]

-----------------------------------------------------------------------------
(* Sessions begin *)

\* reserve_attempt: a monitor check adds the row of an alert before its send.
\* After a rollback the check is retried and may raise the alert again.
Alert(s, r) ==
    /\ job[s] = "idle" /\ row[r].status = "absent" /\ lock[r] = None
    /\ job' = [job EXCEPT ![s] = "alert"] /\ pc' = [pc EXCEPT ![s] = "send"]
    /\ todo' = [todo EXCEPT ![s] = <<r>>]
    /\ seen' = [seen EXCEPT ![s][r] = Reserved]
    /\ lock' = [lock EXCEPT ![r] = s] /\ flushed' = [flushed EXCEPT ![r] = Reserved]
    /\ UNCHANGED <<row, result, sent, faults>>

Retry(s, rs) ==
    /\ job[s] = "idle"
    /\ job' = [job EXCEPT ![s] = "retry"] /\ pc' = [pc EXCEPT ![s] = "send"]
    /\ todo' = [todo EXCEPT ![s] = rs]
    /\ seen' = [seen EXCEPT ![s] =
         [r \in Rows |-> IF \E i \in 1..Len(rs) : rs[i] = r THEN row[r] ELSE Absent]]
    /\ UNCHANGED <<row, lock, flushed, result, sent, faults>>

\* list_dispatch_pending: the failed rows that are due, oldest first; their
\* times are not modelled, so they come in any order.
DueRows == {r \in Rows : row[r].status = "failed" /\ row[r].due = "now"}

Orders(R) == {q \in [1..Cardinality(R) -> R] :
                \A i, j \in 1..Cardinality(R) : q[i] = q[j] => i = j}

\* retry_notification_dispatch; one that finds no row does nothing.
Tick(s) == DueRows # {} /\ \E q \in Orders(DueRows) : Retry(s, q)

\* retry_single_notification: a failed row, due or not.
Single(s, r) == row[r].status = "failed" /\ Retry(s, <<r>>)

-----------------------------------------------------------------------------
(* One row of a session *)

Known(s, r) == job[s] = "alert" \/ r \notin Unregistered

\* send returns, or raises, which counts as a failure.
Send(s) ==
    /\ pc[s] = "send" /\ pc' = [pc EXCEPT ![s] = "flush"]
    /\ LET r == Head(todo[s]) IN
         IF Known(s, r)
         THEN /\ sends' = [sends EXCEPT ![r] =
                             IF @ <= MaxAttempts THEN @ + 1 ELSE @]
              /\ \E ok \in BOOLEAN :
                   /\ result' = [result EXCEPT ![s] = ok]
                   /\ accepted' = IF ok THEN accepted \cup {r} ELSE accepted
              /\ UNCHANGED seen
         ELSE /\ seen' = [seen EXCEPT ![s][r].attempts = MaxAttempts]
              /\ result' = [result EXCEPT ![s] = FALSE] /\ UNCHANGED sent
    /\ UNCHANGED <<row, lock, flushed, job, todo, faults>>

\* Faulty variant: the last attempt is not made.
OutcomeEarly(s, c) ==
    IF result[s] THEN "succeeded"
    ELSE IF c.attempts + 2 >= MaxAttempts THEN "dead" ELSE "failed"

\* mark_result on the session's copy c of a row: the status that follows.
Outcome(s, c) ==
    IF result[s] THEN "succeeded"
    ELSE IF c.attempts + 1 >= MaxAttempts THEN "dead" ELSE "failed"

\* Faulty variants: every column is written back; the attempt that the result
\* already counts is counted again.
UpdateAll(s, c, base) ==
    [status |-> Outcome(s, c), attempts |-> c.attempts + 1,
     due |-> IF Outcome(s, c) = "failed" THEN "later" ELSE "never"]

UpdateTwice(s, c, base) ==
    [status |-> IF Outcome(s, c) = c.status THEN base.status ELSE Outcome(s, c),
     attempts |-> IF c.attempts < MaxAttempts THEN c.attempts + 2 ELSE c.attempts + 1,
     due |-> IF Outcome(s, c) = "failed" THEN "later" ELSE "never"]

\* The UPDATE of the flush carries the columns that differ from the copy the
\* session loaded, and leaves the others as the newest committed version has
\* them: a status that stays "failed" is not written.
Update(s, c, base) ==
    [status |-> IF Outcome(s, c) = c.status THEN base.status ELSE Outcome(s, c),
     attempts |-> c.attempts + 1,
     due |-> IF Outcome(s, c) = "failed" THEN "later" ELSE "never"]

\* mark_result's flush.
Flush(s) ==
    /\ pc[s] = "flush"
    /\ LET r == Head(todo[s]) IN
         /\ lock[r] \in {None, s}
         /\ flushed' = [flushed EXCEPT ![r] =
              Update(s, seen[s][r], IF lock[r] = s THEN @ ELSE row[r])]
         /\ lock' = [lock EXCEPT ![r] = s]
    /\ todo' = [todo EXCEPT ![s] = Tail(@)]
    /\ pc' = [pc EXCEPT ![s] = IF Len(todo[s]) = 1 THEN "commit" ELSE "send"]
    /\ UNCHANGED <<row, job, seen, result, sent, faults>>

\* Another session has flushed the row.
Wait(s) ==
    /\ pc[s] = "flush" /\ lock[Head(todo[s])] \notin {None, s}
    /\ pc' = [pc EXCEPT ![s] = "waiting"]
    /\ UNCHANGED <<row, lock, flushed, job, todo, seen, result, sent, faults>>

\* Faulty variant: the retry task does not commit.
CommitAlerts(s) ==
    /\ pc[s] = "commit"
    /\ Close(s, IF job[s] = "alert" THEN WithFlushed(s) ELSE row)
    /\ UNCHANGED <<sent, faults>>

\* The one commit of the session: the check's, or the retry task's.
Commit(s) ==
    /\ pc[s] = "commit" /\ Close(s, WithFlushed(s))
    /\ UNCHANGED <<sent, faults>>

-----------------------------------------------------------------------------
(* Failures *)

\* The worker is lost, or something outside send raises (the stored payload
\* cannot be read, Redis is down, the rest of the monitor check fails): all
\* the session flushed is rolled back, the messages have been sent.
Fail(s) ==
    /\ job[s] # "idle" /\ faults < MaxFaults /\ faults' = faults + 1
    /\ Close(s, row) /\ UNCHANGED sent

Awaits(s, t) == pc[s] = "waiting" /\ lock[Head(todo[s])] = t

\* Two ticks took the same rows in different orders: the database ends one.
Deadlocked(s) ==
    /\ \E t \in Sessions : Awaits(s, t) /\ Awaits(t, s)
    /\ Close(s, row) /\ UNCHANGED <<sent, faults>>

\* next_attempt_at passes.
Passes(r) ==
    /\ row[r].due = "later" /\ row' = [row EXCEPT ![r].due = "now"]
    /\ UNCHANGED <<lock, flushed, job, pc, todo, seen, result, sent, faults>>

Work(s) == Send(s) \/ Flush(s) \/ Wait(s) \/ Commit(s) \/ Deadlocked(s)

Next ==
    \/ \E s \in Sessions : Tick(s) \/ Work(s) \/ Fail(s)
    \/ \E s \in Sessions, r \in Rows : Alert(s, r) \/ Single(s, r)
    \/ \E r \in Rows : Passes(r)

Spec == Init /\ [][Next]_vars

\* Beat sends a tick every minute, sends end by timeout, time passes.
Fairness ==
    /\ WF_vars(\E s \in Sessions : Tick(s))
    /\ \A s \in Sessions : WF_vars(Work(s))
    /\ \A r \in Rows : WF_vars(Passes(r))

FairSpec == Spec /\ Fairness

-----------------------------------------------------------------------------
(* Properties *)

\* The log never claims an attempt that was not made, whatever is rolled back,
\* sent twice or overwritten by an older copy.  (A row of an unregistered
\* channel is filled up on purpose.)
AttemptsWereSent == \A r \in Rows \ Unregistered : row[r].attempts <= sends[r]

\* A row is given up only after MaxAttempts messages have gone out, and is
\* recorded as succeeded only if one of them was accepted.
EndedForReason ==
    \A r \in Rows :
        /\ row[r].status = "succeeded" => r \in accepted
        /\ row[r].status = "dead" /\ r \notin Unregistered => sends[r] >= MaxAttempts

\* A row that has ended is not opened again by a session that still holds a
\* copy from before.  (A last failure may turn a success into "dead".)
EndedStays ==
    [][\A r \in Rows : row[r].status \in {"succeeded", "dead"} =>
                          row'[r].status \in {"succeeded", "dead"}]_vars

\* A failed attempt that is on record is retried until the row succeeds or is
\* given up, although overlapping sessions lose each other's counts.
FailedEnds ==
    \A r \in Rows : row[r].status = "failed" ~> row[r].status \in {"succeeded", "dead"}
=============================================================================

------------------------- MODULE MonitorCheckProofs -------------------------
(***************************************************************************)
(* Proofs about MonitorCheck: its type, the bound on overlapping checks,   *)
(* the cooldown, the count behind "down" and that an open incident shows,  *)
(* for any workers, requests, threshold and faults.                        *)
(***************************************************************************)
EXTENDS MonitorCheck, FiniteSetTheorems, TLAPS

\* A session between its flush and its commit holds the row lock.
Flushed(c)  == pc[c] \in {"settled", "notified"}
RowHeld     == \A c \in Checkers : Flushed(c) => rowlock = c

\* A session has sent a downtime alert and not yet committed it.
Sent(c) == pc[c] = "notified" /\ alert[c] = "downtime"

\* Every downtime alert of the period was rolled back, except the one that is
\* committed and cooling, or the one that is about to be.
Cooling ==
    /\ burst <= undone + (IF "downtime" \in cooling \/ \E c \in Checkers : Sent(c) THEN 1 ELSE 0)
    /\ \A c \in Checkers : Flushed(c) /\ alert[c] = "downtime" => "downtime" \notin cooling

\* A check on its own finds the row as it loaded it, but for a pause.
Alone(c) ==
    pc[c] \in Open /\ alone[c] =>
        /\ \A d \in Checkers \ {c} : pc[d] \notin Open
        /\ failures = loaded[c].failures
        /\ status \in {loaded[c].status, "paused", "pending"}

\* No count passes the number of failed checks.
Counted ==
    /\ failures <= failed /\ (status = "down" => failed >= Threshold)
    /\ \A c \in Checkers : /\ Alone(c)
                           /\ pc[c] \in Open => loaded[c].failures <= failed
                           /\ Flushed(c) /\ alert[c] = "downtime" => failed + 1 >= Threshold

\* Until something muddles it, at most one check has the row open, and the monitor
\* is still in the status which that check loaded.
Clear ==
    ~muddled => \A c \in Checkers : pc[c] \in Open =>
        /\ loaded[c].status = status
        /\ \A d \in Checkers \ {c} : pc[d] \notin Open

\* Only a check that found a failure, or was slow, alerts.
Cause == \A c \in Checkers : Flushed(c) /\ alert[c] # "none" => kind[c] # "ok"

\* A check that has left an incident open is about to say so in the status, or the
\* status says so already.
Told ==
    ~muddled /\ incident => \A c \in Checkers : pc[c] = "notified" =>
        /\ kind[c] # "ok"
        /\ alert[c] # "none" \/ status \in {"down", "degraded"}

-----------------------------------------------------------------------------
(* Types *)

\* What the operators of a check return.
LEMMA Results ==
    ASSUME TypeOK, NEW c \in Checkers
    PROVE  /\ NewFailures(c) \in 0..Threshold /\ NewStatus(c) \in {"up", "degraded", "down"}
           /\ AlertFor(c) \in Alerts \cup {"none"} /\ CutOff(failed + 1) \in 0..Threshold
           /\ NewStatus(c) = "down" => kind[c] \in Failing /\ NewFailures(c) >= Threshold
           /\ AlertFor(c) = "downtime" => kind[c] \in Failing /\ NewFailures(c) >= Threshold
           /\ kind[c] \notin Failing => NewFailures(c) = 0
           /\ kind[c] \in Failing => NewFailures(c) = CutOff(loaded[c].failures + 1)
           /\ loaded[c].failures \in 0..Threshold /\ loaded[c].status \in Status
  <1>1. loaded[c] \in [status : Status, failures : 0..Threshold] /\ failed \in 0..Threshold
    BY DEF TypeOK
  <1>2. loaded[c].failures \in 0..Threshold /\ loaded[c].status \in Status
    BY <1>1
  <1>3. CutOff(loaded[c].failures + 1) \in 0..Threshold /\ CutOff(failed + 1) \in 0..Threshold
    BY <1>1, <1>2, BoundAssumption DEF CutOff
  <1>4. NewFailures(c) \in 0..Threshold
    BY <1>3, BoundAssumption DEF NewFailures
  <1>5. NewStatus(c) \in {"up", "degraded", "down"}
    BY DEF NewStatus
  <1>6. NewStatus(c) = "down" => kind[c] \in Failing /\ NewFailures(c) >= Threshold
    <2>1. kind[c] \in {"ok", "slow", "bad", "lost", "unsafe"}
      BY KindsAssumption DEF TypeOK
    <2>2. QED
      BY <2>1 DEF NewStatus, Failing
  <1>7. AlertFor(c) \in Alerts \cup {"none"}
    BY DEF AlertFor, Alerts
  <1>8. AlertFor(c) = "downtime" => kind[c] \in Failing /\ NewFailures(c) >= Threshold
    BY DEF AlertFor, Failing
  <1>9. /\ kind[c] \notin Failing => NewFailures(c) = 0
        /\ kind[c] \in Failing => NewFailures(c) = CutOff(loaded[c].failures + 1)
    BY DEF NewFailures
  <1>10. QED
    BY <1>2, <1>3, <1>4, <1>5, <1>6, <1>7, <1>8, <1>9

\* Loading keeps the types.
LEMMA LoadTypes ==
    ASSUME TypeOK, NEW c \in Checkers, Load(c)
    PROVE  /\ pc' \in [Checkers -> PC] /\ alone' \in [Checkers -> BOOLEAN]
           /\ loaded' \in [Checkers -> [status : Status, failures : 0..Threshold]]
           /\ muddled' \in BOOLEAN
  <1>1. CASE enabled
    <2>1. /\ pc' = [pc EXCEPT ![c] = "probing"]
          /\ loaded' = [loaded EXCEPT ![c] = [status |-> status, failures |-> failures]]
          /\ alone' = [d \in Checkers |-> IF d = c THEN ~Overlaps(c)
                                          ELSE alone[d] /\ pc[d] \notin Open]
          /\ muddled' = (muddled \/ Overlaps(c))
      BY <1>1 DEF Load
    <2>2. pc' \in [Checkers -> PC]
      BY <2>1 DEF TypeOK, PC
    <2>3. [status |-> status, failures |-> failures] \in [status : Status, failures : 0..Threshold]
      BY DEF TypeOK
    <2>4. loaded' \in [Checkers -> [status : Status, failures : 0..Threshold]]
      BY <2>1, <2>3 DEF TypeOK
    <2>5. alone' \in [Checkers -> BOOLEAN] /\ muddled' \in BOOLEAN
      BY <2>1, Zenon DEF TypeOK, Overlaps
    <2>6. QED
      BY <2>2, <2>4, <2>5
  <1>2. CASE ~enabled
    BY <1>2 DEF Load, TypeOK, PC
  <1>3. QED
    BY <1>1, <1>2

\* Forgetting a session keeps the types.
LEMMA ForgetTypes ==
    ASSUME TypeOK, NEW c \in Checkers, Forget(c)
    PROVE  /\ loaded' \in [Checkers -> [status : Status, failures : 0..Threshold]]
           /\ kind' \in [Checkers -> Kinds \cup {"ok"}]
           /\ alert' \in [Checkers -> Alerts \cup {"none"}]
           /\ alone' \in [Checkers -> BOOLEAN]
  <1>1. NoRow \in [status : Status, failures : 0..Threshold]
    BY BoundAssumption DEF NoRow, Status
  <1>2. QED
    BY <1>1 DEF Forget, TypeOK

\* What a pause or a resume writes.
Writes(u) == Pause(u) \/ Resume(u)
Asks(u)   == \E op \in {"pause", "resume"} : Ask(u, op)

LEMMA WriteSteps ==
    ASSUME TypeOK, NEW u \in Users, Writes(u)
    PROVE  /\ enabled' \in BOOLEAN /\ status' \in {status, "paused", "pending"}
           /\ asked' \in [Users -> Asked]
           /\ muddled' = (muddled \/ (status' # status
                                      /\ (incident \/ \E c \in Checkers : pc[c] \in Open)))
           /\ UNCHANGED <<failures, due, rowlock, window, cooling, queue, lock, pc, loaded, kind,
                          alert, incident, burst, undone, failed, alone, overstays, rounds,
                          manual, changes, faults>>
  <1>1. PICK op \in {"pause", "resume"}, e \in BOOLEAN, t \in {"paused", "pending"} :
             Update(u, op, e, t)
    BY DEF Writes, Pause, Resume
  <1>2. Nothing \in Asked
    BY DEF Nothing, Asked
  <1>3. enabled' \in BOOLEAN
    BY <1>1, Zenon DEF Update, TypeOK
  <1>4. muddled' = (muddled \/ (status' # status
                                /\ (incident \/ \E c \in Checkers : pc[c] \in Open)))
    BY <1>1, Zenon DEF Update
  <1>5. QED
    BY <1>1, <1>2, <1>3, <1>4 DEF Update, TypeOK, local, bounds

\* Every step keeps the types.
LEMMA TypeStep ==
    ASSUME TypeOK, [Next]_vars
    PROVE  TypeOK'
  <1> USE DEF row, local, user, history, bounds
  <1>1. CASE Dispatch
    BY <1>1 DEF Dispatch, TypeOK
  <1>2. CASE Expire
    BY <1>2 DEF Expire, TypeOK
  <1>3. CASE Elapse
    BY <1>3 DEF Elapse, TypeOK
  <1>4. CASE WindowChanges
    BY <1>4 DEF WindowChanges, Change, TypeOK
  <1>5. ASSUME NEW u \in Users, Asks(u) PROVE TypeOK'
    <2>1. PICK op \in {"pause", "resume"} : Ask(u, op)
      BY <1>5 DEF Asks
    <2>2. [op |-> op, columns |-> Differing(op)] \in Asked
      BY DEF Asked, Differing
    <2>3. QED
      BY <2>1, <2>2 DEF Ask, Change, TypeOK
  <1>6. ASSUME NEW u \in Users, Writes(u) PROVE TypeOK'
    <2>1. muddled' \in BOOLEAN
      BY <1>6, WriteSteps, Zenon
    <2>2. status' \in Status
      BY <1>6, WriteSteps DEF TypeOK, Status
    <2>3. QED
      BY <1>6, <2>1, <2>2, WriteSteps DEF TypeOK
  <1>7. ASSUME NEW w \in Workers, Take(w) PROVE TypeOK'
    <2>1. w \in Checkers
      BY DEF Checkers
    <2>2. /\ queue' \in Nat /\ lock' \in Workers \cup {Free, "orphan"}
          /\ UNCHANGED <<enabled, status, failures, due, rowlock, user, cooling, kind, alert,
                         incident, burst, undone, failed, overstays, rounds, manual, changes,
                         faults>>
      BY <1>7 DEF Take, TypeOK
    <2>3. Load(w) \/ UNCHANGED <<pc, loaded, alone, muddled>>
      BY <1>7 DEF Take
    <2>4. /\ pc' \in [Checkers -> PC] /\ alone' \in [Checkers -> BOOLEAN]
          /\ loaded' \in [Checkers -> [status : Status, failures : 0..Threshold]]
          /\ muddled' \in BOOLEAN
      BY <2>1, <2>3, LoadTypes DEF TypeOK
    <2>5. QED
      BY <2>2, <2>4 DEF TypeOK
  <1>8. ASSUME NEW r \in Requests, Manual(r) PROVE TypeOK'
    <2>1. r \in Checkers /\ Load(r)
      BY <1>8 DEF Checkers, Manual
    <2>2. /\ manual' \in Nat
          /\ UNCHANGED <<enabled, status, failures, due, rowlock, user, cooling, queue, lock,
                         kind, alert, incident, burst, undone, failed, overstays, rounds,
                         changes, faults>>
      BY <1>8 DEF Manual, TypeOK
    <2>3. /\ pc' \in [Checkers -> PC] /\ alone' \in [Checkers -> BOOLEAN]
          /\ loaded' \in [Checkers -> [status : Status, failures : 0..Threshold]]
          /\ muddled' \in BOOLEAN
      BY <2>1, LoadTypes
    <2>4. QED
      BY <2>2, <2>3 DEF TypeOK
  <1>9. ASSUME NEW c \in Checkers, Close(c) PROVE TypeOK'
    BY <1>9 DEF Close, TypeOK, PC
  <1>10. ASSUME NEW c \in Checkers, NEW k \in Kinds, Probe(c, k) PROVE TypeOK'
    <2>1. /\ pc' \in [Checkers -> PC]
          /\ UNCHANGED <<enabled, status, failures, due, rowlock, user, cooling, queue, lock,
                         incident, burst, undone, failed, muddled, overstays, rounds, manual,
                         changes, faults>>
      BY <1>10 DEF Probe, TypeOK, PC
    <2>2. \/ kind' = [kind EXCEPT ![c] = k] /\ UNCHANGED <<loaded, alert, alone>>
          \/ Forget(c)
      BY <1>10 DEF Probe
    <2>3. /\ loaded' \in [Checkers -> [status : Status, failures : 0..Threshold]]
          /\ kind' \in [Checkers -> Kinds \cup {"ok"}]
          /\ alert' \in [Checkers -> Alerts \cup {"none"}]
          /\ alone' \in [Checkers -> BOOLEAN]
      BY <2>2, ForgetTypes DEF TypeOK
    <2>4. QED
      BY <2>1, <2>3 DEF TypeOK
  <1>11. ASSUME NEW c \in Checkers, Settle(c) PROVE TypeOK'
    BY <1>11, Results DEF Settle, TypeOK, PC
  <1>12. ASSUME NEW c \in Checkers, Notify(c) PROVE TypeOK'
    <2>1. incident' \in BOOLEAN /\ muddled' \in BOOLEAN
      BY <1>12, Zenon DEF Notify, TypeOK
    <2>2. burst' \in Nat /\ pc' \in [Checkers -> PC]
      BY <1>12 DEF Notify, TypeOK, PC
    <2>3. QED
      BY <1>12, <2>1, <2>2 DEF Notify, TypeOK
  <1>13. ASSUME NEW c \in Checkers, Commit(c) PROVE TypeOK'
    <2>1. /\ loaded' \in [Checkers -> [status : Status, failures : 0..Threshold]]
          /\ kind' \in [Checkers -> Kinds \cup {"ok"}]
          /\ alert' \in [Checkers -> Alerts \cup {"none"}]
          /\ alone' \in [Checkers -> BOOLEAN]
      BY <1>13, ForgetTypes DEF Commit
    <2>2. status' \in Status /\ failures' \in 0..Threshold /\ failed' \in 0..Threshold
      BY <1>13, Results, BoundAssumption DEF Commit, TypeOK, Status
    <2>3. muddled' \in BOOLEAN
      BY <1>13, Zenon DEF Commit
    <2>4. alert[c] \in Alerts \cup {"none"}
      BY DEF TypeOK
    <2>5. cooling' \subseteq Alerts
      BY <1>13, <2>4 DEF Commit, TypeOK
    <2>6. pc' \in [Checkers -> PC] /\ rowlock' \in Checkers \cup {Free} /\ due' \in BOOLEAN
      BY <1>13 DEF Commit, TypeOK, PC
    <2>7. QED
      BY <1>13, <2>1, <2>2, <2>3, <2>5, <2>6 DEF Commit, TypeOK
  <1>14. ASSUME NEW c \in Checkers, Fail(c) \/ (c \in Workers /\ Crash(c)) PROVE TypeOK'
    <2>1. RollBack(c)
      BY <1>14 DEF Fail, Crash
    <2>2. /\ loaded' \in [Checkers -> [status : Status, failures : 0..Threshold]]
          /\ kind' \in [Checkers -> Kinds \cup {"ok"}]
          /\ alert' \in [Checkers -> Alerts \cup {"none"}]
          /\ alone' \in [Checkers -> BOOLEAN]
      BY <2>1, ForgetTypes DEF RollBack
    <2>3. /\ rowlock' \in Checkers \cup {Free} /\ undone' \in Nat /\ faults' \in Nat
          /\ UNCHANGED <<enabled, status, failures, due, user, cooling, incident, burst,
                         failed, overstays, rounds, manual, changes>>
      BY <2>1 DEF RollBack, TypeOK
    <2>4. muddled' \in BOOLEAN
      BY <2>1, Zenon DEF RollBack, TypeOK
    <2>5. pc' \in [Checkers -> PC] /\ lock' \in Workers \cup {Free, "orphan"} /\ queue' \in Nat
      BY <1>14 DEF Fail, Crash, TypeOK, PC
    <2>6. QED
      BY <2>2, <2>3, <2>4, <2>5 DEF TypeOK
  <1>15. ASSUME NEW t \in Alerts, CoolDown(t) PROVE TypeOK'
    BY <1>15 DEF CoolDown, TypeOK
  <1>16. CASE UNCHANGED vars
    BY <1>16 DEF vars, TypeOK
  <1>17. \A w \in Workers : w \in Checkers
    BY DEF Checkers
  <1>18. QED
    BY <1>1, <1>2, <1>3, <1>4, <1>5, <1>6, <1>7, <1>8, <1>9, <1>10, <1>11, <1>12, <1>13, <1>14,
       <1>15, <1>16, <1>17
       DEF Next, CheckerStep, Asks, Writes

-----------------------------------------------------------------------------
(* The Redis lock *)

\* One worker fewer, or one more.
LEMMA RunningChanges ==
    ASSUME NEW w \in Workers, TypeOK
    PROVE  /\ IsFiniteSet(Running) /\ Cardinality(Running) \in Nat
           /\ pc[w] = "idle" => IsFiniteSet(Running \cup {w})
                                /\ Cardinality(Running \cup {w}) = Cardinality(Running) + 1
           /\ pc[w] # "idle" => Cardinality(Running \ {w}) = Cardinality(Running) - 1
  <1>1. IsFiniteSet(Running)
    BY CheckersAssumption, FS_Subset DEF Running
  <1>2. w \in Running <=> pc[w] # "idle"
    BY DEF Running
  <1>3. Cardinality(Running) \in Nat
    BY <1>1, FS_CardinalityType
  <1>4. pc[w] = "idle" => IsFiniteSet(Running \cup {w})
                          /\ Cardinality(Running \cup {w}) = Cardinality(Running) + 1
    BY <1>1, <1>2, FS_AddElement
  <1>5. pc[w] # "idle" => Cardinality(Running \ {w}) = Cardinality(Running) - 1
    BY <1>1, <1>2, FS_RemoveElement
  <1>6. QED
    BY <1>1, <1>3, <1>4, <1>5

\* Every step keeps the bound on overlapping checks.
LEMMA OverlapStep ==
    ASSUME TypeOK, OverlapBounded, [Next]_vars
    PROVE  OverlapBounded'
  <1> USE DEF row, local, user, history, bounds
  <1> DEFINE Kept == Running' = Running /\ UNCHANGED <<lock, overstays>>
  <1>0. Kept => OverlapBounded'
    BY DEF OverlapBounded
  <1>1. CASE Dispatch \/ Elapse \/ WindowChanges \/ UNCHANGED vars
    BY <1>0, <1>1 DEF Dispatch, Elapse, WindowChanges, Change, vars, Running
  <1>2. ASSUME NEW u \in Users, Writes(u) \/ Asks(u) PROVE OverlapBounded'
    BY <1>0, <1>2, WriteSteps DEF Asks, Ask, Running
  <1>3. ASSUME NEW t \in Alerts, CoolDown(t) PROVE OverlapBounded'
    BY <1>0, <1>3 DEF CoolDown, Running
  <1>4. CASE Expire
    <2>1. Running' = Running /\ lock' = Free
      BY <1>4 DEF Expire, Running
    <2>2. \/ lock \in Workers /\ overstays' = overstays + 1
          \/ lock = "orphan" /\ overstays' = overstays
      BY <1>4, Zenon DEF Expire
    <2>3. IsFiniteSet(Running)
      BY CheckersAssumption, FS_Subset DEF Running
    <2>4. Cardinality(Running) \in Nat /\ overstays \in Nat
      BY <2>3, FS_CardinalityType DEF TypeOK
    <2>5. Free \notin Workers /\ "orphan" \notin Workers
      BY CheckersAssumption DEF Checkers
    <2>6. QED
      BY <2>1, <2>2, <2>4, <2>5 DEF OverlapBounded
  <1>5. ASSUME NEW w \in Workers, Take(w) PROVE OverlapBounded'
    <2>1. CASE lock # Free
      BY <1>0, <1>5, <2>1 DEF Take, Running
    <2>2. CASE lock = Free
      <3>1. pc[w] = "idle" /\ lock' = w /\ UNCHANGED overstays
        BY <1>5, <2>2 DEF Take
      <3>2. \E p \in {"probing", "closing"} : pc' = [pc EXCEPT ![w] = p]
        BY <1>5, <2>2 DEF Take, Load
      <3>3. Running' = Running \cup {w}
        BY <3>1, <3>2 DEF TypeOK, Running, Checkers
      <3>4. Cardinality(Running') = Cardinality(Running) + 1 /\ Cardinality(Running) \in Nat
        BY <3>1, <3>3, RunningChanges
      <3>5. Free \notin Workers /\ overstays \in Nat
        BY CheckersAssumption DEF Checkers, TypeOK
      <3>6. QED
        BY <2>2, <3>1, <3>4, <3>5 DEF OverlapBounded
    <2>3. QED
      BY <2>1, <2>2
  <1>6. ASSUME NEW r \in Requests, Manual(r) PROVE OverlapBounded'
    <2>1. r \notin Workers /\ UNCHANGED <<lock, overstays>>
      BY <1>6, CheckersAssumption DEF Manual
    <2>2. \E p \in {"probing", "closing"} : pc' = [pc EXCEPT ![r] = p]
      BY <1>6 DEF Manual, Load
    <2>3. Running' = Running
      BY <2>1, <2>2 DEF TypeOK, Running, Checkers
    <2>4. QED
      BY <1>0, <2>1, <2>3
  <1>7. ASSUME NEW c \in Checkers, Close(c) PROVE OverlapBounded'
    <2>1. pc[c] # "idle" /\ pc' = [pc EXCEPT ![c] = "idle"] /\ UNCHANGED overstays
      BY <1>7 DEF Close
    <2>2. CASE c \in Workers
      <3>1. lock' = Free
        BY <1>7, <2>2 DEF Close
      <3>2. Running' = Running \ {c}
        BY <2>1, <2>2 DEF TypeOK, Running, Checkers
      <3>3. Cardinality(Running') = Cardinality(Running) - 1 /\ Cardinality(Running) \in Nat
        BY <2>1, <2>2, <3>2, RunningChanges
      <3>4. overstays \in Nat
        BY DEF TypeOK
      <3>5. QED
        BY <2>1, <3>1, <3>3, <3>4 DEF OverlapBounded
    <2>3. CASE c \notin Workers
      <3>1. UNCHANGED lock
        BY <1>7, <2>3 DEF Close
      <3>2. Running' = Running
        BY <2>1, <2>3 DEF TypeOK, Running, Checkers
      <3>3. QED
        BY <1>0, <2>1, <3>1, <3>2
    <2>4. QED
      BY <2>2, <2>3
  <1>8. ASSUME NEW w \in Workers, Crash(w) PROVE OverlapBounded'
    <2>1. /\ pc[w] # "idle" /\ pc' = [pc EXCEPT ![w] = "idle"] /\ UNCHANGED overstays
          /\ lock' = IF lock = w THEN "orphan" ELSE lock
      BY <1>8 DEF Crash, RollBack
    <2>2. Running' = Running \ {w}
      BY <2>1 DEF TypeOK, Running, Checkers
    <2>3. Cardinality(Running') = Cardinality(Running) - 1 /\ Cardinality(Running) \in Nat
      BY <2>1, <2>2, RunningChanges
    <2>4. overstays \in Nat
      BY DEF TypeOK
    <2>5. QED
      BY <2>1, <2>3, <2>4 DEF OverlapBounded
  <1>9. ASSUME NEW c \in Checkers,
               Settle(c) \/ Notify(c) \/ Commit(c) \/ Fail(c) \/ \E k \in Kinds : Probe(c, k)
        PROVE  OverlapBounded'
    <2>1. UNCHANGED <<lock, overstays>>
      BY <1>9 DEF Settle, Notify, Commit, Fail, Probe, RollBack
    <2>2. \E p \in PC \ {"idle"} : pc' = [pc EXCEPT ![c] = p]
      BY <1>9 DEF Settle, Notify, Commit, Fail, Probe, PC
    <2>3. pc[c] # "idle"
      BY <1>9 DEF Settle, Notify, Commit, Fail, Probe, Open
    <2>4. Running' = Running
      BY <2>2, <2>3 DEF TypeOK, Running, Checkers
    <2>5. QED
      BY <1>0, <2>1, <2>4
  <1>10. QED
    BY <1>1, <1>2, <1>3, <1>4, <1>5, <1>6, <1>7, <1>8, <1>9
       DEF Next, CheckerStep, Asks, Writes

-----------------------------------------------------------------------------
(* The row lock and the cooldown *)

\* A check goes to a place before its flush or after its transaction, and lets go
\* of no row lock but its own.
Leaves(c) ==
    /\ \E p \in PC \ {"settled", "notified"} : pc' = [pc EXCEPT ![c] = p]
    /\ rowlock' = rowlock \/ rowlock = c

\* A step of a check that has not flushed, and will not by it: it leaves alone
\* what the cooldown and other checks depend on.
Quiet(c) ==
    /\ ~Flushed(c) /\ Leaves(c)
    /\ UNCHANGED <<status, failures, burst, undone, cooling, failed>>
    /\ \A d \in Checkers \ {c} : alert'[d] = alert[d] /\ loaded'[d] = loaded[d]
                                 /\ kind'[d] = kind[d]

\* Taking a message, a manual check, a probe and the deletion of the lock are
\* quiet.
LEMMA QuietSteps ==
    ASSUME TypeOK, NEW c \in Checkers,
           \/ c \in Workers /\ Take(c) /\ lock = Free
           \/ Manual(c) \/ Close(c) \/ \E k \in Kinds : Probe(c, k)
    PROVE  Quiet(c)
  <1> USE DEF row, local, user, history, bounds
  <1>1. CASE c \in Workers /\ Take(c) /\ lock = Free
    <2>1. /\ pc[c] = "idle" /\ Load(c)
          /\ UNCHANGED <<status, failures, burst, undone, cooling, failed, rowlock, alert, kind>>
      BY <1>1 DEF Take
    <2>2. /\ \E p \in PC \ {"settled", "notified"} : pc' = [pc EXCEPT ![c] = p]
          /\ \A d \in Checkers \ {c} : loaded'[d] = loaded[d]
      BY <2>1 DEF Load, PC, TypeOK
    <2>3. QED
      BY <2>1, <2>2 DEF Quiet, Leaves, Flushed
  <1>2. CASE Manual(c)
    <2>1. /\ pc[c] = "idle" /\ Load(c)
          /\ UNCHANGED <<status, failures, burst, undone, cooling, failed, rowlock, alert, kind>>
      BY <1>2 DEF Manual
    <2>2. /\ \E p \in PC \ {"settled", "notified"} : pc' = [pc EXCEPT ![c] = p]
          /\ \A d \in Checkers \ {c} : loaded'[d] = loaded[d]
      BY <2>1 DEF Load, PC, TypeOK
    <2>3. QED
      BY <2>1, <2>2 DEF Quiet, Leaves, Flushed
  <1>3. CASE Close(c)
    BY <1>3 DEF Close, Quiet, Leaves, Flushed, PC
  <1>4. ASSUME NEW k \in Kinds, Probe(c, k) PROVE Quiet(c)
    <2>1. /\ pc[c] = "probing"
          /\ UNCHANGED <<status, failures, burst, undone, cooling, failed, rowlock>>
          /\ \E p \in PC \ {"settled", "notified"} : pc' = [pc EXCEPT ![c] = p]
      BY <1>4 DEF Probe, PC
    <2>2. UNCHANGED <<loaded, alert>> \/ Forget(c)
      BY <1>4 DEF Probe
    <2>3. kind' = [kind EXCEPT ![c] = "ok"] \/ kind' = [kind EXCEPT ![c] = k]
      BY <1>4 DEF Probe, Forget
    <2>4. \A d \in Checkers \ {c} : kind'[d] = kind[d]
      BY <2>3 DEF TypeOK
    <2>5. \A d \in Checkers \ {c} : alert'[d] = alert[d] /\ loaded'[d] = loaded[d]
      BY <2>2 DEF Forget, TypeOK
    <2>6. QED
      BY <2>1, <2>4, <2>5 DEF Quiet, Leaves, Flushed
  <1>5. QED
    BY <1>1, <1>2, <1>3, <1>4

\* A transaction that ends, by commit, exception or lost worker.
LEMMA EndSteps ==
    ASSUME TypeOK, RowHeld, NEW c \in Checkers,
           Commit(c) \/ Fail(c) \/ (c \in Workers /\ Crash(c))
    PROVE  Leaves(c) /\ Forget(c)
  <1>1. CASE Commit(c)
    <2>1. Flushed(c)
      BY <1>1 DEF Commit, Flushed
    <2>2. QED
      BY <1>1, <2>1 DEF Commit, Leaves, RowHeld, PC
  <1>2. CASE Fail(c) \/ (c \in Workers /\ Crash(c))
    BY <1>2 DEF Fail, Crash, RollBack, Leaves, PC
  <1>3. QED
    BY <1>1, <1>2

\* The steps of which no check's place, alert and copy of the row are part.
Aside ==
    \/ Dispatch \/ Expire \/ Elapse \/ WindowChanges \/ UNCHANGED vars
    \/ \E u \in Users : Writes(u) \/ Asks(u)

\* Every step is one of these.
LEMMA StepKinds ==
    ASSUME [Next]_vars
    PROVE  \/ Aside \/ \E t \in Alerts : CoolDown(t)
           \/ \E c \in Checkers :
                \/ c \in Workers /\ Take(c) /\ lock # Free
                \/ c \in Workers /\ Take(c) /\ lock = Free
                \/ Manual(c) \/ Close(c) \/ \E k \in Kinds : Probe(c, k)
                \/ Settle(c) \/ Notify(c)
                \/ Commit(c) \/ Fail(c) \/ (c \in Workers /\ Crash(c))
  BY DEF Next, CheckerStep, Aside, Writes, Asks, Checkers

\* What a step aside leaves alone.
LEMMA AsideKeeps ==
    ASSUME TypeOK, Aside \/ \E w \in Workers : Take(w) /\ lock # Free
    PROVE  /\ UNCHANGED <<pc, rowlock, alert, loaded, kind, alone, burst, undone, cooling,
                          failures, failed, incident>>
           /\ \/ UNCHANGED <<status, muddled>>
              \/ /\ status' \in {status, "paused", "pending"}
                 /\ muddled' = (muddled \/ (status' # status
                        /\ (incident \/ \E c \in Checkers : pc[c] \in Open)))
  <1>1. ASSUME NEW u \in Users, Asks(u)
        PROVE  UNCHANGED <<pc, rowlock, alert, loaded, kind, alone, burst, undone, cooling,
                           failures, failed, incident, status, muddled>>
    BY <1>1 DEF Asks, Ask, row, local, history
  <1>2. CASE \/ Dispatch \/ Expire \/ Elapse \/ WindowChanges \/ UNCHANGED vars
             \/ \E w \in Workers : Take(w) /\ lock # Free
    BY <1>2 DEF Dispatch, Expire, Elapse, WindowChanges, Change, Take,
                vars, row, local, user, history, bounds
  <1>3. QED
    BY <1>1, <1>2, WriteSteps DEF Aside

\* A session between its flush and its commit goes on holding the row lock.
LEMMA RowStep ==
    ASSUME TypeOK, RowHeld, [Next]_vars
    PROVE  RowHeld'
  <1>1. ASSUME NEW c \in Checkers, Leaves(c) PROVE RowHeld'
    BY <1>1 DEF Leaves, RowHeld, Flushed, TypeOK
  <1>2. CASE Aside \/ \E w \in Workers : Take(w) /\ lock # Free
    BY <1>2, AsideKeeps DEF RowHeld, Flushed
  <1>3. ASSUME NEW t \in Alerts, CoolDown(t) PROVE RowHeld'
    BY <1>3 DEF CoolDown, RowHeld, Flushed
  <1>4. ASSUME NEW c \in Checkers, Settle(c) PROVE RowHeld'
    BY <1>4, CheckersAssumption DEF Settle, RowHeld, Flushed, TypeOK
  <1>5. ASSUME NEW c \in Checkers, Notify(c) PROVE RowHeld'
    BY <1>5 DEF Notify, RowHeld, Flushed, TypeOK
  <1>6. ASSUME NEW c \in Checkers, Quiet(c) PROVE RowHeld'
    BY <1>1, <1>6 DEF Quiet
  <1>7. QED
    BY <1>1, <1>2, <1>3, <1>4, <1>5, <1>6, StepKinds, QuietSteps, EndSteps

\* One transaction sends an alert at a time, so that the cooldown is broken only by
\* a rollback.
LEMMA CoolStep ==
    ASSUME TypeOK, RowHeld, Cooling, [Next]_vars
    PROVE  Cooling'
  <1> USE DEF local, history
  <1>0. burst \in Nat /\ undone \in Nat
    BY DEF TypeOK
  <1>1. CASE Aside \/ \E w \in Workers : Take(w) /\ lock # Free
    BY <1>1, AsideKeeps DEF Cooling, Flushed, Sent
  <1>2. ASSUME NEW t \in Alerts, CoolDown(t) PROVE Cooling'
    <2>1. UNCHANGED <<pc, alert>> /\ cooling' = cooling \ {t}
      BY <1>2 DEF CoolDown
    <2>2. \A c \in Checkers : Flushed(c)' /\ alert'[c] = "downtime" => "downtime" \notin cooling'
      BY <2>1 DEF Cooling, Flushed
    <2>3. CASE t = "downtime"
      BY <1>2, <2>2, <2>3 DEF CoolDown, Cooling
    <2>4. CASE t # "downtime"
      <3>1. UNCHANGED <<burst, undone>> /\ ("downtime" \in cooling' <=> "downtime" \in cooling)
        BY <1>2, <2>1, <2>4 DEF CoolDown
      <3>2. QED
        BY <2>1, <2>2, <3>1 DEF Cooling, Sent
    <2>5. QED
      BY <2>3, <2>4
  <1>3. ASSUME NEW c \in Checkers, Quiet(c) PROVE Cooling'
    <2>1. \A d \in Checkers : (Flushed(d)' <=> Flushed(d)) /\ (Flushed(d) => alert'[d] = alert[d]
                                                             /\ pc'[d] = pc[d])
      BY <1>3 DEF Quiet, Leaves, Flushed, TypeOK
    <2>2. \A d \in Checkers : Sent(d)' <=> Sent(d)
      BY <2>1 DEF Sent, Flushed
    <2>3. UNCHANGED <<burst, undone, cooling>>
      BY <1>3 DEF Quiet
    <2>4. QED
      BY <2>1, <2>2, <2>3 DEF Cooling
  <1>4. ASSUME NEW c \in Checkers, Settle(c) PROVE Cooling'
    <2>1. \A d \in Checkers : ~Flushed(d)
      BY <1>4, CheckersAssumption DEF Settle, RowHeld, Flushed
    <2>2. /\ UNCHANGED <<burst, undone, cooling>> /\ pc' = [pc EXCEPT ![c] = "settled"]
          /\ alert' = [alert EXCEPT ![c] = IF "alerts" \in window \/ AlertFor(c) \in cooling THEN "none"
                                           ELSE AlertFor(c)]
      BY <1>4 DEF Settle
    <2>3. \A d \in Checkers : Flushed(d)' => d = c
      BY <2>1, <2>2 DEF Flushed, TypeOK
    <2>4. alert'[c] = "downtime" => "downtime" \notin cooling
      BY <2>2 DEF TypeOK
    <2>5. \A d \in Checkers : ~Sent(d) /\ ~Sent(d)'
      BY <2>1, <2>2, <2>3 DEF Sent, Flushed, TypeOK
    <2>6. QED
      BY <2>2, <2>3, <2>4, <2>5 DEF Cooling
  <1>5. ASSUME NEW c \in Checkers, Notify(c) PROVE Cooling'
    <2>1. /\ pc[c] = "settled" /\ pc' = [pc EXCEPT ![c] = "notified"]
          /\ burst' = IF alert[c] = "downtime" THEN burst + 1 ELSE burst
          /\ UNCHANGED <<undone, cooling, alert>>
      BY <1>5 DEF Notify
    <2>2. \A d \in Checkers : Flushed(d) => d = c
      BY <2>1 DEF RowHeld, Flushed
    <2>3. \A d \in Checkers : Flushed(d)' => d = c
      BY <2>1, <2>2 DEF Flushed, TypeOK
    <2>4. \A d \in Checkers : ~Sent(d)
      BY <2>1, <2>2 DEF Sent, Flushed
    <2>5. alert[c] = "downtime" => "downtime" \notin cooling /\ Sent(c)'
      BY <2>1 DEF Cooling, Flushed, Sent, TypeOK
    <2>6. \A d \in Checkers : Flushed(d)' /\ alert'[d] = "downtime" => "downtime" \notin cooling'
      BY <2>1, <2>3, <2>5
    <2>7. burst' <= undone' + (IF "downtime" \in cooling' \/ \E d \in Checkers : Sent(d)'
                               THEN 1 ELSE 0)
      BY <1>0, <2>1, <2>4, <2>5 DEF Cooling
    <2>8. QED
      BY <2>6, <2>7 DEF Cooling
  <1>6. ASSUME NEW c \in Checkers, Commit(c) PROVE Cooling'
    <2>1. /\ pc[c] = "notified" /\ pc' = [pc EXCEPT ![c] = "closing"]
          /\ cooling' = cooling \cup ({alert[c]} \ {"none"}) /\ UNCHANGED <<burst, undone>>
      BY <1>6 DEF Commit
    <2>2. \A d \in Checkers : ~Flushed(d)' /\ (Sent(d) => d = c)
      BY <2>1 DEF RowHeld, Flushed, Sent, TypeOK
    <2>3. ("downtime" \in cooling \/ \E d \in Checkers : Sent(d)) => "downtime" \in cooling'
      BY <2>1, <2>2 DEF Sent
    <2>4. QED
      BY <1>0, <2>1, <2>2, <2>3 DEF Cooling
  <1>7. ASSUME NEW c \in Checkers, Fail(c) \/ (c \in Workers /\ Crash(c)) PROVE Cooling'
    <2>1. RollBack(c) /\ Leaves(c) /\ Forget(c)
      BY <1>7, EndSteps DEF Fail, Crash
    <2>2. /\ UNCHANGED <<burst, cooling>>
          /\ undone' = IF pc[c] = "notified" /\ alert[c] = "downtime" THEN undone + 1 ELSE undone
      BY <2>1 DEF RollBack
    <2>3. /\ ~Flushed(c)'
          /\ \A d \in Checkers \ {c} : pc'[d] = pc[d] /\ alert'[d] = alert[d]
      BY <2>1 DEF Leaves, Forget, Flushed, TypeOK
    <2>4. \A d \in Checkers : Flushed(d)' /\ alert'[d] = "downtime" => "downtime" \notin cooling'
      BY <2>2, <2>3 DEF Cooling, Flushed
    <2>5. CASE Sent(c)
      <3>1. undone' = undone + 1
        BY <2>2, <2>5 DEF Sent
      <3>2. QED
        BY <1>0, <2>2, <2>4, <3>1 DEF Cooling
    <2>6. CASE ~Sent(c)
      <3>1. undone' = undone
        BY <2>2, <2>6 DEF Sent
      <3>2. \A d \in Checkers : Sent(d) <=> Sent(d)'
        BY <2>3, <2>6 DEF Sent, Flushed
      <3>3. QED
        BY <2>2, <2>4, <3>1, <3>2 DEF Cooling
    <2>7. QED
      BY <2>5, <2>6
  <1>8. QED
    BY <1>1, <1>2, <1>3, <1>4, <1>5, <1>6, <1>7, StepKinds, QuietSteps

-----------------------------------------------------------------------------
(* The count of failures *)

\* What CutOff does to the numbers it is used on.
LEMMA CutOffOrders ==
    ASSUME NEW m \in 0..Threshold, NEW n \in 0..Threshold, m <= n
    PROVE  /\ CutOff(m + 1) \in 0..Threshold /\ CutOff(m + 1) <= CutOff(n + 1)
           /\ n <= CutOff(n + 1)
           /\ n >= Threshold => CutOff(n + 1) >= Threshold
           /\ CutOff(m + 1) >= Threshold => n + 1 >= Threshold /\ CutOff(n + 1) >= Threshold
  BY BoundAssumption DEF CutOff

\* A larger count reaches what a smaller one does.
LEMMA Larger ==
    ASSUME NEW m \in Nat, NEW n \in Nat, NEW t \in Nat, m <= n
    PROVE  m + 1 >= t => n + 1 >= t
  OBVIOUS

\* A step after which every open session is one that was open before, with the
\* row it had loaded, keeps the count, when the row and the count stay.
LEMMA CountKept ==
    ASSUME TypeOK, Counted, UNCHANGED <<failures, failed>>,
           status' \in {status, "paused", "pending"},
           \A c \in Checkers : Flushed(c)' => Flushed(c) /\ alert'[c] = alert[c],
           \A c \in Checkers : pc'[c] \in Open =>
               pc[c] \in Open /\ loaded'[c] = loaded[c] /\ (alone'[c] => alone[c])
    PROVE  Counted'
  <1>1. failures' <= failed' /\ (status' = "down" => failed' >= Threshold)
    BY DEF Counted
  <1>2. ASSUME NEW c \in Checkers, pc'[c] \in Open
        PROVE  Alone(c)' /\ loaded'[c].failures <= failed'
    <2>1. Alone(c) /\ loaded[c].failures <= failed /\ pc[c] \in Open
      BY <1>2 DEF Counted
    <2>2. loaded'[c] = loaded[c] /\ (alone'[c] => alone[c])
      BY <1>2
    <2>3. loaded'[c].failures <= failed'
      BY <2>1, <2>2
    <2>4. ASSUME alone'[c] PROVE Alone(c)'
      <3>1. alone[c]
        BY <2>2, <2>4
      <3>2. \A d \in Checkers \ {c} : pc[d] \notin Open
        BY <2>1, <3>1 DEF Alone
      <3>3. \A d \in Checkers \ {c} : pc'[d] \notin Open
        BY <3>2
      <3>4. failures = loaded[c].failures /\ status \in {loaded[c].status, "paused", "pending"}
        BY <2>1, <3>1 DEF Alone
      <3>5. QED
        BY <2>2, <3>3, <3>4 DEF Alone
    <2>5. QED
      BY <2>3, <2>4 DEF Alone
  <1>3. ASSUME NEW c \in Checkers, Flushed(c)', alert'[c] = "downtime"
        PROVE  failed' + 1 >= Threshold
    BY <1>3 DEF Counted
  <1>4. ASSUME NEW c \in Checkers PROVE Alone(c)'
    BY <1>2, <1>4 DEF Alone
  <1>5. QED
    BY <1>1, <1>2, <1>3, <1>4 DEF Counted

\* A check that begins knows the row as it is, and ends the solitude of others.
LEMMA LoadCounts ==
    ASSUME TypeOK, Counted, NEW c \in Checkers, pc[c] = "idle", Load(c),
           UNCHANGED <<status, failures, failed, alert>>
    PROVE  Counted'
  <1>1. CASE ~enabled
    <2>1. pc' = [pc EXCEPT ![c] = "closing"] /\ UNCHANGED <<loaded, alone>>
      BY <1>1 DEF Load
    <2>2. \A d \in Checkers : /\ Flushed(d)' => Flushed(d)
                              /\ pc'[d] \in Open => pc[d] \in Open
      BY <2>1 DEF Flushed, Open, TypeOK
    <2>3. QED
      BY <2>1, <2>2, CountKept
  <1>2. CASE enabled
    <2>1. /\ pc' = [pc EXCEPT ![c] = "probing"]
          /\ loaded' = [loaded EXCEPT ![c] = [status |-> status, failures |-> failures]]
          /\ alone' = [d \in Checkers |-> IF d = c THEN ~Overlaps(c)
                                          ELSE alone[d] /\ pc[d] \notin Open]
      BY <1>2 DEF Load
    <2>2. \A d \in Checkers \ {c} : pc'[d] = pc[d] /\ loaded'[d] = loaded[d]
                                   /\ (alone'[d] => pc[d] \notin Open)
      BY <2>1 DEF TypeOK
    <2>3. loaded'[c] = [status |-> status, failures |-> failures]
      BY <2>1 DEF TypeOK
    <2>4. alone'[c] => \A d \in Checkers \ {c} : pc'[d] \notin Open
      BY <2>1, <2>2 DEF Overlaps
    <2>5. Alone(c)'
      BY <2>3, <2>4 DEF Alone
    <2>6. \A d \in Checkers \ {c} : Alone(d)'
      BY <2>2 DEF Alone
    <2>7. \A d \in Checkers : pc'[d] \in Open => loaded'[d].failures <= failed'
      BY <2>2, <2>3 DEF Counted
    <2>8. \A d \in Checkers : Flushed(d)' => Flushed(d)
      BY <2>1 DEF Flushed, TypeOK
    <2>9. QED
      BY <2>5, <2>6, <2>7, <2>8 DEF Counted
  <1>3. QED
    BY <1>1, <1>2

\* A commit: a failed check raises the count and the truth alike, a success on
\* its own ends both, and any other success leaves the truth alone.
LEMMA CommitCounts ==
    ASSUME TypeOK, Counted, NEW c \in Checkers, Commit(c)
    PROVE  Counted'
  <1>1. /\ pc[c] = "notified" /\ pc' = [pc EXCEPT ![c] = "closing"] /\ Forget(c)
        /\ status' = IF NewStatus(c) # loaded[c].status THEN NewStatus(c) ELSE status
        /\ failures' = IF kind[c] \notin Failing /\ loaded[c].failures = 0 THEN failures
                       ELSE NewFailures(c)
        /\ failed' = IF kind[c] \in Failing THEN CutOff(failed + 1)
                     ELSE IF alone[c] THEN 0 ELSE failed
    BY DEF Commit
  <1>2. pc[c] \in Open /\ Alone(c) /\ loaded[c].failures <= failed /\ failures <= failed
        /\ (status = "down" => failed >= Threshold)
    BY <1>1 DEF Open, Counted
  <1>3. /\ failures \in 0..Threshold /\ failed \in 0..Threshold
        /\ loaded[c].failures \in 0..Threshold
    BY Results DEF TypeOK
  <1>4. \A d \in Checkers \ {c} : /\ pc'[d] = pc[d] /\ loaded'[d] = loaded[d]
                                 /\ alert'[d] = alert[d] /\ alone'[d] = alone[d]
    BY <1>1 DEF Forget, TypeOK
  <1>5. pc'[c] = "closing"
    BY <1>1 DEF TypeOK
  <1>6. \A d \in Checkers \ {c} : pc[d] \in Open => ~alone[d]
    BY <1>2 DEF Counted, Alone
  <1>7. \A d \in Checkers : Alone(d)'
    BY <1>4, <1>5, <1>6 DEF Alone, Open
  <1>8. /\ failures' <= failed' /\ (status' = "down" => failed' >= Threshold)
        /\ failed' \in 0..Threshold
        /\ failed' >= failed \/ (alone[c] /\ kind[c] \notin Failing)
    <2>1. CASE kind[c] \in Failing
      <3>1. /\ failures' = CutOff(loaded[c].failures + 1) /\ failed' = CutOff(failed + 1)
            /\ status' \in {status, NewStatus(c)}
            /\ NewStatus(c) = "down" => CutOff(loaded[c].failures + 1) >= Threshold
        BY <1>1, <2>1, Results
      <3>2. /\ failures' <= failed' /\ failed <= failed' /\ failed' \in 0..Threshold
            /\ failed >= Threshold => failed' >= Threshold
            /\ CutOff(loaded[c].failures + 1) >= Threshold => failed' >= Threshold
        BY <1>2, <1>3, <3>1, CutOffOrders
      <3>3. QED
        BY <1>2, <1>3, <3>1, <3>2
    <2>2. CASE kind[c] \notin Failing
      <3>1. NewStatus(c) # "down" /\ NewFailures(c) = 0
        BY <2>2, Results
      <3>2. CASE alone[c]
        <4>1. failures = loaded[c].failures /\ status \in {loaded[c].status, "paused", "pending"}
          BY <1>2, <3>2 DEF Alone
        <4>2. failures' = 0 /\ failed' = 0 /\ status' # "down"
          BY <1>1, <2>2, <3>1, <3>2, <4>1
        <4>3. QED
          BY <2>2, <3>2, <4>2, BoundAssumption
      <3>3. CASE ~alone[c]
        <4>1. /\ failed' = failed /\ failures' \in {0, failures}
              /\ status' = "down" => status = "down"
          BY <1>1, <2>2, <3>1, <3>3
        <4>2. QED
          BY <1>2, <1>3, <4>1
      <3>4. QED
        BY <3>2, <3>3
    <2>3. QED
      BY <2>1, <2>2
  <1>9. ASSUME NEW d \in Checkers, pc'[d] \in Open
        PROVE  /\ loaded'[d].failures <= failed'
               /\ alert'[d] = "downtime" /\ Flushed(d)' => failed' + 1 >= Threshold
    <2>1. d # c /\ pc[d] \in Open /\ (Flushed(d)' <=> Flushed(d))
      BY <1>4, <1>5, <1>9 DEF Open, Flushed
    <2>2. ~alone[c]
      BY <1>2, <2>1 DEF Alone
    <2>3. failed' >= failed /\ failed' \in 0..Threshold
      BY <1>8, <2>2
    <2>4. /\ loaded[d].failures <= failed /\ loaded[d].failures \in 0..Threshold
          /\ alert[d] = "downtime" /\ Flushed(d) => failed + 1 >= Threshold
      BY <2>1, Results DEF Counted
    <2>5. loaded'[d] = loaded[d] /\ alert'[d] = alert[d]
      BY <1>4, <2>1
    <2>6. loaded[d].failures <= failed'
      BY <1>3, <2>3, <2>4, BoundAssumption
    <2>7. failed \in Nat /\ failed' \in Nat /\ Threshold \in Nat /\ failed <= failed'
      BY <1>3, <2>3, BoundAssumption
    <2>8. failed + 1 >= Threshold => failed' + 1 >= Threshold
      BY <2>7, Larger
    <2>9. QED
      BY <2>1, <2>4, <2>5, <2>6, <2>8
  <1>10. \A d \in Checkers : Flushed(d)' => pc'[d] \in Open
    BY DEF Flushed, Open
  <1>11. QED
    BY <1>7, <1>8, <1>9, <1>10 DEF Counted

\* Every step keeps the count below the truth.
LEMMA CountStep ==
    ASSUME TypeOK, RowHeld, Counted, [Next]_vars
    PROVE  Counted'
  <1> USE DEF row, local, user, history, bounds
  <1>1. CASE Aside \/ \E w \in Workers : Take(w) /\ lock # Free
    <2>1. UNCHANGED <<pc, alert, loaded, alone, failures, failed>>
      BY <1>1, AsideKeeps
    <2>2. status' \in {status, "paused", "pending"}
      BY <1>1, AsideKeeps
    <2>3. QED
      BY <2>1, <2>2, CountKept DEF Flushed
  <1>2. ASSUME NEW t \in Alerts, CoolDown(t) PROVE Counted'
    <2>1. UNCHANGED <<pc, alert, loaded, alone, failures, failed, status>>
      BY <1>2 DEF CoolDown
    <2>2. QED
      BY <2>1, CountKept DEF Flushed
  <1>3. ASSUME NEW c \in Checkers, (c \in Workers /\ Take(c) /\ lock = Free) \/ Manual(c)
        PROVE  Counted'
    <2>1. pc[c] = "idle" /\ Load(c) /\ UNCHANGED <<status, failures, failed, alert>>
      BY <1>3 DEF Take, Manual
    <2>2. QED
      BY <2>1, LoadCounts
  <1>4. ASSUME NEW c \in Checkers, Close(c) \/ \E k \in Kinds : Probe(c, k) PROVE Counted'
    <2>1. UNCHANGED <<failures, failed, status>>
      BY <1>4 DEF Close, Probe
    <2>2. /\ UNCHANGED <<loaded, alert, alone>> \/ (pc' = [pc EXCEPT ![c] = "closing"] /\ Forget(c))
          /\ \E p \in {"idle", "gated", "closing"} : pc' = [pc EXCEPT ![c] = p]
          /\ pc[c] = "probing" \/ pc' = [pc EXCEPT ![c] = "idle"]
      BY <1>4 DEF Close, Probe
    <2>3. \A d \in Checkers : Flushed(d)' => Flushed(d) /\ alert'[d] = alert[d]
      BY <2>2 DEF Flushed, Forget, TypeOK
    <2>4. \A d \in Checkers : pc'[d] \in Open =>
             pc[d] \in Open /\ loaded'[d] = loaded[d] /\ (alone'[d] => alone[d])
      BY <2>2 DEF Open, Forget, TypeOK
    <2>5. QED
      BY <2>1, <2>3, <2>4, CountKept
  <1>5. ASSUME NEW c \in Checkers, Settle(c) PROVE Counted'
    <2>1. /\ pc[c] = "gated" /\ pc' = [pc EXCEPT ![c] = "settled"]
          /\ alert' = [alert EXCEPT ![c] = IF "alerts" \in window \/ AlertFor(c) \in cooling THEN "none"
                                           ELSE AlertFor(c)]
          /\ UNCHANGED <<status, failures, failed, loaded, alone>>
      BY <1>5 DEF Settle
    <2>2. \A d \in Checkers : pc'[d] \in Open <=> pc[d] \in Open
      BY <2>1 DEF Open, TypeOK
    <2>3. \A d \in Checkers : Alone(d)'
      BY <2>1, <2>2 DEF Counted, Alone
    <2>4. \A d \in Checkers : pc'[d] \in Open => loaded'[d].failures <= failed'
      BY <2>1, <2>2 DEF Counted
    <2>5. \A d \in Checkers \ {c} : /\ Flushed(d)' => Flushed(d)
                                   /\ alert'[d] = alert[d]
      BY <2>1 DEF Flushed, TypeOK
    <2>6. alert'[c] = "downtime" => AlertFor(c) = "downtime"
      BY <2>1 DEF TypeOK
    <2>7. AlertFor(c) = "downtime" => failed + 1 >= Threshold
      <3>1. AlertFor(c) = "downtime" => CutOff(loaded[c].failures + 1) >= Threshold
        BY Results
      <3>2. loaded[c].failures <= failed
        BY <2>1 DEF Counted, Open
      <3>3. loaded[c].failures \in 0..Threshold /\ failed \in 0..Threshold
        BY Results DEF TypeOK
      <3>4. QED
        BY <3>1, <3>2, <3>3, CutOffOrders
    <2>8. \A d \in Checkers : Flushed(d)' /\ alert'[d] = "downtime" => failed' + 1 >= Threshold
      BY <2>1, <2>5, <2>6, <2>7 DEF Counted
    <2>9. QED
      BY <2>1, <2>3, <2>4, <2>8 DEF Counted
  <1>6. ASSUME NEW c \in Checkers, Notify(c) PROVE Counted'
    <2>1. /\ pc[c] = "settled" /\ pc' = [pc EXCEPT ![c] = "notified"]
          /\ UNCHANGED <<status, failures, failed, loaded, alone, alert>>
      BY <1>6 DEF Notify
    <2>2. \A d \in Checkers : /\ Flushed(d)' => Flushed(d)
                              /\ pc'[d] \in Open => pc[d] \in Open
      BY <2>1 DEF Flushed, Open, TypeOK
    <2>3. QED
      BY <2>1, <2>2, CountKept
  <1>7. ASSUME NEW c \in Checkers, Fail(c) \/ (c \in Workers /\ Crash(c)) PROVE Counted'
    <2>1. Forget(c) /\ UNCHANGED <<status, failures, failed>>
      BY <1>7 DEF Fail, Crash, RollBack
    <2>2. \E p \in {"idle", "closing"} : pc' = [pc EXCEPT ![c] = p]
      BY <1>7 DEF Fail, Crash
    <2>3. \A d \in Checkers : /\ Flushed(d)' => d # c /\ Flushed(d)
                              /\ pc'[d] \in Open => d # c /\ pc[d] \in Open
      BY <2>2 DEF Flushed, Open, TypeOK
    <2>4. \A d \in Checkers \ {c} : /\ loaded'[d] = loaded[d] /\ alert'[d] = alert[d]
                                   /\ alone'[d] = alone[d]
      BY <2>1 DEF Forget, TypeOK
    <2>5. QED
      BY <2>1, <2>3, <2>4, CountKept
  <1>8. QED
    BY <1>1, <1>2, <1>3, <1>4, <1>5, <1>6, <1>7, StepKinds, CommitCounts

-----------------------------------------------------------------------------
(* The incident and the status *)

\* What a probe's outcome says of the status and of the alert.
LEMMA KindShows ==
    ASSUME TypeOK, NEW c \in Checkers
    PROVE  /\ kind[c] # "ok" <=> NewStatus(c) \in {"down", "degraded"}
           /\ kind[c] = "ok" <=> NewStatus(c) = "up"
           /\ AlertFor(c) # "none" => kind[c] # "ok"
  <1>1. kind[c] \in {"ok", "slow", "bad", "lost", "unsafe"}
    BY KindsAssumption DEF TypeOK
  <1>2. QED
    BY <1>1 DEF NewStatus, AlertFor, Failing

\* Every step keeps Cause.
LEMMA CauseStep ==
    ASSUME TypeOK, RowHeld, Cause, [Next]_vars
    PROVE  Cause'
  <1> USE DEF local, Cause, Flushed
  <1>1. ASSUME NEW c \in Checkers, Leaves(c),
               \A d \in Checkers \ {c} : alert'[d] = alert[d] /\ kind'[d] = kind[d]
        PROVE  Cause'
    BY <1>1 DEF Leaves, TypeOK
  <1>2. CASE Aside \/ \E w \in Workers : Take(w) /\ lock # Free
    BY <1>2, AsideKeeps
  <1>3. ASSUME NEW t \in Alerts, CoolDown(t) PROVE Cause'
    BY <1>3 DEF CoolDown
  <1>4. ASSUME NEW c \in Checkers, Settle(c) PROVE Cause'
    <2>1. /\ pc' = [pc EXCEPT ![c] = "settled"] /\ kind' = kind
          /\ alert' = [alert EXCEPT ![c] = IF "alerts" \in window \/ AlertFor(c) \in cooling THEN "none"
                                           ELSE AlertFor(c)]
      BY <1>4 DEF Settle
    <2>2. alert'[c] # "none" => kind'[c] # "ok"
      BY <2>1, KindShows DEF TypeOK
    <2>3. \A d \in Checkers \ {c} : pc'[d] = pc[d] /\ alert'[d] = alert[d] /\ kind'[d] = kind[d]
      BY <2>1 DEF TypeOK
    <2>4. QED
      BY <2>2, <2>3
  <1>5. ASSUME NEW c \in Checkers, Notify(c) PROVE Cause'
    BY <1>5 DEF Notify, TypeOK
  <1>6. ASSUME NEW c \in Checkers, Quiet(c) PROVE Cause'
    BY <1>1, <1>6 DEF Quiet
  <1>7. ASSUME NEW c \in Checkers, Leaves(c) /\ Forget(c) PROVE Cause'
    <2>1. \A d \in Checkers \ {c} : alert'[d] = alert[d] /\ kind'[d] = kind[d]
      BY <1>7 DEF Forget, TypeOK
    <2>2. QED
      BY <1>1, <1>7, <2>1
  <1>8. QED
    BY <1>2, <1>3, <1>4, <1>5, <1>6, <1>7, StepKinds, QuietSteps, EndSteps

\* The step that ends a transaction leaves no other open, unless the monitor stays
\* muddled.
LEMMA LastOpen ==
    ASSUME TypeOK, Counted, Clear, NEW c \in Checkers, ~muddled',
           Commit(c) \/ (pc[c] \in Open /\ (Fail(c) \/ (c \in Workers /\ Crash(c))))
    PROVE  \A d \in Checkers : pc'[d] \notin Open
  <1>1. /\ pc[c] \in Open
        /\ \E p \in {"idle", "closing"} : pc' = [pc EXCEPT ![c] = p]
    BY DEF Commit, Fail, Crash, Open
  <1>2. ~muddled \/ (Commit(c) /\ alone[c])
    BY DEF Commit, Fail, Crash, RollBack
  <1>3. \A d \in Checkers \ {c} : pc[d] \notin Open
    BY <1>1, <1>2 DEF Clear, Counted, Alone
  <1>4. QED
    BY <1>1, <1>3 DEF Open, TypeOK

\* Every step keeps Clear.
LEMMA ClearStep ==
    ASSUME TypeOK, RowHeld, Counted, Clear, [Next]_vars
    PROVE  Clear'
  <1> USE DEF row, local, user, history, bounds
  <1> SUFFICES ASSUME ~muddled',
                      NEW b \in Checkers, pc'[b] \in Open
               PROVE  /\ loaded'[b].status = status'
                      /\ \A d \in Checkers \ {b} : pc'[d] \notin Open
    BY DEF Clear
  <1> DEFINE Goal == /\ loaded'[b].status = status'
                     /\ \A d \in Checkers \ {b} : pc'[d] \notin Open
  <1>1. ASSUME ~muddled, UNCHANGED status,
               \A d \in Checkers : pc'[d] \in Open => pc[d] \in Open /\ loaded'[d] = loaded[d]
        PROVE  Goal
    BY <1>1 DEF Clear
  <1>2. CASE Aside \/ \E w \in Workers : Take(w) /\ lock # Free
    <2>1. UNCHANGED <<pc, loaded>>
      BY <1>2, AsideKeeps
    <2>2. ~muddled /\ status' = status
      <3>1. pc[b] \in Open
        BY <2>1
      <3>2. UNCHANGED <<status, muddled>> \/ (~muddled' => ~muddled /\ status' = status)
        BY <1>2, <3>1, AsideKeeps, Zenon
      <3>3. QED
        BY <3>2
    <2>3. QED
      BY <1>1, <2>1, <2>2
  <1>3. ASSUME NEW t \in Alerts, CoolDown(t) PROVE Goal
    BY <1>1, <1>3 DEF CoolDown
  <1>4. ASSUME NEW c \in Checkers, (c \in Workers /\ Take(c) /\ lock = Free) \/ Manual(c)
        PROVE  Goal
    <2>1. pc[c] = "idle" /\ Load(c) /\ UNCHANGED <<enabled, status>>
      BY <1>4 DEF Take, Manual
    <2>2. CASE ~enabled
      <3>1. pc' = [pc EXCEPT ![c] = "closing"] /\ UNCHANGED <<loaded, muddled>>
        BY <2>1, <2>2 DEF Load
      <3>2. QED
        BY <1>1, <2>1, <3>1 DEF Open, TypeOK
    <2>3. CASE enabled
      <3>1. /\ pc' = [pc EXCEPT ![c] = "probing"] /\ ~Overlaps(c)
            /\ loaded' = [loaded EXCEPT ![c] = [status |-> status, failures |-> failures]]
        BY <2>1, <2>3, Zenon DEF Load
      <3>2. \A d \in Checkers \ {c} : pc'[d] = pc[d] /\ pc'[d] \notin Open
        BY <3>1 DEF Overlaps, TypeOK
      <3>3. b = c
        BY <3>2
      <3>4. loaded'[c].status = status
        BY <3>1 DEF TypeOK
      <3>5. QED
        BY <2>1, <2>3, <3>2, <3>3, <3>4
    <2>4. QED
      BY <2>2, <2>3
  <1>5. ASSUME NEW c \in Checkers, Close(c) \/ \E k \in Kinds : Probe(c, k) PROVE Goal
    <2>1. /\ UNCHANGED loaded \/ (pc' = [pc EXCEPT ![c] = "closing"] /\ Forget(c))
          /\ \E p \in {"idle", "gated", "closing"} : pc' = [pc EXCEPT ![c] = p]
          /\ pc[c] = "probing" \/ pc' = [pc EXCEPT ![c] = "idle"]
          /\ UNCHANGED <<enabled, status, muddled>>
      BY <1>5 DEF Close, Probe
    <2>2. \A d \in Checkers : pc'[d] \in Open => pc[d] \in Open /\ loaded'[d] = loaded[d]
      BY <2>1 DEF Open, Forget, TypeOK
    <2>3. QED
      BY <1>1, <2>1, <2>2
  <1>6. ASSUME NEW c \in Checkers, Settle(c) \/ Notify(c) PROVE Goal
    <2>1. /\ UNCHANGED <<loaded, status>> /\ pc[c] \in Open /\ ~muddled
          /\ \E p \in PC : pc' = [pc EXCEPT ![c] = p]
      BY <1>6 DEF Settle, Notify, Open, PC
    <2>2. \A d \in Checkers : pc'[d] \in Open => pc[d] \in Open
      BY <2>1 DEF TypeOK
    <2>3. QED
      BY <1>1, <2>1, <2>2
  <1>7. ASSUME NEW c \in Checkers, c \in Workers, Crash(c), pc[c] \notin Open PROVE Goal
    <2>1. /\ pc' = [pc EXCEPT ![c] = "idle"] /\ Forget(c) /\ ~muddled
          /\ UNCHANGED <<enabled, status>>
      BY <1>7 DEF Crash, RollBack
    <2>2. \A d \in Checkers : pc'[d] \in Open => pc[d] \in Open /\ loaded'[d] = loaded[d]
      BY <2>1 DEF Open, Forget, TypeOK
    <2>3. QED
      BY <1>1, <2>1, <2>2
  <1>8. ASSUME NEW c \in Checkers, Commit(c) \/ Fail(c) \/ (c \in Workers /\ Crash(c))
        PROVE  Goal
    <2>1. Fail(c) => pc[c] \in Open
      BY DEF Fail
    <2>2. QED
      BY <1>7, <1>8, <2>1, LastOpen
  <1>9. QED
    BY <1>2, <1>3, <1>4, <1>5, <1>6, <1>8, StepKinds

\* A step that notifies nobody and leaves the incident, the status and what others
\* found keeps what is told.
LEMMA ToldKept ==
    ASSUME Told, IncidentVisible, ~muddled, UNCHANGED <<incident, status>>,
           \A d \in Checkers : pc'[d] = "notified" =>
               pc[d] = "notified" /\ kind'[d] = kind[d] /\ alert'[d] = alert[d],
           \A d \in Checkers : pc[d] = "notified" =>
               pc'[d] = "notified" \/ (incident => status \in {"down", "degraded"})
    PROVE  Told' /\ IncidentVisible'
  <1>1. Told'
    BY DEF Told
  <1>2. IncidentVisible'
    BY DEF IncidentVisible
  <1>3. QED
    BY <1>1, <1>2

\* Every step keeps the incident visible.
LEMMA VisibleStep ==
    ASSUME TypeOK, RowHeld, Counted, Cause, Clear, Told, IncidentVisible, [Next]_vars
    PROVE  Told' /\ IncidentVisible'
  <1> USE DEF row, local, user, history, bounds
  <1> DEFINE Goal == Told' /\ IncidentVisible'
  <1>1. CASE muddled' \/ ~incident'
    BY <1>1 DEF Told, IncidentVisible
  <1>2. CASE Aside \/ \E w \in Workers : Take(w) /\ lock # Free
    <2>1. UNCHANGED <<pc, alert, kind, incident>>
      BY <1>2, AsideKeeps
    <2>2. CASE incident /\ ~muddled'
      <3>1. \/ UNCHANGED <<status, muddled>>
            \/ ~muddled' => ~muddled /\ status' = status
        BY <1>2, <2>2, AsideKeeps, Zenon
      <3>2. QED
        BY <2>1, <2>2, <3>1 DEF Told, IncidentVisible
    <2>3. QED
      BY <1>1, <2>1, <2>2
  <1>3. ASSUME NEW t \in Alerts, CoolDown(t) PROVE Goal
    BY <1>3 DEF CoolDown, Told, IncidentVisible
  <1>4. ASSUME NEW c \in Checkers,
               \/ c \in Workers /\ Take(c) /\ lock = Free
               \/ Manual(c) \/ Close(c) \/ (\E k \in Kinds : Probe(c, k)) \/ Settle(c)
        PROVE  Goal
    <2>1. UNCHANGED <<incident, status>> /\ (~muddled' => ~muddled)
      <3>1. UNCHANGED <<incident, status>>
        BY <1>4 DEF Take, Manual, Close, Probe, Settle
      <3>2. Load(c) \/ UNCHANGED muddled
        BY <1>4 DEF Take, Manual, Close, Probe, Settle
      <3>3. ~muddled' => ~muddled
        BY <3>2, Zenon DEF Load
      <3>4. QED
        BY <3>1, <3>3
    <2>2. pc[c] # "notified" /\ pc'[c] # "notified"
      BY <1>4 DEF Take, Manual, Close, Probe, Settle, Load, TypeOK
    <2>3. \A d \in Checkers \ {c} : pc'[d] = pc[d] /\ kind'[d] = kind[d] /\ alert'[d] = alert[d]
      <3>1. CASE Settle(c)
        BY <3>1 DEF Settle, TypeOK
      <3>2. CASE Quiet(c)
        BY <3>2 DEF Quiet, Leaves, TypeOK
      <3>3. QED
        BY <1>4, <3>1, <3>2, QuietSteps
    <2>4. QED
      BY <1>1, <2>1, <2>2, <2>3, ToldKept
  <1>5. ASSUME NEW c \in Checkers, Notify(c), ~muddled', incident' PROVE Goal
    <2>1. /\ pc[c] = "settled" /\ pc' = [pc EXCEPT ![c] = "notified"]
          /\ UNCHANGED <<status, loaded, kind, alert, muddled>>
          /\ alert[c] # "none" \/ (incident /\ ~Recovers(c))
      <3>1. incident' = (alert[c] # "none" \/ (incident /\ ~Recovers(c))) /\ UNCHANGED muddled
        BY <1>5, Zenon DEF Notify
      <3>2. QED
        BY <1>5, <3>1 DEF Notify
    <2>2. \A d \in Checkers \ {c} : pc[d] \notin Open
      BY <1>5, <2>1 DEF Clear, Open
    <2>3. kind[c] # "ok" /\ (alert[c] # "none" \/ status \in {"down", "degraded"})
      <3>1. CASE alert[c] # "none"
        BY <2>1, <3>1 DEF Cause, Flushed
      <3>2. CASE incident /\ ~Recovers(c)
        <4>1. status \in {"down", "degraded"}
          BY <1>5, <2>1, <2>2, <3>2 DEF IncidentVisible, Open
        <4>2. loaded[c].status = status
          BY <1>5, <2>1 DEF Clear, Open
        <4>3. QED
          BY <3>2, <4>1, <4>2, KindShows DEF Recovers
      <3>3. QED
        BY <2>1, <3>1, <3>2
    <2>4. \A d \in Checkers \ {c} : pc'[d] # "notified"
      BY <2>1, <2>2 DEF Open, TypeOK
    <2>5. pc'[c] = "notified"
      BY <2>1 DEF TypeOK
    <2>6. QED
      BY <2>1, <2>3, <2>4, <2>5 DEF Told, IncidentVisible
  <1>6. ASSUME NEW c \in Checkers, Commit(c), ~muddled', incident' PROVE Goal
    <2>1. \A d \in Checkers : pc'[d] # "notified"
      BY <1>6, LastOpen DEF Open
    <2>2. /\ pc[c] = "notified" /\ incident
          /\ status' = IF NewStatus(c) # loaded[c].status THEN NewStatus(c) ELSE status
      BY <1>6 DEF Commit
    <2>3. CASE muddled
      BY <1>6, <2>1, <2>2, <2>3 DEF Commit, Told, IncidentVisible
    <2>4. CASE ~muddled
      <3>1. kind[c] # "ok" /\ loaded[c].status = status
        BY <2>2, <2>4 DEF Told, Clear, Open
      <3>2. status' \in {"down", "degraded"}
        BY <2>2, <3>1, KindShows
      <3>3. QED
        BY <2>1, <3>2 DEF Told, IncidentVisible
    <2>5. QED
      BY <2>3, <2>4
  <1>7. ASSUME NEW c \in Checkers, Fail(c) \/ (c \in Workers /\ Crash(c)), ~muddled'
        PROVE  Goal
    <2>1. /\ RollBack(c) /\ \E p \in {"idle", "closing"} : pc' = [pc EXCEPT ![c] = p]
      BY <1>7 DEF Fail, Crash
    <2>2. /\ ~muddled /\ UNCHANGED <<incident, status>> /\ Forget(c)
          /\ pc[c] = "notified" => alert[c] = "none"
      BY <1>7, <2>1 DEF RollBack
    <2>3. pc[c] = "notified" /\ incident => status \in {"down", "degraded"}
      BY <2>2 DEF Told
    <2>4. /\ pc'[c] # "notified"
          /\ \A d \in Checkers \ {c} : /\ pc'[d] = pc[d]
                                      /\ kind'[d] = kind[d] /\ alert'[d] = alert[d]
      BY <2>1, <2>2 DEF Forget, TypeOK
    <2>5. QED
      BY <2>2, <2>3, <2>4, ToldKept
  <1>8. QED
    BY <1>1, <1>2, <1>3, <1>4, <1>5, <1>6, <1>7, StepKinds

-----------------------------------------------------------------------------
(* Theorems *)

\* The inductive invariant.
IInv ==
    /\ TypeOK /\ OverlapBounded /\ RowHeld /\ Cooling /\ Counted
    /\ Clear /\ Cause /\ Told /\ IncidentVisible

\* It holds of every reachable state.
LEMMA Inductive == Spec => []IInv
  <1>1. Init => IInv
    <2>1. ASSUME Init PROVE TypeOK
      <3>1. /\ NoRow \in [status : Status, failures : 0..Threshold] /\ 0 \in 0..Threshold
            /\ "idle" \in PC
        BY BoundAssumption DEF NoRow, Status, PC
      <3>2. /\ pc \in [Checkers -> PC] /\ kind \in [Checkers -> Kinds \cup {"ok"}]
            /\ loaded \in [Checkers -> [status : Status, failures : 0..Threshold]]
            /\ alert \in [Checkers -> Alerts \cup {"none"}]
        BY <2>1, <3>1 DEF Init
      <3>3. alone \in [Checkers -> BOOLEAN]
        BY <2>1 DEF Init
      <3>4. /\ enabled \in BOOLEAN /\ due \in BOOLEAN /\ rounds \in Nat
            /\ incident \in BOOLEAN /\ muddled \in BOOLEAN
        <4>1. rounds \in Nat
          BY <2>1 DEF Init
        <4>2. QED
          BY <2>1, <4>1, Zenon DEF Init
      <3>5. /\ status \in Status /\ failures \in 0..Threshold /\ failed \in 0..Threshold
            /\ rowlock = Free /\ window = {} /\ cooling = {} /\ queue = 0 /\ lock = Free
            /\ burst = 0 /\ undone = 0 /\ overstays = 0
            /\ manual = 0 /\ changes = 0 /\ faults = 0
        BY <2>1, <3>1 DEF Init, Status
      <3>6. asked \in [Users -> Asked]
        BY <2>1 DEF Init, Nothing, Asked
      <3>7. QED
        BY <3>2, <3>3, <3>4, <3>5, <3>6 DEF TypeOK
    <2>2. ASSUME Init PROVE OverlapBounded
      <3>1. Running = {} /\ overstays = 0 /\ lock = Free
        BY <2>2 DEF Init, Running, Checkers
      <3>2. Free \notin Workers
        BY CheckersAssumption DEF Checkers
      <3>3. QED
        BY <3>1, <3>2, FS_EmptySet DEF OverlapBounded
    <2>3. ASSUME Init PROVE RowHeld /\ Cooling /\ Counted
      <3>1. /\ \A c \in Checkers : pc[c] = "idle"
            /\ burst = 0 /\ undone = 0 /\ failures = 0 /\ failed = 0 /\ status = "pending"
        BY <2>3 DEF Init
      <3>2. QED
        BY <3>1 DEF RowHeld, Cooling, Counted, Alone, Flushed, Sent, Open
    <2>4. ASSUME Init PROVE Clear /\ Cause /\ Told /\ IncidentVisible
      <3>1. /\ \A c \in Checkers : pc[c] = "idle"
            /\ ~incident
        BY <2>4 DEF Init
      <3>2. QED
        BY <3>1 DEF Clear, Cause, Told, IncidentVisible, Flushed, Open
    <2>5. QED
      BY <2>1, <2>2, <2>3, <2>4 DEF IInv
  <1>2. IInv /\ [Next]_vars => IInv'
    BY TypeStep, OverlapStep, RowStep, CoolStep, CountStep, CauseStep, ClearStep, VisibleStep DEF IInv
  <1>3. QED
    BY <1>1, <1>2, PTL DEF Spec

\* Every reachable state of a monitor and its checks has its type.
THEOREM TypeCorrect == Spec => []TypeOK
  <1>1. IInv => TypeOK
    BY DEF IInv
  <1>2. QED
    BY <1>1, Inductive, PTL

\* run_monitor_check's lock: a check that outlives it costs one extra check at a
\* time, and no more.
THEOREM OverlapsBounded == Spec => []OverlapBounded
  <1>1. IInv => OverlapBounded
    BY DEF IInv
  <1>2. QED
    BY <1>1, Inductive, PTL

\* evaluate_and_dispatch_alert's cooldown holds between overlapping checks, but for
\* alerts that were sent and rolled back.
THEOREM CooldownHolds == Spec => []CooldownKept
  <1>1. IInv => CooldownKept
    BY DEF IInv, TypeOK, Cooling, CooldownKept
  <1>2. QED
    BY <1>1, Inductive, PTL

\* execute_check calls a monitor down only after Threshold failed checks without a
\* success on its own between them.
THEOREM DownIsEarned == Spec => []DownEarned
  <1>1. IInv => DownEarned
    BY DEF IInv, Counted, DownEarned, Flushed
  <1>2. QED
    BY <1>1, Inductive, PTL

\* An incident that execute_check opened at a channel shows in the row's status, over
\* any checks, cooldowns and windows, unless a pause or a resume written over the
\* status, a rollback after the trigger, a resolve that raised or overlapping checks
\* have muddled it and no check on its own has put the row right since.
THEOREM IncidentShows == Spec => []IncidentVisible
  <1>1. IInv => IncidentVisible
    BY DEF IInv
  <1>2. QED
    BY <1>1, Inductive, PTL
=============================================================================

--------------------- MODULE NotificationDispatchProofs ---------------------
(***************************************************************************)
(* Proofs about the dispatch log, for any rows, sessions, limit and        *)
(* failures: it claims no attempt that was not made, ends a row for a      *)
(* reason only, and never opens an ended row again.                        *)
(***************************************************************************)
EXTENDS NotificationDispatch, FiniteSetTheorems, SequenceTheorems, TLAPS

Ended == {"succeeded", "dead"}

\* What holds of every version v of row r, committed or flushed.
GoodVersion(r, v) ==
    /\ v.status = "failed" => v.attempts < MaxAttempts
    /\ v.status = "succeeded" => r \in accepted
    /\ r \notin Unregistered => v.attempts <= sends[r]
    /\ v.status = "dead" /\ r \notin Unregistered => sends[r] >= MaxAttempts

\* What holds of a session's copy c of row r.  A reserved copy is held by the
\* session that reserved it, under its lock, before anyone sees the row.
GoodCopy(s, r, c) ==
    /\ c.status \in {"absent", "pending", "failed"}
    /\ c.status = "pending" => lock[r] = s /\ row[r].status = "absent"
    /\ c.attempts <= MaxAttempts
    /\ r \notin Unregistered => c.attempts < MaxAttempts /\ c.attempts <= sends[r]

\* A session with its outcome at hand has sent the message it counts.
Outgoing(s) ==
    pc[s] \in {"flush", "waiting"} =>
        LET r == Head(todo[s]) IN
          /\ result[s] => r \in accepted
          /\ r \notin Unregistered => seen[s][r].attempts + 1 <= sends[r]

\* The rows of a session are rows it has read.
Loaded(s) ==
    /\ pc[s] \in {"send", "flush", "waiting"} => todo[s] # <<>>
    /\ \A i \in 1..Len(todo[s]) : seen[s][todo[s][i]].status # "absent"

\* The version that will be committed over an ended row is an ended one.
Kept == \A r \in Rows : lock[r] # None /\ row[r].status \in Ended => flushed[r].status \in Ended

IInv ==
    /\ TypeOK
    /\ \A r \in Rows : GoodVersion(r, row[r]) /\ GoodVersion(r, flushed[r])
    /\ \A s \in Sessions, r \in Rows : GoodCopy(s, r, seen[s][r])
    /\ \A s \in Sessions : Outgoing(s) /\ Loaded(s)
    /\ Kept

-----------------------------------------------------------------------------
(* Sequences *)

\* What is left of a sequence after its head, which Flush takes off.
LEMMA TailKeeps ==
    ASSUME NEW q \in Seq(Rows), q # <<>>
    PROVE /\ Head(q) \in Rows /\ Tail(q) \in Seq(Rows)
          /\ Len(q) \in Nat \ {0} /\ Len(Tail(q)) = Len(q) - 1
          /\ \A i \in 1..Len(Tail(q)) : i + 1 \in 1..Len(q) /\ Tail(q)[i] = q[i + 1]
          /\ Len(q) # 1 => Tail(q) # <<>>
          /\ Head(q) = q[1]
  <1>1. Len(q) \in Nat /\ Len(q) # 0 /\ q \in [1..Len(q) -> Rows]
    OBVIOUS
  <1>2. Head(q) = q[1] /\ Tail(q) \in Seq(Rows) /\ Len(Tail(q)) = Len(q) - 1
    BY <1>1
  <1>3. \A i \in 1..Len(Tail(q)) : i + 1 \in 1..Len(q) /\ Tail(q)[i] = q[i + 1]
    BY <1>1, <1>2
  <1>4. ASSUME Tail(q) = <<>> PROVE Len(q) = 1
    <2>1. Len(Tail(q)) = 0
      BY <1>4, EmptySeq
    <2>2. Len(Tail(q)) = Len(q) - 1 /\ Len(q) \in Nat
      BY <1>1, HeadTailProperties
    <2>3. \A m, n \in Nat : n = 0 /\ n = m - 1 => m = 1
      OBVIOUS
    <2>4. QED
      BY <2>1, <2>2, <2>3
  <1>5. QED
    BY <1>1, <1>2, <1>3, <1>4

\* The orders in which list_dispatch_pending may give the due rows.
LEMMA OrdersAreSequences ==
    ASSUME row \in [Rows -> Row], NEW q \in Orders(DueRows), DueRows # {}
    PROVE /\ q \in Seq(Rows) /\ q # <<>>
          /\ \A i \in 1..Len(q) : row[q[i]].status = "failed"
  <1>1. IsFiniteSet(DueRows) /\ DueRows \subseteq Rows
    BY FS_Subset, RowsAssumption DEF DueRows
  <1>2. Cardinality(DueRows) \in Nat
    BY <1>1, FS_CardinalityType
  <1>3. Cardinality(DueRows) # 0
    BY <1>1, FS_EmptySet
  <1>4. q \in [1..Cardinality(DueRows) -> DueRows]
    BY DEF Orders
  <1>5. q \in Seq(DueRows) /\ Len(q) = Cardinality(DueRows)
    BY <1>2, <1>4
  <1>6. q \in Seq(Rows)
    BY <1>1, <1>5
  <1>7. QED
    BY <1>2, <1>3, <1>4, <1>5, <1>6 DEF DueRows

-----------------------------------------------------------------------------
(* The steps *)

LEMMA RowTypes ==
    /\ Absent \in Row /\ Reserved \in Row
    /\ Absent = [status |-> "absent", attempts |-> 0, due |-> "never"]
    /\ Reserved = [status |-> "pending", attempts |-> 0, due |-> "never"]
  BY AttemptAssumption DEF Absent, Reserved, Row

LEMMA InitGood == Init => IInv
  BY RowTypes, NoneAssumption, AttemptAssumption
  DEF Init, IInv, TypeOK, PC, GoodVersion, GoodCopy, Outgoing, Loaded, Kept, Ended

\* reserve_attempt
LEMMA AlertKeeps ==
    ASSUME IInv, NEW s \in Sessions, NEW r \in Rows, Alert(s, r)
    PROVE IInv'
  <1> USE AttemptAssumption, NoneAssumption, RowTypes DEF Alert, IInv, TypeOK
  <1>1. TypeOK'
    <2>1. todo' \in [Sessions -> Seq(Rows)]
      OBVIOUS
    <2>2. seen' \in [Sessions -> [Rows -> Row]]
      OBVIOUS
    <2>3. QED
      BY <2>1, <2>2 DEF sent, PC
  <1>2. \A x \in Rows : GoodVersion(x, row[x])' /\ GoodVersion(x, flushed[x])'
    BY DEF GoodVersion, sent
  <1>3. ASSUME NEW t \in Sessions, NEW x \in Rows
        PROVE  GoodCopy(t, x, seen[t][x])'
    <2>1. GoodCopy(t, x, seen[t][x]) /\ sends[x] \in Nat
      OBVIOUS
    <2>2. CASE t = s /\ x = r
      BY <2>1, <2>2 DEF GoodCopy, sent
    <2>3. CASE ~ (t = s /\ x = r)
      BY <2>1, <2>3 DEF GoodCopy, sent
    <2>4. QED
      BY <2>2, <2>3
  <1>4. ASSUME NEW t \in Sessions
        PROVE  Outgoing(t)' /\ Loaded(t)'
    <2>1. Outgoing(t) /\ Loaded(t)
      OBVIOUS
    <2>2. CASE t = s
      BY <2>2 DEF Outgoing, Loaded
    <2>3. CASE t # s
      BY <2>1, <2>3 DEF Outgoing, Loaded, sent
    <2>4. QED
      BY <2>2, <2>3
  <1>5. Kept'
    BY DEF Kept, Ended
  <1>6. QED
    BY <1>1, <1>2, <1>3, <1>4, <1>5

\* retry_notification_dispatch and retry_single_notification, on failed rows.
LEMMA RetryKeeps ==
    ASSUME IInv, NEW s \in Sessions, NEW q \in Seq(Rows), q # <<>>,
           \A i \in 1..Len(q) : row[q[i]].status = "failed", Retry(s, q)
    PROVE IInv'
  <1> USE AttemptAssumption, NoneAssumption, RowTypes DEF Retry, IInv, TypeOK
  <1>1. TypeOK'
    <2>1. seen' \in [Sessions -> [Rows -> Row]]
      OBVIOUS
    <2>2. QED
      BY <2>1 DEF sent, PC
  <1>2. \A x \in Rows : GoodVersion(x, row[x])' /\ GoodVersion(x, flushed[x])'
    BY DEF GoodVersion, sent
  <1>3. ASSUME NEW t \in Sessions, NEW x \in Rows
        PROVE  GoodCopy(t, x, seen[t][x])'
    <2>1. GoodCopy(t, x, seen[t][x]) /\ GoodVersion(x, row[x]) /\ sends[x] \in Nat
          /\ row[x] \in Row
      OBVIOUS
    <2>2. CASE t = s /\ \E i \in 1..Len(q) : q[i] = x
      <3>1. row[x].status = "failed" /\ seen'[t][x] = row[x]
        BY <2>2
      <3>2. row[x].attempts \in Nat /\ row[x].attempts < MaxAttempts
        BY <2>1, <3>1 DEF GoodVersion, Row
      <3>3. x \notin Unregistered => row[x].attempts <= sends[x]
        BY <2>1 DEF GoodVersion
      <3>4. QED
        BY <3>1, <3>2, <3>3 DEF GoodCopy, sent
    <2>3. CASE t = s /\ ~ \E i \in 1..Len(q) : q[i] = x
      BY <2>1, <2>3 DEF GoodCopy, sent
    <2>4. CASE t # s
      BY <2>1, <2>4 DEF GoodCopy, sent
    <2>5. QED
      BY <2>2, <2>3, <2>4
  <1>4. ASSUME NEW t \in Sessions
        PROVE  Outgoing(t)' /\ Loaded(t)'
    <2>1. Outgoing(t) /\ Loaded(t)
      OBVIOUS
    <2>2. CASE t = s
      <3>1. Outgoing(t)'
        BY <2>2 DEF Outgoing
      <3>2. todo'[t] = q /\ \A i \in 1..Len(q) : q[i] \in Rows
        BY <2>2
      <3>3. \A i \in 1..Len(q) : seen'[t][q[i]] = row[q[i]]
        BY <2>2, <3>2
      <3>4. QED
        BY <3>1, <3>2, <3>3 DEF Loaded
    <2>3. CASE t # s
      BY <2>1, <2>3 DEF Outgoing, Loaded, sent
    <2>4. QED
      BY <2>2, <2>3
  <1>5. Kept'
    BY DEF Kept
  <1>6. QED
    BY <1>1, <1>2, <1>3, <1>4, <1>5
\* send: the message is handed over, or the channel is not registered any more.
LEMMA SendKeeps ==
    ASSUME IInv, NEW s \in Sessions, Send(s)
    PROVE IInv'
  <1> DEFINE r == Head(todo[s])
  <1> USE AttemptAssumption, NoneAssumption
  <1>1. todo[s] \in Seq(Rows) /\ todo[s] # <<>> /\ r \in Rows
    BY TailKeeps DEF Send, IInv, TypeOK, Loaded
  <1>2. /\ UNCHANGED <<row, lock, flushed, job, todo, faults>>
        /\ pc' = [pc EXCEPT ![s] = "flush"]
    BY DEF Send
  <1>3. CASE Known(s, r)
    <2>1. /\ seen' = seen
          /\ sends' = [sends EXCEPT ![r] = IF @ <= MaxAttempts THEN @ + 1 ELSE @]
          /\ \E ok \in BOOLEAN :
               /\ result' = [result EXCEPT ![s] = ok]
               /\ accepted' = IF ok THEN accepted \cup {r} ELSE accepted
      BY <1>3 DEF Send
    <2>2. PICK ok \in BOOLEAN : /\ result' = [result EXCEPT ![s] = ok]
                               /\ accepted' = IF ok THEN accepted \cup {r} ELSE accepted
      BY <2>1
    <2> HIDE DEF r
    <2>3. TypeOK'
      BY <1>1, <1>2, <2>1, <2>2 DEF IInv, TypeOK, PC
    <2>4. /\ accepted \subseteq accepted'
          /\ \A x \in Rows : sends[x] \in Nat /\ sends'[x] \in Nat /\ sends[x] <= sends'[x]
      BY <1>1, <2>1, <2>2 DEF IInv, TypeOK
    <2>5. ASSUME NEW x \in Rows PROVE GoodVersion(x, row[x])' /\ GoodVersion(x, flushed[x])'
      BY <1>2, <2>4 DEF IInv, TypeOK, Row, GoodVersion
    <2>6. ASSUME NEW t \in Sessions, NEW x \in Rows PROVE GoodCopy(t, x, seen[t][x])'
      <3>1. seen[t][x].attempts \in Nat /\ GoodCopy(t, x, seen[t][x])
        BY DEF IInv, TypeOK, Row
      <3>2. QED
        BY <1>2, <2>1, <2>4, <3>1 DEF GoodCopy
    <2>7. ASSUME NEW t \in Sessions PROVE Outgoing(t)' /\ Loaded(t)'
      <3>1. Outgoing(t) /\ Loaded(t) /\ todo[t] \in Seq(Rows) /\ pc \in [Sessions -> PC]
        BY DEF IInv, TypeOK
      <3>2. CASE t = s
        <4>1. r \notin Unregistered => seen[s][r].attempts + 1 <= sends'[r]
          <5>1. seen[s][r].attempts \in Nat /\ GoodCopy(s, r, seen[s][r])
            BY <1>1 DEF IInv, TypeOK, Row
          <5>2. sends[r] \in 0..MaxAttempts + 1
            BY <1>1 DEF IInv, TypeOK
          <5>3. sends'[r] = IF sends[r] <= MaxAttempts THEN sends[r] + 1 ELSE sends[r]
            BY <1>1, <2>1 DEF IInv, TypeOK
          <5>4. QED
            BY <5>1, <5>2, <5>3 DEF GoodCopy
        <4>2. result'[s] => r \in accepted'
          BY <2>2 DEF IInv, TypeOK
        <4>3. Outgoing(s)'
          BY <1>2, <2>1, <4>1, <4>2 DEF Outgoing, r
        <4>4. Loaded(s)'
          BY <1>1, <1>2, <2>1, <3>1, <3>2 DEF Loaded
        <4>5. QED
          BY <3>2, <4>3, <4>4
      <3>3. CASE t # s
        <4>1. pc'[t] = pc[t] /\ result'[t] = result[t] /\ seen'[t] = seen[t]
          BY <1>2, <2>1, <2>2, <3>3 DEF IInv, TypeOK
        <4>2. Loaded(t)'
          BY <1>2, <3>1, <4>1 DEF Loaded
        <4>3. pc[t] \in {"flush", "waiting"} =>
                Head(todo[t]) \in Rows /\ seen[t][Head(todo[t])].attempts \in Nat
          <5>1. ASSUME pc[t] \in {"flush", "waiting"} PROVE Head(todo[t]) \in Rows
            <6>1. todo[t] # <<>>
              BY <3>1, <5>1 DEF Loaded
            <6>2. QED
              BY <3>1, <6>1, TailKeeps
          <5>2. \A x \in Rows : seen[t][x] \in Row
            BY DEF IInv, TypeOK
          <5>3. \A x \in Rows : seen[t][x].attempts \in Nat
            BY <5>2, AttemptAssumption DEF Row
          <5>4. QED
            BY <5>1, <5>3
        <4>4. Outgoing(t)'
          <5>1. SUFFICES ASSUME pc[t] \in {"flush", "waiting"}
                PROVE  LET x == Head(todo[t]) IN
                         /\ result[t] => x \in accepted'
                         /\ x \notin Unregistered =>
                              seen[t][x].attempts + 1 <= sends'[x]
            BY <1>2, <4>1 DEF Outgoing
          <5>2. PICK x \in Rows : x = Head(todo[t]) /\ seen[t][x].attempts \in Nat
            BY <4>3, <5>1
          <5>3. /\ result[t] => x \in accepted
                /\ x \notin Unregistered => seen[t][x].attempts + 1 <= sends[x]
            BY <3>1, <5>1, <5>2 DEF Outgoing
          <5>4. sends[x] \in Nat /\ sends'[x] \in Nat /\ sends[x] <= sends'[x]
            BY <2>4
          <5>5. seen[t][x].attempts + 1 <= sends[x] => seen[t][x].attempts + 1 <= sends'[x]
            BY <5>2, <5>4
          <5>6. QED
            BY <2>4, <5>2, <5>3, <5>5
        <4>5. QED
          BY <4>2, <4>4
      <3>4. QED
        BY <3>2, <3>3
    <2>8. Kept'
      BY <1>2 DEF IInv, Kept
    <2>9. QED
      BY <2>3, <2>5, <2>6, <2>7, <2>8 DEF IInv
  <1>4. CASE ~ Known(s, r)
    <2>1. /\ seen' = [seen EXCEPT ![s][r].attempts = MaxAttempts]
          /\ result' = [result EXCEPT ![s] = FALSE]
          /\ sends' = sends /\ accepted' = accepted
      BY <1>4 DEF Send, sent
    <2>2. r \in Unregistered
      BY <1>4 DEF Known
    <2> HIDE DEF r
    <2>3. /\ seen' \in [Sessions -> [Rows -> Row]]
          /\ \A t \in Sessions, x \in Rows :
               /\ seen'[t][x].status = seen[t][x].status
               /\ ~ (t = s /\ x = r) => seen'[t][x] = seen[t][x]
          /\ seen'[s][r].attempts = MaxAttempts
      <3>1. seen[s][r] \in Row
        BY <1>1 DEF IInv, TypeOK
      <3>2. [seen[s][r] EXCEPT !.attempts = MaxAttempts] \in Row
        BY <3>1 DEF Row
      <3>3. [seen[s][r] EXCEPT !.attempts = MaxAttempts].status = seen[s][r].status
            /\ [seen[s][r] EXCEPT !.attempts = MaxAttempts].attempts = MaxAttempts
        BY <3>1 DEF Row
      <3>4. seen \in [Sessions -> [Rows -> Row]]
        BY DEF IInv, TypeOK
      <3>5. seen' = [seen EXCEPT ![s] =
                       [seen[s] EXCEPT ![r] = [seen[s][r] EXCEPT !.attempts = MaxAttempts]]]
        BY <2>1
      <3>6. QED
        BY <1>1, <3>2, <3>3, <3>4, <3>5
    <2>4. TypeOK'
      BY <1>2, <2>1, <2>3 DEF IInv, TypeOK, PC
    <2>5. ASSUME NEW x \in Rows PROVE GoodVersion(x, row[x])' /\ GoodVersion(x, flushed[x])'
      BY <1>2, <2>1 DEF IInv, GoodVersion
    <2>6. ASSUME NEW t \in Sessions, NEW x \in Rows PROVE GoodCopy(t, x, seen[t][x])'
      <3>1. GoodCopy(t, x, seen[t][x])
        BY DEF IInv
      <3>2. CASE t = s /\ x = r
        BY <1>2, <2>2, <2>3, <3>1, <3>2 DEF GoodCopy
      <3>3. CASE ~ (t = s /\ x = r)
        BY <1>2, <2>1, <2>3, <3>1, <3>3 DEF GoodCopy
      <3>4. QED
        BY <3>2, <3>3
    <2>7. ASSUME NEW t \in Sessions PROVE Outgoing(t)' /\ Loaded(t)'
      <3>1. Outgoing(t) /\ Loaded(t) /\ todo[t] \in Seq(Rows) /\ pc \in [Sessions -> PC]
        BY DEF IInv, TypeOK
      <3>2. Loaded(t)'
        <4>1. \A i \in 1..Len(todo[t]) : todo[t][i] \in Rows
          BY <3>1
        <4>2. \A i \in 1..Len(todo[t]) : seen'[t][todo[t][i]].status # "absent"
          BY <2>3, <3>1, <4>1 DEF Loaded
        <4>3. pc'[t] \in {"send", "flush", "waiting"} => todo[t] # <<>>
          BY <1>1, <1>2, <3>1 DEF Loaded
        <4>4. QED
          BY <1>2, <4>2, <4>3 DEF Loaded
      <3>3. CASE t = s
        <4>1. ~ result'[s]
          BY <2>1 DEF IInv, TypeOK
        <4>2. Outgoing(s)'
          BY <1>2, <2>2, <4>1 DEF Outgoing, r
        <4>3. QED
          BY <3>2, <3>3, <4>2
      <3>4. CASE t # s
        <4>1. pc'[t] = pc[t] /\ result'[t] = result[t]
          BY <1>2, <2>1, <3>4 DEF IInv, TypeOK
        <4>2. pc[t] \in {"flush", "waiting"} => Head(todo[t]) \in Rows
          BY <3>1, TailKeeps DEF Loaded
        <4>3. pc[t] \in {"flush", "waiting"} => seen'[t][Head(todo[t])] = seen[t][Head(todo[t])]
          BY <2>3, <3>4, <4>2
        <4>4. Outgoing(t)'
          BY <1>2, <2>1, <3>1, <4>1, <4>3 DEF Outgoing
        <4>5. QED
          BY <3>2, <4>4
      <3>5. QED
        BY <3>3, <3>4
    <2>8. Kept'
      BY <1>2 DEF IInv, Kept
    <2>9. QED
      BY <2>4, <2>5, <2>6, <2>7, <2>8 DEF IInv
  <1>5. QED
    BY <1>3, <1>4
\* mark_result: what an UPDATE from a good copy writes over a good version.
LEMMA UpdateGood ==
    ASSUME IInv, NEW s \in Sessions, NEW r \in Rows, NEW base \in Row,
           GoodVersion(r, base), seen[s][r].status # "absent",
           result[s] => r \in accepted,
           r \notin Unregistered => seen[s][r].attempts + 1 <= sends[r]
    PROVE /\ Update(s, seen[s][r], base) \in Row
          /\ GoodVersion(r, Update(s, seen[s][r], base))
          /\ base.status \in Ended /\ seen[s][r].status = "failed" =>
                Update(s, seen[s][r], base).status \in Ended
  <1> DEFINE c == seen[s][r]
             o == Outcome(s, c)
             v == Update(s, c, base)
  <1> USE AttemptAssumption
  <1>1. /\ c.status \in {"pending", "failed"} /\ c.attempts \in 0..MaxAttempts
        /\ sends[r] \in Nat
    BY DEF IInv, TypeOK, GoodCopy, Row
  <1>2. /\ o \in {"failed", "succeeded", "dead"}
        /\ o = "succeeded" => result[s]
        /\ o = "failed" => c.attempts + 1 < MaxAttempts
        /\ o = "dead" => c.attempts + 1 >= MaxAttempts
    BY <1>1 DEF Outcome
  <1>3. /\ v.status = IF o = c.status THEN base.status ELSE o
        /\ v.attempts = c.attempts + 1
        /\ v.due \in {"never", "later"}
        /\ v = [status |-> v.status, attempts |-> v.attempts, due |-> v.due]
    BY DEF Update
  <1>4. base.status \in {"absent", "pending", "failed", "succeeded", "dead"}
    BY DEF Row
  <1> HIDE DEF c, o, v
  <1>5. v \in Row
    BY <1>1, <1>2, <1>3, <1>4 DEF Row
  <1>6. v.status = "failed" => v.attempts < MaxAttempts
    BY <1>1, <1>2, <1>3
  <1>7. v.status = "succeeded" => r \in accepted
    BY <1>1, <1>2, <1>3 DEF GoodVersion
  <1>8. r \notin Unregistered => v.attempts <= sends[r]
    BY <1>3 DEF c
  <1>9. v.status = "dead" /\ r \notin Unregistered => sends[r] >= MaxAttempts
    <2>1. CASE o = "dead"
      BY <1>1, <1>2, <1>3, <1>8, <2>1
    <2>2. CASE o # "dead"
      BY <1>1, <1>2, <1>3, <2>2 DEF GoodVersion
    <2>3. QED
      BY <2>1, <2>2
  <1>10. base.status \in Ended /\ c.status = "failed" => v.status \in Ended
    BY <1>2, <1>3 DEF Ended
  <1>11. QED
    BY <1>5, <1>6, <1>7, <1>8, <1>9, <1>10 DEF GoodVersion, c, v

LEMMA FlushKeeps ==
    ASSUME IInv, NEW s \in Sessions, Flush(s)
    PROVE IInv'
  <1> DEFINE r == Head(todo[s])
             base == IF lock[r] = s THEN flushed[r] ELSE row[r]
             v == Update(s, seen[s][r], base)
  <1> USE AttemptAssumption, NoneAssumption
  <1>1. /\ todo[s] \in Seq(Rows) /\ todo[s] # <<>> /\ r \in Rows
        /\ seen[s][r].status # "absent"
    <2>1. todo[s] \in Seq(Rows) /\ todo[s] # <<>>
      BY DEF Flush, IInv, TypeOK, Loaded
    <2>2. r \in Rows /\ r = todo[s][1] /\ 1 \in 1..Len(todo[s])
      BY <2>1, TailKeeps
    <2>3. QED
      BY <2>1, <2>2 DEF IInv, Loaded
  <1>2. /\ UNCHANGED <<row, job, seen, result, sends, accepted, faults>>
        /\ lock[r] \in {None, s} /\ lock' = [lock EXCEPT ![r] = s]
        /\ todo' = [todo EXCEPT ![s] = Tail(todo[s])]
        /\ pc' = [pc EXCEPT ![s] = IF Len(todo[s]) = 1 THEN "commit" ELSE "send"]
    BY DEF Flush, sent
  <1>3. flushed' = [flushed EXCEPT ![r] = v]
    BY DEF Flush
  <1>4. base \in Row /\ GoodVersion(r, base)
    BY <1>1 DEF IInv, TypeOK
  <1>5. /\ v \in Row /\ GoodVersion(r, v)
        /\ base.status \in Ended /\ seen[s][r].status = "failed" => v.status \in Ended
    <2>1. Outgoing(s) /\ pc[s] = "flush"
      BY DEF IInv, Flush
    <2> HIDE DEF base
    <2>2. QED
      BY <1>1, <1>4, <2>1, UpdateGood DEF Outgoing
  <1> HIDE DEF base, v
  <1>6. TypeOK'
    <2>1. Tail(todo[s]) \in Seq(Rows)
      BY <1>1, TailKeeps
    <2>2. todo' \in [Sessions -> Seq(Rows)]
      BY <1>2, <2>1 DEF IInv, TypeOK
    <2>3. QED
      BY <1>1, <1>2, <1>3, <1>5, <2>2 DEF IInv, TypeOK, PC
  <1>7. ASSUME NEW x \in Rows PROVE GoodVersion(x, row[x])' /\ GoodVersion(x, flushed[x])'
    <2>1. GoodVersion(x, row[x]) /\ GoodVersion(x, flushed[x])
      BY DEF IInv
    <2>2. flushed'[x] = IF x = r THEN v ELSE flushed[x]
      BY <1>1, <1>3 DEF IInv, TypeOK
    <2>3. QED
      BY <1>2, <1>5, <2>1, <2>2 DEF GoodVersion
  <1>8. ASSUME NEW t \in Sessions, NEW x \in Rows PROVE GoodCopy(t, x, seen[t][x])'
    <2>1. GoodCopy(t, x, seen[t][x])
      BY DEF IInv
    <2>2. lock[x] = t => lock'[x] = t
      BY <1>1, <1>2 DEF IInv, TypeOK
    <2>3. QED
      BY <1>2, <2>1, <2>2 DEF GoodCopy
  <1>9. ASSUME NEW t \in Sessions PROVE Outgoing(t)' /\ Loaded(t)'
    <2>1. Outgoing(t) /\ Loaded(t)
      BY DEF IInv
    <2>2. CASE t = s
      <3>1. pc'[s] \in {"commit", "send"} /\ todo'[s] = Tail(todo[s])
            /\ (pc'[s] = "send" => Len(todo[s]) # 1)
        BY <1>2 DEF IInv, TypeOK
      <3>2. Outgoing(s)'
        BY <3>1 DEF Outgoing
      <3>3. \A i \in 1..Len(Tail(todo[s])) : seen[s][Tail(todo[s])[i]].status # "absent"
        BY <1>1, <2>1, <2>2, TailKeeps DEF Loaded
      <3>4. Loaded(s)'
        BY <1>1, <1>2, <3>1, <3>3, TailKeeps DEF Loaded
      <3>5. QED
        BY <2>2, <3>2, <3>4
    <2>3. CASE t # s
      <3>1. /\ pc'[t] = pc[t] /\ todo'[t] = todo[t]
            /\ result' = result /\ seen' = seen /\ sends' = sends /\ accepted' = accepted
        BY <1>2, <2>3 DEF IInv, TypeOK
      <3>2. Outgoing(t)'
        BY <2>1, <3>1 DEF Outgoing
      <3>3. Loaded(t)'
        BY <1>2, <2>1, <3>1 DEF Loaded
      <3>4. QED
        BY <3>2, <3>3
    <2>4. QED
      BY <2>2, <2>3
  <1>10. Kept'
    <2>1. ASSUME NEW x \in Rows, lock'[x] # None, row[x].status \in Ended
          PROVE  flushed'[x].status \in Ended
      <3>1. CASE x = r
        <4>1. seen[s][r].status = "failed"
          BY <1>1, <2>1, <3>1 DEF IInv, GoodCopy, Ended
        <4>2. base.status \in Ended
          BY <1>1, <2>1, <3>1 DEF IInv, Kept, base
        <4>3. QED
          BY <1>1, <1>3, <1>5, <3>1, <4>1, <4>2 DEF IInv, TypeOK
      <3>2. CASE x # r
        BY <1>1, <1>2, <1>3, <2>1, <3>2 DEF IInv, TypeOK, Kept
      <3>3. QED
        BY <3>1, <3>2
    <2>2. QED
      BY <1>2, <2>1 DEF Kept
  <1>11. QED
    BY <1>6, <1>7, <1>8, <1>9, <1>10 DEF IInv

LEMMA WaitKeeps ==
    ASSUME IInv, NEW s \in Sessions, Wait(s)
    PROVE IInv'
  <1>1. /\ UNCHANGED <<row, lock, flushed, job, todo, seen, result, sends, accepted, faults>>
        /\ pc[s] = "flush" /\ pc' = [pc EXCEPT ![s] = "waiting"]
    BY DEF Wait, sent
  <1>2. TypeOK'
    BY <1>1 DEF IInv, TypeOK, PC
  <1>3. \A x \in Rows : GoodVersion(x, row[x])' /\ GoodVersion(x, flushed[x])'
    BY <1>1 DEF IInv, GoodVersion
  <1>4. \A t \in Sessions, x \in Rows : GoodCopy(t, x, seen[t][x])'
    BY <1>1 DEF IInv, GoodCopy
  <1>5. ASSUME NEW t \in Sessions PROVE Outgoing(t)' /\ Loaded(t)'
    <2>1. Outgoing(t) /\ Loaded(t) /\ pc \in [Sessions -> PC]
      BY DEF IInv, TypeOK
    <2>2. CASE t = s
      BY <1>1, <2>1, <2>2 DEF Outgoing, Loaded
    <2>3. CASE t # s
      BY <1>1, <2>1, <2>3 DEF Outgoing, Loaded
    <2>4. QED
      BY <2>2, <2>3
  <1>6. Kept'
    BY <1>1 DEF IInv, Kept
  <1>7. QED
    BY <1>2, <1>3, <1>4, <1>5, <1>6 DEF IInv

\* The end of a session, by a commit, a rollback or a deadlock.
LEMMA CloseKeeps ==
    ASSUME IInv, NEW s \in Sessions, NEW new, Close(s, new), UNCHANGED sent,
           new = row \/ new = WithFlushed(s), faults' \in 0..MaxFaults
    PROVE IInv' /\ \A r \in Rows : row[r].status \in Ended => row'[r].status \in Ended
  <1> USE NoneAssumption
  <1>1. PICK h \in Heirs(s) :
         /\ lock' = [r \in Rows |-> IF r \in Locked(s) THEN h[r] ELSE lock[r]]
         /\ flushed' = [r \in Rows |-> IF r \notin Locked(s) THEN flushed[r]
                                      ELSE IF h[r] = None THEN Absent ELSE new[r]]
         /\ pc' = [t \in Sessions |->
              IF t = s THEN "idle"
              ELSE IF \E r \in Locked(s) : h[r] = t THEN "flush" ELSE pc[t]]
    BY DEF Close
  <1>2. /\ row' = new /\ sends' = sends /\ accepted' = accepted
        /\ job' = [job EXCEPT ![s] = "idle"] /\ todo' = [todo EXCEPT ![s] = <<>>]
        /\ result' = [result EXCEPT ![s] = FALSE]
        /\ seen' = [seen EXCEPT ![s] = [r \in Rows |-> Absent]]
    BY DEF Close, sent
  <1>3. /\ h \in [Locked(s) -> Sessions \cup {None}] /\ Locked(s) \subseteq Rows
        /\ \A r \in Locked(s) : lock[r] = s
        /\ \A r \in Locked(s) : h[r] # None => pc[h[r]] = "waiting"
    BY DEF Heirs, Waiters, Locked
  <1>4. ASSUME NEW r \in Rows
        PROVE  /\ new[r] \in Row /\ GoodVersion(r, new[r])
               /\ row[r].status \in Ended => new[r].status \in Ended
               /\ r \notin Locked(s) => new[r] = row[r]
    BY DEF IInv, TypeOK, WithFlushed, Kept, Locked
  <1>5. TypeOK'
    <2>1. new \in [Rows -> Row]
      <3>1. new = [r \in Rows |-> new[r]]
        BY DEF IInv, TypeOK, WithFlushed
      <3>2. QED
        BY <1>4, <3>1
    <2>2. flushed' \in [Rows -> Row]
      BY <1>1, <1>4, RowTypes DEF IInv, TypeOK
    <2>3. lock' \in [Rows -> Sessions \cup {None}]
      BY <1>1, <1>3 DEF IInv, TypeOK
    <2>4. pc' \in [Sessions -> PC]
      BY <1>1 DEF IInv, TypeOK, PC
    <2>5. todo' \in [Sessions -> Seq(Rows)]
      BY <1>2 DEF IInv, TypeOK
    <2>6. seen' \in [Sessions -> [Rows -> Row]]
      BY <1>2, RowTypes DEF IInv, TypeOK
    <2>7. QED
      BY <1>2, <2>1, <2>2, <2>3, <2>4, <2>5, <2>6 DEF IInv, TypeOK
  <1>6. ASSUME NEW x \in Rows PROVE GoodVersion(x, row[x])' /\ GoodVersion(x, flushed[x])'
    <2>1. GoodVersion(x, flushed[x]) /\ sends[x] \in Nat
      BY AttemptAssumption DEF IInv, TypeOK
    <2>2. GoodVersion(x, Absent)
      BY <2>1, RowTypes DEF GoodVersion
    <2>3. flushed'[x] \in {flushed[x], Absent, new[x]}
      BY <1>1
    <2>4. QED
      BY <1>2, <1>4, <2>1, <2>2, <2>3 DEF GoodVersion
  <1>7. ASSUME NEW t \in Sessions, NEW x \in Rows PROVE GoodCopy(t, x, seen[t][x])'
    <2>1. GoodCopy(t, x, seen[t][x]) /\ sends[x] \in Nat
      BY AttemptAssumption DEF IInv, TypeOK
    <2>2. CASE t = s
      <3>1. seen'[t][x] = Absent
        BY <1>2, <2>2 DEF IInv, TypeOK
      <3>2. QED
        BY <1>2, <2>1, <3>1, RowTypes, AttemptAssumption DEF GoodCopy
    <2>3. CASE t # s
      <3>1. seen'[t][x] = seen[t][x]
        BY <1>2, <2>3 DEF IInv, TypeOK
      <3>2. lock[x] = t => lock'[x] = t /\ new[x] = row[x]
        BY <1>1, <1>3, <1>4, <2>3
      <3>3. QED
        BY <1>2, <2>1, <3>1, <3>2 DEF GoodCopy
    <2>4. QED
      BY <2>2, <2>3
  <1>8. ASSUME NEW t \in Sessions PROVE Outgoing(t)' /\ Loaded(t)'
    <2>1. Outgoing(t) /\ Loaded(t)
      BY DEF IInv
    <2>2. CASE t = s
      <3>1. pc'[t] = "idle" /\ todo'[t] = <<>>
        BY <1>1, <1>2, <2>2 DEF IInv, TypeOK
      <3>2. QED
        BY <3>1, EmptySeq DEF Outgoing, Loaded
    <2>3. CASE t # s
      <3>1. /\ todo'[t] = todo[t] /\ result'[t] = result[t] /\ seen'[t] = seen[t]
            /\ pc'[t] = pc[t] \/ (pc[t] = "waiting" /\ pc'[t] = "flush")
        BY <1>1, <1>2, <1>3, <2>3 DEF IInv, TypeOK
      <3>2. QED
        BY <1>2, <2>1, <3>1 DEF Outgoing, Loaded
    <2>4. QED
      BY <2>2, <2>3
  <1>9. Kept'
    <2>1. ASSUME NEW x \in Rows, lock'[x] # None, row'[x].status \in Ended
          PROVE  flushed'[x].status \in Ended
      <3>1. CASE x \in Locked(s)
        BY <1>1, <1>2, <2>1, <3>1
      <3>2. CASE x \notin Locked(s)
        BY <1>1, <1>2, <1>4, <2>1, <3>2 DEF IInv, Kept
      <3>3. QED
        BY <3>1, <3>2
    <2>2. QED
      BY <2>1 DEF Kept
  <1>10. QED
    BY <1>2, <1>4, <1>5, <1>6, <1>7, <1>8, <1>9 DEF IInv

\* next_attempt_at passes: a status or a count is not touched.
LEMMA PassesKeeps ==
    ASSUME IInv, NEW r \in Rows, Passes(r)
    PROVE IInv' /\ \A x \in Rows : row'[x].status = row[x].status
  <1>1. /\ UNCHANGED <<lock, flushed, job, pc, todo, seen, result, sends, accepted, faults>>
        /\ row' = [row EXCEPT ![r] = [row[r] EXCEPT !.due = "now"]]
    BY DEF Passes, sent
  <1>2. /\ row' \in [Rows -> Row]
        /\ \A x \in Rows : row'[x].status = row[x].status /\ row'[x].attempts = row[x].attempts
    <2>1. /\ [row[r] EXCEPT !.due = "now"] \in Row
          /\ [row[r] EXCEPT !.due = "now"].status = row[r].status
          /\ [row[r] EXCEPT !.due = "now"].attempts = row[r].attempts
      <3>1. row[r] \in Row
        BY DEF IInv, TypeOK
      <3>2. QED
        BY <3>1 DEF Row
    <2>2. row \in [Rows -> Row]
      BY DEF IInv, TypeOK
    <2>3. row' \in [Rows -> Row]
      BY <1>1, <2>1, <2>2
    <2>4. ASSUME NEW x \in Rows
          PROVE  row'[x].status = row[x].status /\ row'[x].attempts = row[x].attempts
      <3>1. row'[x] = IF x = r THEN [row[r] EXCEPT !.due = "now"] ELSE row[x]
        BY <1>1, <2>2
      <3>2. QED
        BY <2>1, <3>1
    <2>5. QED
      BY <2>3, <2>4
  <1>3. TypeOK'
    BY <1>1, <1>2 DEF IInv, TypeOK
  <1>4. \A x \in Rows : GoodVersion(x, row[x])' /\ GoodVersion(x, flushed[x])'
    BY <1>1, <1>2 DEF IInv, GoodVersion
  <1>5. \A t \in Sessions, x \in Rows : GoodCopy(t, x, seen[t][x])'
    BY <1>1, <1>2 DEF IInv, GoodCopy
  <1>6. \A t \in Sessions : Outgoing(t)' /\ Loaded(t)'
    BY <1>1 DEF IInv, Outgoing, Loaded
  <1>7. Kept'
    BY <1>1, <1>2 DEF IInv, Kept
  <1>8. QED
    BY <1>2, <1>3, <1>4, <1>5, <1>6, <1>7 DEF IInv

-----------------------------------------------------------------------------
(* The theorems *)

\* Every step keeps the invariant and opens no ended row.
LEMMA StepGood ==
    ASSUME IInv, [Next]_vars
    PROVE IInv' /\ \A r \in Rows : row[r].status \in Ended => row'[r].status \in Ended
  <1>1. ASSUME NEW s \in Sessions, Tick(s)
        PROVE  IInv' /\ row' = row
    <2>1. PICK q \in Orders(DueRows) : DueRows # {} /\ Retry(s, q)
      BY <1>1 DEF Tick
    <2>2. /\ q \in Seq(Rows) /\ q # <<>>
          /\ \A i \in 1..Len(q) : row[q[i]].status = "failed"
      BY <2>1, OrdersAreSequences DEF IInv, TypeOK
    <2>3. IInv'
      BY <2>1, <2>2, RetryKeeps
    <2>4. QED
      BY <2>1, <2>3 DEF Retry
  <1>2. ASSUME NEW s \in Sessions, NEW r \in Rows, Single(s, r)
        PROVE  IInv' /\ row' = row
    <2>1. <<r>> \in Seq(Rows) /\ <<r>> # <<>> /\ Retry(s, <<r>>)
          /\ \A i \in 1..Len(<<r>>) : row[<<r>>[i]].status = "failed"
      BY <1>2 DEF Single
    <2>2. IInv'
      BY <2>1, RetryKeeps
    <2>3. QED
      BY <2>1, <2>2 DEF Retry
  <1>3. ASSUME NEW s \in Sessions, NEW r \in Rows, Alert(s, r)
        PROVE  IInv' /\ row' = row
    BY <1>3, AlertKeeps DEF Alert
  <1>4. ASSUME NEW s \in Sessions, Send(s) \/ Flush(s) \/ Wait(s)
        PROVE  IInv' /\ row' = row
    BY <1>4, SendKeeps, FlushKeeps, WaitKeeps DEF Send, Flush, Wait
  <1>5. ASSUME NEW s \in Sessions, Commit(s) \/ Deadlocked(s) \/ Fail(s)
        PROVE  IInv' /\ \A r \in Rows : row[r].status \in Ended => row'[r].status \in Ended
    <2>1. faults \in 0..MaxFaults /\ MaxFaults \in Nat
      BY AttemptAssumption DEF IInv, TypeOK
    <2>2. CASE Commit(s)
      BY <2>1, <2>2, CloseKeeps DEF Commit
    <2>3. CASE Deadlocked(s)
      BY <2>1, <2>3, CloseKeeps DEF Deadlocked
    <2>4. CASE Fail(s)
      BY <2>1, <2>4, CloseKeeps DEF Fail
    <2>5. QED
      BY <1>5, <2>2, <2>3, <2>4
  <1>6. ASSUME NEW r \in Rows, Passes(r)
        PROVE  IInv' /\ \A x \in Rows : row'[x].status = row[x].status
    BY <1>6, PassesKeeps
  <1>7. CASE UNCHANGED vars
    <2>1. IInv'
      BY <1>7 DEF IInv, TypeOK, GoodVersion, GoodCopy, Outgoing, Loaded, Kept, vars
    <2>2. QED
      BY <1>7, <2>1 DEF vars
  <1>8. QED
    BY <1>1, <1>2, <1>3, <1>4, <1>5, <1>6, <1>7 DEF Next, Work

LEMMA Inductive == Spec => []IInv
  <1>1. IInv /\ [Next]_vars => IInv'
    BY StepGood
  <1>2. QED
    BY InitGood, <1>1, PTL DEF Spec

\* Rows, sessions and copies keep their types (dispatch_log.py, the table).
THEOREM TypeCorrect == Spec => []TypeOK
  BY Inductive, PTL DEF IInv

\* The attempts on record were all handed to the channel.
THEOREM AttemptsCount == Spec => []AttemptsWereSent
  <1>1. IInv => AttemptsWereSent
    BY DEF IInv, GoodVersion, AttemptsWereSent
  <1>2. QED
    BY Inductive, <1>1, PTL

\* A row ends for the reason it states.
THEOREM EndsForReason == Spec => []EndedForReason
  <1>1. IInv => EndedForReason
    BY DEF IInv, GoodVersion, EndedForReason
  <1>2. QED
    BY Inductive, <1>1, PTL

\* No session, however old its copies, opens an ended row again.
THEOREM NeverReopened == Spec => EndedStays
  <1>1. IInv /\ [Next]_vars =>
          [\A r \in Rows : row[r].status \in {"succeeded", "dead"} =>
                               row'[r].status \in {"succeeded", "dead"}]_vars
    BY StepGood DEF Ended
  <1>2. QED
    BY Inductive, <1>1, PTL DEF Spec, EndedStays
=============================================================================

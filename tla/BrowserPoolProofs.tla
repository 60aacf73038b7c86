------------------------- MODULE BrowserPoolProofs -------------------------
(***************************************************************************)
(* Proofs about BrowserPool: its type, that its count of slots is exact,   *)
(* that nobody waits beside a free slot, that each close leaves one        *)
(* Chromium at the most, and that it implements SlotPool, for any number   *)
(* of calls, browsers and slots.                                           *)
(***************************************************************************)
EXTENDS BrowserPool, FiniteSetTheorems, SequenceTheorems, TLAPS

\* The queue holds calls that wait, each of them once.
Waiting ==
    /\ \A i \in 1..Len(queue) : pc[queue[i]] = "queued"
    /\ \A i, j \in 1..Len(queue) : queue[i] = queue[j] => i = j

\* Slots are counted, and the woken waiters find one; nobody waits while there are
\* more; a context belongs to a holder.
Counted ==
    /\ active = Cardinality(Holders) /\ active + Cardinality(Woken) <= MaxContexts
    /\ WaitsOnlyWhenFull
    /\ open \subseteq {c \in Calls : pc[c] \in {"running", "closing"}}

\* Chromium processes that nobody will be given again.
Orphans == InUse \ {shared, promise}

\* The shared browser lives, the promised one is launching, there are not both,
\* and each close may have left an orphan.
Launches ==
    /\ shared # None => promise = None /\ chrome[shared] = "live"
    /\ promise \in Browsers => chrome[promise] = "launching"
    /\ IsFiniteSet(Orphans) /\ Cardinality(Orphans) <= closes

IInv == TypeOK /\ Waiting /\ Counted /\ Launches

\* Holders and woken waiters are finitely many.
LEMMA Finite ==
    /\ IsFiniteSet(Holders) /\ Cardinality(Holders) \in Nat
    /\ IsFiniteSet(Woken) /\ Cardinality(Woken) \in Nat
  BY CallsAssumption, FS_Subset, FS_CardinalityType DEF Holders, Woken

-----------------------------------------------------------------------------
(* Types *)

\* waitQueue.splice(i, 1) leaves the other waiters, in their order.
LEMMA RemoveIsSeq ==
    ASSUME NEW S, NEW s \in Seq(S), NEW i \in 1..Len(s)
    PROVE  /\ RemoveAt(s, i) \in Seq(S) /\ Len(RemoveAt(s, i)) = Len(s) - 1
           /\ \A k \in 1..(Len(s) - 1) :
                RemoveAt(s, i)[k] = IF k < i THEN s[k] ELSE s[k + 1]
<1> DEFINE a == SubSeq(s, 1, i - 1)
           b == SubSeq(s, i + 1, Len(s))
<1>1. /\ a \in Seq(S) /\ Len(a) = i - 1
      /\ \A k \in 1..(i - 1) : a[k] = s[k]
  <2>1. \A k \in 1..(i - 1) : s[k] \in S
    BY LenProperties
  <2> QED BY <2>1, SubSeqProperties, LenProperties
<1>2. /\ b \in Seq(S) /\ Len(b) = Len(s) - i
      /\ \A k \in 1..(Len(s) - i) : b[k] = s[i + k]
  <2>1. \A k \in (i + 1)..Len(s) : s[k] \in S
    BY LenProperties
  <2> QED BY <2>1, SubSeqProperties, LenProperties
<1> HIDE DEF a, b
<1>3. RemoveAt(s, i) = a \o b
  BY DEF RemoveAt, a, b
<1>4. /\ a \o b \in Seq(S) /\ Len(a \o b) = Len(s) - 1
      /\ \A k \in 1..(Len(s) - 1) : (a \o b)[k] = IF k <= i - 1 THEN a[k] ELSE b[k - (i - 1)]
  <2>1. Len(s) \in Nat /\ Len(a) + Len(b) = Len(s) - 1
    BY <1>1, <1>2, LenProperties
  <2>2. /\ a \o b \in Seq(S) /\ Len(a \o b) = Len(a) + Len(b)
        /\ \A k \in 1..(Len(a) + Len(b)) :
             (a \o b)[k] = IF k <= Len(a) THEN a[k] ELSE b[k - Len(a)]
    BY <1>1, <1>2, ConcatProperties
  <2> QED BY <1>1, <2>1, <2>2
<1>5. ASSUME NEW k \in 1..(Len(s) - 1)
      PROVE  (a \o b)[k] = IF k < i THEN s[k] ELSE s[k + 1]
  BY <1>1, <1>2, <1>4, LenProperties
<1> QED BY <1>3, <1>4, <1>5

\* Every step keeps the types, the count of slots apart.
LEMMA TypeStep ==
    ASSUME TypeOK, Waiting, [Next]_vars, active' \in 0..MaxContexts
    PROVE  TypeOK'
<1> USE DEF TypeOK, Goto, browser, PC, Holding
<1>1. ASSUME NEW c \in Calls, Begin(c) PROVE TypeOK'
  <2>1. queue' \in Seq(Calls)
    BY <1>1, AppendProperties DEF Begin
  <2>2. pc' \in [Calls -> PC]
    BY <1>1 DEF Begin
  <2> QED BY <1>1, <2>1, <2>2 DEF Begin
<1>2. ASSUME NEW c \in Calls, Resume(c) PROVE TypeOK'
  BY <1>2 DEF Resume
<1>3. ASSUME NEW c \in Calls, EnsureStep(c) PROVE TypeOK'
  BY <1>3 DEF EnsureStep, Ensure
<1>4. ASSUME NEW c \in Calls, Leave(c) PROVE TypeOK'
  <2>1. CASE queue = <<>>
    BY <1>4, <2>1 DEF Leave, Release
  <2>2. CASE queue # <<>>
    <3>1. Head(queue) \in Calls /\ Tail(queue) \in Seq(Calls)
      BY <2>2, HeadTailProperties
    <3>2. /\ queue' = Tail(queue)
          /\ pc' = [pc EXCEPT ![c] = "idle", ![Head(queue)] = "woken"]
      BY <1>4, <2>2 DEF Leave, Release
    <3>3. pc' \in [Calls -> PC]
      BY <3>1, <3>2
    <3>4. queue' \in Seq(Calls)
      BY <3>1, <3>2
    <3>5. UNCHANGED <<open, shared, promise, chrome, closes>>
          /\ aborted' = aborted \ {c} /\ using' = [using EXCEPT ![c] = None]
      BY <1>4 DEF Leave
    <3>6. using' \in [Calls -> Browsers \cup {None}]
      BY <3>5
    <3> QED BY <3>3, <3>4, <3>5, <3>6
  <2> QED BY <2>1, <2>2
<1>5. ASSUME NEW c \in Calls, Abort(c) PROVE TypeOK'
  <2>1. queue' \in Seq(Calls)
    <3>1. ASSUME NEW i \in 1..Len(queue) PROVE RemoveAt(queue, i) \in Seq(Calls)
      BY RemoveIsSeq
    <3> QED BY <1>5, <3>1 DEF Abort, AbortQueued, AbortHolder
  <2> QED BY <1>5, <2>1 DEF Abort, AbortQueued, AbortHolder
<1>6. ASSUME NEW c \in Calls, Answer(c) PROVE TypeOK'
  BY <1>6 DEF Answer, Opened, OpenFails, PageFails, Finish, Closed
<1>7. ASSUME NEW b \in Browsers, Launched(b) \/ LaunchFails(b) PROVE TypeOK'
  <2>1. pc' \in [Calls -> PC]
    BY <1>7 DEF Launched, LaunchFails, Continue
  <2> QED BY <1>7, <2>1 DEF Launched, LaunchFails
<1>8. ASSUME NEW b \in Browsers, Disconnect(b) PROVE TypeOK'
  BY <1>8 DEF Disconnect, Gone
<1>9. CASE CloseShared
  BY <1>9, MaxAssumption DEF CloseShared, Gone
<1>10. CASE UNCHANGED vars
  BY <1>10 DEF vars
<1> QED BY <1>1, <1>2, <1>3, <1>4, <1>5, <1>6, <1>7, <1>8, <1>9, <1>10 DEF Next, Continuation
-----------------------------------------------------------------------------
(* The queue *)

\* A step that leaves the queue alone, and those in it waiting, keeps Waiting.
LEMMA QueueKept ==
    ASSUME TypeOK, Waiting, UNCHANGED queue,
           \A c \in Calls : pc[c] = "queued" => pc'[c] = "queued"
    PROVE  Waiting'
<1>1. \A i \in 1..Len(queue) : queue[i] \in Calls
  BY ElementOfSeq DEF TypeOK
<1> QED BY <1>1 DEF Waiting

\* Joining, leaving in front and giving up keep every waiter in the queue once.
LEMMA WaitingStep ==
    ASSUME TypeOK, Waiting, [Next]_vars
    PROVE  Waiting'
<1> DEFINE n == Len(queue)
<1>0. /\ queue \in Seq(Calls) /\ n \in Nat /\ pc \in [Calls -> PC]
      /\ \A i \in 1..n : queue[i] \in Calls /\ pc[queue[i]] = "queued"
      /\ \A i, j \in 1..n : queue[i] = queue[j] => i = j
  BY LenProperties, ElementOfSeq DEF TypeOK, Waiting
<1>1. ASSUME NEW c \in Calls, Begin(c) PROVE Waiting'
  <2>1. CASE active < MaxContexts
    BY <1>1, <2>1, <1>0, QueueKept DEF Begin, Goto
  <2>2. CASE ~(active < MaxContexts)
    <3>1. /\ queue' = Append(queue, c) /\ pc' = [pc EXCEPT ![c] = "queued"]
          /\ pc[c] = "idle"
      BY <1>1, <2>2 DEF Begin, Goto
    <3>2. /\ Len(queue') = n + 1 /\ queue'[n + 1] = c
          /\ \A i \in 1..n : queue'[i] = queue[i]
      BY <3>1, <1>0, AppendProperties
    <3>3. \A i \in 1..n : queue[i] # c
      BY <3>1, <1>0
    <3> QED BY <1>0, <3>1, <3>2, <3>3 DEF Waiting
  <2> QED BY <2>1, <2>2
<1>2. ASSUME NEW c \in Calls, Resume(c) \/ EnsureStep(c) \/ Answer(c) PROVE Waiting'
  BY <1>2, <1>0, QueueKept DEF Resume, EnsureStep, Ensure, Answer, Opened, OpenFails,
                               PageFails, Finish, Closed, Goto
<1>3. ASSUME NEW c \in Calls, Leave(c) PROVE Waiting'
  <2>1. CASE queue = <<>>
    BY <1>3, <2>1, <1>0, QueueKept DEF Leave, Release, Goto
  <2>2. CASE queue # <<>>
    <3>1. /\ queue' = Tail(queue) /\ pc[c] = "leaving"
          /\ pc' = [pc EXCEPT ![c] = "idle", ![Head(queue)] = "woken"]
      BY <1>3, <2>2 DEF Leave, Release
    <3>2. /\ Len(queue') = n - 1
          /\ \A i \in 1..(n - 1) : queue'[i] = queue[i + 1]
      BY <3>1, <2>2, <1>0, HeadTailProperties
    <3>3. \A i \in 1..(n - 1) : queue[i + 1] # c /\ queue[i + 1] # queue[1]
      BY <3>1, <1>0
    <3>4. \A i \in 1..(n - 1) : pc'[queue[i + 1]] = "queued"
      BY <3>1, <3>3, <1>0
    <3> QED BY <1>0, <3>2, <3>4 DEF Waiting
  <2> QED BY <2>1, <2>2
<1>4. ASSUME NEW c \in Calls, Abort(c) PROVE Waiting'
  <2>1. CASE AbortHolder(c)
    BY <2>1, QueueKept DEF AbortHolder
  <2>2. CASE AbortQueued(c)
    <3>1. PICK k \in 1..n : queue[k] = c /\ queue' = RemoveAt(queue, k)
      BY <2>2 DEF AbortQueued
    <3>2. /\ Len(queue') = n - 1
          /\ \A i \in 1..(n - 1) : queue'[i] = IF i < k THEN queue[i] ELSE queue[i + 1]
      BY <3>1, <1>0, RemoveIsSeq
    <3>3. pc' = [pc EXCEPT ![c] = "idle"]
      BY <2>2 DEF AbortQueued, Goto
    <3>4. \A i \in 1..(n - 1) : queue'[i] # c /\ pc'[queue'[i]] = "queued"
      BY <1>0, <3>1, <3>2, <3>3
    <3> QED BY <1>0, <3>2, <3>4 DEF Waiting
  <2> QED BY <1>4, <2>1, <2>2 DEF Abort
<1>5. ASSUME NEW b \in Browsers, Launched(b) \/ LaunchFails(b) PROVE Waiting'
  BY <1>5, <1>0, QueueKept DEF Launched, LaunchFails, Continue
<1>6. ASSUME NEW b \in Browsers, Disconnect(b) PROVE Waiting'
  BY <1>6, QueueKept DEF Disconnect
<1>7. CASE CloseShared \/ UNCHANGED vars
  BY <1>7, QueueKept DEF CloseShared, vars
<1> QED BY <1>1, <1>2, <1>3, <1>4, <1>5, <1>6, <1>7 DEF Next, Continuation

-----------------------------------------------------------------------------
(* The count *)

\* A step that keeps the holders, the woken and the count keeps Counted.
LEMMA SlotsKept ==
    ASSUME Counted, UNCHANGED active, Holders' = Holders, Woken' = Woken,
           queue = <<>> => queue' = <<>>,
           open' \subseteq {c \in Calls : pc'[c] \in {"running", "closing"}}
    PROVE  Counted'
  BY DEF Counted, WaitsOnlyWhenFull

\* A step that moves calls from one label of a holder to another does so.
LEMMA HoldersMove ==
    ASSUME \A c \in Calls : \/ pc'[c] = pc[c]
                            \/ pc[c] \in Holding /\ pc'[c] \in Holding
    PROVE  Holders' = Holders /\ Woken' = Woken
  BY DEF Holders, Woken, Holding

\* Slots are taken and given back one by one, and a waiter is woken for each
\* slot given back while somebody waits.
LEMMA CountedStep ==
    ASSUME IInv, [Next]_vars
    PROVE  Counted'
<1>0. /\ pc \in [Calls -> PC] /\ open \subseteq Calls /\ active \in Nat
      /\ active = Cardinality(Holders) /\ active + Cardinality(Woken) <= MaxContexts
      /\ open \subseteq {c \in Calls : pc[c] \in {"running", "closing"}}
      /\ MaxContexts \in Nat /\ Cardinality(Woken) \in Nat
      /\ queue # <<>> => active + Cardinality(Woken) = MaxContexts
  BY MaxAssumption, Finite DEF IInv, TypeOK, Counted, WaitsOnlyWhenFull
<1>1. ASSUME NEW c \in Calls, Begin(c) PROVE Counted'
  <2>1. CASE active < MaxContexts
    <3>1. /\ active' = active + 1 /\ pc' = [pc EXCEPT ![c] = "ensure"]
          /\ pc[c] = "idle" /\ UNCHANGED open
      BY <1>1, <2>1 DEF Begin, Goto
    <3>2. Holders' = Holders \cup {c} /\ c \notin Holders
      BY <3>1, <1>0 DEF Holders, Holding
    <3>3. Woken = {} /\ Woken' = {}
      BY <1>1, <3>1, <1>0 DEF Begin, Quiet, Micro, Woken
    <3>4. Cardinality(Holders') = active + 1 /\ Cardinality(Woken') = 0
      BY <3>2, <3>3, <1>0, Finite, FS_AddElement, FS_EmptySet
    <3>5. queue' = <<>>
      BY <1>1, <2>1, <3>3, <1>0, FS_EmptySet DEF Begin
    <3> QED BY <2>1, <3>1, <3>4, <3>5, <1>0 DEF Counted, WaitsOnlyWhenFull
  <2>2. CASE ~(active < MaxContexts)
    <3>1. /\ UNCHANGED <<active, open>> /\ pc' = [pc EXCEPT ![c] = "queued"]
          /\ pc[c] = "idle"
      BY <1>1, <2>2 DEF Begin, Goto
    <3>2. Holders' = Holders /\ Woken' = Woken
      BY <3>1, <1>0 DEF Holders, Holding, Woken
    <3> QED BY <2>2, <3>1, <3>2, <1>0 DEF Counted, WaitsOnlyWhenFull
  <2> QED BY <2>1, <2>2
<1>2. ASSUME NEW c \in Calls, Resume(c) PROVE Counted'
  <2>1. /\ active' = active + 1 /\ pc' = [pc EXCEPT ![c] = "ensure"]
        /\ pc[c] = "woken" /\ UNCHANGED <<queue, open>>
    BY <1>2 DEF Resume, Goto
  <2>2. /\ Holders' = Holders \cup {c} /\ c \notin Holders
        /\ Woken' = Woken \ {c} /\ c \in Woken
    BY <2>1, <1>0 DEF Holders, Holding, Woken
  <2>3. /\ Cardinality(Holders') = active + 1
        /\ Cardinality(Woken') = Cardinality(Woken) - 1
    BY <2>2, <1>0, Finite, FS_AddElement, FS_RemoveElement
  <2> QED BY <2>1, <2>3, <1>0 DEF Counted, WaitsOnlyWhenFull
<1>3. ASSUME NEW c \in Calls, EnsureStep(c) \/ Answer(c) PROVE Counted'
  <2>1. Holders' = Holders /\ Woken' = Woken /\ UNCHANGED active
    BY <1>3, <1>0, HoldersMove DEF EnsureStep, Ensure, Answer, Opened, OpenFails,
                                   PageFails, Finish, Closed, Goto, Holding
  <2>2. open' \subseteq {x \in Calls : pc'[x] \in {"running", "closing"}}
    BY <1>3, <1>0 DEF EnsureStep, Ensure, Answer, Opened, OpenFails,
                      PageFails, Finish, Closed, Goto
  <2>3. UNCHANGED queue
    BY <1>3 DEF EnsureStep, Answer, Opened, OpenFails, PageFails, Finish, Closed
  <2> QED BY <2>1, <2>2, <2>3, SlotsKept DEF IInv
<1>4. ASSUME NEW c \in Calls, Leave(c) PROVE Counted'
  <2>1. pc[c] = "leaving" /\ c \in Holders /\ UNCHANGED open
    BY <1>4 DEF Leave, Holders, Holding
  <2>2. active > 0 /\ active' = active - 1
    <3>1. Holders # {}
      BY <2>1
    <3>2. active # 0
      BY <3>1, <1>0, Finite, FS_EmptySet
    <3> QED BY <3>2, <1>0, <1>4 DEF Leave, Release
  <2>3. CASE queue = <<>>
    <3>1. pc' = [pc EXCEPT ![c] = "idle"]
      BY <1>4, <2>3 DEF Leave, Release, Goto
    <3>2. Holders' = Holders \ {c} /\ Woken' = Woken
      BY <3>1, <2>1, <1>0 DEF Holders, Holding, Woken
    <3>3. Cardinality(Holders') = active - 1
      BY <3>2, <2>1, <1>0, Finite, FS_RemoveElement
    <3>4. open' \subseteq {x \in Calls : pc'[x] \in {"running", "closing"}}
      BY <3>1, <2>1, <1>0
    <3>5. queue' = <<>>
      BY <1>4, <2>3 DEF Leave, Release
    <3> QED BY <2>2, <3>2, <3>3, <3>4, <3>5, <1>0 DEF Counted, WaitsOnlyWhenFull
  <2>4. CASE queue # <<>>
    <3> DEFINE h == Head(queue)
    <3>1. h \in Calls /\ pc[h] = "queued"
      <4>1. h = queue[1] /\ 1 \in 1..Len(queue) /\ h \in Calls
        BY <2>4, EmptySeq, LenProperties, HeadTailProperties DEF IInv, TypeOK
      <4> QED BY <4>1 DEF IInv, Waiting
    <3>2. pc' = [pc EXCEPT ![c] = "idle", ![h] = "woken"]
      BY <1>4, <2>4 DEF Leave, Release
    <3> HIDE DEF h
    <3>3. /\ Holders' = Holders \ {c}
          /\ Woken' = Woken \cup {h} /\ h \notin Woken
      BY <3>1, <3>2, <2>1, <1>0 DEF Holders, Holding, Woken
    <3>4. /\ Cardinality(Holders') = active - 1
          /\ Cardinality(Woken') = Cardinality(Woken) + 1
      BY <3>3, <2>1, <1>0, Finite, FS_RemoveElement, FS_AddElement
    <3>5. open' \subseteq {x \in Calls : pc'[x] \in {"running", "closing"}}
      BY <3>1, <3>2, <2>1, <1>0
    <3> QED BY <2>2, <2>4, <3>4, <3>5, <1>0 DEF Counted, WaitsOnlyWhenFull
  <2> QED BY <2>3, <2>4
<1>5. ASSUME NEW c \in Calls, Abort(c) PROVE Counted'
  <2>1. UNCHANGED <<active, open>>
        /\ (UNCHANGED pc \/ (pc[c] = "queued" /\ pc' = [pc EXCEPT ![c] = "idle"]))
    BY <1>5 DEF Abort, AbortQueued, AbortHolder, Goto
  <2>2. Holders' = Holders /\ Woken' = Woken
    BY <2>1, <1>0 DEF Holders, Holding, Woken
  <2>3. open' \subseteq {x \in Calls : pc'[x] \in {"running", "closing"}}
    BY <2>1, <1>0
  <2>4. queue = <<>> => queue' = <<>>
    <3>1. queue = <<>> => 1..Len(queue) = {}
      BY EmptySeq
    <3> QED BY <1>5, <3>1 DEF Abort, AbortQueued, AbortHolder
  <2> QED BY <2>1, <2>2, <2>3, <2>4, SlotsKept DEF IInv
<1>6. ASSUME NEW b \in Browsers, Launched(b) \/ LaunchFails(b) PROVE Counted'
  <2>1. \A c \in Calls : \/ pc'[c] = pc[c]
                         \/ pc[c] = "launching" /\ pc'[c] \in {"opening", "leaving"}
    BY <1>6 DEF Launched, LaunchFails, Continue
  <2>2. Holders' = Holders /\ Woken' = Woken
    BY <2>1, HoldersMove DEF Holding
  <2>3. UNCHANGED <<active, queue, open>>
    BY <1>6 DEF Launched, LaunchFails
  <2> QED BY <2>1, <2>2, <2>3, <1>0, SlotsKept DEF IInv
<1>7. CASE CloseShared \/ UNCHANGED vars \/ \E b \in Browsers : Disconnect(b)
  <2>1. UNCHANGED <<pc, active, queue, open>>
    BY <1>7 DEF CloseShared, vars, Disconnect
  <2> QED BY <2>1, <1>0, HoldersMove, SlotsKept DEF IInv
<1> QED BY <1>1, <1>2, <1>3, <1>4, <1>5, <1>6, <1>7 DEF Next, Continuation

-----------------------------------------------------------------------------
(* Launches *)

\* Orphans are counted one by one.
LEMMA OrphanCount ==
    ASSUME Launches, closes \in Nat
    PROVE  /\ Cardinality(Orphans) \in Nat
           /\ \A b : /\ IsFiniteSet(Orphans \cup {b})
                    /\ Cardinality(Orphans \cup {b}) <= Cardinality(Orphans) + 1
           /\ \A O : O \subseteq Orphans =>
                     IsFiniteSet(O) /\ Cardinality(O) <= Cardinality(Orphans)
           /\ \A b \in Orphans : \A x :
                /\ IsFiniteSet((Orphans \ {b}) \cup {x})
                /\ Cardinality((Orphans \ {b}) \cup {x}) <= Cardinality(Orphans)
<1>1. IsFiniteSet(Orphans) /\ Cardinality(Orphans) \in Nat
  BY FS_CardinalityType DEF Launches
<1>2. ASSUME NEW O, IsFiniteSet(O), NEW b
      PROVE  /\ IsFiniteSet(O \cup {b}) /\ Cardinality(O) \in Nat
             /\ Cardinality(O \cup {b}) <= Cardinality(O) + 1
  <2>1. Cardinality(O) \in Nat
    BY <1>2, FS_CardinalityType
  <2>2. /\ IsFiniteSet(O \cup {b})
        /\ Cardinality(O \cup {b}) = IF b \in O THEN Cardinality(O) ELSE Cardinality(O) + 1
    BY <1>2, FS_AddElement
  <2> QED BY <2>1, <2>2
<1>3. ASSUME NEW b \in Orphans
      PROVE  /\ IsFiniteSet(Orphans \ {b})
             /\ Cardinality(Orphans \ {b}) = Cardinality(Orphans) - 1
  BY <1>1, FS_RemoveElement
<1>4. ASSUME NEW b \in Orphans, NEW x
      PROVE  /\ IsFiniteSet((Orphans \ {b}) \cup {x})
             /\ Cardinality((Orphans \ {b}) \cup {x}) <= Cardinality(Orphans)
  <2> DEFINE R == Orphans \ {b}
  <2>1. IsFiniteSet(R) /\ Cardinality(R) = Cardinality(Orphans) - 1
    BY <1>3
  <2> HIDE DEF R
  <2>2. IsFiniteSet(R \cup {x}) /\ Cardinality(R \cup {x}) <= Cardinality(R) + 1
        /\ Cardinality(R \cup {x}) \in Nat
    BY <2>1, <1>2, FS_CardinalityType
  <2>3. Cardinality(R \cup {x}) <= Cardinality(Orphans)
    BY <1>1, <2>1, <2>2
  <2> QED BY <2>2, <2>3 DEF R
<1> QED BY <1>1, <1>2, <1>4, FS_Subset

\* A step that makes no orphan, and one that gives the shared or promised browser
\* up for an orphan.
LEMMA LaunchesKept ==
    ASSUME Launches, closes \in Nat, closes' \in Nat, closes <= closes',
           \/ Orphans' \subseteq Orphans
           \/ \E b \in Orphans : \E x : Orphans' \subseteq (Orphans \ {b}) \cup {x}
           \/ closes' = closes + 1 /\ \E x : Orphans' \subseteq Orphans \cup {x}
    PROVE  IsFiniteSet(Orphans') /\ Cardinality(Orphans') <= closes'
<1>1. Cardinality(Orphans) \in Nat /\ Cardinality(Orphans) <= closes
  BY OrphanCount DEF Launches
<1>2. CASE Orphans' \subseteq Orphans
  <2>1. IsFiniteSet(Orphans') /\ Cardinality(Orphans') <= Cardinality(Orphans)
    BY <1>2, OrphanCount
  <2>2. Cardinality(Orphans') \in Nat
    BY <2>1, FS_CardinalityType
  <2> QED BY <1>1, <2>1, <2>2
<1>3. CASE \E b \in Orphans : \E x : Orphans' \subseteq (Orphans \ {b}) \cup {x}
  <2>1. PICK b \in Orphans : \E y : Orphans' \subseteq (Orphans \ {b}) \cup {y}
    BY <1>3
  <2>2. PICK x : Orphans' \subseteq (Orphans \ {b}) \cup {x}
    BY <2>1
  <2> DEFINE O == (Orphans \ {b}) \cup {x}
  <2>3. IsFiniteSet(O) /\ Cardinality(O) <= Cardinality(Orphans)
    BY OrphanCount
  <2>4. Cardinality(O) \in Nat
    BY <2>3, FS_CardinalityType
  <2> HIDE DEF O
  <2>5. IsFiniteSet(Orphans') /\ Cardinality(Orphans') <= Cardinality(O)
    BY <2>2, <2>3, FS_Subset DEF O
  <2>6. Cardinality(Orphans') \in Nat
    BY <2>5, FS_CardinalityType
  <2> QED BY <1>1, <2>3, <2>4, <2>5, <2>6
<1>4. CASE closes' = closes + 1 /\ \E x : Orphans' \subseteq Orphans \cup {x}
  <2>1. PICK x : Orphans' \subseteq Orphans \cup {x}
    BY <1>4
  <2> DEFINE O == Orphans \cup {x}
  <2>2. IsFiniteSet(O) /\ Cardinality(O) <= Cardinality(Orphans) + 1
    BY OrphanCount
  <2>3. Cardinality(O) \in Nat
    BY <2>2, FS_CardinalityType
  <2> HIDE DEF O
  <2>4. IsFiniteSet(Orphans') /\ Cardinality(Orphans') <= Cardinality(O)
    BY <2>1, <2>2, FS_Subset DEF O
  <2>5. Cardinality(Orphans') \in Nat
    BY <2>4, FS_CardinalityType
  <2> QED BY <1>1, <1>4, <2>2, <2>3, <2>4, <2>5
<1> QED BY <1>2, <1>3, <1>4

\* A launch that ends late, and one that closeSharedBrowser overtook, trade one
\* orphan for another; only a close makes one.
LEMMA LaunchesStep ==
    ASSUME TypeOK, Launches, [Next]_vars
    PROVE  Launches'
<1>0. /\ closes \in Nat /\ chrome \in [Browsers -> {"off", "launching", "live"}]
      /\ shared \in Browsers \cup {None} /\ promise \in Browsers \cup {None, Rejected}
      /\ None \notin Browsers /\ Rejected \notin Browsers /\ None # Rejected
      /\ shared # None => promise = None /\ chrome[shared] = "live"
      /\ promise \in Browsers => chrome[promise] = "launching"
  BY MaxAssumption, NoneAssumption DEF TypeOK, Launches
<1>1. CASE UNCHANGED browser
  BY <1>1 DEF browser, Launches, Orphans, InUse
<1>2. ASSUME NEW c \in Calls, EnsureStep(c) PROVE Launches'
  <2>1. UNCHANGED <<shared, closes>>
    BY <1>2 DEF EnsureStep
  <2>2. CASE UNCHANGED <<promise, chrome>>
    BY <2>1, <2>2, <1>1 DEF browser
  <2>3. ASSUME NEW b \in Browsers \ InUse, shared = None, promise = None, promise' = b,
               chrome' = [chrome EXCEPT ![b] = "launching"]
        PROVE  Launches'
    <3>1. Orphans' \subseteq Orphans
      BY <2>1, <2>3, <1>0 DEF Orphans, InUse
    <3> QED BY <3>1, <2>1, <2>3, <1>0, LaunchesKept DEF Launches
  <2> QED BY <1>2, <2>2, <2>3 DEF EnsureStep, Ensure
<1>3. ASSUME NEW b \in Browsers, Launched(b) PROVE Launches'
  <2>1. /\ chrome[b] = "launching" /\ chrome' = [chrome EXCEPT ![b] = "live"]
        /\ shared' = b /\ promise' = None /\ UNCHANGED closes
    BY <1>3 DEF Launched
  <2>2. CASE promise = b
    <3>1. Orphans' \subseteq Orphans
      BY <2>1, <2>2, <1>0 DEF Orphans, InUse
    <3> QED BY <3>1, <2>1, <1>0, LaunchesKept DEF Launches
  <2>3. CASE promise # b
    <3>1. b \in Orphans
      BY <2>1, <2>3, <1>0 DEF Orphans, InUse
    <3> DEFINE x == IF shared = None THEN promise ELSE shared
    <3>2. Orphans' \subseteq (Orphans \ {b}) \cup {x}
      BY <2>1, <1>0 DEF Orphans, InUse
    <3> QED BY <3>1, <3>2, <2>1, <1>0, LaunchesKept DEF Launches
  <2> QED BY <2>2, <2>3
<1>4. ASSUME NEW b \in Browsers, LaunchFails(b) PROVE Launches'
  <2>1. /\ chrome[b] = "launching" /\ chrome' = [chrome EXCEPT ![b] = "off"]
        /\ promise' = IF promise = b THEN Rejected ELSE promise
        /\ UNCHANGED <<shared, closes>>
    BY <1>4 DEF LaunchFails
  <2>2. Orphans' \subseteq Orphans
    BY <2>1, <1>0 DEF Orphans, InUse
  <2> QED BY <2>1, <2>2, <1>0, LaunchesKept DEF Launches
<1>5. ASSUME NEW b \in Browsers, Disconnect(b) PROVE Launches'
  <2>1. /\ chrome[b] = "live" /\ UNCHANGED closes
        /\ chrome' = [x \in Browsers |-> IF x = b THEN "off" ELSE chrome[x]]
        /\ IF shared = b THEN shared' = None /\ promise' = None
                         ELSE UNCHANGED <<shared, promise>>
    BY <1>5 DEF Disconnect, Gone
  <2>2. Orphans' \subseteq Orphans
    BY <2>1, <1>0 DEF Orphans, InUse
  <2> QED BY <2>1, <2>2, <1>0, LaunchesKept DEF Launches
<1>6. CASE CloseShared
  <2>1. shared' = None /\ promise' = None /\ closes' = closes + 1
    BY <1>6 DEF CloseShared
  <2>2. Orphans' \subseteq Orphans \cup {promise}
    BY <1>6, <2>1, <1>0 DEF CloseShared, Gone, Orphans, InUse
  <2> QED BY <2>1, <2>2, <1>0, LaunchesKept DEF Launches
<1>7. ASSUME NEW c \in Calls, Begin(c) \/ Resume(c) \/ Leave(c) \/ Abort(c) \/ Answer(c)
      PROVE  UNCHANGED browser
  BY <1>7 DEF Begin, Resume, Leave, Abort, Answer, Opened, OpenFails, PageFails, Finish,
              Closed, browser
<1>8. UNCHANGED vars => UNCHANGED browser
  BY DEF vars, browser
<1> QED BY <1>1, <1>2, <1>3, <1>4, <1>5, <1>6, <1>7, <1>8 DEF Next, Continuation

-----------------------------------------------------------------------------
(* The invariant, and what follows from it. *)

LEMMA InitIInv == Init => IInv
<1> SUFFICES ASSUME Init PROVE IInv
  OBVIOUS
<1>1. TypeOK
  BY MaxAssumption, EmptySeq DEF Init, TypeOK, PC
<1>4. Waiting
  BY EmptySeq DEF Init, Waiting
<1>2. Holders = {} /\ Woken = {}
  BY DEF Init, Holders, Holding, Woken
<1>3. Counted
  BY <1>2, MaxAssumption, FS_EmptySet DEF Init, Counted, WaitsOnlyWhenFull
<1>5. Launches
  <2>1. Orphans = {}
    BY DEF Init, Orphans, InUse
  <2> QED BY <2>1, FS_EmptySet, NoneAssumption DEF Init, Launches
<1> QED BY <1>1, <1>3, <1>4, <1>5 DEF IInv

LEMMA Invariant == Spec => []IInv
<1>1. IInv /\ [Next]_vars => IInv'
  <2> SUFFICES ASSUME IInv, [Next]_vars PROVE IInv'
    OBVIOUS
  <2>1. Counted'
    BY CountedStep
  <2>2. active' \in 0..MaxContexts
    <3>1. active' = Cardinality(Holders)' /\ active' + Cardinality(Woken)' <= MaxContexts
      BY <2>1 DEF Counted
    <3>2. Cardinality(Holders)' \in Nat /\ Cardinality(Woken)' \in Nat
      <4>1. Holders' \in SUBSET Calls /\ Woken' \in SUBSET Calls
        BY DEF Holders, Woken
      <4> QED BY <4>1, CallsAssumption, FS_Subset, FS_CardinalityType
    <3> QED BY <3>1, <3>2, MaxAssumption
  <2>3. TypeOK' /\ Waiting'
    BY <2>2, TypeStep, WaitingStep DEF IInv
  <2>4. Launches'
    BY LaunchesStep DEF IInv
  <2> QED BY <2>1, <2>3, <2>4 DEF IInv
<1> QED BY <1>1, InitIInv, PTL DEF Spec

\* The count of slots stays between zero and MAX_BROWSER_CONTEXTS, the queue
\* holds calls, and the shared browser and its promise name a browser or none.
THEOREM TypeCorrect == Spec => []TypeOK
<1>1. IInv => TypeOK
  BY DEF IInv
<1> QED BY <1>1, Invariant, PTL

\* activeContexts counts the calls that hold a slot, and no more contexts
\* exist than that, whatever is aborted, rejected or closed.
THEOREM SlotsCounted == Spec => []SlotsExact
<1>1. IInv => SlotsExact
  <2> SUFFICES ASSUME IInv PROVE SlotsExact
    OBVIOUS
  <2>1. open \subseteq Holders /\ active = Cardinality(Holders)
    BY DEF IInv, Counted, Holders, Holding
  <2>2. Cardinality(open) <= Cardinality(Holders)
    BY <2>1, Finite, FS_Subset
  <2> QED BY <2>1, <2>2 DEF SlotsExact
<1> QED BY <1>1, Invariant, PTL

\* Nobody waits while a slot is free or unclaimed: aborts of waiters, in any
\* position of the queue, neither strand the others nor use up a wake-up.
THEOREM NobodyWaitsInVain == Spec => []WaitsOnlyWhenFull
<1>1. IInv => WaitsOnlyWhenFull
  BY DEF IInv, Counted
<1> QED BY <1>1, Invariant, PTL

\* However launches, disconnects and closes overtake each other, there is one
\* Chromium at the most, and one more for each closeSharedBrowser.
THEOREM BrowsersFew == Spec => []FewBrowsers
<1>1. IInv => FewBrowsers
  <2> SUFFICES ASSUME IInv PROVE FewBrowsers
    OBVIOUS
  <2> DEFINE x == IF shared = None THEN promise ELSE shared
             O == Orphans \cup {x}
  <2>1. closes \in Nat /\ Cardinality(Orphans) \in Nat /\ Cardinality(Orphans) <= closes
    BY MaxAssumption, OrphanCount DEF IInv, TypeOK, Launches
  <2>2. IsFiniteSet(O) /\ Cardinality(O) <= Cardinality(Orphans) + 1
    BY <2>1, OrphanCount DEF IInv
  <2>3. InUse \subseteq O
    BY NoneAssumption DEF IInv, Launches, Orphans, InUse
  <2> HIDE DEF O
  <2>4. Cardinality(O) \in Nat /\ Cardinality(InUse) <= Cardinality(O)
    BY <2>2, <2>3, FS_Subset, FS_CardinalityType
  <2>5. Cardinality(InUse) \in Nat
    BY <2>2, <2>3, FS_Subset, FS_CardinalityType
  <2> QED BY <2>1, <2>2, <2>4, <2>5 DEF FewBrowsers
<1> QED BY <1>1, Invariant, PTL

-----------------------------------------------------------------------------
(* The pool implements the abstract one *)

Owners == Holders \cup Woken

\* The abstract pool counts as this one does.
LEMMA SameCount ==
    ASSUME IInv
    PROVE  Pool!Cardinality(Owners) = active + Cardinality(Woken)
<1>1. Pool!Cardinality(Owners) = Cardinality(Owners)
  BY DEF Pool!Cardinality, Cardinality
<1>2. Holders \cap Woken = {}
  BY DEF Holders, Woken, Holding
<1>3. Cardinality(Owners) = Cardinality(Holders) + Cardinality(Woken)
  <2>1. /\ IsFiniteSet(Owners)
        /\ Cardinality(Owners) = Cardinality(Holders) + Cardinality(Woken)
                                 - Cardinality(Holders \cap Woken)
    BY Finite, FS_Union DEF Owners
  <2>2. Cardinality(Holders \cap Woken) = 0
    BY <1>2, FS_EmptySet
  <2> QED BY <2>1, <2>2, Finite
<1> QED BY <1>1, <1>3 DEF IInv, Counted

\* A call takes a free slot only if nobody is in line, and joins the line only
\* when all slots are held.
LEMMA BeginPool ==
    ASSUME IInv, NEW c \in Calls, Begin(c)
    PROVE  Pool!AskFree(c) \/ Pool!AskFull(c)
<1>0. /\ pc \in [Calls -> PC] /\ queue \in Seq(Calls) /\ pc[c] = "idle"
      /\ active \in Nat /\ MaxContexts \in Nat /\ active <= MaxContexts
  BY MaxAssumption DEF Begin, IInv, TypeOK
<1>1. Woken = {} /\ Cardinality(Woken) = 0
  BY FS_EmptySet DEF Begin, Quiet, Micro, Woken
<1>2. Pool!Cardinality(Owners) = active /\ c \notin Owners
  BY <1>0, <1>1, SameCount DEF Owners, Holders, Woken, Holding
<1>3. CASE active < MaxContexts
  <2>1. queue = <<>>
    BY <1>0, <1>1, <1>3 DEF IInv, Counted, WaitsOnlyWhenFull
  <2>2. pc' = [pc EXCEPT ![c] = "ensure"] /\ UNCHANGED queue
    BY <1>3 DEF Begin, Goto
  <2>3. Owners' = Owners \cup {c}
    BY <1>0, <2>2 DEF Owners, Holders, Woken, Holding
  <2> QED BY <1>2, <1>3, <2>1, <2>2, <2>3 DEF Pool!AskFree, Owners
<1>4. CASE ~(active < MaxContexts)
  <2>1. pc' = [pc EXCEPT ![c] = "queued"] /\ queue' = Append(queue, c)
    BY <1>4 DEF Begin, Goto
  <2>2. Owners' = Owners
    BY <1>0, <2>1 DEF Owners, Holders, Woken, Holding
  <2>3. ~ Pool!InLine(c)
    BY <1>0 DEF Pool!InLine, IInv, Waiting
  <2> QED BY <1>0, <1>2, <1>4, <2>1, <2>2, <2>3 DEF Pool!AskFull, Owners
<1> QED BY <1>3, <1>4

\* The slot of a call that leaves passes to the waiter it wakes.
LEMMA LeavePool ==
    ASSUME IInv, NEW c \in Calls, Leave(c)
    PROVE  Pool!GiveBack(c)
<1>0. /\ pc \in [Calls -> PC] /\ queue \in Seq(Calls) /\ pc[c] = "leaving"
      /\ c \in Owners
  BY DEF Leave, IInv, TypeOK, Owners, Holders, Holding
<1>1. CASE queue = <<>>
  <2>1. pc' = [pc EXCEPT ![c] = "idle"] /\ UNCHANGED queue
    BY <1>1 DEF Leave, Release, Goto
  <2>2. Owners' = Owners \ {c}
    BY <1>0, <2>1 DEF Owners, Holders, Woken, Holding
  <2> QED BY <1>0, <1>1, <2>1, <2>2 DEF Pool!GiveBack, Owners
<1>2. CASE queue # <<>>
  <2> DEFINE h == Head(queue)
  <2>1. h \in Calls /\ pc[h] = "queued"
    <3>1. h = queue[1] /\ 1 \in 1..Len(queue) /\ h \in Calls
      BY <1>0, <1>2, EmptySeq, LenProperties, HeadTailProperties
    <3> QED BY <3>1 DEF IInv, Waiting
  <2>2. /\ pc' = [pc EXCEPT ![c] = "idle", ![h] = "woken"]
        /\ queue' = Tail(queue)
    BY <1>2 DEF Leave, Release
  <2>3. Owners' = (Owners \ {c}) \cup {h}
    <3> HIDE DEF h
    <3> QED BY <1>0, <2>1, <2>2 DEF Owners, Holders, Woken, Holding
  <2> QED BY <1>0, <1>2, <2>2, <2>3 DEF Pool!GiveBack, Owners
<1> QED BY <1>1, <1>2

\* A waiter that gives up lets those behind it move up.
LEMMA AbortPool ==
    ASSUME IInv, NEW c \in Calls, Abort(c)
    PROVE  Pool!GiveUp(c) \/ UNCHANGED <<Owners, queue>>
<1>0. pc \in [Calls -> PC] /\ queue \in Seq(Calls)
  BY DEF IInv, TypeOK
<1>1. CASE AbortHolder(c)
  BY <1>1 DEF AbortHolder, Owners, Holders, Woken
<1>2. CASE AbortQueued(c)
  <2>1. PICK i \in 1..Len(queue) : queue[i] = c /\ queue' = RemoveAt(queue, i)
    BY <1>2 DEF AbortQueued
  <2>2. queue' = [k \in 1..Len(queue) - 1 |-> IF k < i THEN queue[k] ELSE queue[k + 1]]
    <3> DEFINE s == RemoveAt(queue, i)
               f == [k \in 1..Len(queue) - 1 |-> IF k < i THEN queue[k] ELSE queue[k + 1]]
    <3>1. /\ s \in Seq(Calls) /\ Len(s) = Len(queue) - 1
          /\ \A k \in 1..(Len(queue) - 1) : s[k] = IF k < i THEN queue[k] ELSE queue[k + 1]
      BY <1>0, RemoveIsSeq
    <3>2. s = [k \in 1..Len(s) |-> s[k]]
      BY <3>1, LenProperties
    <3> HIDE DEF s
    <3>3. s = f
      BY <3>1, <3>2
    <3> QED BY <2>1, <3>3 DEF s
  <2>3. pc[c] = "queued" /\ pc' = [pc EXCEPT ![c] = "idle"]
    BY <1>2 DEF AbortQueued, Goto
  <2>4. Owners' = Owners
    BY <1>0, <2>3 DEF Owners, Holders, Woken, Holding
  <2> QED BY <2>1, <2>2, <2>4 DEF Pool!GiveUp, Owners
<1> QED BY <1>1, <1>2 DEF Abort

\* Every other step leaves slots and line to whom they belong.
LEMMA QuietPool ==
    ASSUME IInv,
           \/ \E c \in Calls : Resume(c) \/ EnsureStep(c) \/ Answer(c)
           \/ \E b \in Browsers : Launched(b) \/ LaunchFails(b) \/ Disconnect(b)
           \/ CloseShared \/ UNCHANGED vars
    PROVE  UNCHANGED <<Owners, queue>>
<1>0. pc \in [Calls -> PC]
  BY DEF IInv, TypeOK
<1>1. ASSUME NEW c \in Calls, Resume(c) PROVE UNCHANGED <<Owners, queue>>
  BY <1>0, <1>1 DEF Resume, Goto, Owners, Holders, Woken, Holding
<1>2. ASSUME NEW c \in Calls, EnsureStep(c) \/ Answer(c)
      PROVE  UNCHANGED <<Owners, queue>>
  <2>1. Holders' = Holders /\ Woken' = Woken
    BY <1>0, <1>2, HoldersMove DEF EnsureStep, Ensure, Answer, Opened, OpenFails,
                                   PageFails, Finish, Closed, Goto, Holding
  <2>2. UNCHANGED queue
    BY <1>2 DEF EnsureStep, Answer, Opened, OpenFails, PageFails, Finish, Closed
  <2> QED BY <2>1, <2>2 DEF Owners
<1>3. ASSUME NEW b \in Browsers, Launched(b) \/ LaunchFails(b)
      PROVE  UNCHANGED <<Owners, queue>>
  <2>1. \A c \in Calls : \/ pc'[c] = pc[c]
                         \/ pc[c] = "launching" /\ pc'[c] \in {"opening", "leaving"}
    BY <1>3 DEF Launched, LaunchFails, Continue
  <2>2. Holders' = Holders /\ Woken' = Woken
    BY <2>1, HoldersMove DEF Holding
  <2>3. UNCHANGED queue
    BY <1>3 DEF Launched, LaunchFails
  <2> QED BY <2>2, <2>3 DEF Owners
<1>4. CASE CloseShared \/ UNCHANGED vars \/ \E b \in Browsers : Disconnect(b)
  BY <1>4 DEF CloseShared, vars, Disconnect, Owners, Holders, Woken
<1> QED BY <1>1, <1>2, <1>3, <1>4

\* The browser pool implements SlotPool, with a slot counted for a waiter from
\* the moment it is woken: waiters get their slots in the order in which they
\* came, no new call gets in before one that was woken, and none waits beside a
\* free slot.
THEOREM Refinement == Spec => ImplementsPool
<1>1. IInv /\ [Next]_vars => [Pool!PoolNext]_<<Owners, queue>>
  <2> SUFFICES ASSUME IInv, [Next]_vars
               PROVE  Pool!PoolNext \/ UNCHANGED <<Owners, queue>>
    OBVIOUS
  <2> QED BY BeginPool, LeavePool, AbortPool, QuietPool
          DEF Next, Continuation, Pool!PoolNext
<1>2. Init => Pool!PoolInit
  BY DEF Init, Pool!PoolInit, Holders, Holding, Woken
<1> QED BY <1>1, <1>2, Invariant, PTL DEF Spec, ImplementsPool, Pool!PoolSpec, Owners
=============================================================================

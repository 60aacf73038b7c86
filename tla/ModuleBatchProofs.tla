------------------------- MODULE ModuleBatchProofs -------------------------
(***************************************************************************)
(* Proofs about ModuleBatch: its type, the safety invariants its runs      *)
(* check and AnswersStand hold for all batches, modules and limits.        *)
(***************************************************************************)
EXTENDS ModuleBatch, SequenceTheorems, TLAPS

\* A job in the host's queue waits for its turn and is there once.
Queue ==
    /\ \A i \in 1..Len(hostq) : pc[hostq[i]] = "queued"
    /\ \A i, k \in 1..Len(hostq) : hostq[i] = hostq[k] => i = k

\* One job: nothing has begun before it takes a slot; its handler is not called
\* before the safety check has passed; and its part of BudgetIsSlotTime,
\* SlotGivenBack and OutsidersTold.
JobOK(j) ==
    /\ pc[j] \in {"waiting", "queued"} => answer[j] = "none" /\ fn[j] = "idle"
    /\ pc[j] = "checking" => fn[j] = "idle"
    /\ j \in timer <=> pc[j] \in {"checking", "racing"} /\ answer[j] = "none"
    /\ pc[j] = "checking" /\ answer[j] # "none" => answer[j] = "timeout" /\ j \in aborted
    /\ pc[j] = "racing" => answer[j] = "none"
    /\ fn[j] = "running" /\ pc[j] = "left" => j \in told

IInv == TypeOK /\ Queue /\ \A j \in Jobs : JobOK(j)

\* What a step does to the jobs it is not about.
Same(k) ==
    /\ pc'[k] = pc[k] /\ answer'[k] = answer[k] /\ fn'[k] = fn[k]
    /\ k \in timer' <=> k \in timer
    /\ (k \in aborted => k \in aborted') /\ (k \in told => k \in told')

-----------------------------------------------------------------------------
(* The queue *)

\* The job at the head of the queue, and what is left behind it.
LEMMA HeadOfQueue ==
    ASSUME NEW S, NEW q \in Seq(S), q # <<>>
    PROVE  /\ Head(q) \in S /\ Head(q) = q[1] /\ Tail(q) \in Seq(S)
           /\ Len(q) \in Nat \ {0} /\ Len(Tail(q)) = Len(q) - 1
           /\ \A i \in 1..Len(Tail(q)) : i + 1 \in 2..Len(q) /\ Tail(q)[i] = q[i + 1]
  <1>1. Len(q) \in Nat /\ Len(q) # 0 /\ q \in [1..Len(q) -> S]
    OBVIOUS
  <1>2. Head(q) = q[1] /\ Tail(q) \in Seq(S) /\ Len(Tail(q)) = Len(q) - 1
    BY <1>1
  <1>3. \A i \in 1..Len(Tail(q)) : i + 1 \in 2..Len(q) /\ Tail(q)[i] = q[i + 1]
    BY <1>1, <1>2
  <1>4. QED
    BY <1>1, <1>2, <1>3

\* A job that waits in its batch joins the queue.
LEMMA StartKeepsQueue ==
    ASSUME TypeOK, Queue, NEW j \in Jobs, pc[j] = "waiting",
           pc' = [pc EXCEPT ![j] = "queued"], hostq' = Append(hostq, j)
    PROVE  Queue' /\ hostq' \in Seq(Jobs)
  <1>1. hostq \in Seq(Jobs) /\ Len(hostq) \in Nat
    BY DEF TypeOK
  <1>2. /\ hostq' \in Seq(Jobs) /\ Len(hostq') = Len(hostq) + 1
        /\ \A i \in 1..Len(hostq) : hostq'[i] = hostq[i]
        /\ hostq'[Len(hostq) + 1] = j
    BY <1>1
  <1>3. \A i \in 1..Len(hostq) : hostq[i] \in Jobs /\ pc[hostq[i]] = "queued" /\ hostq[i] # j
    BY <1>1 DEF Queue
  <1>4. \A i \in 1..Len(hostq) : pc'[hostq[i]] = "queued"
    BY <1>3 DEF TypeOK
  <1>5. pc'[j] = "queued"
    BY DEF TypeOK
  <1>6. ASSUME NEW i \in 1..Len(hostq') PROVE i \in 1..Len(hostq) \/ i = Len(hostq) + 1
    BY <1>1, <1>2
  <1>7. \A i \in 1..Len(hostq') : pc'[hostq'[i]] = "queued"
    BY <1>2, <1>4, <1>5, <1>6
  <1>8. ASSUME NEW i \in 1..Len(hostq'), NEW k \in 1..Len(hostq'), hostq'[i] = hostq'[k]
        PROVE  i = k
    <2>1. CASE i \in 1..Len(hostq) /\ k \in 1..Len(hostq)
      BY <1>2, <1>8, <2>1 DEF Queue
    <2>2. CASE i = Len(hostq) + 1 \/ k = Len(hostq) + 1
      BY <1>2, <1>3, <1>6, <1>8, <2>2
    <2>3. QED
      BY <1>6, <2>1, <2>2
  <1>9. QED
    BY <1>2, <1>7, <1>8 DEF Queue

\* The head of the queue takes a slot.
LEMMA TakeKeepsQueue ==
    ASSUME TypeOK, Queue, hostq # <<>>,
           pc' = [pc EXCEPT ![Head(hostq)] = "checking"], hostq' = Tail(hostq)
    PROVE  Queue' /\ hostq' \in Seq(Jobs)
  <1>1. hostq \in Seq(Jobs)
    BY DEF TypeOK
  <1>2. /\ Head(hostq) \in Jobs /\ Head(hostq) = hostq[1] /\ hostq' \in Seq(Jobs)
        /\ Len(hostq) \in Nat \ {0} /\ Len(hostq') = Len(hostq) - 1
        /\ \A i \in 1..Len(hostq') : i + 1 \in 2..Len(hostq) /\ hostq'[i] = hostq[i + 1]
    BY <1>1, HeadOfQueue
  <1>3. ASSUME NEW i \in 2..Len(hostq) PROVE pc'[hostq[i]] = "queued"
    <2>1. i \in 1..Len(hostq) /\ 1 \in 1..Len(hostq) /\ i # 1
      BY <1>2
    <2>2. hostq[i] \in Jobs /\ hostq[i] # Head(hostq) /\ pc[hostq[i]] = "queued"
      BY <1>1, <1>2, <2>1 DEF Queue
    <2>3. QED
      BY <2>2 DEF TypeOK
  <1>4. \A i \in 1..Len(hostq') : pc'[hostq'[i]] = "queued"
    BY <1>2, <1>3
  <1>5. ASSUME NEW i \in 1..Len(hostq'), NEW k \in 1..Len(hostq'), hostq'[i] = hostq'[k]
        PROVE  i = k
    <2>1. i + 1 \in 1..Len(hostq) /\ k + 1 \in 1..Len(hostq) /\ hostq[i + 1] = hostq[k + 1]
      BY <1>2, <1>5
    <2>2. i + 1 = k + 1
      BY <2>1 DEF Queue
    <2>3. QED
      BY <2>2
  <1>6. QED
    BY <1>2, <1>4, <1>5 DEF Queue

\* A step that leaves the queue alone, and moves no job that is in it.
LEMMA OthersKeepQueue ==
    ASSUME TypeOK, Queue, UNCHANGED hostq,
           \A j \in Jobs : pc[j] = "queued" => pc'[j] = "queued"
    PROVE  Queue'
  <1>1. \A i \in 1..Len(hostq) : hostq[i] \in Jobs
    BY DEF TypeOK
  <1>2. QED
    BY <1>1 DEF Queue

-----------------------------------------------------------------------------
(* Steps *)

\* A job with the same state and no signal taken back stays as it was.
LEMMA SameKeepsJob ==
    ASSUME NEW k \in Jobs, JobOK(k), Same(k)
    PROVE  JobOK(k)'
  BY DEF JobOK, Same

\* A step about one job keeps the invariant if it keeps the queue, the types and
\* that job, and is not about the others.
LEMMA OneJob ==
    ASSUME IInv, NEW j \in Jobs, TypeOK', Queue', JobOK(j)',
           \A k \in Jobs \ {j} : Same(k)
    PROVE  IInv'
  <1>1. ASSUME NEW k \in Jobs \ {j} PROVE JobOK(k)'
    BY <1>1, SameKeepsJob DEF IInv
  <1>2. QED
    BY <1>1 DEF IInv

\* runModule begins and queues at the host's limiter.
LEMMA StartStep ==
    ASSUME IInv, NEW b \in Batches, NEW m \in Asked[b], Start(b, m)
    PROVE  IInv'
  <1> DEFINE j == <<b, m>>
  <1>1. j \in Jobs
    BY AskedAssumption DEF Jobs
  <1>2. /\ pc[j] = "waiting" /\ pc' = [pc EXCEPT ![j] = "queued"]
        /\ hostq' = Append(hostq, j)
        /\ UNCHANGED <<request, timer, aborted, answer, fn, told>>
    BY DEF Start
  <1> HIDE DEF j
  <1>3. Queue' /\ hostq' \in Seq(Jobs)
    BY <1>1, <1>2, StartKeepsQueue DEF IInv
  <1>4. TypeOK'
    BY <1>1, <1>2, <1>3 DEF IInv, TypeOK, PC
  <1>5. pc'[j] = "queued"
    BY <1>1, <1>2 DEF IInv, TypeOK
  <1>6. JobOK(j)
    BY <1>1 DEF IInv
  <1>7. JobOK(j)'
    BY <1>2, <1>5, <1>6 DEF JobOK
  <1>8. \A k \in Jobs \ {j} : Same(k)
    BY <1>1, <1>2 DEF IInv, TypeOK, Same
  <1>9. QED
    BY <1>1, <1>3, <1>4, <1>7, <1>8, OneJob

\* The host's limiter calls back.
LEMMA TakeSlotStep ==
    ASSUME IInv, TakeSlot
    PROVE  IInv'
  <1>0. PICK j : j = Head(hostq)
    OBVIOUS
  <1>1. hostq \in Seq(Jobs) /\ hostq # <<>>
    BY DEF IInv, TypeOK, TakeSlot
  <1>2. j \in Jobs /\ j = hostq[1] /\ 1 \in 1..Len(hostq)
    BY <1>0, <1>1, HeadOfQueue
  <1>3. pc[j] = "queued"
    BY <1>2 DEF IInv, Queue
  <1>4. /\ pc' = [pc EXCEPT ![j] = "checking"] /\ hostq' = Tail(hostq)
        /\ timer' = timer \cup {j} /\ UNCHANGED <<request, aborted, answer, fn, told>>
    BY <1>0 DEF TakeSlot
  <1>5. Queue' /\ hostq' \in Seq(Jobs)
    BY <1>0, <1>1, <1>4, TakeKeepsQueue DEF IInv
  <1>6. TypeOK'
    BY <1>2, <1>4, <1>5 DEF IInv, TypeOK, PC
  <1>7. pc'[j] = "checking"
    BY <1>2, <1>4 DEF IInv, TypeOK
  <1>8. JobOK(j)
    BY <1>2 DEF IInv
  <1>9. JobOK(j)'
    BY <1>3, <1>4, <1>7, <1>8 DEF JobOK
  <1>10. \A k \in Jobs \ {j} : Same(k)
    BY <1>2, <1>4 DEF IInv, TypeOK, Same
  <1>11. QED
    BY <1>2, <1>5, <1>6, <1>9, <1>10, OneJob

\* A step of a job that is not queued and leaves the queue alone.
LEMMA Unqueued ==
    ASSUME IInv, NEW j \in Jobs, pc[j] # "queued", UNCHANGED hostq,
           \A k \in Jobs \ {j} : Same(k)
    PROVE  Queue'
  <1>1. ASSUME NEW k \in Jobs, pc[k] = "queued" PROVE pc'[k] = "queued"
    BY <1>1 DEF Same
  <1>2. QED
    BY <1>1, OthersKeepQueue DEF IInv

\* runDirect settles: the slot is free, and the job has an answer.
LEMMA ReturnEffect ==
    ASSUME TypeOK, NEW j \in Jobs, NEW a \in {"result", "error"}, Return(j, a)
    PROVE  /\ pc'[j] = "left" /\ j \notin timer'
           /\ pc' \in [Jobs -> PC] /\ timer' \subseteq Jobs
           /\ answer' \in [Jobs -> {"none", "result", "error", "timeout"}]
           /\ \A k \in Jobs \ {j} :
                pc'[k] = pc[k] /\ answer'[k] = answer[k] /\ (k \in timer' <=> k \in timer)
  <1>1. pc' = [pc EXCEPT ![j] = "left"] /\ timer' = timer \ {j}
    BY DEF Return
  <1>2. pc'[j] = "left" /\ pc' \in [Jobs -> PC] /\ \A k \in Jobs \ {j} : pc'[k] = pc[k]
    BY <1>1 DEF TypeOK, PC
  <1>3. PICK r \in {"none", "result", "error", "timeout"} : answer' = [answer EXCEPT ![j] = r]
    BY DEF TypeOK, Return
  <1>4. /\ answer' \in [Jobs -> {"none", "result", "error", "timeout"}]
        /\ \A k \in Jobs \ {j} : answer'[k] = answer[k]
    BY <1>3 DEF TypeOK
  <1>5. QED
    BY <1>1, <1>2, <1>4 DEF TypeOK

\* The safety check refuses the target.
LEMMA RefusedStep ==
    ASSUME IInv, NEW j \in Jobs, Refused(j)
    PROVE  IInv'
  <1>1. /\ pc[j] = "checking" /\ Return(j, "error")
        /\ UNCHANGED <<request, hostq, aborted, fn, told>>
    BY DEF Refused
  <1>2. TypeOK /\ JobOK(j)
    BY DEF IInv
  <1>3. /\ pc'[j] = "left" /\ j \notin timer'
        /\ pc' \in [Jobs -> PC] /\ timer' \subseteq Jobs
        /\ answer' \in [Jobs -> {"none", "result", "error", "timeout"}]
        /\ \A k \in Jobs \ {j} :
             pc'[k] = pc[k] /\ answer'[k] = answer[k] /\ (k \in timer' <=> k \in timer)
    BY <1>1, <1>2, ReturnEffect
  <1>4. TypeOK'
    BY <1>1, <1>2, <1>3 DEF TypeOK
  <1>5. JobOK(j)'
    BY <1>1, <1>2, <1>3 DEF JobOK
  <1>6. \A k \in Jobs \ {j} : Same(k)
    BY <1>1, <1>3 DEF Same
  <1>7. Queue'
    BY <1>1, <1>6, Unqueued
  <1>8. QED
    BY <1>4, <1>5, <1>6, <1>7, OneJob

\* The safety check passes and the handler is called.
LEMMA AcceptedStep ==
    ASSUME IInv, NEW j \in Jobs, Accepted(j)
    PROVE  IInv'
  <1>1. /\ pc[j] = "checking" /\ fn' = [fn EXCEPT ![j] = "running"]
        /\ UNCHANGED <<request, hostq, aborted>>
    BY DEF Accepted
  <1>2. TypeOK /\ JobOK(j)
    BY DEF IInv
  <1>3. /\ fn' \in [Jobs -> {"idle", "running", "ended"}] /\ fn'[j] = "running"
        /\ \A k \in Jobs \ {j} : fn'[k] = fn[k]
    BY <1>1, <1>2 DEF TypeOK
  <1>4. CASE j \in aborted
    <2>1. told' = told \cup {j} /\ Return(j, "error")
      BY <1>4 DEF Accepted
    <2>2. /\ pc'[j] = "left" /\ j \notin timer'
          /\ pc' \in [Jobs -> PC] /\ timer' \subseteq Jobs
          /\ answer' \in [Jobs -> {"none", "result", "error", "timeout"}]
          /\ \A k \in Jobs \ {j} :
               pc'[k] = pc[k] /\ answer'[k] = answer[k] /\ (k \in timer' <=> k \in timer)
      BY <1>2, <2>1, ReturnEffect
    <2>3. TypeOK'
      BY <1>1, <1>2, <1>3, <2>1, <2>2 DEF TypeOK
    <2>4. JobOK(j)'
      BY <1>3, <2>1, <2>2 DEF JobOK
    <2>5. \A k \in Jobs \ {j} : Same(k)
      BY <1>1, <1>3, <2>1, <2>2 DEF Same
    <2>6. Queue'
      BY <1>1, <2>5, Unqueued
    <2>7. QED
      BY <2>3, <2>4, <2>5, <2>6, OneJob
  <1>5. CASE j \notin aborted
    <2>1. pc' = [pc EXCEPT ![j] = "racing"] /\ UNCHANGED <<told, timer, answer>>
      BY <1>5 DEF Accepted
    <2>2. /\ pc' \in [Jobs -> PC] /\ pc'[j] = "racing"
          /\ \A k \in Jobs \ {j} : pc'[k] = pc[k]
      BY <1>2, <2>1 DEF TypeOK, PC
    <2>3. TypeOK'
      BY <1>1, <1>2, <1>3, <2>1, <2>2 DEF TypeOK
    <2>4. answer[j] = "none"
      BY <1>1, <1>2, <1>5 DEF JobOK
    <2>5. j \in timer
      BY <1>1, <1>2, <2>4 DEF JobOK
    <2>6. JobOK(j)'
      BY <1>3, <2>1, <2>2, <2>4, <2>5 DEF JobOK
    <2>7. \A k \in Jobs \ {j} : Same(k)
      BY <1>1, <1>3, <2>1, <2>2 DEF Same
    <2>8. Queue'
      BY <1>1, <2>7, Unqueued
    <2>9. QED
      BY <2>3, <2>6, <2>7, <2>8, OneJob
  <1>6. QED
    BY <1>4, <1>5

\* The handler returns or throws, in time or with nobody listening.
LEMMA HandlerEndsStep ==
    ASSUME IInv, NEW j \in Jobs, NEW a \in {"result", "error"}, HandlerEnds(j, a)
    PROVE  IInv'
  <1>1. /\ fn[j] = "running" /\ fn' = [fn EXCEPT ![j] = "ended"]
        /\ UNCHANGED <<request, hostq, aborted, told>>
    BY DEF HandlerEnds
  <1>2. TypeOK /\ JobOK(j)
    BY DEF IInv
  <1>3. /\ fn' \in [Jobs -> {"idle", "running", "ended"}] /\ fn'[j] = "ended"
        /\ \A k \in Jobs \ {j} : fn'[k] = fn[k]
    BY <1>1, <1>2 DEF TypeOK
  <1>4. pc[j] \in PC
    BY <1>2 DEF TypeOK
  <1>5. pc[j] \in {"racing", "left"}
    BY <1>1, <1>2, <1>4 DEF JobOK, PC
  <1>6. CASE pc[j] = "racing"
    <2>1. Return(j, a)
      BY <1>6 DEF HandlerEnds
    <2>2. /\ pc'[j] = "left" /\ j \notin timer'
          /\ pc' \in [Jobs -> PC] /\ timer' \subseteq Jobs
          /\ answer' \in [Jobs -> {"none", "result", "error", "timeout"}]
          /\ \A k \in Jobs \ {j} :
               pc'[k] = pc[k] /\ answer'[k] = answer[k] /\ (k \in timer' <=> k \in timer)
      BY <1>2, <2>1, ReturnEffect
    <2>3. TypeOK'
      BY <1>1, <1>2, <1>3, <2>2 DEF TypeOK
    <2>4. JobOK(j)'
      BY <1>3, <2>2 DEF JobOK
    <2>5. \A k \in Jobs \ {j} : Same(k)
      BY <1>1, <1>3, <2>2 DEF Same
    <2>6. Queue'
      BY <1>1, <1>6, <2>5, Unqueued
    <2>7. QED
      BY <2>3, <2>4, <2>5, <2>6, OneJob
  <1>7. CASE pc[j] = "left"
    <2>1. UNCHANGED <<pc, timer, answer>>
      BY <1>7 DEF HandlerEnds
    <2>2. TypeOK'
      BY <1>1, <1>2, <1>3, <2>1 DEF TypeOK
    <2>3. JobOK(j)'
      BY <1>2, <1>3, <1>7, <2>1 DEF JobOK
    <2>4. \A k \in Jobs \ {j} : Same(k)
      BY <1>1, <1>3, <2>1 DEF Same
    <2>5. Queue'
      BY <1>1, <1>7, <2>4, Unqueued
    <2>6. QED
      BY <2>2, <2>3, <2>4, <2>5, OneJob
  <1>8. QED
    BY <1>5, <1>6, <1>7

\* The runner's timer fires.
LEMMA TimeoutStep ==
    ASSUME IInv, NEW j \in Jobs, Timeout(j)
    PROVE  IInv'
  <1>1. /\ j \in timer /\ timer' = timer \ {j}
        /\ answer' = [answer EXCEPT ![j] = "timeout"] /\ aborted' = aborted \cup {j}
        /\ UNCHANGED <<request, hostq, fn>>
    BY DEF Timeout
  <1>2. TypeOK /\ JobOK(j)
    BY DEF IInv
  <1>3. pc[j] \in {"checking", "racing"} /\ answer[j] = "none"
    BY <1>1, <1>2 DEF JobOK
  <1>4. /\ answer' \in [Jobs -> {"none", "result", "error", "timeout"}]
        /\ answer'[j] = "timeout" /\ \A k \in Jobs \ {j} : answer'[k] = answer[k]
    BY <1>1, <1>2 DEF TypeOK
  <1>5. /\ pc' \in [Jobs -> PC] /\ \A k \in Jobs \ {j} : pc'[k] = pc[k]
        /\ told' \subseteq Jobs /\ told \subseteq told'
        /\ \/ pc[j] = "checking" /\ pc'[j] = "checking"
           \/ pc'[j] = "left" /\ j \in told'
    <2>1. CASE pc[j] = "racing"
      <3>1. pc' = [pc EXCEPT ![j] = "left"] /\ told' = told \cup {j}
        BY <2>1 DEF Timeout
      <3>2. QED
        BY <1>2, <3>1 DEF TypeOK, PC
    <2>2. CASE pc[j] # "racing"
      <3>1. UNCHANGED <<pc, told>>
        BY <2>2 DEF Timeout
      <3>2. QED
        BY <1>2, <1>3, <2>2, <3>1 DEF TypeOK
    <2>3. QED
      BY <2>1, <2>2
  <1>6. TypeOK'
    BY <1>1, <1>2, <1>4, <1>5 DEF TypeOK
  <1>7. JobOK(j)'
    BY <1>1, <1>2, <1>4, <1>5 DEF JobOK
  <1>8. \A k \in Jobs \ {j} : Same(k)
    BY <1>1, <1>4, <1>5 DEF Same
  <1>9. Queue'
    BY <1>1, <1>3, <1>8, Unqueued
  <1>10. QED
    BY <1>6, <1>7, <1>8, <1>9, OneJob

\* A request arrives or is answered, or nothing happens.
LEMMA RequestStep ==
    ASSUME IInv, UNCHANGED <<pc, hostq, timer, aborted, answer, fn, told>>,
           request' \in [Batches -> {"new", "open", "answered"}]
    PROVE  IInv'
  <1>1. TypeOK'
    BY DEF IInv, TypeOK
  <1>2. Queue'
    BY OthersKeepQueue DEF IInv
  <1>3. \A k \in Jobs : Same(k)
    BY DEF Same
  <1>4. \A k \in Jobs : JobOK(k)'
    BY <1>3, SameKeepsJob DEF IInv
  <1>5. QED
    BY <1>1, <1>2, <1>4 DEF IInv

-----------------------------------------------------------------------------
(* Theorems *)

\* The inductive invariant holds in every reachable state.
LEMMA Inductive == Spec => []IInv
  <1>1. Init => IInv
    <2> SUFFICES ASSUME Init PROVE IInv
      OBVIOUS
    <2>1. TypeOK
      BY DEF Init, TypeOK, PC
    <2>2. Queue
      BY DEF Init, Queue
    <2>3. \A j \in Jobs : JobOK(j)
      BY DEF Init, JobOK
    <2>4. QED
      BY <2>1, <2>2, <2>3 DEF IInv
  <1>2. IInv /\ [Next]_vars => IInv'
    <2> SUFFICES ASSUME IInv, [Next]_vars PROVE IInv'
      OBVIOUS
    <2>1. ASSUME NEW b \in Batches, Arrive(b) \/ Reply(b) PROVE IInv'
      <3>1. request' \in [Batches -> {"new", "open", "answered"}]
        BY <2>1 DEF IInv, TypeOK, Arrive, Reply
      <3>2. UNCHANGED <<pc, hostq, timer, aborted, answer, fn, told>>
        BY <2>1 DEF Arrive, Reply
      <3>3. QED
        BY <3>1, <3>2, RequestStep
    <2>2. ASSUME NEW b \in Batches, NEW m \in Asked[b], Start(b, m) PROVE IInv'
      BY <2>2, StartStep
    <2>3. CASE TakeSlot
      BY <2>3, TakeSlotStep
    <2>4. ASSUME NEW j \in Jobs, Checked(j) PROVE IInv'
      BY <2>4, RefusedStep, AcceptedStep DEF Checked
    <2>5. ASSUME NEW j \in Jobs, Timeout(j) PROVE IInv'
      BY <2>5, TimeoutStep
    <2>6. ASSUME NEW j \in Jobs, NEW a \in {"result", "error"}, HandlerEnds(j, a)
          PROVE  IInv'
      BY <2>6, HandlerEndsStep
    <2>7. CASE UNCHANGED vars
      BY <2>7, RequestStep DEF vars, IInv, TypeOK
    <2>8. QED
      BY <2>1, <2>2, <2>3, <2>4, <2>5, <2>6, <2>7 DEF Next
  <1>3. QED
    BY <1>1, <1>2, PTL DEF Spec

\* Every reachable state of the batches has its type, for any batches, modules
\* and limits.
THEOREM TypeCorrect == Spec => []TypeOK
  <1>1. IInv => TypeOK
    BY DEF IInv
  <1>2. QED
    BY <1>1, Inductive, PTL

\* runModule's timer (runner.js) runs exactly while its module has a slot of the
\* host and no answer.
THEOREM BudgetsExact == Spec => []BudgetIsSlotTime
  <1>1. IInv => BudgetIsSlotTime
    <2> SUFFICES ASSUME IInv PROVE BudgetIsSlotTime
      OBVIOUS
    <2>1. timer \subseteq Jobs /\ \A j \in Jobs : JobOK(j)
      BY DEF IInv, TypeOK
    <2>2. \A j \in Jobs : j \in timer <=> j \in Holders /\ answer[j] = "none"
      BY <2>1 DEF JobOK, Holders
    <2>3. Holders \subseteq Jobs
      BY DEF Holders
    <2>4. QED
      BY <2>1, <2>2, <2>3 DEF BudgetIsSlotTime
  <1>2. QED
    BY <1>1, Inductive, PTL

\* A slot that outlives its module's answer is in the safety check of a module
\* that was timed out and aborted.
THEOREM SlotsReturn == Spec => []SlotGivenBack
  <1>1. IInv => SlotGivenBack
    BY DEF IInv, JobOK, Holders, SlotGivenBack
  <1>2. QED
    BY <1>1, Inductive, PTL

\* A handler that runs outside the host's limit has been told to stop.
THEOREM OutsidersAreTold == Spec => []OutsidersTold
  <1>1. IInv => OutsidersTold
    <2> SUFFICES ASSUME IInv, NEW j \in Jobs, fn[j] = "running", j \notin Holders
                 PROVE  j \in told
      BY DEF OutsidersTold
    <2>1. pc[j] \in PC /\ JobOK(j)
      BY DEF IInv, TypeOK
    <2>2. pc[j] = "left"
      BY <2>1 DEF JobOK, Holders, PC
    <2>3. QED
      BY <2>1, <2>2 DEF JobOK
  <1>2. QED
    BY <1>1, Inductive, PTL

\* A late result never replaces an answer: runDirect's outcome is used only when
\* there is none, and the timer of an answered module is gone.
THEOREM AnswersNeverChange == Spec => AnswersStand
  <1> DEFINE Stands == \A j \in Jobs : answer[j] # "none" => answer'[j] = answer[j]
  <1>1. IInv /\ [Next]_vars => [Stands]_vars
    <2> SUFFICES ASSUME IInv, Next, NEW k \in Jobs, answer[k] # "none"
                 PROVE  answer'[k] = answer[k]
      BY DEF vars
    <2>1. answer \in [Jobs -> {"none", "result", "error", "timeout"}]
      BY DEF IInv, TypeOK
    <2>2. ASSUME NEW j \in Jobs, NEW a, Return(j, a) PROVE answer'[k] = answer[k]
      BY <2>1, <2>2 DEF Return
    <2>3. ASSUME NEW b \in Batches,
                 Arrive(b) \/ Reply(b) \/ \E m \in Asked[b] : Start(b, m)
          PROVE  answer'[k] = answer[k]
      BY <2>3 DEF Arrive, Reply, Start
    <2>4. CASE TakeSlot
      BY <2>4 DEF TakeSlot
    <2>5. ASSUME NEW j \in Jobs, Checked(j) PROVE answer'[k] = answer[k]
      BY <2>2, <2>5 DEF Checked, Refused, Accepted
    <2>6. ASSUME NEW j \in Jobs, Timeout(j) PROVE answer'[k] = answer[k]
      <3>1. j \in timer /\ answer' = [answer EXCEPT ![j] = "timeout"]
        BY <2>6 DEF Timeout
      <3>2. answer[j] = "none"
        BY <3>1 DEF IInv, JobOK
      <3>3. QED
        BY <2>1, <3>1, <3>2
    <2>7. ASSUME NEW j \in Jobs, NEW a \in {"result", "error"}, HandlerEnds(j, a)
          PROVE  answer'[k] = answer[k]
      BY <2>2, <2>7 DEF HandlerEnds
    <2>8. QED
      BY <2>3, <2>4, <2>5, <2>6, <2>7 DEF Next
  <1>2. QED
    BY <1>1, Inductive, PTL DEF Spec, AnswersStand
=============================================================================

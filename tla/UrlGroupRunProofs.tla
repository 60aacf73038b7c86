-------------------------- MODULE UrlGroupRunProofs --------------------------
(***************************************************************************)
(* Proofs about UrlGroupRun: its type, that a member is scanned at most    *)
(* once, that a cancel lets one more batch begin at the most, and what a   *)
(* run which ended may leave unfinished, for any members, workers, limit   *)
(* and faults.                                                             *)
(***************************************************************************)
EXTENDS UrlGroupRun, FiniteSetTheorems, TLAPS

\* What a worker has to do: members it found queued, the rest of its batch, and
\* those whose row it has touched and not settled.
Touched(w) == {m \in Members : draft[w][m] # "same"}
Ahead(w)   == todo[w] \cup batch[w] \cup Touched(w)

\* What a worker has in hand, by where it is.
InHand ==
    \A w \in Workers :
        /\ pc[w] \in {"idle", "final", "publish"} => todo[w] = {}
        /\ pc[w] # "members" => batch[w] = {} /\ draft[w] = Idle
        /\ pc[w] # "scanning" => threads[w] = {}
        /\ threads[w] \subseteq runnable[w]

\* No member is ahead of a worker in two ways.
Apart ==
    \A w \in Workers : /\ todo[w] \cap batch[w] = {}
                       /\ Touched(w) \cap (todo[w] \cup batch[w]) = {}

\* A scan that is run, or found by the request, has a row; so has one to collect,
\* unless its row is a draft yet.
HasRow ==
    /\ \A w \in Workers, m \in Members :
         /\ m \in threads[w] => scan[w][m] # "none"
         /\ m \in runnable[w] => scan[w][m] # "none" \/ draft[w][m] = "running"
    /\ \A w \in Workers, m \in Members : <<w, m>> \in hit => scan[w][m] # "none"

\* A queued member has no scan.
Fresh == \A m \in Members : mem[m] = "queued" => \A w \in Workers : scan[w][m] = "none"

\* A worker that has never met another is alone, nobody has scanned what is ahead of
\* it, and no member was scanned by two.
Alone ==
    ~twins =>
        /\ \A v, w \in Busy : v = w
        /\ \A w \in Workers : \A m \in Ahead(w) : \A v \in Workers : scan[v][m] = "none"
        /\ \A m \in Members : \A v, w \in Workers :
             scan[v][m] # "none" /\ scan[w][m] # "none" => v = w

\* Where a lone worker is, once a cancel is committed.
Ending ==
    /\ late \in {0, 1}
    /\ ~twins /\ cancel # "done" => late = 0
    /\ ~twins /\ cancel = "done" =>
         /\ status \in Ended
         /\ \A w \in Workers :
              /\ pc[w] \in {"top", "members", "gate", "start", "scanning"} => status = "cancelled"
              /\ pc[w] = "start" => late = 0

\* What a worker has touched of a batch it still has in hand, and only then.
Carried ==
    /\ status = "pending" => Busy = {}
    /\ \A w \in Workers : pc[w] \in {"idle", "top", "final", "publish"} => runnable[w] = {}
    /\ \A w \in Workers, m \in Members : draft[w][m] = "running" => m \in runnable[w]

\* A cancel that has read the run will take every queued member, and once it is
\* committed none is queued, nor once a worker has counted all as cancelled.
Cancelling ==
    /\ cancel = "read" => Queued \subseteq open
    /\ cancel \notin {"read", "dead"} => hit = {}
    /\ status = "cancelled" \/ (\E w \in Workers : verdict[w] = "cancelled") => Queued = {}

\* Where an unfinished member, and a live scan, are in somebody's hands.
Waits(m)   == status = "pending" \/ \E w \in Workers : m \in todo[w] \cup batch[w]
Worked(m)  == \E w \in Workers : draft[w][m] # "same" \/ m \in runnable[w]
Run(w, m)  == \/ m \in threads[w] \/ <<w, m>> \in hit
              \/ m \in runnable[w] /\ pc[w] # "scanning"

\* As long as no worker was lost and no task raised, nothing unfinished is out of
\* everybody's hands, but the scans of threads that raised.
Kept ==
    lost = 0 /\ raised = 0 =>
        /\ \A m \in Members : mem[m] = "queued" => Waits(m)
        /\ \A m \in Members : mem[m] \in {"creating", "running"} => Worked(m)
        /\ \A w \in Workers, m \in Members :
             scan[w][m] = "live" => Run(w, m) \/ <<w, m>> \in thrown

IInv ==
    /\ TypeOK /\ InHand /\ Apart /\ HasRow /\ Fresh /\ Alone /\ Ending
    /\ Carried /\ Cancelling /\ Kept

-----------------------------------------------------------------------------
(* Types *)

\* What a commit of drafts makes of the rows has their types.
LEMMA DraftedType ==
    ASSUME TypeOK, NEW w \in Workers
    PROVE  /\ Drafted(w) \in [Members -> MemOpen \cup MemEnded]
           /\ CommitScans(w) => /\ link' \in [Members -> Workers \cup {NoScan}]
                               /\ scan' \in [Workers -> [Members -> ScanEnded \cup {"none", "live"}]]
  <1>1. ASSUME NEW m \in Members
        PROVE  /\ draft[w][m] \in Draft /\ mem[m] \in MemOpen \cup MemEnded
               /\ scan[w][m] \in ScanEnded \cup {"none", "live"}
    BY DEF TypeOK
  <1>2. Drafted(w) \in [Members -> MemOpen \cup MemEnded]
    BY <1>1 DEF Drafted, Draft, MemOpen, MemEnded
  <1>3. CommitScans(w) => link' \in [Members -> Workers \cup {NoScan}]
    BY DEF CommitScans, TypeOK
  <1>4. ASSUME CommitScans(w)
        PROVE  scan' \in [Workers -> [Members -> ScanEnded \cup {"none", "live"}]]
    <2> DEFINE row == [m \in Members |-> CASE draft[w][m] = "running"   -> "live"
                                          [] draft[w][m] = "withdrawn" -> "cancelled"
                                          [] OTHER -> scan[w][m]]
    <2>1. row \in [Members -> ScanEnded \cup {"none", "live"}]
      BY <1>1 DEF ScanEnded
    <2>2. scan' = [scan EXCEPT ![w] = row]
      BY <1>4 DEF CommitScans
    <2> QED BY <2>1, <2>2 DEF TypeOK
  <1> QED BY <1>2, <1>3, <1>4

\* The steps that end a worker's session keep the types.
LEMMA DropType ==
    ASSUME TypeOK, NEW w \in Workers, Drop(w)
    PROVE  /\ pc' \in [Workers -> {"idle", "top", "members", "gate", "start", "scanning", "final",
                                   "publish"}]
           /\ todo' \in [Workers -> SUBSET Members] /\ batch' \in [Workers -> SUBSET Members]
           /\ draft' \in [Workers -> [Members -> Draft]]
           /\ runnable' \in [Workers -> SUBSET Members] /\ threads' \in [Workers -> SUBSET Members]
           /\ verdict' \in [Workers -> Ended \cup {"same"}]
  <1>1. Idle \in [Members -> Draft]
    BY DEF Idle, Draft
  <1> QED BY <1>1 DEF TypeOK, Drop, Go

\* Every step of a worker and of the request keeps the types.
LEMMA TypeStep == TypeOK /\ [Next]_vars => TypeOK'
<1> SUFFICES ASSUME TypeOK, [Next]_vars PROVE TypeOK'
  OBVIOUS
<1> USE DEF rows, local, api, faults
<1>1. ASSUME NEW w \in Workers, Take(w) PROVE TypeOK'
  <2>1. Queued \in SUBSET Members
    BY DEF Queued
  <2>2. msgs' \in Nat
    BY <1>1 DEF Take, TypeOK
  <2>3. twins' \in BOOLEAN
    BY <1>1, Zenon DEF Take, TypeOK
  <2>4. /\ pc' \in [Workers -> {"idle", "top", "members", "gate", "start", "scanning", "final", "publish"}]
        /\ status' \in Active \cup Ended /\ todo' \in [Workers -> SUBSET Members]
    BY <1>1, <2>1 DEF Take, TypeOK, Go, Active
  <2> QED BY <1>1, <2>2, <2>3, <2>4, Zenon DEF Take, TypeOK
<1>2. ASSUME NEW w \in Workers, NextBatch(w) PROVE TypeOK'
  <2>1. PICK b \in SUBSET todo[w] :
           batch' = [batch EXCEPT ![w] = b] /\ todo' = [todo EXCEPT ![w] = @ \ b]
    BY <1>2 DEF NextBatch
  <2>2. todo[w] \in SUBSET Members
    BY DEF TypeOK
  <2>3. batch' \in [Workers -> SUBSET Members] /\ todo' \in [Workers -> SUBSET Members]
    BY <2>1, <2>2 DEF TypeOK
  <2>4. pc' \in [Workers -> {"idle", "top", "members", "gate", "start", "scanning", "final", "publish"}]
    BY <1>2 DEF NextBatch, TypeOK, Go
  <2> QED BY <1>2, <2>3, <2>4, Zenon DEF NextBatch, TypeOK
<1>3. ASSUME NEW w \in Workers, NEW m \in Members, BeginMember(w, m) PROVE TypeOK'
  <2>1. Drafted(w) \in [Members -> MemOpen \cup MemEnded] /\ CommitScans(w)
    BY <1>3, DraftedType DEF BeginMember
  <2>2. mem' \in [Members -> MemOpen \cup MemEnded]
    BY <1>3, <2>1 DEF BeginMember, MemOpen
  <2>3. [Idle EXCEPT ![m] = "creating"] \in [Members -> Draft]
    BY DEF Idle, Draft
  <2>4. draft' \in [Workers -> [Members -> Draft]] /\ batch' \in [Workers -> SUBSET Members]
    BY <1>3, <2>3 DEF BeginMember, TypeOK
  <2>5. /\ link' \in [Members -> Workers \cup {NoScan}]
        /\ scan' \in [Workers -> [Members -> ScanEnded \cup {"none", "live"}]]
    BY <2>1, DraftedType
  <2> QED BY <1>3, <2>2, <2>4, <2>5, Zenon DEF BeginMember, TypeOK
<1>4. ASSUME NEW w \in Workers, NEW m \in Members, MakeScan(w, m) PROVE TypeOK'
  <2>1. PICK d \in {"cancelled", "withdrawn", "failed", "running"} :
           /\ draft' = [draft EXCEPT ![w][m] = d]
           /\ runnable' = [runnable EXCEPT ![w] = IF d = "running" THEN @ \cup {m} ELSE @]
    BY <1>4, Zenon DEF MakeScan
  <2>2. d \in Draft
    BY DEF Draft
  <2>3. draft' \in [Workers -> [Members -> Draft]]
    BY <2>1, <2>2 DEF TypeOK
  <2>4. runnable' \in [Workers -> SUBSET Members]
    BY <2>1 DEF TypeOK
  <2> QED BY <1>4, <2>3, <2>4, Zenon DEF MakeScan, TypeOK
<1>5. ASSUME NEW w \in Workers, Settle(w) PROVE TypeOK'
  <2>1. CommitScans(w) /\ mem' \in [Members -> MemOpen \cup MemEnded]
    BY <1>5, DraftedType DEF Settle
  <2>2. Idle \in [Members -> Draft]
    BY DEF Idle, Draft
  <2>3. /\ draft' \in [Workers -> [Members -> Draft]]
        /\ pc' \in [Workers -> {"idle", "top", "members", "gate", "start", "scanning", "final", "publish"}]
    BY <1>5, <2>2 DEF Settle, TypeOK, Go
  <2>4. /\ link' \in [Members -> Workers \cup {NoScan}]
        /\ scan' \in [Workers -> [Members -> ScanEnded \cup {"none", "live"}]]
    BY <2>1, DraftedType
  <2> QED BY <1>5, <2>1, <2>3, <2>4, Zenon DEF Settle, TypeOK
<1>6. ASSUME NEW w \in Workers, Gate(w) PROVE TypeOK'
  <2>1. pc' \in [Workers -> {"idle", "top", "members", "gate", "start", "scanning", "final", "publish"}]
    BY <1>6 DEF Gate, TypeOK, Go
  <2>2. runnable' \in [Workers -> SUBSET Members]
    BY <1>6 DEF Gate, TypeOK
  <2>3. mem' \in [Members -> MemOpen \cup MemEnded]
    BY <1>6 DEF Gate, CancelRunnable, TypeOK, MemEnded
  <2>4. scan' \in [Workers -> [Members -> ScanEnded \cup {"none", "live"}]]
    <3>1. CASE UNCHANGED scan
      BY <3>1 DEF TypeOK
    <3>2. CASE CancelRunnable(w)
      <4> DEFINE row == [m \in Members |-> IF m \in runnable[w] THEN "cancelled" ELSE scan[w][m]]
      <4>1. row \in [Members -> ScanEnded \cup {"none", "live"}]
        BY DEF TypeOK, ScanEnded
      <4>2. scan' = [scan EXCEPT ![w] = row]
        BY <3>2 DEF CancelRunnable
      <4> QED BY <4>1, <4>2 DEF TypeOK
    <3> QED BY <1>6, <3>1, <3>2 DEF Gate
  <2> QED BY <1>6, <2>1, <2>2, <2>3, <2>4, Zenon DEF Gate, TypeOK
<1>7. ASSUME NEW w \in Workers, Start(w) PROVE TypeOK'
  <2>1. pc' \in [Workers -> {"idle", "top", "members", "gate", "start", "scanning", "final", "publish"}]
    BY <1>7 DEF Start, TypeOK, Go
  <2>2. threads' \in [Workers -> SUBSET Members]
    BY <1>7 DEF Start, TypeOK
  <2>3. late' \in Nat
    BY <1>7 DEF Start, TypeOK
  <2> QED BY <1>7, <2>1, <2>2, <2>3, Zenon DEF Start, TypeOK
<1>8. ASSUME NEW w \in Workers, NEW m \in Members, ScanEnds(w, m) \/ ScanRaises(w, m) PROVE TypeOK'
  <2>1. threads' \in [Workers -> SUBSET Members]
    <3>1. threads' = [threads EXCEPT ![w] = @ \ {m}]
      BY <1>8, Zenon DEF ScanEnds, ScanRaises
    <3> QED BY <3>1 DEF TypeOK
  <2>2. scan' \in [Workers -> [Members -> ScanEnded \cup {"none", "live"}]]
    <3>1. ASSUME NEW e \in {"completed", "failed"}, scan' = [scan EXCEPT ![w][m] = e]
          PROVE  scan' \in [Workers -> [Members -> ScanEnded \cup {"none", "live"}]]
      BY <3>1 DEF TypeOK, ScanEnded
    <3>2. CASE UNCHANGED scan
      BY <3>2 DEF TypeOK
    <3> QED BY <1>8, <3>1, <3>2 DEF ScanEnds, ScanRaises
  <2>3. thrown' \subseteq Workers \X Members
    BY <1>8 DEF ScanEnds, ScanRaises, TypeOK
  <2> QED BY <1>8, <2>1, <2>2, <2>3, Zenon DEF ScanEnds, ScanRaises, TypeOK
<1>9. ASSUME NEW w \in Workers, NEW m \in Members, Collect(w, m) PROVE TypeOK'
  <2>1. pc' \in [Workers -> {"idle", "top", "members", "gate", "start", "scanning", "final", "publish"}]
    BY <1>9 DEF Collect, TypeOK, Go
  <2>2. "failed" \in MemEnded /\ Marked(scan[w][m]) \in MemEnded
    BY DEF Marked, MemEnded
  <2>3. mem' \in [Members -> MemOpen \cup MemEnded] /\ runnable' \in [Workers -> SUBSET Members]
    BY <1>9, <2>2 DEF Collect, TypeOK
  <2> QED BY <1>9, <2>1, <2>3, Zenon DEF Collect, TypeOK
<1>10. ASSUME NEW w \in Workers, CountMembers(w) PROVE TypeOK'
  <2>1. Verdict \in Ended
    BY Zenon DEF Verdict, Ended
  <2>2. verdict' \in [Workers -> Ended \cup {"same"}] /\ todo' \in [Workers -> SUBSET Members]
    BY <1>10, <2>1 DEF CountMembers, TypeOK
  <2>3. pc' \in [Workers -> {"idle", "top", "members", "gate", "start", "scanning", "final", "publish"}]
    BY <1>10 DEF CountMembers, TypeOK, Go
  <2> QED BY <1>10, <2>2, <2>3, Zenon DEF CountMembers, TypeOK
<1>11. ASSUME NEW w \in Workers, EndRun(w) \/ Leave(w) PROVE TypeOK'
  <2>1. pc' \in [Workers -> {"idle", "top", "members", "gate", "start", "scanning", "final", "publish"}]
    BY <1>11 DEF EndRun, Leave, TypeOK, Go
  <2>2. status' \in Active \cup Ended /\ verdict' \in [Workers -> Ended \cup {"same"}]
    BY <1>11 DEF EndRun, Leave, TypeOK
  <2> QED BY <1>11, <2>1, <2>2, Zenon DEF EndRun, Leave, TypeOK
<1>12. ASSUME NEW w \in Workers, Fatal(w) PROVE TypeOK'
  <2>1. status' \in Active \cup Ended
    BY <1>12, Zenon DEF Fatal, TypeOK, Ended
  <2>2. raised' \in Nat
    BY <1>12 DEF Fatal, TypeOK
  <2>3. acked' \subseteq {"lost", "failed"}
    <3>1. acked' \in {acked, acked \cup {"failed"}}
      BY <1>12, Zenon DEF Fatal
    <3> QED BY <3>1 DEF TypeOK
  <2> QED BY <1>12, <2>1, <2>2, <2>3, DropType, Zenon DEF Fatal, TypeOK
<1>13. ASSUME NEW w \in Workers, Crash(w) PROVE TypeOK'
  <2>1. lost' \in Nat /\ msgs' \in Nat
    BY <1>13 DEF Crash, TypeOK
  <2>2. acked' \subseteq {"lost", "failed"}
    BY <1>13 DEF Crash, TypeOK
  <2> QED BY <1>13, <2>1, <2>2, DropType, Zenon DEF Crash, TypeOK
<1>14. ASSUME NEW w \in Workers, Redeliver(w) PROVE TypeOK'
  <2>1. repeats' \in Nat /\ msgs' \in Nat
    BY <1>14 DEF Redeliver, TypeOK
  <2> QED BY <1>14, <2>1, Zenon DEF Redeliver, TypeOK
<1>15. CASE CancelReads
  <2>1. cancel' \in {"none", "read", "done", "dead"} /\ open' \subseteq Members /\ hit' \subseteq Workers \X Members
    BY <1>15 DEF CancelReads
  <2> QED BY <1>15, <2>1, Zenon DEF CancelReads, TypeOK
<1>16. CASE CancelCommits
  <2>1. PICK spared : scan' = [w \in Workers |-> [m \in Members |->
                        IF <<w, m>> \in hit \ spared THEN "cancelled" ELSE scan[w][m]]]
    BY <1>16 DEF CancelCommits
  <2>2. ASSUME NEW w \in Workers, NEW m \in Members
        PROVE  scan[w][m] \in ScanEnded \cup {"none", "live"}
    BY DEF TypeOK
  <2>3. scan' \in [Workers -> [Members -> ScanEnded \cup {"none", "live"}]]
    BY <2>1, <2>2 DEF ScanEnded
  <2>4. mem' \in [Members -> MemOpen \cup MemEnded]
    BY <1>16 DEF CancelCommits, TypeOK, MemEnded
  <2>5. /\ status' \in Active \cup Ended /\ cancel' \in {"none", "read", "done", "dead"}
        /\ open' \subseteq Members /\ hit' \subseteq Workers \X Members
    BY <1>16 DEF CancelCommits, Ended
  <2> QED BY <1>16, <2>3, <2>4, <2>5, Zenon DEF CancelCommits, TypeOK
<1>17. CASE UNCHANGED vars
  BY <1>17, Zenon DEF vars, TypeOK
<1>18. CASE CancelDies
  <2>1. cancel' \in {"none", "read", "done", "dead"} /\ open' \subseteq Members
    BY <1>18 DEF CancelDies
  <2> QED BY <1>18, <2>1, Zenon DEF CancelDies, TypeOK
<1> QED
  BY <1>1, <1>2, <1>3, <1>4, <1>5, <1>6, <1>7, <1>8, <1>9, <1>10, <1>11, <1>12, <1>13, <1>14,
     <1>15, <1>16, <1>17, <1>18, Zenon DEF Next, Step

-----------------------------------------------------------------------------
(* What workers have in hand *)

\* Every step keeps InHand.
LEMMA InHandStep == TypeOK /\ InHand /\ [Next]_vars => InHand'
<1> SUFFICES ASSUME TypeOK, InHand, [Next]_vars PROVE InHand'
  OBVIOUS
<1> USE DEF rows, local, api, faults, InHand, Go
<1>1. ASSUME NEW w \in Workers,
             Take(w) \/ NextBatch(w) \/ Settle(w) \/ Gate(w) \/ Start(w)
      PROVE  InHand'
  <2>1. CASE Take(w)
    BY <2>1 DEF Take, TypeOK
  <2>2. CASE NextBatch(w)
    BY <2>2 DEF NextBatch, TypeOK
  <2>3. CASE Settle(w)
    BY <2>3 DEF Settle, TypeOK
  <2>4. CASE Gate(w)
    BY <2>4 DEF Gate, TypeOK
  <2>5. CASE Start(w)
    BY <2>5 DEF Start, TypeOK
  <2> QED BY <1>1, <2>1, <2>2, <2>3, <2>4, <2>5
<1>2. ASSUME NEW w \in Workers, NEW m \in Members, BeginMember(w, m) \/ MakeScan(w, m)
      PROVE  InHand'
  <2>1. CASE BeginMember(w, m)
    BY <2>1 DEF BeginMember, TypeOK
  <2>2. CASE MakeScan(w, m)
    BY <2>2 DEF MakeScan, TypeOK
  <2> QED BY <1>2, <2>1, <2>2
<1>3. ASSUME NEW w \in Workers, NEW m \in Members,
             ScanEnds(w, m) \/ ScanRaises(w, m) \/ Collect(w, m)
      PROVE  InHand'
  <2>1. CASE ScanEnds(w, m) \/ ScanRaises(w, m)
    <3>1. /\ threads' = [threads EXCEPT ![w] = @ \ {m}] /\ m \in threads[w]
          /\ UNCHANGED <<pc, todo, batch, draft, runnable>>
      BY <2>1 DEF ScanEnds, ScanRaises
    <3> QED BY <3>1 DEF TypeOK
  <2>2. CASE Collect(w, m)
    BY <2>2 DEF Collect, TypeOK
  <2> QED BY <1>3, <2>1, <2>2
<1>4. ASSUME NEW w \in Workers, CountMembers(w) \/ EndRun(w) \/ Leave(w) PROVE InHand'
  BY <1>4 DEF CountMembers, EndRun, Leave, TypeOK
<1>5. ASSUME NEW w \in Workers, Fatal(w) \/ Crash(w) PROVE InHand'
  BY <1>5 DEF Fatal, Crash, Drop, TypeOK
<1>6. ASSUME NEW w \in Workers, Redeliver(w) PROVE InHand'
  BY <1>6 DEF Redeliver
<1>7. CASE CancelReads \/ CancelCommits \/ CancelDies \/ UNCHANGED vars
  BY <1>7 DEF CancelReads, CancelCommits, CancelDies, vars
<1> QED
  BY <1>1, <1>2, <1>3, <1>4, <1>5, <1>6, <1>7, Zenon DEF Next, Step

\* Every step keeps Apart.
LEMMA ApartStep == TypeOK /\ InHand /\ Apart /\ [Next]_vars => Apart'
<1> SUFFICES ASSUME TypeOK, InHand, Apart, [Next]_vars PROVE Apart'
  OBVIOUS
<1> USE DEF rows, local, api, faults, Apart, Touched
<1>1. ASSUME NEW w \in Workers, Take(w) PROVE Apart'
  <2>1. batch[w] = {} /\ Touched(w) = {}
    BY <1>1 DEF Take, InHand, Idle
  <2>2. \A v \in Workers \ {w} : todo'[v] = todo[v]
    BY <1>1 DEF Take, TypeOK
  <2>3. batch' = batch /\ draft' = draft
    BY <1>1 DEF Take
  <2> QED BY <2>1, <2>2, <2>3
<1>2. ASSUME NEW w \in Workers, NextBatch(w) PROVE Apart'
  BY <1>2 DEF NextBatch, TypeOK, InHand, Idle
<1>3. ASSUME NEW w \in Workers, NEW m \in Members, BeginMember(w, m) PROVE Apart'
  <2>1. /\ batch' = [batch EXCEPT ![w] = @ \ {m}] /\ todo' = todo /\ m \in batch[w]
        /\ draft' = [draft EXCEPT ![w] = [Idle EXCEPT ![m] = "creating"]]
    BY <1>3 DEF BeginMember
  <2>2. Touched(w)' = {m}
    BY <2>1 DEF TypeOK, Idle
  <2>3. batch'[w] = batch[w] \ {m} /\ m \notin todo[w]
    BY <2>1 DEF TypeOK
  <2>4. \A v \in Workers \ {w} : Touched(v)' = Touched(v) /\ batch'[v] = batch[v]
    BY <2>1 DEF TypeOK
  <2> QED BY <2>1, <2>2, <2>3, <2>4
<1>4. ASSUME NEW w \in Workers, NEW m \in Members, MakeScan(w, m) PROVE Apart'
  <2>1. PICK d : draft' = [draft EXCEPT ![w][m] = d]
    BY <1>4 DEF MakeScan
  <2>2. draft[w][m] = "creating"
    BY <1>4 DEF MakeScan, Begun
  <2>3. \A v \in Workers : Touched(v)' \subseteq Touched(v)
    BY <2>1, <2>2 DEF TypeOK
  <2>4. todo' = todo /\ batch' = batch
    BY <1>4 DEF MakeScan
  <2> QED BY <2>3, <2>4
<1>5. ASSUME NEW w \in Workers, Settle(w) PROVE Apart'
  BY <1>5 DEF Settle, TypeOK, Idle
<1>6. ASSUME NEW w \in Workers, CountMembers(w) \/ Fatal(w) \/ Crash(w) PROVE Apart'
  <2>1. /\ todo' = [todo EXCEPT ![w] = {}]
        /\ batch' \in {batch, [batch EXCEPT ![w] = {}]}
        /\ draft' \in {draft, [draft EXCEPT ![w] = Idle]}
    BY <1>6 DEF CountMembers, Fatal, Crash, Drop
  <2> QED BY <2>1 DEF TypeOK, Idle
<1>7. ASSUME NEW w \in Workers, Gate(w) \/ Start(w) \/ EndRun(w) \/ Leave(w) \/ Redeliver(w)
      PROVE  Apart'
  BY <1>7 DEF Gate, Start, EndRun, Leave, Redeliver
<1>8. ASSUME NEW w \in Workers, NEW m \in Members,
             ScanEnds(w, m) \/ ScanRaises(w, m) \/ Collect(w, m)
      PROVE  Apart'
  BY <1>8 DEF ScanEnds, ScanRaises, Collect
<1>9. CASE CancelReads \/ CancelCommits \/ CancelDies \/ UNCHANGED vars
  BY <1>9 DEF CancelReads, CancelCommits, CancelDies, vars
<1> QED
  BY <1>1, <1>2, <1>3, <1>4, <1>5, <1>6, <1>7, <1>8, <1>9, Zenon DEF Next, Step

-----------------------------------------------------------------------------
(* Scans and their rows *)

\* What a commit of drafts adds to the scans.
LEMMA Committed ==
    ASSUME TypeOK, NEW w \in Workers, CommitScans(w), NEW v \in Workers, NEW m \in Members
    PROVE  /\ v # w \/ draft[w][m] \notin {"running", "withdrawn"} => scan'[v][m] = scan[v][m]
           /\ draft[w][m] = "running" => scan'[w][m] = "live"
           /\ draft[w][m] = "withdrawn" => scan'[w][m] = "cancelled"
  BY DEF CommitScans, TypeOK

\* Scans stay, and a new one is the draft of a worker that then has it behind; a
\* member does not become queued again.
ScanAdded(v, m) ==
    /\ v \in Busy /\ m \in Touched(v) /\ m \notin Ahead(v)' /\ mem'[m] # "queued"

LEMMA NewScan ==
    TypeOK /\ InHand /\ Apart /\ HasRow /\ [Next]_vars =>
      \A v \in Workers, m \in Members :
        /\ scan[v][m] # "none" => scan'[v][m] # "none"
        /\ scan[v][m] = "none" /\ scan'[v][m] # "none" => ScanAdded(v, m)
        /\ mem'[m] = "queued" => mem[m] = "queued"
<1> SUFFICES ASSUME TypeOK, InHand, Apart, HasRow, [Next]_vars,
                    NEW v \in Workers, NEW m \in Members
             PROVE  /\ scan[v][m] # "none" => scan'[v][m] # "none"
                    /\ scan[v][m] = "none" /\ scan'[v][m] # "none" => ScanAdded(v, m)
                    /\ mem'[m] = "queued" => mem[m] = "queued"
  OBVIOUS
<1> DEFINE Goal == /\ scan[v][m] # "none" => scan'[v][m] # "none"
                   /\ scan[v][m] = "none" /\ scan'[v][m] # "none" => ScanAdded(v, m)
                   /\ mem'[m] = "queued" => mem[m] = "queued"
<1> USE DEF rows, local, api, faults
<1>1. ASSUME NEW w \in Workers, NEW n \in Members, BeginMember(w, n) PROVE Goal
  <2>1. CommitScans(w) /\ pc[w] = "members" /\ n \in batch[w]
    BY <1>1 DEF BeginMember
  <2>2. mem' = [Drafted(w) EXCEPT ![n] = "creating"]
    BY <1>1 DEF BeginMember
  <2>3. mem'[m] = IF m = n THEN "creating" ELSE Drafted(w)[m]
    BY <2>2 DEF Drafted
  <2>4. mem'[m] = "queued" => mem[m] = "queued" /\ draft[w][m] \notin {"running", "withdrawn"}
    BY <2>3 DEF Drafted
  <2>5. ASSUME draft[w][m] \in {"running", "withdrawn"} PROVE ScanAdded(w, m)
    <3>1. m \in Touched(w) /\ m \notin todo[w] /\ m \notin batch[w]
      BY <2>5 DEF Touched, Apart
    <3>2. m \notin Touched(w)'
      BY <1>1, <2>1, <3>1 DEF BeginMember, Touched, Idle, TypeOK
    <3>3. todo'[w] = todo[w] /\ batch'[w] \subseteq batch[w]
      BY <1>1 DEF BeginMember, TypeOK
    <3>4. w \in Busy /\ mem'[m] # "queued"
      BY <2>1, <2>4, <2>5 DEF Busy
    <3> QED BY <3>1, <3>2, <3>3, <3>4 DEF ScanAdded, Ahead
  <2> QED BY <2>1, <2>4, <2>5, Committed
<1>2. ASSUME NEW w \in Workers, Settle(w) PROVE Goal
  <2>1. CommitScans(w) /\ pc[w] = "members" /\ mem' = Drafted(w)
    BY <1>2 DEF Settle
  <2>2. mem'[m] = "queued" => mem[m] = "queued" /\ draft[w][m] \notin {"running", "withdrawn"}
    BY <2>1 DEF Drafted
  <2>3. ASSUME draft[w][m] \in {"running", "withdrawn"} PROVE ScanAdded(w, m)
    <3>1. m \in Touched(w) /\ m \notin todo[w] /\ m \notin batch[w]
      BY <2>3 DEF Touched, Apart
    <3>2. m \notin Touched(w)' /\ todo'[w] = todo[w] /\ batch'[w] = batch[w]
      BY <1>2 DEF Settle, Touched, Idle, TypeOK
    <3>3. w \in Busy /\ mem'[m] # "queued"
      BY <2>1, <2>2, <2>3 DEF Busy
    <3> QED BY <3>1, <3>2, <3>3 DEF ScanAdded, Ahead
  <2> QED BY <2>1, <2>2, <2>3, Committed
<1>3. ASSUME NEW w \in Workers, Gate(w) PROVE Goal
  <2>1. CASE CancelRunnable(w)
    <3>1. mem'[m] \in {mem[m], "cancelled"}
      BY <2>1 DEF CancelRunnable
    <3>2. m \in runnable[w] => scan[w][m] # "none"
      BY <1>3 DEF Gate, HasRow, InHand, Idle
    <3>3. scan'[v][m] = IF v = w /\ m \in runnable[w] THEN "cancelled" ELSE scan[v][m]
      BY <2>1 DEF CancelRunnable, TypeOK
    <3> QED BY <3>1, <3>2, <3>3
  <2>2. CASE UNCHANGED <<mem, scan>>
    BY <2>2
  <2> QED BY <1>3, <2>1, <2>2 DEF Gate
<1>4. ASSUME NEW w \in Workers, NEW n \in Members, ScanEnds(w, n) \/ ScanRaises(w, n) PROVE Goal
  <2>1. scan[w][n] # "none" /\ mem' = mem
    BY <1>4 DEF ScanEnds, ScanRaises, HasRow
  <2>2. scan'[v][m] = scan[v][m] \/ (v = w /\ m = n /\ scan'[v][m] \in {"completed", "failed"})
    <3>1. ASSUME NEW e \in {"completed", "failed"}, scan' = [scan EXCEPT ![w][n] = e]
          PROVE  scan'[v][m] = scan[v][m] \/ (v = w /\ m = n /\ scan'[v][m] \in {"completed", "failed"})
      BY <3>1 DEF TypeOK
    <3> QED BY <1>4, <3>1 DEF ScanEnds, ScanRaises
  <2> QED BY <2>1, <2>2
<1>5. ASSUME NEW w \in Workers, NEW n \in Members, Collect(w, n) PROVE Goal
  <2>1. scan' = scan /\ mem' = [mem EXCEPT ![n] = IF <<w, n>> \in thrown THEN "failed"
                                                                       ELSE Marked(scan[w][n])]
    BY <1>5 DEF Collect
  <2>2. Marked(scan[w][n]) # "queued"
    BY DEF Marked
  <2> QED BY <2>1, <2>2 DEF TypeOK
<1>6. CASE CancelCommits
  <2>1. mem'[m] \in {mem[m], "cancelled"}
    BY <1>6 DEF CancelCommits
  <2>2. PICK spared : scan' = [u \in Workers |-> [n \in Members |->
                        IF <<u, n>> \in hit \ spared THEN "cancelled" ELSE scan[u][n]]]
    BY <1>6 DEF CancelCommits
  <2>3. scan'[v][m] = IF <<v, m>> \in hit \ spared THEN "cancelled" ELSE scan[v][m]
    BY <2>2
  <2>4. <<v, m>> \in hit => scan[v][m] # "none"
    BY DEF HasRow
  <2> QED BY <2>1, <2>3, <2>4
<1>7. ASSUME NEW w \in Workers, NEW n \in Members, MakeScan(w, n) PROVE Goal
  BY <1>7 DEF MakeScan
<1>8. ASSUME NEW w \in Workers,
             \/ Take(w) \/ NextBatch(w) \/ Start(w) \/ CountMembers(w) \/ EndRun(w) \/ Leave(w)
             \/ Fatal(w) \/ Crash(w) \/ Redeliver(w)
      PROVE  Goal
  BY <1>8 DEF Take, NextBatch, Start, CountMembers, EndRun, Leave, Fatal, Crash, Redeliver
<1>9. CASE CancelReads \/ CancelDies \/ UNCHANGED vars
  BY <1>9 DEF CancelReads, CancelDies, vars
<1> QED
  BY <1>1, <1>2, <1>3, <1>4, <1>5, <1>6, <1>7, <1>8, <1>9, Zenon DEF Next, Step

\* Every step keeps HasRow.
LEMMA HasRowStep == TypeOK /\ InHand /\ Apart /\ HasRow /\ [Next]_vars => HasRow'
<1> SUFFICES ASSUME TypeOK, InHand, Apart, HasRow, [Next]_vars PROVE HasRow'
  OBVIOUS
<1>1. \A v \in Workers, m \in Members : scan[v][m] # "none" => scan'[v][m] # "none"
  BY NewScan
<1> USE DEF rows, local, api, faults
<1> DEFINE Running(v) == \A m \in Members :
                           /\ m \in threads'[v] => scan'[v][m] # "none"
                           /\ m \in runnable'[v] => scan'[v][m] # "none" \/ draft'[v][m] = "running"
           Same(v)    == /\ threads'[v] \subseteq threads[v] /\ runnable'[v] \subseteq runnable[v]
                         /\ \A m \in runnable'[v] : draft'[v][m] = draft[v][m]
<1>2. ASSUME NEW v \in Workers, Same(v) PROVE Running(v)
  BY <1>1, <1>2 DEF HasRow
<1>3. ASSUME hit' \in {hit, {}}
      PROVE  \A v \in Workers, m \in Members : <<v, m>> \in hit' => scan'[v][m] # "none"
  BY <1>1, <1>3 DEF HasRow
<1>4. ASSUME NEW w \in Workers, NEW n \in Members, BeginMember(w, n) PROVE HasRow'
  <2>1. CommitScans(w) /\ threads' = threads /\ runnable' = runnable /\ hit' = hit
    BY <1>4 DEF BeginMember
  <2>2. Running(w)
    BY <1>1, <2>1, Committed DEF HasRow
  <2>3. \A v \in Workers \ {w} : draft'[v] = draft[v]
    BY <1>4 DEF BeginMember, TypeOK
  <2>4. \A v \in Workers \ {w} : Running(v)
    BY <1>2, <2>1, <2>3
  <2> QED BY <1>3, <2>1, <2>2, <2>4 DEF HasRow
<1>5. ASSUME NEW w \in Workers, Settle(w) PROVE HasRow'
  <2>1. CommitScans(w) /\ threads' = threads /\ runnable' = runnable /\ hit' = hit
    BY <1>5 DEF Settle
  <2>2. Running(w)
    BY <1>1, <2>1, Committed DEF HasRow
  <2>3. \A v \in Workers \ {w} : draft'[v] = draft[v]
    BY <1>5 DEF Settle, TypeOK
  <2>4. \A v \in Workers \ {w} : Running(v)
    BY <1>2, <2>1, <2>3
  <2> QED BY <1>3, <2>1, <2>2, <2>4 DEF HasRow
<1>6. ASSUME NEW w \in Workers, NEW n \in Members, MakeScan(w, n) PROVE HasRow'
  <2>1. PICK d : /\ draft' = [draft EXCEPT ![w][n] = d]
                 /\ runnable' = [runnable EXCEPT ![w] = IF d = "running" THEN @ \cup {n} ELSE @]
    BY <1>6 DEF MakeScan
  <2>2. threads' = threads /\ hit' = hit /\ scan' = scan /\ draft[w][n] = "creating"
    BY <1>6 DEF MakeScan, Begun
  <2>3. \A v \in Workers \ {w} : Same(v)
    BY <2>1, <2>2 DEF TypeOK
  <2>4. ASSUME NEW m \in Members, m \in runnable'[w]
        PROVE  scan'[w][m] # "none" \/ draft'[w][m] = "running"
    <3>1. CASE m = n
      BY <2>1, <2>2, <2>4, <3>1 DEF TypeOK, HasRow
    <3>2. CASE m # n
      BY <2>1, <2>2, <2>4, <3>2 DEF TypeOK, HasRow
    <3> QED BY <3>1, <3>2
  <2>5. Running(w)
    BY <2>2, <2>4 DEF HasRow
  <2> QED BY <1>2, <1>3, <2>2, <2>3, <2>5 DEF HasRow
<1>7. ASSUME NEW w \in Workers, Start(w) PROVE HasRow'
  <2>1. /\ threads' = [threads EXCEPT ![w] = {m \in runnable[w] : scan[w][m] = "live"}]
        /\ runnable' = runnable /\ draft' = draft /\ hit' = hit /\ scan' = scan
    BY <1>7 DEF Start
  <2>2. Running(w)
    BY <2>1 DEF TypeOK, HasRow
  <2>3. \A v \in Workers \ {w} : Same(v)
    BY <2>1 DEF TypeOK
  <2> QED BY <1>2, <1>3, <2>1, <2>2, <2>3 DEF HasRow
<1>8. ASSUME NEW w \in Workers, Gate(w) \/ Fatal(w) \/ Crash(w) PROVE HasRow'
  <2>1. ASSUME Gate(w), NEW v \in Workers PROVE Same(v)
    <3>1. draft' = draft /\ threads' = threads
      BY <2>1 DEF Gate
    <3>2. runnable'[v] \subseteq runnable[v]
      BY <2>1 DEF Gate, TypeOK
    <3> QED BY <3>1, <3>2
  <2>2. ASSUME Fatal(w) \/ Crash(w), NEW v \in Workers PROVE Same(v)
    <3>1. Drop(w)
      BY <2>2 DEF Fatal, Crash
    <3>2. threads'[w] = {} /\ runnable'[w] = {}
      BY <3>1 DEF Drop, TypeOK
    <3>3. v # w => threads'[v] = threads[v] /\ runnable'[v] = runnable[v] /\ draft'[v] = draft[v]
      BY <3>1 DEF Drop, TypeOK
    <3> QED BY <3>2, <3>3
  <2>3. \A v \in Workers : Same(v)
    BY <1>8, <2>1, <2>2
  <2>4. hit' = hit
    BY <1>8 DEF Gate, Fatal, Crash
  <2> QED BY <1>2, <1>3, <2>3, <2>4 DEF HasRow
<1>9. ASSUME NEW w \in Workers, NEW n \in Members,
             ScanEnds(w, n) \/ ScanRaises(w, n) \/ Collect(w, n)
      PROVE  HasRow'
  <2>1. draft' = draft /\ hit' = hit
    BY <1>9 DEF ScanEnds, ScanRaises, Collect
  <2>2. ASSUME NEW v \in Workers
        PROVE  threads'[v] \subseteq threads[v] /\ runnable'[v] \subseteq runnable[v]
    <3>1. CASE ScanEnds(w, n) \/ ScanRaises(w, n)
      <4>1. threads' = [threads EXCEPT ![w] = @ \ {n}] /\ runnable' = runnable
        BY <3>1 DEF ScanEnds, ScanRaises
      <4>2. threads \in [Workers -> SUBSET Members]
        BY DEF TypeOK
      <4> HIDE DEF Running, Same
      <4> QED BY <4>1, <4>2
    <3>2. CASE Collect(w, n)
      <4>1. runnable' = [runnable EXCEPT ![w] = @ \ {n}] /\ threads' = threads
        BY <3>2 DEF Collect
      <4>2. runnable \in [Workers -> SUBSET Members]
        BY DEF TypeOK
      <4> HIDE DEF Running, Same
      <4> QED BY <4>1, <4>2
    <3> QED BY <1>9, <3>1, <3>2
  <2>3. \A v \in Workers : Same(v)
    BY <2>1, <2>2
  <2> QED BY <1>2, <1>3, <2>1, <2>3 DEF HasRow
<1>10. ASSUME NEW w \in Workers,
              Take(w) \/ NextBatch(w) \/ CountMembers(w) \/ EndRun(w) \/ Leave(w) \/ Redeliver(w)
       PROVE  HasRow'
  <2>1. threads' = threads /\ runnable' = runnable /\ draft' = draft /\ hit' = hit
    BY <1>10 DEF Take, NextBatch, CountMembers, EndRun, Leave, Redeliver
  <2> QED BY <1>2, <1>3, <2>1 DEF HasRow
<1>11. CASE CancelReads
  <2>1. /\ threads' = threads /\ runnable' = runnable /\ draft' = draft /\ scan' = scan
        /\ hit' = {h \in Workers \X Members :
                     mem[h[2]] \in MemOpen /\ link[h[2]] = h[1] /\ scan[h[1]][h[2]] = "live"}
    BY <1>11 DEF CancelReads
  <2>2. ASSUME NEW v \in Workers, NEW m \in Members, <<v, m>> \in hit' PROVE scan'[v][m] # "none"
    BY <2>1, <2>2
  <2> QED BY <1>2, <2>1, <2>2 DEF HasRow
<1>12. CASE CancelCommits \/ CancelDies \/ UNCHANGED vars
  <2>1. threads' = threads /\ runnable' = runnable /\ draft' = draft /\ hit' \in {hit, {}}
    BY <1>12 DEF CancelCommits, CancelDies, vars
  <2> QED BY <1>2, <1>3, <2>1 DEF HasRow
<1> QED
  BY <1>4, <1>5, <1>6, <1>7, <1>8, <1>9, <1>10, <1>11, <1>12, Zenon DEF Next, Step

-----------------------------------------------------------------------------
(* A worker that is alone *)

\* Only the beginning of the task adds to what is ahead, or sets to work.
LEMMA AheadStep ==
    ASSUME TypeOK, [Next]_vars, ~ \E w \in Workers : Take(w)
    PROVE  /\ Busy' \subseteq Busy /\ twins' = twins
           /\ \A v \in Workers : Ahead(v)' \subseteq Ahead(v)
<1> USE DEF rows, local, api, faults, Ahead, Touched, Busy, Go
<1> DEFINE Goal == /\ Busy' \subseteq Busy /\ twins' = twins
                   /\ \A v \in Workers : Ahead(v)' \subseteq Ahead(v)
<1>1. ASSUME NEW w \in Workers, NEW m \in Members, BeginMember(w, m) PROVE Goal
  <2>1. /\ batch' = [batch EXCEPT ![w] = @ \ {m}] /\ todo' = todo /\ m \in batch[w]
        /\ draft' = [draft EXCEPT ![w] = [Idle EXCEPT ![m] = "creating"]]
        /\ pc' = pc /\ twins' = twins
    BY <1>1 DEF BeginMember
  <2>2. Touched(w)' = {m}
    BY <2>1 DEF TypeOK, Idle
  <2>3. batch'[w] \subseteq batch[w]
    BY <2>1 DEF TypeOK
  <2>4. \A v \in Workers \ {w} : Touched(v)' = Touched(v) /\ batch'[v] = batch[v]
    BY <2>1 DEF TypeOK
  <2>5. Ahead(w)' \subseteq Ahead(w)
    BY <2>1, <2>2, <2>3
  <2>6. \A v \in Workers \ {w} : Ahead(v)' = Ahead(v)
    BY <2>1, <2>4
  <2> QED BY <2>1, <2>5, <2>6
<1>2. ASSUME NEW w \in Workers, NEW m \in Members, MakeScan(w, m) PROVE Goal
  <2>1. PICK d : draft' = [draft EXCEPT ![w][m] = d]
    BY <1>2 DEF MakeScan
  <2>2. draft[w][m] = "creating" /\ todo' = todo /\ batch' = batch /\ pc' = pc /\ twins' = twins
    BY <1>2 DEF MakeScan, Begun
  <2>3. \A v \in Workers : Touched(v)' \subseteq Touched(v)
    BY <2>1, <2>2 DEF TypeOK
  <2> QED BY <2>2, <2>3
<1>3. ASSUME NEW w \in Workers, NextBatch(w) PROVE Goal
  <2>1. PICK b \in SUBSET todo[w] :
           batch' = [batch EXCEPT ![w] = b] /\ todo' = [todo EXCEPT ![w] = @ \ b]
    BY <1>3 DEF NextBatch
  <2>2. draft' = draft /\ twins' = twins /\ pc[w] = "top" /\ pc' = [pc EXCEPT ![w] = "members"]
    BY <1>3 DEF NextBatch
  <2>3. Busy' \subseteq Busy
    BY <2>2 DEF TypeOK
  <2>4. \A v \in Workers : Ahead(v)' \subseteq Ahead(v)
    BY <2>1, <2>2 DEF TypeOK
  <2> QED BY <2>2, <2>3, <2>4
<1>4. ASSUME NEW w \in Workers, Settle(w) PROVE Goal
  BY <1>4 DEF Settle, TypeOK, Idle
<1>5. ASSUME NEW w \in Workers, Gate(w) \/ Start(w) \/ EndRun(w) \/ Leave(w) \/ Redeliver(w)
      PROVE  Goal
  <2>1. todo' = todo /\ batch' = batch /\ draft' = draft /\ twins' = twins
    BY <1>5 DEF Gate, Start, EndRun, Leave, Redeliver
  <2>2. Busy' \subseteq Busy
    BY <1>5 DEF Gate, Start, EndRun, Leave, Redeliver, TypeOK
  <2> QED BY <2>1, <2>2
<1>6. ASSUME NEW w \in Workers, CountMembers(w) \/ Fatal(w) \/ Crash(w) PROVE Goal
  <2>1. Busy' \subseteq Busy /\ twins' = twins
    BY <1>6 DEF CountMembers, Fatal, Crash, Drop, TypeOK
  <2>2. \A v \in Workers : todo'[v] \subseteq todo[v] /\ batch'[v] \subseteq batch[v]
    BY <1>6 DEF CountMembers, Fatal, Crash, Drop, TypeOK
  <2>3. \A v \in Workers : draft'[v] \in {draft[v], Idle}
    BY <1>6 DEF CountMembers, Fatal, Crash, Drop, TypeOK
  <2>4. \A v \in Workers : Touched(v)' \subseteq Touched(v)
    BY <2>3 DEF Idle
  <2> QED BY <2>1, <2>2, <2>4
<1>7. ASSUME NEW w \in Workers, NEW m \in Members,
             ScanEnds(w, m) \/ ScanRaises(w, m) \/ Collect(w, m)
      PROVE  Goal
  <2>1. todo' = todo /\ batch' = batch /\ draft' = draft /\ twins' = twins
    BY <1>7 DEF ScanEnds, ScanRaises, Collect
  <2>2. Busy' \subseteq Busy
    BY <1>7 DEF ScanEnds, ScanRaises, Collect, TypeOK
  <2> QED BY <2>1, <2>2
<1>8. CASE CancelReads \/ CancelCommits \/ CancelDies \/ UNCHANGED vars
  BY <1>8 DEF CancelReads, CancelCommits, CancelDies, vars
<1> QED
  BY <1>1, <1>2, <1>3, <1>4, <1>5, <1>6, <1>7, <1>8, Zenon DEF Next, Step

\* Every step keeps Fresh.
LEMMA FreshStep == TypeOK /\ InHand /\ Apart /\ HasRow /\ Fresh /\ [Next]_vars => Fresh'
<1> SUFFICES ASSUME TypeOK, InHand, Apart, HasRow, Fresh, [Next]_vars,
                    NEW m \in Members, mem'[m] = "queued", NEW v \in Workers
             PROVE  scan'[v][m] = "none"
  BY DEF Fresh
<1>1. scan[v][m] = "none"
  BY NewScan DEF Fresh
<1> QED BY <1>1, NewScan DEF ScanAdded

\* Every step keeps Alone.
LEMMA AloneStep == TypeOK /\ InHand /\ Apart /\ HasRow /\ Fresh /\ Alone /\ [Next]_vars => Alone'
<1> SUFFICES ASSUME TypeOK, InHand, Apart, HasRow, Fresh, Alone, [Next]_vars, ~twins' PROVE Alone'
  BY DEF Alone
<1>1. CASE ~ \E w \in Workers : Take(w)
  <2>1. ~twins /\ Busy' \subseteq Busy /\ \A v \in Workers : Ahead(v)' \subseteq Ahead(v)
    BY <1>1, AheadStep
  <2>2. ASSUME NEW w \in Workers, NEW m \in Ahead(w)', NEW v \in Workers
        PROVE  scan'[v][m] = "none"
    <3>1. m \in Members
      BY <2>1 DEF Ahead, Touched, TypeOK
    <3>2. scan[v][m] = "none"
      BY <2>1 DEF Alone
    <3>3. SUFFICES ASSUME ScanAdded(v, m) PROVE FALSE
      BY <3>1, <3>2, NewScan
    <3>4. v \in Busy /\ m \notin Ahead(v)' /\ w # v
      BY <3>3 DEF ScanAdded
    <3>5. w \notin Busy
      BY <2>1, <3>4 DEF Alone
    <3>6. Ahead(w) = {}
      BY <3>5 DEF Busy, InHand, Ahead, Touched, Idle
    <3> QED BY <2>1, <3>6
  <2>3. ASSUME NEW m \in Members, NEW v \in Workers, NEW w \in Workers,
               scan'[v][m] # "none", scan'[w][m] # "none"
        PROVE  v = w
    <3>1. CASE scan[v][m] # "none" /\ scan[w][m] # "none"
      BY <2>1, <3>1 DEF Alone
    <3>2. ASSUME NEW u \in Workers, scan[u][m] = "none", scan'[u][m] # "none"
          PROVE  u \in Busy /\ \A x \in Workers : scan[x][m] = "none"
      <4>1. ScanAdded(u, m)
        BY <3>2, NewScan
      <4>2. u \in Busy /\ m \in Ahead(u)
        BY <4>1 DEF ScanAdded, Ahead
      <4> QED BY <2>1, <4>2 DEF Alone
    <3>3. CASE scan[v][m] = "none" \/ scan[w][m] = "none"
      <4>1. scan[v][m] = "none" /\ scan[w][m] = "none"
        BY <2>3, <3>2, <3>3
      <4>2. v \in Busy /\ w \in Busy
        BY <2>3, <3>2, <4>1
      <4> QED BY <2>1, <4>2 DEF Alone
    <3> QED BY <3>1, <3>3
  <2>4. \A v, w \in Busy' : v = w
    BY <2>1 DEF Alone
  <2> QED BY <2>2, <2>3, <2>4 DEF Alone
<1>2. CASE \E w \in Workers : Take(w)
  <2> PICK w \in Workers : Take(w)
    BY <1>2
  <2> USE DEF rows, local, api, faults
  <2>1. scan' = scan /\ batch' = batch /\ draft' = draft
    BY DEF Take
  <2>2. CASE ~Takes
    <3>1. UNCHANGED <<pc, todo, twins>>
      BY <2>2 DEF Take
    <3>2. Busy' = Busy /\ \A v \in Workers : Ahead(v)' = Ahead(v)
      BY <2>1, <3>1 DEF Busy, Ahead, Touched
    <3> QED BY <2>1, <3>1, <3>2 DEF Alone
  <2>3. CASE Takes
    <3>1. /\ twins' = (twins \/ Busy # {}) /\ todo' = [todo EXCEPT ![w] = Queued]
          /\ pc' = [pc EXCEPT ![w] = "top"]
      BY <2>3 DEF Take, Go
    <3>2. ~twins /\ Busy = {}
      BY <3>1, Zenon
    <3>3. \A v \in Workers : Ahead(v) = {} /\ batch[v] = {} /\ Touched(v) = {}
      BY <3>2 DEF Busy, InHand, Ahead, Touched, Idle
    <3>4. Busy' = {w}
      BY <3>1, <3>2 DEF Busy, TypeOK
    <3>5. Ahead(w)' = Queued /\ \A v \in Workers \ {w} : Ahead(v)' = {}
      BY <2>1, <3>1, <3>3 DEF Ahead, Touched, TypeOK
    <3>6. ASSUME NEW v \in Workers, NEW m \in Ahead(v)', NEW u \in Workers
          PROVE  scan'[u][m] = "none"
      BY <2>1, <3>5 DEF Queued, Fresh
    <3>7. \A m \in Members : \A v, u \in Workers :
            scan'[v][m] # "none" /\ scan'[u][m] # "none" => v = u
      BY <2>1, <3>2 DEF Alone
    <3>8. \A v, u \in Busy' : v = u
      BY <3>4
    <3> QED BY <3>6, <3>7, <3>8 DEF Alone
  <2> QED BY <2>2, <2>3
<1> QED BY <1>1, <1>2

\* Every step keeps Ending.
LEMMA EndingStep == TypeOK /\ InHand /\ Alone /\ Ending /\ [Next]_vars => Ending'
<1> SUFFICES ASSUME TypeOK, InHand, Alone, Ending, [Next]_vars PROVE Ending'
  OBVIOUS
<1> USE DEF rows, local, api, faults, Ending, Go
<1> DEFINE Early == {"top", "members", "gate", "start", "scanning"}
<1>1. ASSUME NEW w \in Workers, Take(w) PROVE Ending'
  <2>1. late' = late /\ cancel' = cancel /\ (~twins' => ~twins)
    <3>1. ~twins' => ~twins
      BY <1>1, Zenon DEF Take
    <3>2. late' = late /\ cancel' = cancel
      BY <1>1 DEF Take
    <3> QED BY <3>1, <3>2, Zenon
  <2>2. CASE ~Takes
    BY <1>1, <2>1, <2>2 DEF Take
  <2>3. CASE Takes
    <3>1. ~twins => cancel # "done"
      BY <2>3 DEF Takes, Active, Ended
    <3> QED BY <2>1, <3>1
  <2> QED BY <2>2, <2>3
<1>2. ASSUME NEW w \in Workers, NextBatch(w) \/ Settle(w) PROVE Ending'
  <2>1. late' = late /\ cancel' = cancel /\ twins' = twins /\ status' = status
    BY <1>2 DEF NextBatch, Settle
  <2>2. \A v \in Workers : pc'[v] = pc[v] \/ (v = w /\ pc'[v] \in {"members", "gate"} /\ pc[v] \in Early)
    BY <1>2 DEF NextBatch, Settle, TypeOK
  <2> QED BY <2>1, <2>2
<1>3. ASSUME NEW w \in Workers, Gate(w) PROVE Ending'
  <2>1. late' = late /\ cancel' = cancel /\ twins' = twins /\ status' = status /\ pc[w] = "gate"
    BY <1>3 DEF Gate
  <2>2. \A v \in Workers : \/ pc'[v] = pc[v]
                           \/ v = w /\ pc'[v] = "top"
                           \/ v = w /\ pc'[v] = "start" /\ status # "cancelled"
    BY <1>3 DEF Gate, TypeOK, SeesCancel
  <2> QED BY <2>1, <2>2
<1>4. ASSUME NEW w \in Workers, Start(w) PROVE Ending'
  <2>1. /\ cancel' = cancel /\ twins' = twins /\ status' = status /\ pc[w] = "start"
        /\ late' = IF cancel = "done" /\ ~twins THEN late + 1 ELSE late
    BY <1>4 DEF Start
  <2>2. \A v \in Workers : IF v = w THEN pc'[v] \in {"top", "scanning"} ELSE pc'[v] = pc[v]
    BY <1>4 DEF Start, TypeOK
  <2>3. CASE cancel = "done" /\ ~twins
    <3>1. late = 0 /\ late' = 1 /\ status = "cancelled"
      BY <2>1, <2>3
    <3>2. \A v \in Workers \ {w} : pc'[v] = "idle"
      BY <2>1, <2>2, <2>3 DEF Alone, Busy
    <3> QED BY <2>1, <2>2, <3>1, <3>2 DEF Ended
  <2>4. CASE ~(cancel = "done" /\ ~twins)
    <3>1. late' = late
      BY <2>1, <2>4
    <3> QED BY <2>1, <2>4, <3>1, Zenon
  <2> QED BY <2>3, <2>4
<1>5. ASSUME NEW w \in Workers, NEW m \in Members,
             BeginMember(w, m) \/ MakeScan(w, m) \/ ScanEnds(w, m) \/ ScanRaises(w, m)
      PROVE  Ending'
  BY <1>5 DEF BeginMember, MakeScan, ScanEnds, ScanRaises
<1>6. ASSUME NEW w \in Workers, NEW m \in Members, Collect(w, m) PROVE Ending'
  <2>1. late' = late /\ cancel' = cancel /\ twins' = twins /\ status' = status
    BY <1>6 DEF Collect
  <2>2. \A v \in Workers : pc'[v] = pc[v] \/ (v = w /\ pc'[v] \in {"top", "scanning"} /\ pc[v] \in Early)
    BY <1>6 DEF Collect, TypeOK
  <2> QED BY <2>1, <2>2
<1>7. ASSUME NEW w \in Workers, CountMembers(w) \/ Leave(w) \/ Crash(w) \/ Redeliver(w) PROVE Ending'
  <2>1. late' = late /\ cancel' = cancel /\ twins' = twins /\ status' = status
    BY <1>7 DEF CountMembers, Leave, Crash, Redeliver
  <2>2. \A v \in Workers : pc'[v] \in {pc[v], "final", "idle"}
    BY <1>7 DEF CountMembers, Leave, Crash, Redeliver, Drop, TypeOK
  <2> QED BY <2>1, <2>2
<1>8. ASSUME NEW w \in Workers, EndRun(w) \/ Fatal(w) PROVE Ending'
  <2>1. late' = late /\ cancel' = cancel /\ twins' = twins
    BY <1>8 DEF EndRun, Fatal
  <2>2. status' = status \/ status' \in Ended
    BY <1>8 DEF EndRun, Fatal, TypeOK, Ended
  <2>3. w \in Busy /\ pc'[w] \in {"publish", "idle"} /\ \A v \in Workers \ {w} : pc'[v] = pc[v]
    BY <1>8 DEF EndRun, Fatal, Drop, TypeOK, Busy
  <2>4. ~twins => \A v \in Workers : pc'[v] \notin Early
    BY <2>3 DEF Alone, Busy
  <2> QED BY <2>1, <2>2, <2>4
<1>9. CASE CancelReads \/ CancelDies
  BY <1>9 DEF CancelReads, CancelDies
<1>10. CASE CancelCommits
  BY <1>10 DEF CancelCommits, Ended
<1>11. CASE UNCHANGED vars
  BY <1>11 DEF vars
<1> QED
  BY <1>1, <1>2, <1>3, <1>4, <1>5, <1>6, <1>7, <1>8, <1>9, <1>10, <1>11, Zenon DEF Next, Step

-----------------------------------------------------------------------------
(* What is unfinished is in somebody's hands *)

\* Every step keeps Carried.
LEMMA CarriedStep == TypeOK /\ InHand /\ Carried /\ [Next]_vars => Carried'
<1> SUFFICES ASSUME TypeOK, InHand, Carried, [Next]_vars PROVE Carried'
  OBVIOUS
<1> USE DEF rows, local, api, faults, Carried, Busy, Go
<1>1. ASSUME NEW w \in Workers, Take(w) PROVE Carried'
  BY <1>1 DEF Take, TypeOK, Takes
<1>2. ASSUME NEW w \in Workers, NextBatch(w) PROVE Carried'
  BY <1>2 DEF NextBatch, TypeOK
<1>3. ASSUME NEW w \in Workers, NEW n \in Members, BeginMember(w, n) PROVE Carried'
  BY <1>3 DEF BeginMember, TypeOK, Idle
<1>4. ASSUME NEW w \in Workers, NEW n \in Members, MakeScan(w, n) PROVE Carried'
  <2>1. PICK d : /\ draft' = [draft EXCEPT ![w][n] = d]
                 /\ runnable' = [runnable EXCEPT ![w] = IF d = "running" THEN @ \cup {n} ELSE @]
    BY <1>4 DEF MakeScan
  <2>2. pc[w] = "members" /\ pc' = pc /\ status' = status
    BY <1>4 DEF MakeScan
  <2>3. ASSUME NEW v \in Workers, NEW m \in Members, draft'[v][m] = "running" PROVE m \in runnable'[v]
    <3>1. CASE v = w /\ m = n
      BY <2>1, <2>3, <3>1 DEF TypeOK
    <3>2. CASE ~(v = w /\ m = n)
      <4>1. draft'[v][m] = draft[v][m] /\ runnable[v] \subseteq runnable'[v]
        BY <2>1, <3>2 DEF TypeOK
      <4> QED BY <2>3, <4>1
    <3> QED BY <3>1, <3>2
  <2>4. \A v \in Workers \ {w} : runnable'[v] = runnable[v]
    BY <2>1 DEF TypeOK
  <2> QED BY <2>2, <2>3, <2>4
<1>5. ASSUME NEW w \in Workers, Settle(w) PROVE Carried'
  BY <1>5 DEF Settle, TypeOK, Idle
<1>6. ASSUME NEW w \in Workers, Gate(w) \/ Start(w) PROVE Carried'
  <2>1. CASE Gate(w)
    <3>1. /\ pc[w] = "gate" /\ pc' = [pc EXCEPT ![w] = pc'[w]]
          /\ draft' = draft /\ draft[w] = Idle /\ status' = status
          /\ \/ pc'[w] = "top" /\ runnable' = [runnable EXCEPT ![w] = {}]
             \/ pc'[w] = "start" /\ runnable' = runnable
      BY <2>1 DEF Gate, InHand, TypeOK
    <3>2. runnable \in [Workers -> SUBSET Members]
      BY DEF TypeOK
    <3>3. status' = "pending" => Busy' = {}
      BY <3>1
    <3>4. \A v \in Workers : pc'[v] \in {"idle", "top", "final", "publish"} => runnable'[v] = {}
      BY <3>1, <3>2 DEF TypeOK
    <3>5. \A v \in Workers, m \in Members : draft'[v][m] = "running" => m \in runnable'[v]
      BY <3>1, <3>2 DEF Idle
    <3> QED BY <3>3, <3>4, <3>5
  <2>2. CASE Start(w)
    BY <2>2 DEF Start, TypeOK
  <2> QED BY <1>6, <2>1, <2>2
<1>7. ASSUME NEW w \in Workers, NEW n \in Members, ScanEnds(w, n) \/ ScanRaises(w, n)
      PROVE  Carried'
  BY <1>7 DEF ScanEnds, ScanRaises
<1>8. ASSUME NEW w \in Workers, NEW n \in Members, Collect(w, n) PROVE Carried'
  <2>1. /\ pc[w] = "scanning" /\ draft' = draft /\ draft[w] = Idle /\ status' = status
        /\ runnable' = [runnable EXCEPT ![w] = @ \ {n}]
        /\ pc' = [pc EXCEPT ![w] = IF runnable[w] = {n} THEN "top" ELSE "scanning"]
    BY <1>8 DEF Collect, InHand
  <2> QED BY <2>1 DEF TypeOK, Idle
<1>9. ASSUME NEW w \in Workers, CountMembers(w) \/ EndRun(w) \/ Leave(w) PROVE Carried'
  <2>1. /\ runnable' = runnable /\ draft' = draft
        /\ pc[w] \in {"top", "final", "publish"}
        /\ \E l \in {"final", "publish", "idle"} : pc' = [pc EXCEPT ![w] = l]
    BY <1>9 DEF CountMembers, EndRun, Leave
  <2>2. status # "pending"
    BY <2>1
  <2>3. status' # "pending"
    BY <1>9, <2>2 DEF CountMembers, EndRun, Leave, TypeOK, Ended
  <2> QED BY <2>1, <2>3 DEF TypeOK
<1>10. ASSUME NEW w \in Workers, Fatal(w) \/ Crash(w) PROVE Carried'
  <2>1. Drop(w) /\ status \in {"pending"} => FALSE
    BY <1>10 DEF Fatal, Crash
  <2>2. Drop(w) /\ status' # "pending"
    BY <1>10, <2>1 DEF Fatal, Crash
  <2> QED BY <2>2 DEF Drop, TypeOK, Idle
<1>11. ASSUME NEW w \in Workers, Redeliver(w) PROVE Carried'
  BY <1>11 DEF Redeliver
<1>12. CASE CancelReads \/ CancelCommits \/ CancelDies \/ UNCHANGED vars
  BY <1>12 DEF CancelReads, CancelCommits, CancelDies, vars
<1> QED
  BY <1>1, <1>2, <1>3, <1>4, <1>5, <1>6, <1>7, <1>8, <1>9, <1>10, <1>11, <1>12, Zenon
     DEF Next, Step

\* A member does not become queued again.
LEMMA Unqueued ==
    TypeOK /\ InHand /\ Apart /\ HasRow /\ [Next]_vars =>
      \A m \in Members : mem'[m] = "queued" => mem[m] = "queued"
<1>1. CASE Workers = {}
  BY <1>1 DEF Next, CancelReads, CancelCommits, CancelDies, vars, rows
<1>2. CASE Workers # {}
  BY <1>2, NewScan
<1> QED BY <1>1, <1>2

\* Every step keeps Cancelling.
LEMMA CancellingStep ==
    TypeOK /\ InHand /\ Apart /\ HasRow /\ Cancelling /\ [Next]_vars => Cancelling'
<1> SUFFICES ASSUME TypeOK, InHand, Apart, HasRow, Cancelling, [Next]_vars PROVE Cancelling'
  OBVIOUS
<1> USE DEF rows, local, api, faults, Cancelling
<1>1. Queued' \subseteq Queued
  BY Unqueued DEF Queued
<1> DEFINE Says == status = "cancelled" \/ \E w \in Workers : verdict[w] = "cancelled"
<1>2. CASE UNCHANGED <<cancel, open, hit>> /\ (Says' => Says)
  BY <1>1, <1>2
<1>3. ASSUME NEW w \in Workers, CountMembers(w) PROVE Cancelling'
  <2>1. UNCHANGED <<cancel, open, hit, status, mem>>
    BY <1>3 DEF CountMembers
  <2>2. verdict' = [verdict EXCEPT ![w] = IF SeesCancel \/ Verdict = status THEN "same" ELSE Verdict]
    BY <1>3 DEF CountMembers
  <2>3. Verdict = "cancelled" => Queued = {}
    BY DEF Verdict, Queued
  <2>4. Says' => Queued = {}
    BY <2>1, <2>2, <2>3 DEF TypeOK
  <2> QED BY <1>1, <2>1, <2>4
<1>4. ASSUME NEW w \in Workers, EndRun(w) PROVE Cancelling'
  <2>1. UNCHANGED <<cancel, open, hit>> /\ (Says' => Says)
    BY <1>4 DEF EndRun, TypeOK
  <2> QED BY <1>2, <2>1
<1>5. ASSUME NEW w \in Workers, Fatal(w) \/ Crash(w) PROVE Cancelling'
  <2>1. UNCHANGED <<cancel, open, hit>> /\ (Says' => Says)
    BY <1>5 DEF Fatal, Crash, Drop, TypeOK
  <2> QED BY <1>2, <2>1
<1>6. ASSUME NEW w \in Workers,
             \/ Take(w) \/ NextBatch(w) \/ Settle(w) \/ Gate(w) \/ Start(w)
             \/ \E m \in Members : \/ BeginMember(w, m) \/ MakeScan(w, m) \/ Collect(w, m)
                                  \/ ScanEnds(w, m) \/ ScanRaises(w, m)
             \/ Leave(w) \/ Redeliver(w)
      PROVE  Cancelling'
  <2>1. UNCHANGED <<cancel, open, hit, verdict>> /\ status' \in {status, "running"}
    BY <1>6 DEF Take, NextBatch, Settle, Gate, Start, BeginMember, MakeScan, ScanEnds, ScanRaises,
                Collect, Leave, Redeliver
  <2> QED BY <1>2, <2>1
<1>7. CASE CancelReads
  <2>1. Queued \subseteq open' /\ cancel' = "read" /\ UNCHANGED <<status, verdict, mem>>
    BY <1>7 DEF CancelReads, Queued, MemOpen
  <2> QED BY <1>1, <2>1
<1>8. CASE CancelCommits
  <2>1. Queued \subseteq open /\ cancel' = "done" /\ hit' = {}
    BY <1>8 DEF CancelCommits
  <2>2. Queued' = {}
    BY <1>8, <2>1 DEF CancelCommits, Queued
  <2> QED BY <2>1, <2>2
<1>9. CASE CancelDies \/ UNCHANGED vars
  <2>1. CASE CancelDies
    <3>1. cancel' = "dead" /\ UNCHANGED <<status, verdict>>
      BY <2>1 DEF CancelDies
    <3> QED BY <1>1, <3>1
  <2> QED BY <1>2, <1>9, <2>1 DEF vars
<1> QED
  BY <1>3, <1>4, <1>5, <1>6, <1>7, <1>8, <1>9, Zenon DEF Next, Step

\* Members that are queued and not left out are still ahead of a worker.
LEMMA WaitsStep ==
    ASSUME TypeOK, InHand, Apart, HasRow, Carried, Cancelling, [Next]_vars,
           NEW m \in Members, mem'[m] = "queued", Waits(m),
           ~ \E w \in Workers : Fatal(w) \/ Crash(w)
    PROVE  Waits(m)'
<1> USE DEF rows, local, api, faults, Waits, Go
<1>1. m \in Queued
  BY Unqueued DEF Queued
<1>2. ASSUME NEW w \in Workers, Take(w) PROVE Waits(m)'
  <2>1. CASE Takes
    BY <1>1, <1>2, <2>1 DEF Take, TypeOK
  <2>2. CASE ~Takes
    BY <1>2, <2>2 DEF Take
  <2> QED BY <2>1, <2>2
<1>3. ASSUME NEW w \in Workers, NextBatch(w) PROVE Waits(m)'
  <2>1. PICK b \in SUBSET todo[w] :
           batch' = [batch EXCEPT ![w] = b] /\ todo' = [todo EXCEPT ![w] = @ \ b]
    BY <1>3 DEF NextBatch
  <2>2. batch[w] = {} /\ status' = status
    BY <1>3 DEF NextBatch, InHand
  <2>3. \A v \in Workers : m \in todo[v] \cup batch[v] => m \in todo'[v] \cup batch'[v]
    BY <2>1, <2>2 DEF TypeOK
  <2> QED BY <2>2, <2>3
<1>4. ASSUME NEW w \in Workers, NEW n \in Members, BeginMember(w, n) PROVE Waits(m)'
  <2>1. mem'[n] = "creating" /\ todo' = todo /\ status' = status
        /\ batch' = [batch EXCEPT ![w] = @ \ {n}]
    BY <1>4 DEF BeginMember, Drafted
  <2>2. \A v \in Workers : m \in batch[v] => m \in batch'[v]
    BY <2>1 DEF TypeOK
  <2> QED BY <2>1, <2>2
<1>5. ASSUME NEW w \in Workers, CountMembers(w) PROVE Waits(m)'
  <2>1. todo[w] = {} /\ UNCHANGED <<status, batch>> /\ todo' = [todo EXCEPT ![w] = {}]
    BY <1>1, <1>5 DEF CountMembers, SeesCancel, Cancelling
  <2> QED BY <2>1 DEF TypeOK
<1>6. ASSUME NEW w \in Workers, EndRun(w) PROVE Waits(m)'
  BY <1>6 DEF EndRun, Carried, Busy
<1>7. CASE CancelCommits
  BY <1>1, <1>7 DEF CancelCommits, Cancelling
<1>8. ASSUME NEW w \in Workers,
             \/ Settle(w) \/ Gate(w) \/ Start(w) \/ Leave(w) \/ Redeliver(w)
             \/ \E n \in Members : MakeScan(w, n) \/ ScanEnds(w, n) \/ ScanRaises(w, n) \/ Collect(w, n)
      PROVE  Waits(m)'
  BY <1>8 DEF Settle, Gate, Start, Leave, Redeliver, MakeScan, ScanEnds, ScanRaises, Collect
<1>9. CASE CancelReads \/ CancelDies \/ UNCHANGED vars
  BY <1>9 DEF CancelReads, CancelDies, vars
<1> QED
  BY <1>2, <1>3, <1>4, <1>5, <1>6, <1>7, <1>8, <1>9, Zenon DEF Next, Step

\* What a commit leaves unfinished is in the hands of the worker that commits, with
\* a scan to run, or of another.
LEMMA DraftedWorked ==
    ASSUME TypeOK, Carried, NEW w \in Workers, Begun(w) = {}, NEW m \in Members,
           Drafted(w)[m] \in {"creating", "running"},
           mem[m] \in {"creating", "running"} => Worked(m)
    PROVE  \/ m \in runnable[w]
           \/ \E v \in Workers \ {w} : draft[v][m] # "same" \/ m \in runnable[v]
<1>1. draft[w][m] \in Draft /\ draft[w][m] # "creating"
  BY DEF TypeOK, Begun
<1>2. CASE draft[w][m] = "running"
  BY <1>2 DEF Carried
<1>3. CASE draft[w][m] = "same"
  <2>1. Worked(m)
    BY <1>3 DEF Drafted
  <2> QED BY <1>3, <2>1 DEF Worked
<1>4. CASE draft[w][m] \in {"withdrawn", "cancelled", "failed"}
  BY <1>4 DEF Drafted
<1> QED BY <1>1, <1>2, <1>3, <1>4 DEF Draft

\* A member that is begun is in the hands of a worker until it is settled.
LEMMA WorkedStep ==
    ASSUME TypeOK, InHand, Carried, [Next]_vars,
           NEW m \in Members, mem'[m] \in {"creating", "running"},
           mem[m] \in {"creating", "running"} => Worked(m),
           ~ \E w \in Workers : Fatal(w) \/ Crash(w)
    PROVE  Worked(m)'
<1> USE DEF rows, local, api, faults, Go
<1>1. ASSUME NEW w \in Workers, NEW n \in Members, BeginMember(w, n) PROVE Worked(m)'
  <2>1. /\ Begun(w) = {} /\ runnable' = runnable
        /\ mem' = [Drafted(w) EXCEPT ![n] = "creating"]
        /\ draft' = [draft EXCEPT ![w] = [Idle EXCEPT ![n] = "creating"]]
    BY <1>1 DEF BeginMember
  <2>2. CASE m = n
    BY <2>1, <2>2 DEF Worked, TypeOK, Idle
  <2>3. CASE m # n
    <3>1. Drafted(w)[m] \in {"creating", "running"}
      BY <2>1, <2>3 DEF Drafted
    <3>2. \A v \in Workers \ {w} : draft'[v] = draft[v]
      BY <2>1 DEF TypeOK
    <3> QED BY <2>1, <3>1, <3>2, DraftedWorked DEF Worked
  <2> QED BY <2>2, <2>3
<1>2. ASSUME NEW w \in Workers, Settle(w) PROVE Worked(m)'
  <2>1. /\ Begun(w) = {} /\ runnable' = runnable /\ mem' = Drafted(w)
        /\ draft' = [draft EXCEPT ![w] = Idle]
    BY <1>2 DEF Settle
  <2>2. \A v \in Workers \ {w} : draft'[v] = draft[v]
    BY <2>1 DEF TypeOK
  <2> QED BY <2>1, <2>2, DraftedWorked DEF Worked
<1>3. ASSUME NEW w \in Workers, NEW n \in Members, MakeScan(w, n) PROVE Worked(m)'
  <2>1. PICK d \in {"cancelled", "withdrawn", "failed", "running"} :
           /\ draft' = [draft EXCEPT ![w][n] = d]
           /\ runnable' = [runnable EXCEPT ![w] = IF d = "running" THEN @ \cup {n} ELSE @]
    BY <1>3, Zenon DEF MakeScan
  <2>2. \A v \in Workers : /\ draft[v][m] # "same" => draft'[v][m] # "same"
                           /\ runnable[v] \subseteq runnable'[v]
    BY <2>1 DEF TypeOK
  <2>3. Worked(m)
    BY <1>3 DEF MakeScan
  <2> QED BY <2>2, <2>3 DEF Worked
<1>4. ASSUME NEW w \in Workers, Gate(w) PROVE Worked(m)'
  <2>1. draft' = draft /\ draft[w][m] = "same"
    BY <1>4 DEF Gate, InHand, Idle
  <2>2. CASE CancelRunnable(w) /\ runnable' = [runnable EXCEPT ![w] = {}]
    <3>1. m \notin runnable[w] /\ mem'[m] = mem[m]
      BY <2>2 DEF CancelRunnable
    <3>2. PICK v \in Workers : draft[v][m] # "same" \/ m \in runnable[v]
      BY <3>1 DEF Worked
    <3>3. v # w /\ runnable'[v] = runnable[v]
      BY <2>1, <2>2, <3>1, <3>2 DEF TypeOK
    <3> QED BY <2>1, <3>2, <3>3 DEF Worked
  <2>3. CASE UNCHANGED <<mem, runnable>>
    BY <2>1, <2>3 DEF Worked
  <2> QED BY <1>4, <2>2, <2>3 DEF Gate
<1>5. ASSUME NEW w \in Workers, NEW n \in Members, Collect(w, n) PROVE Worked(m)'
  <2>1. /\ mem' = [mem EXCEPT ![n] = IF <<w, n>> \in thrown THEN "failed"
                                                           ELSE Marked(scan[w][n])]
        /\ draft' = draft /\ runnable' = [runnable EXCEPT ![w] = @ \ {n}]
    BY <1>5 DEF Collect
  <2>2. m # n /\ mem'[m] = mem[m]
    BY <2>1 DEF TypeOK, Marked
  <2>3. \A v \in Workers : m \in runnable[v] => m \in runnable'[v]
    BY <2>1, <2>2 DEF TypeOK
  <2> QED BY <2>1, <2>2, <2>3 DEF Worked
<1>6. CASE CancelCommits
  <2>1. mem'[m] = mem[m] /\ draft' = draft /\ runnable' = runnable
    BY <1>6 DEF CancelCommits
  <2> QED BY <2>1 DEF Worked
<1>7. ASSUME NEW w \in Workers,
             \/ Take(w) \/ NextBatch(w) \/ Start(w) \/ CountMembers(w) \/ EndRun(w) \/ Leave(w)
             \/ Redeliver(w) \/ \E n \in Members : ScanEnds(w, n) \/ ScanRaises(w, n)
      PROVE  Worked(m)'
  <2>1. mem' = mem /\ draft' = draft /\ runnable' = runnable
    BY <1>7 DEF Take, NextBatch, Start, CountMembers, EndRun, Leave, Redeliver, ScanEnds,
                ScanRaises
  <2> QED BY <2>1 DEF Worked
<1>8. CASE CancelReads \/ CancelDies \/ UNCHANGED vars
  BY <1>8 DEF CancelReads, CancelDies, vars, Worked
<1> QED
  BY <1>1, <1>2, <1>3, <1>4, <1>5, <1>6, <1>7, <1>8, Zenon DEF Next, Step

\* A scan whose thread has raised stays one.
LEMMA ThrownStays == [Next]_vars => thrown \subseteq thrown'
<1> SUFFICES ASSUME [Next]_vars PROVE thrown \subseteq thrown'
  OBVIOUS
<1> USE DEF rows, local, api, faults
<1>1. ASSUME NEW w \in Workers, Step(w) PROVE thrown \subseteq thrown'
  BY <1>1 DEF Step, Take, NextBatch, Settle, Gate, Start, BeginMember, MakeScan, ScanEnds,
              ScanRaises, Collect, CountMembers, EndRun, Leave
<1>2. ASSUME NEW w \in Workers, Fatal(w) \/ Crash(w) \/ Redeliver(w) PROVE thrown' = thrown
  BY <1>2 DEF Fatal, Crash, Redeliver
<1>3. CASE CancelReads \/ CancelCommits \/ CancelDies \/ UNCHANGED vars
  BY <1>3 DEF CancelReads, CancelCommits, CancelDies, vars
<1> QED BY <1>1, <1>2, <1>3 DEF Next

\* A live scan is about to be run, run by a thread, or flagged by the cancel request,
\* unless its thread has raised.
LEMMA RunStep ==
    ASSUME TypeOK, InHand, Carried, Cancelling, [Next]_vars,
           NEW v \in Workers, NEW m \in Members, scan'[v][m] = "live",
           scan[v][m] = "live" => Run(v, m), <<v, m>> \notin thrown',
           ~ \E w \in Workers : Fatal(w) \/ Crash(w)
    PROVE  Run(v, m)'
<1> USE DEF rows, local, api, faults, Go
<1>1. ASSUME NEW w \in Workers, Settle(w) \/ \E n \in Members : BeginMember(w, n)
      PROVE  Run(v, m)'
  <2>1. /\ CommitScans(w) /\ UNCHANGED <<threads, hit, runnable>> /\ pc[w] = "members"
        /\ pc' = pc \/ pc' = [pc EXCEPT ![w] = "gate"]
    <3>1. CASE Settle(w)
      BY <3>1 DEF Settle
    <3>2. ASSUME NEW n \in Members, BeginMember(w, n)
          PROVE  /\ CommitScans(w) /\ UNCHANGED <<threads, hit, runnable>> /\ pc[w] = "members"
                 /\ pc' = pc
      BY <3>2 DEF BeginMember
    <3> QED BY <1>1, <3>1, <3>2
  <2>4. pc'[v] = "scanning" => pc[v] = "scanning"
    BY <2>1 DEF TypeOK
  <2>2. CASE v = w /\ draft[w][m] \in {"running", "withdrawn"}
    <3>1. draft[w][m] = "running"
      BY <2>1, <2>2, Committed
    <3> QED BY <2>4, <2>1, <2>2, <3>1 DEF Carried, Run
  <2>3. CASE ~(v = w /\ draft[w][m] \in {"running", "withdrawn"})
    <3>1. scan'[v][m] = scan[v][m]
      BY <2>1, <2>3, Committed
    <3> QED BY <2>4, <2>1, <3>1 DEF Run
  <2> QED BY <2>2, <2>3
<1>2. ASSUME NEW w \in Workers, NEW n \in Members, MakeScan(w, n) PROVE Run(v, m)'
  <2>1. /\ UNCHANGED <<scan, threads, hit, pc>>
        /\ \E d : runnable' = [runnable EXCEPT ![w] = IF d = "running" THEN @ \cup {n} ELSE @]
    BY <1>2 DEF MakeScan
  <2>2. runnable[v] \subseteq runnable'[v]
    BY <2>1 DEF TypeOK
  <2> QED BY <2>1, <2>2 DEF Run
<1>3. ASSUME NEW w \in Workers, Gate(w) PROVE Run(v, m)'
  <2>1. UNCHANGED <<threads, hit>> /\ (pc'[v] = "scanning" => pc[v] = "scanning")
    <3>1. Go(w, "top") \/ Go(w, "start")
      BY <1>3 DEF Gate
    <3>2. pc'[v] = "scanning" => pc[v] = "scanning"
      BY <3>1 DEF TypeOK
    <3> QED BY <1>3, <3>2 DEF Gate
  <2>2. CASE CancelRunnable(w) /\ runnable' = [runnable EXCEPT ![w] = {}]
    <3>1. scan'[v][m] = IF v = w /\ m \in runnable[w] THEN "cancelled" ELSE scan[v][m]
      BY <2>2 DEF CancelRunnable, TypeOK
    <3>2. scan[v][m] = "live" /\ (m \in runnable[v] => runnable'[v] = runnable[v])
      BY <2>2, <3>1 DEF TypeOK
    <3> QED BY <2>1, <3>2 DEF Run
  <2>3. CASE UNCHANGED <<scan, runnable>>
    BY <2>1, <2>3 DEF Run
  <2> QED BY <1>3, <2>2, <2>3 DEF Gate
<1>4. ASSUME NEW w \in Workers, Start(w) PROVE Run(v, m)'
  <2>1. /\ UNCHANGED <<scan, runnable, hit>> /\ pc[w] = "start"
        /\ threads' = [threads EXCEPT ![w] = {n \in runnable[w] : scan[w][n] = "live"}]
        /\ \A u \in Workers \ {w} : pc'[u] = pc[u]
    BY <1>4 DEF Start, TypeOK
  <2>2. threads[w] = {}
    BY <2>1 DEF InHand
  <2> QED BY <2>1, <2>2 DEF Run, TypeOK
<1>5. ASSUME NEW w \in Workers, NEW n \in Members, ScanEnds(w, n) PROVE Run(v, m)'
  <2>1. /\ threads' = [threads EXCEPT ![w] = @ \ {n}] /\ UNCHANGED <<runnable, hit, pc>>
        /\ \/ \E s \in {"completed", "failed"} : scan' = [scan EXCEPT ![w][n] = s]
           \/ (<<w, n>> \in hit \/ scan[w][n] = "cancelled") /\ UNCHANGED scan
    BY <1>5 DEF ScanEnds
  <2>2. scan[v][m] = "live" /\ (v = w /\ m = n => <<v, m>> \in hit)
    <3>1. ASSUME NEW e \in {"completed", "failed"}, scan' = [scan EXCEPT ![w][n] = e]
          PROVE  scan[v][m] = "live" /\ ~(v = w /\ m = n)
      BY <3>1 DEF TypeOK
    <3>2. CASE (<<w, n>> \in hit \/ scan[w][n] = "cancelled") /\ UNCHANGED scan
      BY <3>2
    <3> QED BY <2>1, <3>1, <3>2
  <2>3. m \in threads[v] => m \in threads'[v] \/ (v = w /\ m = n)
    BY <2>1 DEF TypeOK
  <2> QED BY <2>1, <2>2, <2>3 DEF Run
<1>6. ASSUME NEW w \in Workers, NEW n \in Members, ScanRaises(w, n) PROVE Run(v, m)'
  <2>1. /\ threads' = [threads EXCEPT ![w] = @ \ {n}] /\ UNCHANGED <<runnable, hit, pc>>
        /\ thrown' = thrown \cup {<<w, n>>}
        /\ \/ \E s \in {"completed", "failed"} : scan' = [scan EXCEPT ![w][n] = s]
           \/ UNCHANGED scan
    BY <1>6 DEF ScanRaises
  <2>2. ~(v = w /\ m = n)
    BY <2>1
  <2>3. scan[v][m] = "live"
    <3>1. ASSUME NEW e \in {"completed", "failed"}, scan' = [scan EXCEPT ![w][n] = e]
          PROVE  scan[v][m] = "live"
      BY <2>2, <3>1 DEF TypeOK
    <3> QED BY <2>1, <3>1
  <2>4. m \in threads[v] => m \in threads'[v]
    BY <2>1, <2>2 DEF TypeOK
  <2> QED BY <2>1, <2>3, <2>4 DEF Run
<1>7. ASSUME NEW w \in Workers, NEW n \in Members, Collect(w, n) PROVE Run(v, m)'
  <2>1. /\ UNCHANGED <<scan, threads, hit>> /\ pc[w] = "scanning"
        /\ \A u \in Workers \ {w} : pc'[u] = pc[u] /\ runnable'[u] = runnable[u]
    BY <1>7 DEF Collect, TypeOK
  <2> QED BY <2>1 DEF Run
<1>8. CASE CancelDies
  <2>1. UNCHANGED <<scan, threads, runnable, hit, pc>>
    BY <1>8 DEF CancelDies
  <2> QED BY <2>1 DEF Run
<1>9. CASE CancelReads
  <2>1. hit = {} /\ UNCHANGED <<scan, threads, runnable, pc>>
    BY <1>9 DEF CancelReads, Cancelling
  <2> QED BY <2>1 DEF Run
<1>10. CASE CancelCommits
  <2>1. PICK spared \in SUBSET {h \in hit : scan[h[1]][h[2]] # "live"} :
             scan' = [w \in Workers |-> [n \in Members |->
                        IF <<w, n>> \in hit \ spared THEN "cancelled" ELSE scan[w][n]]]
    BY <1>10 DEF CancelCommits
  <2>2. <<v, m>> \notin hit \ spared /\ scan[v][m] = "live"
    BY <2>1
  <2>3. <<v, m>> \notin spared
    BY <2>1, <2>2
  <2>4. <<v, m>> \notin hit /\ UNCHANGED <<threads, runnable, pc>>
    BY <1>10, <2>2, <2>3 DEF CancelCommits
  <2> QED BY <2>2, <2>4 DEF Run
<1>11. ASSUME NEW w \in Workers,
             Take(w) \/ NextBatch(w) \/ CountMembers(w) \/ EndRun(w) \/ Leave(w) \/ Redeliver(w)
      PROVE  Run(v, m)'
  <2>1. UNCHANGED <<scan, threads, runnable, hit>>
    BY <1>11 DEF Take, NextBatch, CountMembers, EndRun, Leave, Redeliver
  <2>2. pc'[v] = "scanning" => pc[v] = "scanning"
    BY <1>11 DEF Take, NextBatch, CountMembers, EndRun, Leave, Redeliver, TypeOK
  <2> QED BY <2>1, <2>2 DEF Run
<1>12. CASE UNCHANGED vars
  BY <1>12 DEF vars, Run
<1> QED
  BY <1>1, <1>2, <1>3, <1>4, <1>5, <1>6, <1>7, <1>8, <1>9, <1>10, <1>11, <1>12, Zenon
     DEF Next, Step

\* Every step keeps Kept: a lost worker and an exception end what it promises.
LEMMA KeptStep ==
    TypeOK /\ InHand /\ Apart /\ HasRow /\ Carried /\ Cancelling /\ Kept /\ [Next]_vars => Kept'
<1> SUFFICES ASSUME TypeOK, InHand, Apart, HasRow, Carried, Cancelling, Kept, [Next]_vars,
                    lost' = 0, raised' = 0
             PROVE  /\ \A m \in Members : mem'[m] = "queued" => Waits(m)'
                    /\ \A m \in Members : mem'[m] \in {"creating", "running"} => Worked(m)'
                    /\ \A w \in Workers, m \in Members :
                         scan'[w][m] = "live" => Run(w, m)' \/ <<w, m>> \in thrown'
  BY DEF Kept
<1>1. ~ \E w \in Workers : Fatal(w) \/ Crash(w)
  BY DEF Fatal, Crash, TypeOK
<1>2. lost = 0 /\ raised = 0
  <2> USE DEF rows, local, api, faults
  <2>1. ASSUME NEW w \in Workers, Step(w) PROVE UNCHANGED <<lost, raised>>
    BY <2>1 DEF Step, Take, NextBatch, Settle, Gate, Start, BeginMember, MakeScan, ScanEnds,
                ScanRaises, Collect, CountMembers, EndRun, Leave
  <2>2. ASSUME NEW w \in Workers, Redeliver(w) PROVE UNCHANGED <<lost, raised>>
    BY <2>2 DEF Redeliver
  <2>3. CASE CancelReads \/ CancelCommits \/ CancelDies \/ UNCHANGED vars
    BY <2>3 DEF CancelReads, CancelCommits, CancelDies, vars
  <2> QED BY <1>1, <2>1, <2>2, <2>3 DEF Next
<1>3. \A m \in Members : mem'[m] = "queued" => mem[m] = "queued"
  BY Unqueued
<1>4. ASSUME NEW m \in Members, mem'[m] = "queued" PROVE Waits(m)'
  BY <1>1, <1>2, <1>3, <1>4, WaitsStep DEF Kept
<1>5. ASSUME NEW m \in Members, mem'[m] \in {"creating", "running"} PROVE Worked(m)'
  BY <1>1, <1>2, <1>5, WorkedStep DEF Kept
<1>6. ASSUME NEW w \in Workers, NEW m \in Members, scan'[w][m] = "live"
      PROVE  Run(w, m)' \/ <<w, m>> \in thrown'
  <2> SUFFICES ASSUME <<w, m>> \notin thrown' PROVE Run(w, m)'
    OBVIOUS
  <2>1. scan[w][m] = "live" => Run(w, m)
    BY <1>2, ThrownStays DEF Kept
  <2> QED BY <1>1, <1>6, <2>1, RunStep
<1> QED BY <1>4, <1>5, <1>6

-----------------------------------------------------------------------------
(* Theorems *)

\* The first states satisfy the invariant.
LEMMA InitIInv == Init => IInv
<1> SUFFICES ASSUME Init PROVE IInv
  OBVIOUS
<1>1. Idle \in [Members -> Draft]
  BY DEF Idle, Draft
<1>2. twins \in BOOLEAN
  BY Zenon DEF Init
<1>3. TypeOK
  BY <1>1, <1>2 DEF Init, TypeOK, Active, MemOpen, MemEnded
<1>4. Busy = {} /\ \A w \in Workers : Ahead(w) = {} /\ Touched(w) = {}
  BY DEF Init, Busy, Ahead, Touched, Idle
<1>5. \A w \in Workers, m \in Members : scan[w][m] = "none" /\ threads[w] = {} /\ runnable[w] = {}
  BY DEF Init
<1>6. InHand /\ Apart /\ HasRow /\ Fresh /\ Ending
  BY <1>4, <1>5 DEF Init, InHand, Apart, HasRow, Fresh, Ending
<1>7. Carried /\ Cancelling /\ Kept
  BY <1>4, <1>5 DEF Init, Carried, Cancelling, Kept, Waits, Idle
<1> QED BY <1>3, <1>4, <1>5, <1>6, <1>7 DEF IInv, Alone

\* The invariant holds in every state.
LEMMA Inductive == Spec => []IInv
<1>1. IInv /\ [Next]_vars => IInv'
  BY TypeStep, InHandStep, ApartStep, HasRowStep, FreshStep, AloneStep, EndingStep, CarriedStep,
     CancellingStep, KeptStep DEF IInv
<1> QED BY <1>1, InitIInv, PTL DEF Spec

\* Every state of the run, its members, scans and workers has its type.
THEOREM TypeCorrect == Spec => []TypeOK
<1>1. IInv => TypeOK
  BY DEF IInv
<1> QED BY <1>1, Inductive, PTL

\* process_url_group_run scans a member at most once over any redeliveries and lost
\* workers, as long as no two workers are at work on the run at once.
THEOREM ScannedOnce == Spec => []OneScan
<1>1. ASSUME IInv PROVE OneScan
  <2> SUFFICES ASSUME ~twins, NEW m \in Members
               PROVE  Cardinality({w \in Workers : scan[w][m] # "none"}) <= 1
    BY DEF OneScan
  <2> DEFINE S == {w \in Workers : scan[w][m] # "none"}
  <2>1. \A v, w \in S : v = w
    BY <1>1 DEF IInv, Alone
  <2>2. CASE S = {}
    BY <2>2, FS_EmptySet
  <2>3. CASE S # {}
    <3>1. PICK w \in S : S = {w}
      BY <2>1, <2>3
    <3>2. Cardinality(S) = 1
      BY <3>1, FS_Singleton
    <3> QED BY <3>2
  <2> QED BY <2>2, <2>3
<1> QED BY <1>1, Inductive, PTL

\* Once a cancel is committed, a lone worker begins the scans of one more batch at the
\* most, the one whose last look at the run was before it.
THEOREM CancelHeeded == Spec => []CancelStopsBatches
<1>1. IInv => CancelStopsBatches
  BY DEF IInv, Ending, CancelStopsBatches
<1> QED BY <1>1, Inductive, PTL

\* A run that has ended leaves no unfinished member and no live scan behind, over any
\* batches, redeliveries, workers at once and whatever the cancel met, unless a worker
\* was lost or the task raised; a live scan is left only by a thread that raised, or by
\* one that met the flag of a cancel request which then died.
THEOREM Settled == Spec => []EndedIsSettled
<1>1. ASSUME IInv PROVE EndedIsSettled
  <2> SUFFICES ASSUME status \in Ended, Busy = {}, cancel # "read", lost = 0, raised = 0,
                      NEW m \in Members
               PROVE  /\ mem[m] \in MemEnded
                      /\ \A w \in Workers : scan[w][m] = "live" => <<w, m>> \in thrown \cup hit
    BY DEF EndedIsSettled
  <2> USE <1>1 DEF IInv
  <2>1. \A w \in Workers : /\ pc[w] = "idle" /\ todo[w] = {} /\ batch[w] = {} /\ threads[w] = {}
                           /\ runnable[w] = {} /\ draft[w][m] = "same"
    BY DEF Busy, InHand, Carried, Idle
  <2>2. status # "pending"
    BY DEF Ended
  <2>3. mem[m] # "queued"
    BY <2>1, <2>2 DEF Kept, Waits
  <2>4. mem[m] \notin {"creating", "running"}
    BY <2>1 DEF Kept, Worked
  <2>5. \A w \in Workers : scan[w][m] = "live" => <<w, m>> \in thrown \cup hit
    BY <2>1 DEF Kept, Run
  <2> QED BY <2>3, <2>4, <2>5 DEF TypeOK, MemOpen
<1> QED BY <1>1, Inductive, PTL
=============================================================================
